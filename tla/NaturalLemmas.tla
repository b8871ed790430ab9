--------------------------- MODULE NaturalLemmas ---------------------------
(***************************************************************************)
(* Facts about the natural numbers that the other proofs cite.             *)
(***************************************************************************)
EXTENDS Integers, WellFoundedInduction, TLAPS

\* Every set of natural numbers with a member has a least one.
LEMMA LeastElement ==
  ASSUME NEW S \in SUBSET Nat, S # {}
  PROVE  \E n \in S : \A m \in S : n <= m
<1> DEFINE R == { p \in Nat \X Nat : p[1] < p[2] }
<1>1. IsWellFoundedOn(R, Nat)
  <2>1. OpToRel(<, Nat) = R
    BY Zenon DEF OpToRel
  <2> QED
    BY <2>1, NatLessThanWellFounded, Zenon
<1>2. PICK n \in S : \A m \in S : ~ (<< m, n >> \in R)
  <2> HIDE DEF R
  <2> QED BY <1>1, WFMin, Zenon
<1>3. ASSUME NEW m \in S PROVE n <= m
  <2>1. ~ (<< m, n >> \in R)
    BY <1>2
  <2>2. n \in Nat /\ m \in Nat
    OBVIOUS
  <2>3. << m, n >> \in Nat \X Nat => ~ (m < n)
    BY <2>1
  <2> QED
    BY <2>2, <2>3
<1> QED
  BY <1>3

\* Every bounded set of positive numbers with a member has a greatest one.
LEMMA Greatest ==
  ASSUME NEW j \in Nat, NEW K \in SUBSET (1 .. j - 1), K # {}
  PROVE  \E k \in K : \A l \in K : l <= k
<1> DEFINE T == { j - k : k \in K }
<1>1. T \in SUBSET Nat /\ T # {}
  OBVIOUS
<1>2. PICK n \in T : \A m \in T : n <= m
  <2> HIDE DEF T
  <2> QED
    BY <1>1, LeastElement
<1>3. PICK k \in K : n = j - k
  OBVIOUS
<1>4. ASSUME NEW l \in K PROVE l <= k
  <2>1. j - k <= j - l
    BY <1>2, <1>3
  <2> QED
    BY <2>1
<1> QED
  BY <1>4

\* Induction, over a set in the place of a predicate: the theorem of the library
\* takes an operator as a parameter, this one does not.
LEMMA SetInduction ==
  ASSUME NEW S \in SUBSET Nat, 0 \in S, \A n \in S : n + 1 \in S
  PROVE  S = Nat
<1>1. SUFFICES ASSUME Nat \ S # {} PROVE FALSE
  OBVIOUS
<1>2. PICK n \in Nat \ S : \A m \in Nat \ S : n <= m
  BY <1>1, LeastElement
<1>3. n # 0 /\ n - 1 \in Nat /\ n - 1 \in S
  BY <1>2
<1> QED
  BY <1>2, <1>3

\* Quotient and rest of a number that is written with its divisor.
LEMMA DivisionOfSum ==
  ASSUME NEW b \in Nat \ {0}, NEW q \in Nat, NEW i \in 0 .. b - 1
  PROVE  /\ (q * b + i) \div b = q
         /\ (q * b + i) % b = i
OBVIOUS

\* Every number is written with a divisor.
LEMMA Division ==
  ASSUME NEW b \in Nat \ {0}, NEW a \in Nat
  PROVE  /\ a \div b \in Nat
         /\ a % b \in 0 .. b - 1
         /\ a = (a \div b) * b + (a % b)
OBVIOUS

\* To divide by a product is to divide by one factor and then by the other.
LEMMA DivisionTwice ==
  ASSUME NEW b \in Nat \ {0}, NEW c \in Nat \ {0}, NEW a \in Nat
  PROVE  a \div (b * c) = (a \div b) \div c
<1> QED OBVIOUS

\* A position in one of n parts of b words each is a position in all n * b.
LEMMA Bounds ==
  ASSUME NEW b \in Nat \ {0}, NEW n \in Nat, NEW q \in 0 .. n - 1, NEW i \in 0 .. b - 1
  PROVE  q * b + i \in 0 .. n * b - 1
<1> QED OBVIOUS

\* The part of a position is one of the parts.
LEMMA QuotientBound ==
  ASSUME NEW b \in Nat \ {0}, NEW n \in Nat, NEW a \in 0 .. n * b - 1
  PROVE  a \div b \in 0 .. n - 1
<1> QED OBVIOUS
=============================================================================
