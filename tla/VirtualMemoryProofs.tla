------------------------ MODULE VirtualMemoryProofs ------------------------
(***************************************************************************)
(* Proofs about the virtual memory, for all widths, all addresses that the *)
(* client may name and all words that it may write.                        *)
(*                                                                         *)
(* The tree in the RAM is what a walk finds there; its levels, the path of *)
(* an address and the powers of 2 are recursive functions, each of which   *)
(* is shown to have a solution before it is reasoned about.  A step of     *)
(* getPAddr that evicts nothing relinks one clear frame; what that changes *)
(* and what it leaves alone is shown once for both its kinds.  On this the *)
(* tests of kb_tests.cpp and SimpleTest.cpp rest: they pass as long as no  *)
(* page has been evicted.                                                  *)
(***************************************************************************)
EXTENDS VirtualMemoryTests, NaturalLemmas, FiniteSetTheorems, SequenceTheorems

\* Reading and writing a word are taken for what they are everywhere below.
USE DEF PMread, PMwrite
-----------------------------------------------------------------------------
(***************************************************************************)
(* Powers of 2, and the sizes that the widths make.                        *)
(***************************************************************************)
\* h has the powers of 2 up to the n-th.
PowersUpTo(n, h) ==
  h = [ k \in 0 .. n |-> IF k = 0 THEN 1 ELSE 2 * h[k - 1] ]

LEMMA PowersExist ==
  \A n \in Nat : \E h : PowersUpTo(n, h)
<1> DEFINE S == { n \in Nat : \E h : PowersUpTo(n, h) }
<1>1. 0 \in S
  <2>1. PowersUpTo(0, [ k \in 0 .. 0 |-> 1 ])
    BY DEF PowersUpTo
  <2> QED
    BY <2>1
<1>2. ASSUME NEW n \in S
      PROVE  n + 1 \in S
  <2>1. PICK h : PowersUpTo(n, h)
    OBVIOUS
  <2> DEFINE k == [ d \in 0 .. n + 1 |-> IF d = n + 1 THEN 2 * h[n] ELSE h[d] ]
  <2>2. \A d \in 0 .. n + 1 : k[d] = IF d = 0 THEN 1 ELSE 2 * k[d - 1]
    BY <2>1 DEF PowersUpTo
  <2>3. PowersUpTo(n + 1, k)
    BY <2>2 DEF PowersUpTo
  <2> QED
    BY <2>3
<1> QED
  <2> HIDE DEF S
  <2>1. S = Nat
    BY <1>1, <1>2, SetInduction DEF S
  <2> QED
    BY <2>1 DEF S

\* The recursive definition of Pow2 has a solution, and Pow2 is one.
LEMMA Pow2Def ==
  Pow2 = [ n \in Nat |-> IF n = 0 THEN 1 ELSE 2 * Pow2[n - 1] ]
<1> DEFINE part(n) == CHOOSE h : PowersUpTo(n, h)
           whole == [ n \in Nat |-> part(n)[n] ]
<1>1. \A n \in Nat : PowersUpTo(n, part(n))
  BY PowersExist
<1>2. \A n \in Nat : \A k \in 0 .. n : part(n + 1)[k] = part(n)[k]
  <2> SUFFICES ASSUME NEW n \in Nat
               PROVE  \A k \in 0 .. n : part(n + 1)[k] = part(n)[k]
    OBVIOUS
  <2> DEFINE S == { k \in Nat : k <= n => part(n + 1)[k] = part(n)[k] }
  <2>0. \A k \in 0 .. n : /\ part(n)[k] = IF k = 0 THEN 1 ELSE 2 * part(n)[k - 1]
                          /\ part(n + 1)[k] = IF k = 0 THEN 1 ELSE 2 * part(n + 1)[k - 1]
    <3>1. PowersUpTo(n, part(n)) /\ PowersUpTo(n + 1, part(n + 1))
      <4> HIDE DEF part
      <4> QED
        BY <1>1
    <3> HIDE DEF part
    <3> QED
      BY <3>1 DEF PowersUpTo
  <2> HIDE DEF part
  <2>1. 0 \in S
    BY <2>0
  <2>2. \A k \in S : k + 1 \in S
    BY <2>0
  <2> QED
    <3> HIDE DEF S
    <3>1. S = Nat
      BY <2>1, <2>2, SetInduction DEF S
    <3> QED
      BY <3>1 DEF S
<1>3. whole = [ n \in Nat |-> IF n = 0 THEN 1 ELSE 2 * whole[n - 1] ]
  <2>1. ASSUME NEW n \in Nat
        PROVE  part(n)[n] = IF n = 0 THEN 1 ELSE 2 * part(n - 1)[n - 1]
    <3>1. PowersUpTo(n, part(n))
      BY <1>1
    <3>2. n # 0 => part(n)[n - 1] = part(n - 1)[n - 1]
      <4> HIDE DEF part
      <4>1. CASE n # 0
        <5>1. n - 1 \in Nat /\ (n - 1) + 1 = n /\ n - 1 \in 0 .. n - 1
          BY <4>1
        <5>2. part((n - 1) + 1)[n - 1] = part(n - 1)[n - 1]
          BY <5>1, <1>2
        <5> QED
          BY <5>1, <5>2
      <4> QED
        BY <4>1
    <3> HIDE DEF part
    <3> QED
      BY <3>1, <3>2 DEF PowersUpTo
  <2> HIDE DEF part
  <2>2. \A n \in Nat : whole[n] = IF n = 0 THEN 1 ELSE 2 * whole[n - 1]
    BY <2>1
  <2> QED
    BY <2>2
<1> QED
  <2> HIDE DEF part, whole
  <2> QED
    BY <1>3, Zenon DEF Pow2

LEMMA Powers ==
  /\ Pow2[0] = 1
  /\ \A n \in Nat : Pow2[n] \in Nat \ {0} /\ Pow2[n + 1] = 2 * Pow2[n]
<1>1. \A n \in Nat : Pow2[n] = IF n = 0 THEN 1 ELSE 2 * Pow2[n - 1]
  BY Pow2Def
<1> DEFINE S == { n \in Nat : Pow2[n] \in Nat \ {0} }
<1>2. 0 \in S /\ \A n \in S : n + 1 \in S
  BY <1>1
<1>3. S = Nat
  <2> HIDE DEF S
  <2> QED
    BY <1>2, SetInduction DEF S
<1> QED
  BY <1>1, <1>3

LEMMA PowerOfSum ==
  \A m, n \in Nat : Pow2[m + n] = Pow2[m] * Pow2[n]
<1> SUFFICES ASSUME NEW m \in Nat
             PROVE  \A n \in Nat : Pow2[m + n] = Pow2[m] * Pow2[n]
  OBVIOUS
<1> DEFINE S == { n \in Nat : Pow2[m + n] = Pow2[m] * Pow2[n] }
<1>1. 0 \in S
  BY Powers
<1>2. ASSUME NEW n \in S
      PROVE  n + 1 \in S
  <2>1. Pow2[(m + n) + 1] = 2 * Pow2[m + n] /\ Pow2[n + 1] = 2 * Pow2[n]
    BY Powers
  <2>2. m + (n + 1) = (m + n) + 1
    OBVIOUS
  <2>3. Pow2[m] \in Nat /\ Pow2[n] \in Nat
    BY Powers
  <2> QED
    BY <2>1, <2>2, <2>3
<1> QED
  <2> HIDE DEF S
  <2>1. S = Nat
    BY <1>1, <1>2, SetInduction DEF S
  <2> QED
    BY <2>1 DEF S
\* The RAM has a whole number of frames, the virtual memory as many pages as
\* the tables can name.
LEMMA Sizes ==
  /\ PageSize \in Nat \ {0}
  /\ NumFrames \in Nat \ {0}
  /\ RamSize = NumFrames * PageSize
  /\ TablesDepth \in Nat \ {0}
  /\ RootSize \in 1 .. PageSize
  /\ NumPages = RootSize * Pow2[OffsetWidth * (TablesDepth - 1)]
  /\ VirtualMemorySize = NumPages * PageSize
<1> DEFINE ow == OffsetWidth
           vw == VirtualAddressWidth
           pw == PhysicalAddressWidth
<1>1. /\ ow \in Nat \ {0} /\ vw \in Nat /\ pw \in Nat
      /\ ow < pw /\ ow < vw
  BY WidthAssumption
<1> HIDE DEF ow, vw, pw
<1>2. Pow2[ow] \in Nat \ {0} /\ Pow2[pw - ow] \in Nat \ {0} /\ Pow2[vw - ow] \in Nat \ {0}
  BY <1>1, Powers
<1>3. Pow2[pw] = Pow2[pw - ow] * Pow2[ow] /\ Pow2[vw] = Pow2[vw - ow] * Pow2[ow]
  <2>1. (pw - ow) + ow = pw /\ (vw - ow) + ow = vw /\ pw - ow \in Nat /\ vw - ow \in Nat
    BY <1>1
  <2> QED
    BY <1>1, <2>1, PowerOfSum
<1>4. NumFrames = Pow2[pw - ow] /\ NumPages = Pow2[vw - ow]
  BY <1>2, <1>3, DivisionOfSum DEF NumFrames, NumPages, RamSize, VirtualMemorySize, PageSize, ow, vw, pw
<1>5. TablesDepth \in Nat \ {0}
  BY <1>1 DEF TablesDepth, ow, vw
<1>6. RootSize \in 1 .. PageSize
  <2> DEFINE rest == vw % ow
  <2>1. rest \in Nat /\ ow - rest \in Nat /\ rest + (ow - rest) = ow
    BY <1>1
  <2> HIDE DEF rest
  <2>2. Pow2[ow] = Pow2[rest] * Pow2[ow - rest] /\ Pow2[rest] \in Nat \ {0} /\ Pow2[ow - rest] \in Nat \ {0}
    <3>1. Pow2[rest + (ow - rest)] = Pow2[rest] * Pow2[ow - rest]
      BY <2>1, PowerOfSum
    <3> QED
      BY <2>1, <3>1, Powers
  <2>3. Pow2[rest] <= Pow2[ow]
    BY <2>2, <1>2
  <2>4. RootSize = Pow2[ow] \/ RootSize = Pow2[rest]
    BY DEF RootSize, PageSize, rest, ow, vw
  <2>5. PageSize = Pow2[ow]
    BY DEF PageSize, ow
  <2> QED
    BY <1>2, <2>2, <2>3, <2>4, <2>5
<1>7. NumPages = RootSize * Pow2[OffsetWidth * (TablesDepth - 1)]
  <2> DEFINE rest == vw % ow
             q == vw \div ow
  <2>1. rest \in 0 .. ow - 1 /\ q \in Nat /\ vw = q * ow + rest
    BY <1>1
  <2>2. CASE rest = 0
    <3>1. TablesDepth = q - 1 /\ q \in Nat \ {0, 1}
      <4>0. q \in Nat \ {0, 1}
        BY <1>1, <2>1, <2>2
      <4>1. vw - 1 = (q - 1) * ow + (ow - 1)
        BY <1>1, <2>1, <2>2
      <4>2. (vw - 1) \div ow = q - 1
        <5> HIDE DEF q, rest
        <5> QED BY <1>1, <2>1, <4>0, <4>1, DivisionOfSum
      <4> QED
        BY <4>0, <4>2 DEF TablesDepth, ow, vw
    <3>2. vw - ow = ow + ow * (TablesDepth - 1) /\ ow * (TablesDepth - 1) \in Nat
      BY <1>1, <2>1, <2>2, <3>1
    <3>3. Pow2[vw - ow] = Pow2[ow] * Pow2[ow * (TablesDepth - 1)]
      BY <1>1, <3>2, PowerOfSum
    <3> QED
      BY <3>3, <1>4, <2>2 DEF RootSize, PageSize, ow, vw
  <2>3. CASE rest # 0
    <3>1. TablesDepth = q /\ q \in Nat \ {0}
      <4>0. q \in Nat \ {0}
        BY <1>1, <2>1
      <4>1. vw - 1 = q * ow + (rest - 1)
        BY <1>1, <2>1, <2>3
      <4>2. (vw - 1) \div ow = q
        <5> HIDE DEF q, rest
        <5> QED BY <1>1, <2>1, <2>3, <4>0, <4>1, DivisionOfSum
      <4> QED
        BY <4>0, <4>2 DEF TablesDepth, ow, vw
    <3>2. vw - ow = rest + ow * (TablesDepth - 1) /\ ow * (TablesDepth - 1) \in Nat
      BY <1>1, <2>1, <2>3, <3>1
    <3>3. Pow2[vw - ow] = Pow2[rest] * Pow2[ow * (TablesDepth - 1)]
      <4>1. rest \in Nat
        BY <2>1
      <4> HIDE DEF rest, q
      <4> QED
        BY <4>1, <3>2, PowerOfSum
    <3> QED
      BY <3>3, <1>4, <2>3 DEF RootSize, PageSize, ow, vw
  <2> QED
    BY <2>2, <2>3
<1> QED
  BY <1>2, <1>3, <1>4, <1>5, <1>6, <1>7 DEF PageSize, RamSize, VirtualMemorySize, ow, pw, vw

\* A physical address and the pair of its frame and its offset.
LEMMA Frames ==
  /\ Frame = 0 .. NumFrames - 1
  /\ 0 \in Frame
  /\ Frame \subseteq Word /\ Word \subseteq Nat
  /\ \A f \in Frame, i \in 0 .. PageSize - 1 :
       /\ f * PageSize + i \in 0 .. RamSize - 1
       /\ (f * PageSize + i) \div PageSize = f
       /\ (f * PageSize + i) % PageSize = i
  /\ \A a \in 0 .. RamSize - 1 :
       /\ a \div PageSize \in Frame
       /\ a % PageSize \in 0 .. PageSize - 1
       /\ a = (a \div PageSize) * PageSize + (a % PageSize)
  /\ \A d \in Nat : Neighbors(d) \in 1 .. PageSize
<1>1. PageSize \in Nat \ {0} /\ NumFrames \in Nat \ {0} /\ RamSize = NumFrames * PageSize /\ RootSize \in 1 .. PageSize
  BY Sizes
<1>2. /\ Frame = 0 .. NumFrames - 1 /\ 0 \in Frame
      /\ Frame \subseteq Word /\ Word \subseteq Nat
  BY <1>1, WordAssumption DEF Frame, Word
<1>3. \A f \in Frame, i \in 0 .. PageSize - 1 :
       /\ f * PageSize + i \in 0 .. RamSize - 1
       /\ (f * PageSize + i) \div PageSize = f
       /\ (f * PageSize + i) % PageSize = i
  BY <1>1, <1>2, Bounds, DivisionOfSum
<1>4. \A a \in 0 .. RamSize - 1 :
       /\ a \div PageSize \in Frame
       /\ a % PageSize \in 0 .. PageSize - 1
       /\ a = (a \div PageSize) * PageSize + (a % PageSize)
  <2> SUFFICES ASSUME NEW a \in 0 .. RamSize - 1
               PROVE  /\ a \div PageSize \in Frame
                      /\ a % PageSize \in 0 .. PageSize - 1
                      /\ a = (a \div PageSize) * PageSize + (a % PageSize)
    OBVIOUS
  <2>1. a \in Nat /\ a \in 0 .. NumFrames * PageSize - 1
    BY <1>1
  <2> QED
    BY <1>1, <1>2, <2>1, Division, QuotientBound
<1>5. \A d \in Nat : Neighbors(d) \in 1 .. PageSize
  BY <1>1 DEF Neighbors
<1> QED
  BY <1>2, <1>3, <1>4, <1>5

LEMMA FrameRange ==
  /\ NumFrames \in Nat \ {0}
  /\ \A f : f \in Frame <=> f \in 0 .. NumFrames - 1
  /\ \A n \in Nat : n < NumFrames <=> n \in Frame
  /\ 0 \in Frame
  /\ Frame \subseteq Word /\ Word \subseteq Nat
<1>1. /\ NumFrames \in Nat \ {0} /\ Frame = 0 .. NumFrames - 1 /\ 0 \in Frame
      /\ Frame \subseteq Word /\ Word \subseteq Nat
  BY Frames, Sizes
<1> QED
  BY <1>1

-----------------------------------------------------------------------------
(***************************************************************************)
(* The tree in a RAM: its levels, for a RAM with anything in it.           *)
(***************************************************************************)
\* The children of the nodes of S that a walk follows.
Below(r, skipsOwn, S) ==
  UNION { { y \in Children(r, x) : skipsOwn => x.pAddr # y.pAddr } : x \in S }

\* level has the nodes at each depth up to n.
LevelsUpTo(r, skipsOwn, n, level) ==
  level = [ d \in 0 .. n |-> IF d = 0 THEN {Root}
                             ELSE Below(r, skipsOwn, level[d - 1]) ]

LEMMA LevelsExist ==
  ASSUME NEW r, NEW skipsOwn
  PROVE  \A n \in Nat : \E level : LevelsUpTo(r, skipsOwn, n, level)
<1> DEFINE S == { n \in Nat : \E level : LevelsUpTo(r, skipsOwn, n, level) }
<1>1. 0 \in S
  <2>1. LevelsUpTo(r, skipsOwn, 0, [ d \in 0 .. 0 |-> {Root} ])
    BY DEF LevelsUpTo
  <2> QED
    BY <2>1
<1>2. ASSUME NEW n \in S
      PROVE  n + 1 \in S
  <2>1. PICK level : LevelsUpTo(r, skipsOwn, n, level)
    OBVIOUS
  <2> DEFINE longer ==
        [ d \in 0 .. n + 1 |-> IF d = n + 1 THEN Below(r, skipsOwn, level[n])
                               ELSE level[d] ]
  <2>2. \A d \in 0 .. n + 1 :
          longer[d] = IF d = 0 THEN {Root} ELSE Below(r, skipsOwn, longer[d - 1])
    <3>1. \A d \in 0 .. n :
            level[d] = IF d = 0 THEN {Root} ELSE Below(r, skipsOwn, level[d - 1])
      BY <2>1 DEF LevelsUpTo
    <3>2. \A d \in 0 .. n : longer[d] = level[d]
      OBVIOUS
    <3>3. longer[n + 1] = Below(r, skipsOwn, longer[n])
      BY <3>2
    <3> HIDE DEF longer
    <3> QED
      BY <3>1, <3>2, <3>3
  <2>3. LevelsUpTo(r, skipsOwn, n + 1, longer)
    BY <2>2 DEF LevelsUpTo
  <2> QED
    BY <2>3
<1> QED
  <2> HIDE DEF S
  <2>1. S = Nat
    BY <1>1, <1>2, SetInduction DEF S
  <2> QED
    BY <2>1 DEF S

\* The recursive definition in Levels has a solution, and Levels is one.
LEMMA LevelsDef ==
  ASSUME NEW r, NEW skipsOwn
  PROVE  LevelsUpTo(r, skipsOwn, TablesDepth, Levels(r, skipsOwn))
<1>1. \E level : LevelsUpTo(r, skipsOwn, TablesDepth, level)
  BY LevelsExist, Sizes
<1>2. Levels(r, skipsOwn) = CHOOSE level : LevelsUpTo(r, skipsOwn, TablesDepth, level)
  BY DEF Levels, LevelsUpTo, Below
<1> QED
  BY <1>1, <1>2

LEMMA LevelZero ==
  ASSUME NEW r, NEW skipsOwn
  PROVE  Levels(r, skipsOwn)[0] = {Root}
BY LevelsDef, Sizes DEF LevelsUpTo

LEMMA LevelStep ==
  ASSUME NEW r, NEW skipsOwn, NEW d \in 0 .. TablesDepth - 1
  PROVE  \A y : y \in Levels(r, skipsOwn)[d + 1] <=>
           \E x \in Levels(r, skipsOwn)[d] : \E i \in 0 .. Neighbors(x.depth) - 1 :
             /\ x.pAddr \in Frame
             /\ y = Child(r, x, i)
             /\ y.pAddr # 0
             /\ skipsOwn => x.pAddr # y.pAddr
<1>1. Levels(r, skipsOwn)[d + 1] = Below(r, skipsOwn, Levels(r, skipsOwn)[d])
  BY LevelsDef, Sizes DEF LevelsUpTo
<1>2. \A x : \A i : i \in Entries(x) <=>
        i \in 0 .. Neighbors(x.depth) - 1 /\ x.pAddr \in Frame
  BY DEF Entries
<1>3. \A x, y : y \in Children(r, x) <=>
        \E i \in 0 .. Neighbors(x.depth) - 1 :
          x.pAddr \in Frame /\ y = Child(r, x, i) /\ y.pAddr # 0
  BY <1>2 DEF Children
<1> QED
  BY <1>1, <1>3 DEF Below

\* The nodes at any depth.
LEMMA LevelsUnion ==
  ASSUME NEW r, NEW skipsOwn
  PROVE  \A y : y \in UNION Range(Levels(r, skipsOwn)) <=>
           \E d \in 0 .. TablesDepth : y \in Levels(r, skipsOwn)[d]
<1>1. DOMAIN Levels(r, skipsOwn) = 0 .. TablesDepth
  BY LevelsDef DEF LevelsUpTo
<1> QED
  BY <1>1 DEF Range

\* The contents that the RAM may have.
Rams == [ 0 .. RamSize - 1 -> Word ]

LEMMA NeighborsType ==
  \A d \in Nat : /\ Neighbors(d) \in Nat \ {0}
                 /\ 0 .. Neighbors(d) - 1 \subseteq 0 .. PageSize - 1
<1>1. PageSize \in Nat \ {0} /\ RootSize \in 1 .. PageSize
  BY Sizes
<1>2. \A d \in Nat : Neighbors(d) = RootSize \/ Neighbors(d) = PageSize
  BY DEF Neighbors
<1> QED
  BY <1>1, <1>2

\* How many nodes there may be at a depth.
PagesAt(d) == IF d = 0 THEN 1 ELSE RootSize * Pow2[OffsetWidth * (d - 1)]

\* A table has a child for each digit of a page number, and the last tables have
\* as many as there are pages.
LEMMA PagesAtDepth ==
  /\ \A d \in Nat : /\ PagesAt(d) \in Nat \ {0}
                    /\ PagesAt(d + 1) = PagesAt(d) * Neighbors(d)
  /\ PagesAt(TablesDepth) = NumPages
<1>1. RootSize \in Nat \ {0} /\ TablesDepth \in Nat \ {0} /\ OffsetWidth \in Nat
  BY Sizes, WidthAssumption
<1>2. \A d \in Nat : OffsetWidth * d \in Nat /\ Pow2[OffsetWidth * d] \in Nat \ {0}
  <2> SUFFICES ASSUME NEW d \in Nat
               PROVE  OffsetWidth * d \in Nat /\ Pow2[OffsetWidth * d] \in Nat \ {0}
    OBVIOUS
  <2>1. OffsetWidth * d \in Nat
    BY <1>1
  <2> QED
    BY <2>1, Powers
<1>3. ASSUME NEW d \in Nat
      PROVE  PagesAt(d) \in Nat \ {0}
  <2>1. CASE d = 0
    BY <2>1 DEF PagesAt
  <2>2. CASE d # 0
    <3>1. d - 1 \in Nat
      BY <2>2
    <3>2. Pow2[OffsetWidth * (d - 1)] \in Nat \ {0}
      BY <1>2, <3>1
    <3> QED
      BY <1>1, <2>2, <3>2 DEF PagesAt
  <2> QED
    BY <2>1, <2>2
<1>4. ASSUME NEW d \in Nat
      PROVE  PagesAt(d + 1) = PagesAt(d) * Neighbors(d)
  <2>1. CASE d = 0
    <3>1. OffsetWidth * (0 + 1 - 1) = 0
      BY <1>1
    <3> QED
      BY <1>1, <2>1, <3>1, Powers DEF PagesAt, Neighbors
  <2>2. CASE d # 0
    <3>1. /\ d - 1 \in Nat
          /\ OffsetWidth * ((d + 1) - 1) = OffsetWidth * (d - 1) + OffsetWidth
      BY <1>1, <2>2
    <3>2. Pow2[OffsetWidth * ((d + 1) - 1)] = Pow2[OffsetWidth * (d - 1)] * PageSize
      BY <1>1, <1>2, <3>1, PowerOfSum DEF PageSize
    <3>3. Pow2[OffsetWidth * (d - 1)] \in Nat /\ PageSize \in Nat /\ d + 1 # 0
      BY <1>2, <3>1, Sizes
    <3> QED
      BY <1>1, <2>2, <3>2, <3>3 DEF PagesAt, Neighbors
  <2> QED
    BY <2>1, <2>2
<1> QED
  BY <1>1, <1>3, <1>4, Sizes DEF PagesAt

\* The number of a child among the nodes of its depth.
LEMMA ChildNumber ==
  ASSUME NEW d \in Nat, NEW n \in 0 .. PagesAt(d) - 1,
         NEW i \in 0 .. Neighbors(d) - 1
  PROVE  Convert(i, n, d) \in 0 .. PagesAt(d + 1) - 1
<1>1. PagesAt(d) \in Nat /\ Neighbors(d) \in Nat \ {0}
  BY PagesAtDepth, NeighborsType
<1>2. n * Neighbors(d) + i \in 0 .. PagesAt(d) * Neighbors(d) - 1
  BY <1>1, Bounds
<1> QED
  BY <1>2, PagesAtDepth DEF Convert

\* A node as a walk through the tree finds it at the depth d.  What names it may
\* be any word.
NodeAt(x, d) ==
  /\ x.father \in 0 .. RamSize - 1
  /\ x.pAddr \in Word
  /\ x.pageNum \in 0 .. PagesAt(d) - 1
  /\ x.weight \in 0 .. WEIGHT_EVEN * (d + 1)
  /\ x.depth = d
  /\ x.pAddr = 0 => d = 0
  /\ d = 0 => x = Root

\* The entry of a table is a word of its frame.
LEMMA Entry ==
  ASSUME NEW x, NEW d \in Nat, NodeAt(x, d), x.pAddr \in Frame,
         NEW i \in 0 .. Neighbors(d) - 1
  PROVE  /\ Convert(i, x.pAddr, d) = x.pAddr * PageSize + i
         /\ Convert(i, x.pAddr, d) \in 0 .. RamSize - 1
         /\ i \in 0 .. PageSize - 1
<1>1. i \in 0 .. PageSize - 1 /\ PageSize \in Nat /\ i \in Nat
  BY NeighborsType, Sizes
<1>2. x.pAddr \in Nat
  BY Frames
<1>3. Convert(i, x.pAddr, d) = x.pAddr * PageSize + i
  <2>1. CASE d = 0
    <3>1. x.pAddr = 0 /\ Neighbors(d) \in Nat
      BY <2>1, NeighborsType DEF NodeAt, Root
    <3> QED
      BY <1>1, <3>1 DEF Convert
  <2>2. CASE d # 0
    BY <2>2 DEF Convert, Neighbors
  <2> QED
    BY <2>1, <2>2
<1> QED
  BY <1>1, <1>3, Frames

\* Only the entries of a frame have addresses of the RAM.
LEMMA EntryInRam ==
  ASSUME NEW x, NEW d \in Nat, NodeAt(x, d), NEW i \in 0 .. Neighbors(d) - 1
  PROVE  Convert(i, x.pAddr, d) < RamSize <=> x.pAddr \in Frame
<1>1. /\ i \in Nat /\ PageSize \in Nat \ {0} /\ NumFrames \in Nat \ {0}
      /\ RamSize = NumFrames * PageSize
  BY NeighborsType, Sizes
<1>2. x.pAddr \in Nat
  BY Frames DEF NodeAt
<1>3. ASSUME x.pAddr \notin Frame
      PROVE  RamSize <= Convert(i, x.pAddr, d)
  <2>1. d # 0
    <3>1. d = 0 => x.pAddr = 0
      BY DEF NodeAt, Root
    <3> QED
      BY <1>3, <3>1, FrameRange
  <2>2. Convert(i, x.pAddr, d) = x.pAddr * PageSize + i
    BY <2>1 DEF Convert, Neighbors
  <2>3. NumFrames <= x.pAddr
    BY <1>1, <1>2, <1>3, FrameRange
  <2>4. NumFrames * PageSize <= x.pAddr * PageSize
    BY <1>1, <1>2, <2>3
  <2>5. x.pAddr * PageSize \in Nat
    BY <1>1, <1>2
  <2>6. NumFrames * PageSize \in Nat
    BY <1>1
  <2> HIDE DEF Convert
  <2> QED
    BY <1>1, <2>2, <2>4, <2>5, <2>6
<1>4. Convert(i, x.pAddr, d) \in Int /\ RamSize \in Int
  <2>1. Neighbors(d) \in Nat
    BY NeighborsType
  <2> QED
    BY <1>1, <1>2, <2>1 DEF Convert
<1>5. ASSUME x.pAddr \in Frame
      PROVE  Convert(i, x.pAddr, d) < RamSize
  BY <1>1, <1>5, Entry
<1> QED
  BY <1>3, <1>4, <1>5

LEMMA ChildTyped ==
  ASSUME NEW r \in Rams, NEW x, NEW d \in Nat, NodeAt(x, d), x.pAddr \in Frame,
         NEW i \in 0 .. Neighbors(d) - 1, Child(r, x, i).pAddr # 0
  PROVE  NodeAt(Child(r, x, i), d + 1)
<1> DEFINE y == Child(r, x, i)
           entry == Convert(i, x.pAddr, d)
<1>1. /\ x.depth = d /\ x.pageNum \in 0 .. PagesAt(d) - 1
      /\ x.weight \in 0 .. WEIGHT_EVEN * (d + 1)
  BY DEF NodeAt
<1>2. entry \in 0 .. RamSize - 1
  BY Entry
<1>3. /\ y.father = entry
      /\ y.pAddr = r[entry]
      /\ y.pageNum = Convert(i, x.pageNum, d)
      /\ y.weight = x.weight + Weight(r[entry])
      /\ y.depth = d + 1
  BY <1>1 DEF Child
<1>4. y.weight \in 0 .. WEIGHT_EVEN * ((d + 1) + 1)
  BY <1>1, <1>3 DEF Weight, WEIGHT_EVEN, WEIGHT_ODD
<1>5. r[entry] \in Word
  BY <1>2 DEF Rams
<1>6. y.pageNum \in 0 .. PagesAt(d + 1) - 1
  BY <1>1, <1>3, ChildNumber
<1>7. d + 1 # 0
  OBVIOUS
<1> QED
  <2> HIDE DEF y, entry
  <2>1. NodeAt(y, d + 1)
    BY <1>2, <1>3, <1>4, <1>5, <1>6, <1>7 DEF NodeAt, y
  <2> QED
    BY <2>1 DEF y

LEMMA FiniteImage ==
  ASSUME NEW S, IsFiniteSet(S), NEW f
  PROVE  IsFiniteSet({ f[x] : x \in S })
<1> DEFINE T == { f[x] : x \in S }
           g == [ x \in S |-> f[x] ]
<1>1. g \in Surjection(S, T)
  BY DEF Surjection
<1> HIDE DEF g
<1> QED
  BY <1>1, FS_Surjection

LEMMA FiniteChildren ==
  ASSUME NEW r \in Rams, NEW b, NEW x, NEW d \in Nat, NodeAt(x, d)
  PROVE  IsFiniteSet({ y \in Children(r, x) : b => x.pAddr # y.pAddr })
<1>1. Neighbors(x.depth) \in Nat
  BY Frames, Sizes DEF NodeAt
<1>2. IsFiniteSet(0 .. Neighbors(x.depth) - 1)
  BY <1>1, FS_Interval
<1>3. IsFiniteSet({ Child(r, x, i) : i \in 0 .. Neighbors(x.depth) - 1 })
  <2> DEFINE f == [ i \in 0 .. Neighbors(x.depth) - 1 |-> Child(r, x, i) ]
  <2>1. IsFiniteSet({ f[i] : i \in 0 .. Neighbors(x.depth) - 1 })
    <3> HIDE DEF f
    <3> QED
      BY <1>2, FiniteImage
  <2> QED
    BY <2>1
<1>4. { y \in Children(r, x) : b => x.pAddr # y.pAddr }
        \subseteq { Child(r, x, i) : i \in 0 .. Neighbors(x.depth) - 1 }
  BY DEF Children, Entries
<1> QED
  BY <1>3, <1>4, FS_Subset

\* Whatever is in the RAM, a walk finds nodes.
LEMMA LevelsTyped ==
  ASSUME NEW r \in Rams, NEW b
  PROVE  \A d \in 0 .. TablesDepth :
           /\ \A x \in Levels(r, b)[d] : NodeAt(x, d)
           /\ IsFiniteSet(Levels(r, b)[d])
<1> DEFINE S == { d \in Nat : d <= TablesDepth =>
                    /\ \A x \in Levels(r, b)[d] : NodeAt(x, d)
                    /\ IsFiniteSet(Levels(r, b)[d]) }
<1>1. 0 \in S
  <2>1. Levels(r, b)[0] = {Root}
    BY LevelZero
  <2>2. NodeAt(Root, 0)
    BY Sizes, Frames DEF NodeAt, Root, PagesAt, WEIGHT_EVEN
  <2>3. IsFiniteSet({Root})
    BY FS_Singleton
  <2> QED
    BY <2>1, <2>2, <2>3
<1>2. ASSUME NEW d \in S
      PROVE  d + 1 \in S
  <2> SUFFICES ASSUME d + 1 <= TablesDepth
               PROVE  /\ \A x \in Levels(r, b)[d + 1] : NodeAt(x, d + 1)
                      /\ IsFiniteSet(Levels(r, b)[d + 1])
    OBVIOUS
  <2>1. d \in 0 .. TablesDepth - 1 /\ d \in Nat
    BY Sizes
  <2>2. \A x \in Levels(r, b)[d] : NodeAt(x, d)
    BY <2>1, Sizes
  <2>3. IsFiniteSet(Levels(r, b)[d])
    BY <2>1, Sizes
  <2>4. ASSUME NEW y \in Levels(r, b)[d + 1]
        PROVE  NodeAt(y, d + 1)
    <3>0. \A u : u \in Levels(r, b)[d + 1] <=>
             \E x \in Levels(r, b)[d] : \E i \in 0 .. Neighbors(x.depth) - 1 :
               /\ x.pAddr \in Frame
               /\ u = Child(r, x, i)
               /\ u.pAddr # 0
               /\ b => x.pAddr # u.pAddr
      <4> DEFINE level == Levels(r, b)
      <4>1. LevelsUpTo(r, b, TablesDepth, level)
        BY LevelsDef
      <4> HIDE DEF level
      <4>2. level[d + 1] = Below(r, b, level[d])
        <5>1. d + 1 \in 0 .. TablesDepth /\ d + 1 # 0 /\ (d + 1) - 1 = d
          BY <2>1, Sizes
        <5> QED
          BY <4>1, <5>1 DEF LevelsUpTo
      <4>3. \A x : \A i : i \in Entries(x) <=>
              i \in 0 .. Neighbors(x.depth) - 1 /\ x.pAddr \in Frame
        BY DEF Entries
      <4>4. \A x, u : u \in Children(r, x) <=>
              \E i \in 0 .. Neighbors(x.depth) - 1 :
                x.pAddr \in Frame /\ u = Child(r, x, i) /\ u.pAddr # 0
        BY <4>3 DEF Children
      <4>5. \A T, u : u \in Below(r, b, T) <=>
              \E x \in T : u \in Children(r, x) /\ (b => x.pAddr # u.pAddr)
        BY DEF Below
      <4> QED
        <5>1. Levels(r, b)[d + 1] = Below(r, b, Levels(r, b)[d])
          BY <4>2 DEF level
        <5>2. \A u : u \in Levels(r, b)[d + 1] <=>
                \E x \in Levels(r, b)[d] : u \in Children(r, x) /\ (b => x.pAddr # u.pAddr)
          BY <4>5, <5>1
        <5> HIDE DEF S
        <5> QED
          BY <4>4, <5>2
    <3>1. PICK x \in Levels(r, b)[d] : \E i \in 0 .. Neighbors(x.depth) - 1 :
            x.pAddr \in Frame /\ y = Child(r, x, i) /\ y.pAddr # 0
      BY <3>0, Zenon
    <3>2. x.depth = d
      BY <2>2 DEF NodeAt
    <3> QED
      BY <2>1, <2>2, <3>1, <3>2, ChildTyped
  <2>5. IsFiniteSet(Levels(r, b)[d + 1])
    <3> DEFINE below(x) == { y \in Children(r, x) : b => x.pAddr # y.pAddr }
    <3>1. Levels(r, b)[d + 1] = UNION { below(x) : x \in Levels(r, b)[d] }
      <4> DEFINE level == Levels(r, b)
      <4>1. LevelsUpTo(r, b, TablesDepth, level)
        BY LevelsDef
      <4> HIDE DEF level
      <4>2. d + 1 \in 0 .. TablesDepth /\ d + 1 # 0 /\ (d + 1) - 1 = d
        BY <2>1, Sizes
      <4>3. level[d + 1] = Below(r, b, level[d])
        BY <4>1, <4>2 DEF LevelsUpTo
      <4> QED
        BY <4>3, Zenon DEF Below, level
    <3>2. \A x \in Levels(r, b)[d] : IsFiniteSet(below(x))
      BY <2>1, <2>2, FiniteChildren
    <3> HIDE DEF below
    <3>3. IsFiniteSet({ below(x) : x \in Levels(r, b)[d] })
      <4> DEFINE f == [ x \in Levels(r, b)[d] |-> below(x) ]
      <4>1. IsFiniteSet({ f[x] : x \in Levels(r, b)[d] })
        <5> HIDE DEF f
        <5> QED
          BY <2>3, FiniteImage
      <4> QED
        BY <4>1
    <3>4. \A X \in { below(x) : x \in Levels(r, b)[d] } : IsFiniteSet(X)
      BY <3>2
    <3> QED
      BY <3>1, <3>3, <3>4, FS_UNION
  <2> QED
    BY <2>4, <2>5
<1> QED
  <2> HIDE DEF S
  <2>1. S = Nat
    BY <1>1, <1>2, SetInduction DEF S
  <2>2. 0 .. TablesDepth \subseteq Nat /\ \A d \in 0 .. TablesDepth : d <= TablesDepth
    BY Sizes
  <2> QED
    BY <2>1, <2>2 DEF S

\* The tree is finite, so that maxFrame counts something.
LEMMA FiniteTree ==
  ASSUME NEW r \in Rams
  PROVE  IsFiniteSet(Tree(r))
<1> DEFINE level(d) == Levels(r, FALSE)[d]
<1>1. Tree(r) = UNION { level(d) : d \in 0 .. TablesDepth }
  BY LevelsUnion DEF Tree
<1>2. \A d \in 0 .. TablesDepth : IsFiniteSet(level(d))
  BY LevelsTyped
<1> HIDE DEF level
<1>3. IsFiniteSet(0 .. TablesDepth)
  BY Sizes, FS_Interval
<1>4. IsFiniteSet({ level(d) : d \in 0 .. TablesDepth })
  <2> DEFINE f == [ d \in 0 .. TablesDepth |-> level(d) ]
  <2>1. IsFiniteSet({ f[d] : d \in 0 .. TablesDepth })
    <3> HIDE DEF f
    <3> QED
      BY <1>3, FiniteImage
  <2> QED
    BY <2>1
<1>5. \A X \in { level(d) : d \in 0 .. TablesDepth } : IsFiniteSet(X)
  BY <1>2
<1> QED
  BY <1>1, <1>4, <1>5, FS_UNION

\* The nodes of the tree at the depth d.
Level(r, d) == Levels(r, FALSE)[d]

LEMMA TreeLevels ==
  ASSUME NEW r \in Rams
  PROVE  /\ \A x : x \in Tree(r) <=> \E d \in 0 .. TablesDepth : x \in Level(r, d)
         /\ \A d \in 0 .. TablesDepth : \A x \in Level(r, d) : NodeAt(x, d) /\ x.depth = d
         /\ Level(r, 0) = {Root}
         /\ Root \in Tree(r)
         /\ TablesDepth \in Nat \ {0}
<1>1. \A d \in 0 .. TablesDepth : \A x \in Level(r, d) : NodeAt(x, d)
  BY LevelsTyped DEF Level
<1>2. Level(r, 0) = {Root}
  BY LevelZero DEF Level
<1>3. \A x : x \in Tree(r) <=> \E d \in 0 .. TablesDepth : x \in Level(r, d)
  BY LevelsUnion DEF Tree, Level
<1>4. TablesDepth \in Nat \ {0}
  BY Sizes
<1> QED
  BY <1>1, <1>2, <1>3, <1>4 DEF NodeAt

\* From a node to its child: the child is named by a word of the node's frame.
LEMMA Descend ==
  ASSUME NEW r \in Rams, NEW d \in 0 .. TablesDepth - 1, NEW w \in Level(r, d),
         w.pAddr \in Frame, NEW i \in 0 .. Neighbors(d) - 1
  PROVE  LET cell == w.pAddr * PageSize + i
             x == Child(r, w, i) IN
         /\ cell \in 0 .. RamSize - 1
         /\ x.father = cell
         /\ x.pAddr = r[cell]
         /\ x.pageNum = Convert(i, w.pageNum, d)
         /\ x.depth = d + 1
         /\ cell \div PageSize = w.pAddr
         /\ cell % PageSize = i
         /\ r[cell] # 0 => x \in Level(r, d + 1)
<1>1. NodeAt(w, d) /\ w.depth = d /\ d \in Nat /\ d \in 0 .. TablesDepth
  BY TreeLevels
<1>2. /\ Convert(i, w.pAddr, d) = w.pAddr * PageSize + i
      /\ i \in 0 .. PageSize - 1
      /\ Convert(i, w.pAddr, d) \in 0 .. RamSize - 1
  BY <1>1, Entry
<1>3. w.pAddr \in Frame
  OBVIOUS
<1>4. /\ Child(r, w, i).father = w.pAddr * PageSize + i
      /\ Child(r, w, i).pAddr = r[w.pAddr * PageSize + i]
      /\ Child(r, w, i).pageNum = Convert(i, w.pageNum, d)
      /\ Child(r, w, i).depth = d + 1
  BY <1>1, <1>2 DEF Child
<1>5. /\ (w.pAddr * PageSize + i) \div PageSize = w.pAddr
      /\ (w.pAddr * PageSize + i) % PageSize = i
  BY <1>2, <1>3, Frames
<1>6. r[w.pAddr * PageSize + i] # 0 => Child(r, w, i) \in Level(r, d + 1)
  BY <1>1, <1>3, <1>4, LevelStep DEF Level
<1> QED
  BY <1>2, <1>4, <1>5, <1>6

\* From a node to the one above.
LEMMA Ascend ==
  ASSUME NEW r \in Rams, NEW d \in 0 .. TablesDepth - 1, NEW x \in Level(r, d + 1)
  PROVE  \E w \in Level(r, d) : \E i \in 0 .. Neighbors(d) - 1 :
           /\ w.pAddr \in Frame
           /\ x = Child(r, w, i)
           /\ x.father = w.pAddr * PageSize + i
           /\ x.pAddr = r[w.pAddr * PageSize + i]
           /\ x.pAddr # 0
           /\ x.pageNum = Convert(i, w.pageNum, d)
<1>0. x \in Levels(r, FALSE)[d + 1]
  BY DEF Level
<1>5. \A y : y \in Levels(r, FALSE)[d + 1] <=>
           \E v \in Levels(r, FALSE)[d] : \E i \in 0 .. Neighbors(v.depth) - 1 :
             /\ v.pAddr \in Frame
             /\ y = Child(r, v, i)
             /\ y.pAddr # 0
             /\ FALSE => v.pAddr # y.pAddr
  BY LevelStep, Zenon
<1>1. PICK w \in Levels(r, FALSE)[d] : \E i \in 0 .. Neighbors(w.depth) - 1 :
        w.pAddr \in Frame /\ x = Child(r, w, i) /\ x.pAddr # 0
  BY <1>0, <1>5
<1>2. w \in Level(r, d)
  BY DEF Level
<1>3. w.depth = d
  BY <1>2, TreeLevels
<1> QED
  BY <1>1, <1>2, <1>3, Descend

-----------------------------------------------------------------------------
(***************************************************************************)
(* A node has one number and, in a well formed tree, one frame.            *)
(***************************************************************************)
\* No two nodes of a depth have the same number, even where a frame is in the
\* tree twice.
LEMMA SameNumber ==
  ASSUME NEW r \in Rams
  PROVE  \A d \in 0 .. TablesDepth : \A x, y \in Level(r, d) :
           x.pageNum = y.pageNum => x = y
<1> DEFINE S == { d \in Nat : d <= TablesDepth =>
                    \A x, y \in Level(r, d) : x.pageNum = y.pageNum => x = y }
<1>1. 0 \in S
  BY TreeLevels
<1>2. ASSUME NEW d \in S
      PROVE  d + 1 \in S
  <2> SUFFICES ASSUME d + 1 <= TablesDepth, NEW x \in Level(r, d + 1),
                      NEW y \in Level(r, d + 1), x.pageNum = y.pageNum
               PROVE  x = y
    OBVIOUS
  <2>1. d \in 0 .. TablesDepth - 1 /\ d \in Nat /\ d \in 0 .. TablesDepth
    BY Sizes
  <2>2. PICK w \in Level(r, d) : \E i \in 0 .. Neighbors(d) - 1 :
          x = Child(r, w, i) /\ x.pageNum = Convert(i, w.pageNum, d)
    BY <2>1, Ascend
  <2>3. PICK i \in 0 .. Neighbors(d) - 1 :
          x = Child(r, w, i) /\ x.pageNum = Convert(i, w.pageNum, d)
    BY <2>2
  <2>4. PICK v \in Level(r, d) : \E j \in 0 .. Neighbors(d) - 1 :
          y = Child(r, v, j) /\ y.pageNum = Convert(j, v.pageNum, d)
    BY <2>1, Ascend
  <2>5. PICK j \in 0 .. Neighbors(d) - 1 :
          y = Child(r, v, j) /\ y.pageNum = Convert(j, v.pageNum, d)
    BY <2>4
  <2>6. w.pageNum \in Nat /\ v.pageNum \in Nat
    BY <2>1, TreeLevels, PagesAtDepth DEF NodeAt
  <2>7. w.pageNum * Neighbors(d) + i = v.pageNum * Neighbors(d) + j
    BY <2>3, <2>5 DEF Convert
  <2>8. w.pageNum = v.pageNum /\ i = j
    <3>1. Neighbors(d) \in Nat \ {0}
      BY <2>1, NeighborsType
    <3>2. /\ (w.pageNum * Neighbors(d) + i) \div Neighbors(d) = w.pageNum
          /\ (w.pageNum * Neighbors(d) + i) % Neighbors(d) = i
      BY <2>6, <3>1, DivisionOfSum
    <3>3. /\ (v.pageNum * Neighbors(d) + j) \div Neighbors(d) = v.pageNum
          /\ (v.pageNum * Neighbors(d) + j) % Neighbors(d) = j
      BY <2>6, <3>1, DivisionOfSum
    <3> QED
      BY <2>7, <3>2, <3>3
  <2>9. w = v
    BY <2>1, <2>8
  <2> QED
    BY <2>3, <2>5, <2>8, <2>9
<1> QED
  <2> HIDE DEF S
  <2>1. S = Nat
    BY <1>1, <1>2, SetInduction DEF S
  <2>2. 0 .. TablesDepth \subseteq Nat /\ \A d \in 0 .. TablesDepth : d <= TablesDepth
    BY Sizes
  <2> QED
    BY <2>1, <2>2 DEF S

\* The tree is in the RAM, and no frame is in it twice.
Separate(r) ==
  /\ \A x \in Tree(r) : x.pAddr \in Frame
  /\ \A x, y \in Tree(r) : x.pAddr = y.pAddr => x = y

LEMMA FrameNodes ==
  ASSUME NEW r \in Rams, Separate(r)
  PROVE  \A d \in 0 .. TablesDepth : \A x \in Level(r, d) : x.pAddr \in Frame
BY TreeLevels DEF Separate

\* A tree with as many nodes as its frames has no frame twice.
LEMMA CountedIsSeparate ==
  ASSUME NEW r \in Rams, Cardinality(Tree(r)) <= NumFrames,
         { x.pAddr : x \in Tree(r) } = 0 .. Cardinality(Tree(r)) - 1
  PROVE  Separate(r)
<1> DEFINE f == [ x \in Tree(r) |-> x.pAddr ]
           T == 0 .. Cardinality(Tree(r)) - 1
<1>1. IsFiniteSet(Tree(r)) /\ Cardinality(Tree(r)) \in Nat
  BY FiniteTree, FS_CardinalityType
<1>2. Cardinality(T) = Cardinality(Tree(r))
  BY <1>1, FS_Interval
<1>3. f \in Surjection(Tree(r), T)
  <2>1. \A x \in Tree(r) : f[x] \in T
    OBVIOUS
  <2>2. \A t \in T : \E x \in Tree(r) : f[x] = t
    OBVIOUS
  <2> QED
    BY <2>1, <2>2 DEF Surjection
<1>4. f \in Injection(Tree(r), T)
  <2> HIDE DEF f, T
  <2> QED
    BY <1>1, <1>2, <1>3, FS_Surjection
<1>5. \A x, y \in Tree(r) : f[x] = f[y] => x = y
  <2> HIDE DEF T
  <2> QED
    BY <1>4 DEF Injection, IsInjective
<1>6. \A x \in Tree(r) : x.pAddr \in 0 .. Cardinality(Tree(r)) - 1
  OBVIOUS
<1>7. \A x \in Tree(r) : x.pAddr \in Frame
  <2>1. \A n \in 0 .. Cardinality(Tree(r)) - 1 : n \in Frame
    BY <1>1, FrameRange
  <2> QED
    BY <1>6, <2>1
<1> QED
  BY <1>5, <1>7 DEF Separate

-----------------------------------------------------------------------------
(***************************************************************************)
(* findFreeTable.                                                          *)
(***************************************************************************)
\* The nodes at the depth d that findFreeTable comes to.
LevelMarked(r, d) == Levels(r, TRUE)[d]

LEMMA LevelMarkedStep ==
  ASSUME NEW r, NEW d \in 0 .. TablesDepth - 1
  PROVE  \A u : u \in LevelMarked(r, d + 1) <=>
           \E w \in LevelMarked(r, d) : \E i \in 0 .. Neighbors(w.depth) - 1 :
             /\ w.pAddr \in Frame
             /\ u = Child(r, w, i) /\ u.pAddr # 0 /\ w.pAddr # u.pAddr
<1>1. Levels(r, TRUE)[d + 1] = Below(r, TRUE, Levels(r, TRUE)[d])
  <2>1. LevelsUpTo(r, TRUE, TablesDepth, Levels(r, TRUE))
    BY LevelsDef, Zenon
  <2>2. Levels(r, TRUE) = [ c \in 0 .. TablesDepth |->
          IF c = 0 THEN {Root} ELSE Below(r, TRUE, Levels(r, TRUE)[c - 1]) ]
    BY <2>1, Zenon DEF LevelsUpTo
  <2>3. d + 1 \in 0 .. TablesDepth /\ d + 1 # 0 /\ (d + 1) - 1 = d
    BY Sizes
  <2> QED
    BY <2>2, <2>3
<1>2. \A T : Below(r, TRUE, T) =
        UNION { { y \in Children(r, x) : x.pAddr # y.pAddr } : x \in T }
  BY DEF Below
<1>3. LevelMarked(r, d + 1) =
        UNION { { y \in Children(r, x) : x.pAddr # y.pAddr } : x \in LevelMarked(r, d) }
  BY <1>1, <1>2 DEF LevelMarked
<1>4. \A w : \A i : i \in Entries(w) <=>
        i \in 0 .. Neighbors(w.depth) - 1 /\ w.pAddr \in Frame
  BY DEF Entries
<1>5. \A w, u : u \in Children(r, w) <=>
        \E i \in 0 .. Neighbors(w.depth) - 1 :
          w.pAddr \in Frame /\ u = Child(r, w, i) /\ u.pAddr # 0
  BY <1>4 DEF Children
<1> QED
  BY <1>3, <1>5

\* findFreeTable marks the missing entry with the number of its own frame, and
\* does not follow such an entry: it comes to the nodes of the tree.
LEMMA MarkedLevels ==
  ASSUME NEW r \in Rams, Separate(r), NEW e \in 0 .. RamSize - 1, r[e] = 0
  PROVE  \A d \in 0 .. TablesDepth :
           LevelMarked([ r EXCEPT ![e] = e \div PageSize ], d) = Level(r, d)
<1> DEFINE m == [ r EXCEPT ![e] = e \div PageSize ]
           S == { d \in Nat : d <= TablesDepth => LevelMarked(m, d) = Level(r, d) }
<1>0. /\ m[e] = e \div PageSize
      /\ \A a \in 0 .. RamSize - 1 : a # e => m[a] = r[a]
  BY DEF Rams
<1> HIDE DEF m
<1>1. 0 \in S
  <2>1. LevelMarked(m, 0) = {Root}
    BY LevelZero DEF LevelMarked
  <2> QED
    BY <2>1, TreeLevels
<1>2. ASSUME NEW d \in S
      PROVE  d + 1 \in S
  <2> SUFFICES ASSUME d + 1 <= TablesDepth
               PROVE  LevelMarked(m, d + 1) = Level(r, d + 1)
    OBVIOUS
  <2>1. d \in 0 .. TablesDepth - 1 /\ d \in Nat /\ d \in 0 .. TablesDepth /\ d + 1 \in 0 .. TablesDepth
    BY Sizes
  <2>2. LevelMarked(m, d) = Level(r, d)
    BY <2>1
  <2>3. \A u : u \in LevelMarked(m, d + 1) <=>
           \E w \in Level(r, d) : \E i \in 0 .. Neighbors(w.depth) - 1 :
             /\ w.pAddr \in Frame
             /\ u = Child(m, w, i) /\ u.pAddr # 0 /\ w.pAddr # u.pAddr
    BY <2>1, <2>2, LevelMarkedStep
  <2>4. ASSUME NEW w \in Level(r, d), NEW i \in 0 .. Neighbors(d) - 1
        PROVE  LET cell == w.pAddr * PageSize + i IN
               /\ cell = e => Child(m, w, i).pAddr = w.pAddr
               /\ cell # e => Child(m, w, i) = Child(r, w, i)
    <3>1. NodeAt(w, d) /\ w.depth = d /\ w.pAddr \in Frame
      BY <2>1, TreeLevels, FrameNodes
    <3>2. Convert(i, w.pAddr, d) = w.pAddr * PageSize + i
      BY <2>1, <3>1, Entry
    <3>3. /\ w.pAddr * PageSize + i \in 0 .. RamSize - 1
          /\ (w.pAddr * PageSize + i) \div PageSize = w.pAddr
      BY <2>1, <3>1, Descend
    <3> QED
      BY <1>0, <3>1, <3>2, <3>3 DEF Child
  <2>5. ASSUME NEW u \in LevelMarked(m, d + 1)
        PROVE  u \in Level(r, d + 1)
    <3>1. PICK w \in Level(r, d) : \E i \in 0 .. Neighbors(d) - 1 :
            u = Child(m, w, i) /\ u.pAddr # 0 /\ w.pAddr # u.pAddr
      BY <2>1, <2>3, TreeLevels
    <3>2. PICK i \in 0 .. Neighbors(d) - 1 :
            u = Child(m, w, i) /\ u.pAddr # 0 /\ w.pAddr # u.pAddr
      BY <3>1
    <3>3. u = Child(r, w, i) /\ w.pAddr \in Frame
      BY <2>1, <2>4, <3>2, FrameNodes
    <3> QED
      BY <2>1, <3>2, <3>3, Descend
  <2>6. ASSUME NEW u \in Level(r, d + 1)
        PROVE  u \in LevelMarked(m, d + 1)
    <3>1. PICK w \in Level(r, d) : \E i \in 0 .. Neighbors(d) - 1 :
            u = Child(r, w, i) /\ u.pAddr = r[w.pAddr * PageSize + i] /\ u.pAddr # 0
      BY <2>1, Ascend
    <3>2. PICK i \in 0 .. Neighbors(d) - 1 :
            u = Child(r, w, i) /\ u.pAddr = r[w.pAddr * PageSize + i] /\ u.pAddr # 0
      BY <3>1
    <3>3. u = Child(m, w, i)
      BY <2>4, <3>2
    <3>4. w.pAddr # u.pAddr
      <4>1. w \in Tree(r) /\ u \in Tree(r) /\ w.depth = d /\ u.depth = d + 1
        BY <2>1, TreeLevels
      <4> QED
        BY <4>1, <2>1 DEF Separate
    <3>5. w.depth = d /\ w.pAddr \in Frame
      BY <2>1, TreeLevels, FrameNodes
    <3> QED
      BY <2>3, <3>2, <3>3, <3>4, <3>5
  <2> QED
    BY <2>5, <2>6
<1> QED
  <2> HIDE DEF S
  <2>1. S = Nat
    BY <1>1, <1>2, SetInduction DEF S
  <2>2. 0 .. TablesDepth \subseteq Nat /\ \A d \in 0 .. TablesDepth : d <= TablesDepth
    BY Sizes
  <2> QED
    BY <2>1, <2>2 DEF S, m

\* A frame is clear when all addresses in it hold zeros.
LEMMA ClearWords ==
  ASSUME NEW r \in Rams, NEW f \in Frame
  PROVE  IsClear(r, f) <=> \A a \in 0 .. RamSize - 1 : a \div PageSize = f => r[a] = 0
<1>1. ASSUME IsClear(r, f), NEW a \in 0 .. RamSize - 1, a \div PageSize = f
      PROVE  r[a] = 0
  <2>1. /\ a % PageSize \in 0 .. PageSize - 1
        /\ a = f * PageSize + (a % PageSize)
        /\ a < RamSize
    <3>1. RamSize \in Nat
      BY Sizes
    <3>2. a < RamSize
      BY <3>1
    <3> QED
      BY <1>1, <3>2, Frames
  <2> QED
    BY <1>1, <2>1 DEF IsClear
<1>2. ASSUME \A a \in 0 .. RamSize - 1 : a \div PageSize = f => r[a] = 0
      PROVE  IsClear(r, f)
  BY <1>2, Frames DEF IsClear
<1> QED
  BY <1>1, <1>2

\* What is clear with the mark is clear without it, and is not the table that
\* lacks the entry: the mark is there for that.
LEMMA MarkedClear ==
  ASSUME NEW r \in Rams, NEW e \in 0 .. RamSize - 1, r[e] = 0,
         NEW f \in Frame, f # 0, IsClear([ r EXCEPT ![e] = e \div PageSize ], f)
  PROVE  IsClear(r, f) /\ e \div PageSize # f
<1> DEFINE m == [ r EXCEPT ![e] = e \div PageSize ]
<1>1. m \in Rams
  BY Frames DEF Rams
<1>2. /\ m[e] = e \div PageSize
      /\ \A a \in 0 .. RamSize - 1 : a # e => m[a] = r[a]
  BY DEF Rams
<1> HIDE DEF m
<1>3. IsClear(m, f)
  BY DEF m
<1>4. \A a \in 0 .. RamSize - 1 : a \div PageSize = f => m[a] = 0
  BY <1>1, <1>3, ClearWords
<1> QED
  BY <1>2, <1>4, ClearWords

\* The RAM q has the frame f linked at the entry e, and unlinked where it was in r.
Relinks(r, q, e, f) ==
  /\ q[e] = f
  /\ \A a \in 0 .. RamSize - 1 \ {e} :
       \/ q[a] = r[a] /\ ~ \E x \in Tree(r) : x.pAddr = f /\ x.father = a
       \/ q[a] = 0 /\ \E x \in Tree(r) : x.pAddr = f /\ x.father = a

\* Relinking a clear frame moves its node to the new entry: a clear frame has no
\* children, so that nothing below it is lost.
LEMMA RelinkLevels ==
  ASSUME NEW r \in Rams, Separate(r), NEW q \in Rams,
         NEW k \in 0 .. TablesDepth - 1, NEW z \in Level(r, k),
         NEW i \in 0 .. Neighbors(k) - 1, r[z.pAddr * PageSize + i] = 0,
         NEW f \in Frame \ {0}, IsClear(r, f), f # z.pAddr,
         Relinks(r, q, z.pAddr * PageSize + i, f)
  PROVE  \A d \in 0 .. TablesDepth :
           Level(q, d) = { x \in Level(r, d) : x.pAddr # f }
                           \cup (IF d = k + 1 THEN {Child(q, z, i)} ELSE {})
<1> DEFINE e == z.pAddr * PageSize + i
           y == Child(q, z, i)
           new(d) == IF d = k + 1 THEN {y} ELSE {}
           S == { d \in Nat : d <= TablesDepth =>
                    Level(q, d) = { x \in Level(r, d) : x.pAddr # f } \cup new(d) }
<1>1. /\ e \in 0 .. RamSize - 1
      /\ e \div PageSize = z.pAddr /\ e % PageSize = i
      /\ q[e] = f
  BY Descend, FrameNodes, Sizes DEF Relinks
<1>2. \A a \in 0 .. RamSize - 1 : a \div PageSize = f => r[a] = 0 /\ q[a] = 0 /\ a # e
  BY <1>1, ClearWords DEF Relinks
<1>3. k \in Nat /\ k \in 0 .. TablesDepth /\ z.depth = k
  BY Sizes, TreeLevels
<1>4. y.pAddr = f /\ y.depth = k + 1 /\ y.father = e
  <2>1. NodeAt(z, k) /\ z.pAddr \in Frame
    BY <1>3, TreeLevels, FrameNodes
  <2>2. Convert(i, z.pAddr, k) = e
    BY <1>3, <2>1, Entry
  <2> QED
    BY <1>1, <1>3, <2>2 DEF Child
<1>5. \A x, w \in Tree(r) : x.pAddr = w.pAddr => x = w
  BY DEF Separate
<1>6. \A d \in 0 .. TablesDepth : \A x \in Level(r, d) : x \in Tree(r) /\ x.depth = d
  BY TreeLevels
<1>7. \A a \in 0 .. RamSize - 1 : a # e =>
        \/ q[a] = r[a] /\ ~ \E x \in Tree(r) : x.pAddr = f /\ x.father = a
        \/ q[a] = 0 /\ \E x \in Tree(r) : x.pAddr = f /\ x.father = a
  BY DEF Relinks
<1>8. r[e] = 0
  OBVIOUS
<1> HIDE DEF e, y
<1>9. 0 \in S
  <2>1. Root.pAddr # f
    BY DEF Root
  <2>2. 0 # k + 1
    BY <1>3
  <2> QED
    BY <2>1, <2>2, TreeLevels
<1>10. ASSUME NEW d \in S
       PROVE  d + 1 \in S
  <2> SUFFICES ASSUME d + 1 <= TablesDepth
               PROVE  Level(q, d + 1) = { x \in Level(r, d + 1) : x.pAddr # f } \cup new(d + 1)
    OBVIOUS
  <2>1. d \in 0 .. TablesDepth - 1 /\ d \in Nat /\ d \in 0 .. TablesDepth /\ d + 1 \in 0 .. TablesDepth
    BY Sizes
  <2>2. Level(q, d) = { x \in Level(r, d) : x.pAddr # f } \cup new(d)
    BY <2>1
  <2>3. ASSUME NEW u \in Level(q, d + 1)
        PROVE  (u \in Level(r, d + 1) /\ u.pAddr # f) \/ u \in new(d + 1)
    <3>1. PICK w \in Level(q, d) : \E j \in 0 .. Neighbors(d) - 1 :
            /\ w.pAddr \in Frame
            /\ u = Child(q, w, j) /\ u.father = w.pAddr * PageSize + j
            /\ u.pAddr = q[w.pAddr * PageSize + j] /\ u.pAddr # 0
      BY <2>1, Ascend
    <3>2. PICK j \in 0 .. Neighbors(d) - 1 :
            /\ w.pAddr \in Frame
            /\ u = Child(q, w, j) /\ u.father = w.pAddr * PageSize + j
            /\ u.pAddr = q[w.pAddr * PageSize + j] /\ u.pAddr # 0
      BY <3>1
    <3> DEFINE cell == w.pAddr * PageSize + j
    <3>3. cell \in 0 .. RamSize - 1 /\ cell \div PageSize = w.pAddr /\ cell % PageSize = j
      BY <2>1, <3>2, Descend
    <3> HIDE DEF cell
    <3>4. u.father = cell /\ u.pAddr = q[cell] /\ u.pAddr # 0
      BY <3>2 DEF cell
    <3>5. w.pAddr # f
      BY <1>2, <3>3, <3>4
    <3>6. w \in Level(r, d)
      BY <2>2, <3>5, <1>4
    <3>7. CASE cell = e
      <4>1. w.pAddr = z.pAddr /\ j = i
        BY <1>1, <3>3, <3>7
      <4>2. w = z /\ d = k
        BY <1>3, <1>5, <1>6, <2>1, <3>6, <4>1
      <4> QED
        BY <3>2, <4>1, <4>2 DEF y
    <3>8. CASE cell # e
      <4>1. q[cell] = r[cell] /\ ~ \E x \in Tree(r) : x.pAddr = f /\ x.father = cell
        BY <1>7, <3>3, <3>4, <3>8
      <4>2. u = Child(r, w, j)
        <5>1. NodeAt(w, d) /\ w.depth = d
          BY <2>1, <3>6, TreeLevels
        <5>2. Convert(j, w.pAddr, w.depth) = cell
          BY <2>1, <3>2, <5>1, Entry DEF cell
        <5> QED
          BY <3>2, <4>1, <5>2 DEF Child
      <4>3. r[w.pAddr * PageSize + j] # 0
        BY <3>4, <4>1 DEF cell
      <4>4. u \in Level(r, d + 1)
        BY <2>1, <3>2, <3>6, <4>2, <4>3, Descend
      <4>5. u \in Tree(r)
        BY <1>6, <2>1, <4>4
      <4> QED
        BY <3>4, <4>1, <4>4, <4>5
    <3> QED
      BY <3>7, <3>8
  <2>4. ASSUME NEW u \in Level(r, d + 1), u.pAddr # f
        PROVE  u \in Level(q, d + 1)
    <3>1. PICK w \in Level(r, d) : \E j \in 0 .. Neighbors(d) - 1 :
            /\ w.pAddr \in Frame
            /\ u = Child(r, w, j) /\ u.father = w.pAddr * PageSize + j
            /\ u.pAddr = r[w.pAddr * PageSize + j] /\ u.pAddr # 0
      BY <2>1, Ascend
    <3>2. PICK j \in 0 .. Neighbors(d) - 1 :
            /\ w.pAddr \in Frame
            /\ u = Child(r, w, j) /\ u.father = w.pAddr * PageSize + j
            /\ u.pAddr = r[w.pAddr * PageSize + j] /\ u.pAddr # 0
      BY <3>1
    <3> DEFINE cell == w.pAddr * PageSize + j
    <3>3. cell \in 0 .. RamSize - 1 /\ cell \div PageSize = w.pAddr /\ cell % PageSize = j
      BY <2>1, <3>2, Descend
    <3> HIDE DEF cell
    <3>4. u.father = cell /\ u.pAddr = r[cell] /\ u.pAddr # 0
      BY <3>2 DEF cell
    <3>5. w.pAddr # f
      BY <1>2, <3>3, <3>4
    <3>6. w \in Level(q, d)
      BY <2>2, <3>5
    <3>7. cell # e
      BY <1>8, <3>4
    <3>8. ASSUME NEW x \in Tree(r), x.pAddr = f, x.father = cell
          PROVE  FALSE
      <4>1. x # Root
        BY <3>8 DEF Root
      <4>2. PICK c \in 0 .. TablesDepth - 1 : x \in Level(r, c + 1)
        <5>1. PICK c \in 0 .. TablesDepth : x \in Level(r, c)
          BY TreeLevels
        <5>2. c # 0
          BY <4>1, <5>1, TreeLevels
        <5>3. c - 1 \in 0 .. TablesDepth - 1 /\ (c - 1) + 1 = c
          BY <5>2, Sizes
        <5> QED
          BY <5>1, <5>3
      <4>3. x.pAddr = r[x.father]
        BY <4>2, Ascend
      <4>4. u \in Tree(r)
        BY <1>6, <2>1
      <4> QED
        BY <2>4, <3>4, <3>8, <4>3
    <3>9. q[cell] = r[cell]
      BY <1>7, <3>3, <3>7, <3>8
    <3>10. u = Child(q, w, j)
      <4>1. NodeAt(w, d) /\ w.depth = d
        BY <2>1, TreeLevels
      <4>2. Convert(j, w.pAddr, w.depth) = cell
        BY <2>1, <3>2, <4>1, Entry DEF cell
      <4> QED
        BY <3>2, <3>9, <4>2 DEF Child
    <3>11. q[w.pAddr * PageSize + j] # 0
      BY <3>4, <3>9 DEF cell
    <3> QED
      BY <2>1, <3>2, <3>6, <3>10, <3>11, Descend
  <2>5. ASSUME d = k
        PROVE  y \in Level(q, d + 1)
    <3>1. z \in Level(q, d)
      BY <2>2, <2>5
    <3>2. q[z.pAddr * PageSize + i] # 0 /\ z.pAddr \in Frame
      BY <1>1, <1>3, FrameNodes DEF e
    <3> QED
      BY <2>1, <2>5, <3>1, <3>2, Descend DEF y
  <2> QED
    BY <1>3, <2>1, <2>3, <2>4, <2>5
<1> QED
  <2> HIDE DEF S
  <2>1. S = Nat
    BY <1>9, <1>10, SetInduction DEF S
  <2>2. 0 .. TablesDepth \subseteq Nat /\ \A d \in 0 .. TablesDepth : d <= TablesDepth
    BY Sizes
  <2> QED
    BY <2>1, <2>2 DEF S, y

-----------------------------------------------------------------------------
(***************************************************************************)
(* search.                                                                 *)
(***************************************************************************)
\* frame has the frames on a path down to the depth n.
WalkUpTo(r, path, n, frame) ==
  frame = [ d \in 0 .. n |->
              IF d = 0 THEN 0
              ELSE LET entry == Convert(path[d - 1], frame[d - 1], d - 1) IN
                     IF entry < RamSize THEN r[entry] ELSE 0 ]

\* The frames on the path of an address, as search finds them.
Walk(r, addr) == CHOOSE frame : WalkUpTo(r, Path(addr), TablesDepth, frame)

LEMMA WalkExists ==
  ASSUME NEW r, NEW path
  PROVE  \A n \in Nat : \E frame : WalkUpTo(r, path, n, frame)
<1> DEFINE S == { n \in Nat : \E frame : WalkUpTo(r, path, n, frame) }
<1>1. 0 \in S
  <2>1. WalkUpTo(r, path, 0, [ d \in 0 .. 0 |-> 0 ])
    BY DEF WalkUpTo
  <2> QED
    BY <2>1
<1>2. ASSUME NEW n \in S
      PROVE  n + 1 \in S
  <2>1. PICK frame : WalkUpTo(r, path, n, frame)
    OBVIOUS
  <2> DEFINE step(d, f) == LET entry == Convert(path[d], f, d) IN
                          IF entry < RamSize THEN r[entry] ELSE 0
             longer == [ d \in 0 .. n + 1 |-> IF d = n + 1 THEN step(n, frame[n])
                                              ELSE frame[d] ]
  <2>2. \A d \in 0 .. n : frame[d] = IF d = 0 THEN 0 ELSE step(d - 1, frame[d - 1])
    BY <2>1 DEF WalkUpTo
  <2> HIDE DEF step
  <2>3. \A d \in 0 .. n : longer[d] = frame[d]
    OBVIOUS
  <2>4. longer[n + 1] = step(n, longer[n])
    BY <2>3
  <2>5. longer = [ d \in 0 .. n + 1 |-> longer[d] ]
    OBVIOUS
  <2> HIDE DEF longer
  <2>6. \A d \in 0 .. n + 1 : longer[d] = IF d = 0 THEN 0 ELSE step(d - 1, longer[d - 1])
    BY <2>2, <2>3, <2>4
  <2>7. longer = [ d \in 0 .. n + 1 |-> IF d = 0 THEN 0 ELSE step(d - 1, longer[d - 1]) ]
    BY <2>5, <2>6
  <2>8. WalkUpTo(r, path, n + 1, longer)
    BY <2>7 DEF WalkUpTo, step
  <2> QED
    BY <2>8
<1> QED
  <2> HIDE DEF S
  <2>1. S = Nat
    BY <1>1, <1>2, SetInduction DEF S
  <2> QED
    BY <2>1 DEF S

LEMMA WalkDef ==
  ASSUME NEW r, NEW addr
  PROVE  /\ Walk(r, addr)[0] = 0
         /\ \A d \in 0 .. TablesDepth - 1 :
              Walk(r, addr)[d + 1] =
                LET entry == Convert(Path(addr)[d], Walk(r, addr)[d], d) IN
                  IF entry < RamSize THEN r[entry] ELSE 0
<1>1. \E frame : WalkUpTo(r, Path(addr), TablesDepth, frame)
  BY WalkExists, Sizes
<1>2. WalkUpTo(r, Path(addr), TablesDepth, Walk(r, addr))
  BY <1>1 DEF Walk
<1> DEFINE w == Walk(r, addr)
           path == Path(addr)
<1> HIDE DEF w, path
<1>3. w = [ d \in 0 .. TablesDepth |->
              IF d = 0 THEN 0
              ELSE LET entry == Convert(path[d - 1], w[d - 1], d - 1) IN
                     IF entry < RamSize THEN r[entry] ELSE 0 ]
  BY <1>2 DEF WalkUpTo, w, path
<1>4. w[0] = 0
  BY <1>3, Sizes
<1>5. ASSUME NEW d \in 0 .. TablesDepth - 1
      PROVE  w[d + 1] = LET entry == Convert(path[d], w[d], d) IN
                          IF entry < RamSize THEN r[entry] ELSE 0
  <2>1. d + 1 \in 0 .. TablesDepth /\ d + 1 # 0 /\ (d + 1) - 1 = d
    BY Sizes
  <2> QED
    BY <1>3, <2>1
<1> QED
  BY <1>4, <1>5 DEF w, path

\* A step of the walk in the RAM.
LEMMA StepOfWalk ==
  ASSUME NEW r, NEW addr, NEW d \in 0 .. TablesDepth - 1,
         Convert(Path(addr)[d], Walk(r, addr)[d], d) < RamSize
  PROVE  Walk(r, addr)[d + 1] = r[Convert(Path(addr)[d], Walk(r, addr)[d], d)]
<1>1. Walk(r, addr)[d + 1] =
        LET entry == Convert(Path(addr)[d], Walk(r, addr)[d], d) IN
          IF entry < RamSize THEN r[entry] ELSE 0
  BY WalkDef, Zenon
<1> QED
  BY <1>1

\* search in terms of the frames on the path.
LEMMA SearchDef ==
  ASSUME NEW r, NEW addr
  PROVE  LET zeros == { d \in 1 .. TablesDepth : Walk(r, addr)[d] = 0 }
             depth == Min(zeros \cup {TablesDepth}) - 1
         IN Search(r, addr) =
              [ missing |-> zeros # {},
                depth |-> depth,
                addr |-> IF zeros = {} THEN Walk(r, addr)[TablesDepth]
                         ELSE Convert(Path(addr)[depth], Walk(r, addr)[depth], depth) ]
BY Zenon DEF Search, Walk, WalkUpTo

\* search stops at the first frame that is missing.
LEMMA SearchResult ==
  ASSUME NEW r, NEW addr
  PROVE  /\ Search(r, addr).missing \in BOOLEAN
         /\ Search(r, addr).missing <=>
              \E d \in 1 .. TablesDepth : Walk(r, addr)[d] = 0
         /\ ~ Search(r, addr).missing =>
              /\ Search(r, addr).depth = TablesDepth - 1
              /\ Search(r, addr).addr = Walk(r, addr)[TablesDepth]
         /\ Search(r, addr).missing =>
              LET depth == Search(r, addr).depth IN
              /\ depth \in 0 .. TablesDepth - 1
              /\ \A d \in 1 .. depth : Walk(r, addr)[d] # 0
              /\ Walk(r, addr)[depth + 1] = 0
              /\ Search(r, addr).addr =
                   Convert(Path(addr)[depth], Walk(r, addr)[depth], depth)
<1> DEFINE zeros == { d \in 1 .. TablesDepth : Walk(r, addr)[d] = 0 }
           all == zeros \cup {TablesDepth}
           depth == Min(all) - 1
<1>1. Search(r, addr) =
        [ missing |-> zeros # {},
          depth |-> depth,
          addr |-> IF zeros = {} THEN Walk(r, addr)[TablesDepth]
                   ELSE Convert(Path(addr)[depth], Walk(r, addr)[depth], depth) ]
  BY SearchDef, Zenon
<1>2. TablesDepth \in Nat \ {0}
  BY Sizes
<1>3. all \in SUBSET Nat /\ all # {}
  BY <1>2
<1>4. Min(all) \in all /\ \A d \in all : Min(all) <= d
  <2> HIDE DEF all
  <2>1. \E n \in all : \A m \in all : n <= m
    BY <1>3, LeastElement
  <2> QED
    BY <2>1 DEF Min
<1>5. zeros = {} => depth = TablesDepth - 1
  BY <1>2, <1>4
<1>6. ASSUME zeros # {}
      PROVE  /\ depth \in 0 .. TablesDepth - 1
             /\ \A d \in 1 .. depth : Walk(r, addr)[d] # 0
             /\ Walk(r, addr)[depth + 1] = 0
  <2> DEFINE least == Min(all)
  <2>1. least \in 1 .. TablesDepth
    BY <1>2, <1>4
  <2>2. PICK d \in zeros : TRUE
    BY <1>6
  <2>3. least <= d /\ d <= TablesDepth /\ d \in Nat
    BY <1>2, <1>4
  <2>4. least \in zeros
    <3>1. CASE least \in zeros
      BY <3>1
    <3>2. CASE least = TablesDepth
      <4>1. d = least
        BY <1>2, <2>3, <3>2
      <4> QED
        BY <4>1
    <3> QED
      BY <1>4, <3>1, <3>2
  <2>5. \A c \in 1 .. least - 1 : c \notin zeros
    <3> SUFFICES ASSUME NEW c \in 1 .. least - 1, c \in zeros
                 PROVE  FALSE
      OBVIOUS
    <3>1. least <= c
      BY <1>4
    <3> QED
      BY <2>1, <3>1
  <2> HIDE DEF least
  <2>6. depth = least - 1
    BY DEF least
  <2> HIDE DEF depth
  <2>7. \A c \in 1 .. depth : c \in 1 .. TablesDepth /\ c \notin zeros
    BY <1>2, <2>1, <2>5, <2>6
  <2>8. depth + 1 = least
    BY <2>1, <2>6
  <2>9. Walk(r, addr)[least] = 0
    BY <2>4
  <2>10. \A c \in 1 .. depth : Walk(r, addr)[c] # 0
    BY <2>7
  <2>11. depth \in 0 .. TablesDepth - 1
    BY <1>2, <2>1, <2>6
  <2> QED
    BY <2>8, <2>9, <2>10, <2>11
<1> HIDE DEF depth
<1>7. /\ Search(r, addr).missing = (zeros # {})
      /\ Search(r, addr).depth = depth
      /\ zeros = {} => Search(r, addr).addr = Walk(r, addr)[TablesDepth]
      /\ zeros # {} => Search(r, addr).addr =
                         Convert(Path(addr)[depth], Walk(r, addr)[depth], depth)
  <2> HIDE DEF zeros
  <2> QED
    BY <1>1
<1>8. zeros # {} <=> \E d \in 1 .. TablesDepth : Walk(r, addr)[d] = 0
  OBVIOUS
<1> HIDE DEF zeros
<1> QED
  BY <1>5, <1>6, <1>7, <1>8

\* The indices of get_path are indices of the tables.
LEMMA PathType ==
  ASSUME NEW addr \in Nat, NEW d \in 0 .. TablesDepth - 1
  PROVE  /\ Path(addr)[d] \in 0 .. Neighbors(d) - 1
         /\ Path(addr)[d] = (addr \div Pow2[OffsetWidth * (TablesDepth - d)]) % Neighbors(d)
<1>1. OffsetWidth * (TablesDepth - d) \in Nat
  BY Sizes, WidthAssumption
<1>2. Pow2[OffsetWidth * (TablesDepth - d)] \in Nat \ {0}
  BY <1>1, Powers
<1>3. addr \div Pow2[OffsetWidth * (TablesDepth - d)] \in Nat
  BY <1>2, Division
<1>4. Neighbors(d) \in Nat \ {0}
  BY NeighborsType, Sizes
<1>5. Path(addr)[d] = (addr \div Pow2[OffsetWidth * (TablesDepth - d)]) % Neighbors(d)
  BY DEF Path
<1> QED
  BY <1>3, <1>4, <1>5, Division

\* The number of the node of an address among those of its depth.
NumberAt(addr, d) == addr \div Pow2[OffsetWidth * (TablesDepth - d + 1)]

\* The digits of get_path make up the number of the node at each depth, and at
\* the last depth that of the page.
LEMMA Digits ==
  ASSUME NEW addr \in Nat, addr < VirtualMemorySize
  PROVE  /\ NumberAt(addr, 0) = 0
         /\ NumberAt(addr, TablesDepth) = PageOf(addr)
         /\ \A d \in 0 .. TablesDepth - 1 :
              NumberAt(addr, d + 1) = Convert(Path(addr)[d], NumberAt(addr, d), d)
<1> DEFINE P == PageSize
           T == TablesDepth
<1>1. /\ P \in Nat \ {0} /\ T \in Nat \ {0} /\ OffsetWidth \in Nat \ {0}
      /\ RootSize \in 1 .. P
  BY Sizes, WidthAssumption
<1>2. ASSUME NEW d \in 0 .. T
      PROVE  /\ OffsetWidth * (T - d) \in Nat
             /\ Pow2[OffsetWidth * (T - d)] \in Nat \ {0}
             /\ Pow2[OffsetWidth * (T - d + 1)] = Pow2[OffsetWidth * (T - d)] * P
             /\ addr \div Pow2[OffsetWidth * (T - d)] \in Nat
             /\ NumberAt(addr, d) = (addr \div Pow2[OffsetWidth * (T - d)]) \div P
  <2>1. OffsetWidth * (T - d) \in Nat /\ OffsetWidth * (T - d + 1) = OffsetWidth * (T - d) + OffsetWidth
    BY <1>1
  <2>2. Pow2[OffsetWidth * (T - d)] \in Nat \ {0}
    BY <2>1, Powers
  <2>3. Pow2[OffsetWidth * (T - d + 1)] = Pow2[OffsetWidth * (T - d)] * P
    BY <1>1, <2>1, PowerOfSum DEF PageSize
  <2>4. addr \div Pow2[OffsetWidth * (T - d)] \in Nat
    BY <2>2, Division
  <2>5. NumberAt(addr, d) = (addr \div Pow2[OffsetWidth * (T - d)]) \div P
    BY <1>1, <2>2, <2>3, DivisionTwice DEF NumberAt
  <2> QED
    BY <2>1, <2>2, <2>3, <2>4, <2>5
<1>3. /\ addr \div Pow2[OffsetWidth * (T - 0)] \in 0 .. RootSize - 1
      /\ OffsetWidth * (T - T) = 0
  <2> DEFINE B == Pow2[OffsetWidth * (T - 0)]
  <2>1. B \in Nat \ {0}
    BY <1>1, <1>2
  <2>2. B = Pow2[OffsetWidth * (T - 1)] * P
    <3>1. 1 \in 0 .. T /\ T - 1 + 1 = T - 0
      BY <1>1
    <3> QED
      BY <1>2, <3>1
  <2>3. Pow2[OffsetWidth * (T - 1)] \in Nat
    <3>1. 1 \in 0 .. T
      BY <1>1
    <3> QED
      BY <1>2, <3>1
  <2>4. VirtualMemorySize = RootSize * B
    <3>1. VirtualMemorySize = (RootSize * Pow2[OffsetWidth * (T - 1)]) * P
      BY Sizes
    <3> HIDE DEF B
    <3> QED
      BY <1>1, <2>2, <2>3, <3>1
  <2> HIDE DEF B
  <2>5. addr \in 0 .. RootSize * B - 1
    BY <2>1, <2>4, <1>1
  <2>6. addr \div B \in 0 .. RootSize - 1
    <3>1. RootSize \in Nat
      BY <1>1
    <3> QED
      BY <2>1, <2>5, <3>1, QuotientBound
  <2> QED
    BY <1>1, <2>6 DEF B
<1>4. NumberAt(addr, 0) = 0
  <2>1. NumberAt(addr, 0) = (addr \div Pow2[OffsetWidth * (T - 0)]) \div P
    BY <1>1, <1>2
  <2>2. \A n \in 0 .. RootSize - 1 : n \div P = 0
    <3> SUFFICES ASSUME NEW n \in 0 .. RootSize - 1
                 PROVE  n \div P = 0
      OBVIOUS
    <3>1. n \in 0 .. P - 1 /\ n = 0 * P + n
      BY <1>1
    <3> QED
      BY <1>1, <3>1, DivisionOfSum
  <2> QED
    BY <1>3, <2>1, <2>2
<1>5. NumberAt(addr, T) = PageOf(addr)
  <2>1. NumberAt(addr, T) = (addr \div Pow2[OffsetWidth * (T - T)]) \div P
    BY <1>1, <1>2
  <2>2. addr \div 1 = addr
    OBVIOUS
  <2> QED
    BY <1>3, <2>1, <2>2, Powers DEF PageOf
<1>6. ASSUME NEW d \in 0 .. T - 1
      PROVE  NumberAt(addr, d + 1) = Convert(Path(addr)[d], NumberAt(addr, d), d)
  <2> DEFINE n == addr \div Pow2[OffsetWidth * (T - d)]
  <2>1. n \in Nat /\ NumberAt(addr, d) = n \div P
    BY <1>1, <1>2
  <2>2. NumberAt(addr, d + 1) = n
    <3>1. T - (d + 1) + 1 = T - d
      BY <1>1
    <3> QED
      BY <3>1 DEF NumberAt
  <2>3. Path(addr)[d] = n % Neighbors(d)
    BY PathType
  <2> HIDE DEF n
  <2>4. CASE d = 0
    <3>1. n \in 0 .. RootSize - 1
      BY <1>3, <2>4 DEF n
    <3>2. n % RootSize = n
      <4>1. n = 0 * RootSize + n
        <5>1. n \in Int /\ RootSize \in Int
          BY <1>1, <3>1
        <5> QED
          BY <5>1
      <4> QED
        BY <1>1, <3>1, <4>1, DivisionOfSum
    <3>3. NumberAt(addr, d) = 0
      BY <1>4, <2>4
    <3> QED
      BY <1>1, <2>2, <2>3, <2>4, <3>1, <3>2, <3>3 DEF Convert, Neighbors
  <2>5. CASE d # 0
    <3>1. n = (n \div P) * P + (n % P)
      BY <1>1, <2>1, Division
    <3> QED
      BY <2>1, <2>2, <2>3, <2>5, <3>1 DEF Convert, Neighbors
  <2> QED
    BY <2>4, <2>5
<1> QED
  BY <1>4, <1>5, <1>6

\* The frames that search comes to are those of the nodes with the digits of the
\* address.
LEMMA WalkNode ==
  ASSUME NEW r \in Rams, NEW addr \in Nat
  PROVE  \A d \in 0 .. TablesDepth :
           (\A j \in 1 .. d : Walk(r, addr)[j] # 0) =>
             \E n \in Level(r, d) :
               /\ n.pAddr = Walk(r, addr)[d]
               /\ addr < VirtualMemorySize => n.pageNum = NumberAt(addr, d)
<1> DEFINE w == Walk(r, addr)
           good(d) == \E n \in Level(r, d) :
                        /\ n.pAddr = w[d]
                        /\ addr < VirtualMemorySize => n.pageNum = NumberAt(addr, d)
           S == { d \in Nat : d <= TablesDepth =>
                    ((\A j \in 1 .. d : w[j] # 0) => good(d)) }
<1>1. 0 \in S
  <2>1. Root \in Level(r, 0) /\ Root.pAddr = 0 /\ Root.pageNum = 0
    BY TreeLevels DEF Root
  <2>2. w[0] = 0
    BY WalkDef
  <2>3. addr < VirtualMemorySize => NumberAt(addr, 0) = 0
    BY Digits
  <2> QED
    BY <2>1, <2>2, <2>3
<1>2. ASSUME NEW d \in S
      PROVE  d + 1 \in S
  <2> SUFFICES ASSUME d + 1 <= TablesDepth, \A j \in 1 .. d + 1 : w[j] # 0
               PROVE  good(d + 1)
    OBVIOUS
  <2>1. d \in 0 .. TablesDepth - 1 /\ d \in Nat /\ d \in 0 .. TablesDepth /\ d + 1 \in 1 .. d + 1
    BY Sizes
  <2>2. \A j \in 1 .. d : w[j] # 0
    BY <2>1
  <2>3. PICK n \in Level(r, d) :
          /\ n.pAddr = w[d]
          /\ addr < VirtualMemorySize => n.pageNum = NumberAt(addr, d)
    BY <2>1, <2>2
  <2>4. Path(addr)[d] \in 0 .. Neighbors(d) - 1
    BY <2>1, PathType
  <2> DEFINE i == Path(addr)[d]
             y == Child(r, n, i)
  <2>6. w[d + 1] # 0
    BY <2>1
  <2>5. n.pAddr \in Frame /\ w[d + 1] = r[n.pAddr * PageSize + i]
    <3>1. w[d + 1] = LET entry == Convert(i, w[d], d) IN
                       IF entry < RamSize THEN r[entry] ELSE 0
      BY <2>1, WalkDef, Zenon
    <3>2. Convert(i, w[d], d) < RamSize /\ w[d + 1] = r[Convert(i, w[d], d)]
      BY <2>6, <3>1
    <3>3. NodeAt(n, d)
      BY <2>1, TreeLevels
    <3>4. n.pAddr \in Frame
      <4> HIDE DEF i, w
      <4> QED
        BY <2>1, <2>3, <2>4, <3>2, <3>3, EntryInRam DEF i
    <3>5. Convert(i, n.pAddr, d) = n.pAddr * PageSize + i
      BY <2>1, <2>4, <3>3, <3>4, Entry
    <3> QED
      BY <2>3, <3>2, <3>4, <3>5
  <2> HIDE DEF w, i
  <2>7. y \in Level(r, d + 1) /\ y.pAddr = w[d + 1] /\ y.pageNum = Convert(i, n.pageNum, d)
    BY <2>1, <2>4, <2>5, <2>6, Descend DEF i
  <2>8. addr < VirtualMemorySize => y.pageNum = NumberAt(addr, d + 1)
    BY <2>1, <2>3, <2>7, Digits DEF i
  <2> QED
    BY <2>7, <2>8
<1> QED
  <2> HIDE DEF S
  <2>1. S = Nat
    BY <1>1, <1>2, SetInduction DEF S
  <2>2. 0 .. TablesDepth \subseteq Nat /\ \A d \in 0 .. TablesDepth : d <= TablesDepth
    BY Sizes
  <2> QED
    BY <2>1, <2>2 DEF S

\* Search comes to the node with the number of the address, where there is one.
LEMMA NodeWalk ==
  ASSUME NEW r \in Rams, NEW addr \in Nat, addr < VirtualMemorySize
  PROVE  \A d \in 0 .. TablesDepth : \A n \in Level(r, d) :
           n.pageNum = NumberAt(addr, d) =>
             \A j \in 1 .. d : Walk(r, addr)[j] # 0
<1> DEFINE w == Walk(r, addr)
           S == { d \in Nat : d <= TablesDepth =>
                    \A n \in Level(r, d) : n.pageNum = NumberAt(addr, d) =>
                      \A j \in 1 .. d : w[j] # 0 }
<1>1. 0 \in S
  OBVIOUS
<1>2. ASSUME NEW d \in S
      PROVE  d + 1 \in S
  <2> SUFFICES ASSUME d + 1 <= TablesDepth, NEW n \in Level(r, d + 1),
                      n.pageNum = NumberAt(addr, d + 1)
               PROVE  \A j \in 1 .. d + 1 : w[j] # 0
    OBVIOUS
  <2>1. d \in 0 .. TablesDepth - 1 /\ d \in Nat /\ d \in 0 .. TablesDepth
    BY Sizes
  <2>2. PICK m \in Level(r, d) : \E i \in 0 .. Neighbors(d) - 1 :
          /\ m.pAddr \in Frame
          /\ n.pAddr = r[m.pAddr * PageSize + i]
          /\ n.pAddr # 0
          /\ n.pageNum = Convert(i, m.pageNum, d)
    BY <2>1, Ascend
  <2>3. PICK i \in 0 .. Neighbors(d) - 1 :
          /\ m.pAddr \in Frame
          /\ n.pAddr = r[m.pAddr * PageSize + i]
          /\ n.pAddr # 0
          /\ n.pageNum = Convert(i, m.pageNum, d)
    BY <2>2
  <2>4. NumberAt(addr, d + 1) = Convert(Path(addr)[d], NumberAt(addr, d), d)
    BY <2>1, Digits
  <2>5. m.pageNum = NumberAt(addr, d) /\ i = Path(addr)[d]
    <3>1. Neighbors(d) \in Nat \ {0} /\ Path(addr)[d] \in 0 .. Neighbors(d) - 1
      BY <2>1, NeighborsType, PathType
    <3>2. m.pageNum \in Nat
      BY <2>1, TreeLevels, PagesAtDepth DEF NodeAt
    <3>3. NumberAt(addr, d) \in Nat
      <4>1. OffsetWidth * (TablesDepth - d + 1) \in Nat
        BY <2>1, Sizes, WidthAssumption
      <4> QED
        BY <4>1, Powers, Division DEF NumberAt
    <3>4. m.pageNum * Neighbors(d) + i = NumberAt(addr, d) * Neighbors(d) + Path(addr)[d]
      BY <2>3, <2>4 DEF Convert
    <3>5. /\ (m.pageNum * Neighbors(d) + i) \div Neighbors(d) = m.pageNum
          /\ (m.pageNum * Neighbors(d) + i) % Neighbors(d) = i
      BY <3>1, <3>2, DivisionOfSum
    <3>6. /\ (NumberAt(addr, d) * Neighbors(d) + Path(addr)[d]) \div Neighbors(d) = NumberAt(addr, d)
          /\ (NumberAt(addr, d) * Neighbors(d) + Path(addr)[d]) % Neighbors(d) = Path(addr)[d]
      BY <3>1, <3>3, DivisionOfSum
    <3> QED
      BY <3>4, <3>5, <3>6
  <2>6. \A j \in 1 .. d : w[j] # 0
    BY <2>1, <2>5
  <2>7. w[d + 1] # 0
    <3>1. PICK v \in Level(r, d) : v.pAddr = w[d] /\ v.pageNum = NumberAt(addr, d)
      BY <2>1, <2>6, WalkNode
    <3>2. v = m
      BY <2>1, <2>5, <3>1, SameNumber
    <3>3. NodeAt(m, d) /\ m.pAddr \in Frame
      BY <2>1, <2>3, TreeLevels
    <3>4. /\ Convert(i, m.pAddr, d) = m.pAddr * PageSize + i
          /\ Convert(i, m.pAddr, d) < RamSize
      BY <2>1, <3>3, Entry, EntryInRam
    <3>5. w[d + 1] = LET entry == Convert(Path(addr)[d], w[d], d) IN
                       IF entry < RamSize THEN r[entry] ELSE 0
      BY <2>1, WalkDef, Zenon
    <3>6. w[d] = m.pAddr /\ Path(addr)[d] = i
      BY <2>5, <3>1, <3>2
    <3> HIDE DEF w
    <3>7. w[d + 1] = r[m.pAddr * PageSize + i]
      BY <3>4, <3>5, <3>6
    <3> QED
      BY <2>3, <3>7
  <2> QED
    <3>1. \A j \in 1 .. d + 1 : j \in 1 .. d \/ j = d + 1
      BY <2>1
    <3> HIDE DEF w
    <3> QED
      BY <2>6, <2>7, <3>1
<1> QED
  <2> HIDE DEF S
  <2>1. S = Nat
    BY <1>1, <1>2, SetInduction DEF S
  <2>2. 0 .. TablesDepth \subseteq Nat /\ \A d \in 0 .. TablesDepth : d <= TablesDepth
    BY Sizes
  <2> QED
    BY <2>1, <2>2 DEF S

-----------------------------------------------------------------------------
(***************************************************************************)
(* What the memory holds at an address.                                    *)
(***************************************************************************)
\* The tables that name pages have an entry for each offset of an address.
PagesFit == TablesDepth > 1 \/ RootSize = PageSize

\* What the RAM r and the swap file s hold at an address.
HeldIn(r, s, addr) ==
  LET val == Search(r, addr) IN
    CASE ~val.missing /\ Location(r, addr) < RamSize -> r[Location(r, addr)]
      [] val.missing /\ PageOf(addr) \in DOMAIN s ->
           s[PageOf(addr)][addr % PageSize]
      [] OTHER -> 0

\* Every page in the swap file is zero.
ZeroSwap(s) == \A p \in DOMAIN s : s[p] = ZeroPage

\* An address is mapped when its page is in the tree, and its word is at its
\* offset in the frame of the page.
LEMMA MappedPage ==
  ASSUME NEW r \in Rams, NEW addr \in Nat, addr < VirtualMemorySize, PagesFit
  PROVE  /\ Mapped(r, addr) <=> \E n \in Level(r, TablesDepth) : n.pageNum = PageOf(addr)
         /\ Mapped(r, addr) =>
              \E n \in Level(r, TablesDepth) :
                /\ n.pageNum = PageOf(addr)
                /\ Location(r, addr) = n.pAddr * PageSize + (addr % PageSize)
<1> DEFINE w == Walk(r, addr)
           T == TablesDepth
<1>1. T \in Nat \ {0} /\ T \in 0 .. T /\ PageSize \in Nat \ {0}
  BY Sizes
<1>2. NumberAt(addr, T) = PageOf(addr)
  BY Digits
<1>3. Mapped(r, addr) <=> \A d \in 1 .. T : w[d] # 0
  BY SearchResult DEF Mapped
<1>4. ASSUME Mapped(r, addr)
      PROVE  \E n \in Level(r, T) : n.pageNum = PageOf(addr) /\ n.pAddr = w[T]
  BY <1>1, <1>2, <1>3, <1>4, WalkNode
<1>5. ASSUME NEW n \in Level(r, T), n.pageNum = PageOf(addr)
      PROVE  Mapped(r, addr)
  BY <1>1, <1>2, <1>3, <1>5, NodeWalk
<1>6. ASSUME Mapped(r, addr)
      PROVE  Location(r, addr) = w[T] * PageSize + (addr % PageSize)
  <2>1. Search(r, addr).depth = T - 1 /\ Search(r, addr).addr = w[T]
    BY <1>6, SearchResult DEF Mapped
  <2>2. Neighbors(T - 1) = PageSize
    BY <1>1 DEF PagesFit, Neighbors
  <2> QED
    BY <2>1, <2>2 DEF Location, Convert
<1> QED
  BY <1>4, <1>5, <1>6

\* What is held at an address is the word in the frame of its page, or zero.
LEMMA HeldWord ==
  ASSUME NEW r \in Rams, NEW s, ZeroSwap(s), NEW addr \in Nat,
         addr < VirtualMemorySize, PagesFit,
         \A n \in Level(r, TablesDepth) : n.pAddr \in Frame
  PROVE  /\ \A n \in Level(r, TablesDepth) : n.pageNum = PageOf(addr) =>
              HeldIn(r, s, addr) = r[n.pAddr * PageSize + (addr % PageSize)]
         /\ (\A n \in Level(r, TablesDepth) : n.pageNum # PageOf(addr)) =>
              HeldIn(r, s, addr) = 0
<1>1. ASSUME NEW n \in Level(r, TablesDepth), n.pageNum = PageOf(addr)
      PROVE  HeldIn(r, s, addr) = r[n.pAddr * PageSize + (addr % PageSize)]
  <2>1. Mapped(r, addr)
    BY <1>1, MappedPage
  <2>2. PICK m \in Level(r, TablesDepth) :
          /\ m.pageNum = PageOf(addr)
          /\ Location(r, addr) = m.pAddr * PageSize + (addr % PageSize)
    BY <2>1, MappedPage
  <2>3. m = n
    BY <1>1, <2>2, SameNumber, Sizes
  <2>4. Location(r, addr) < RamSize
    <3>1. n.pAddr \in Frame /\ addr % PageSize \in 0 .. PageSize - 1
      BY Sizes, Division
    <3>2. n.pAddr * PageSize + (addr % PageSize) \in 0 .. RamSize - 1
      BY <3>1, Frames
    <3> QED
      BY <2>2, <2>3, <3>2, Sizes
  <2>5. HeldIn(r, s, addr) = r[Location(r, addr)]
    BY <2>1, <2>4 DEF HeldIn, Mapped
  <2> QED
    BY <2>2, <2>3, <2>5
<1>2. ASSUME \A n \in Level(r, TablesDepth) : n.pageNum # PageOf(addr)
      PROVE  HeldIn(r, s, addr) = 0
  <2>1. Search(r, addr).missing
    BY <1>2, MappedPage DEF Mapped
  <2>2. addr % PageSize \in 0 .. PageSize - 1
    BY Sizes, Division
  <2>3. PageOf(addr) \in DOMAIN s => s[PageOf(addr)][addr % PageSize] = 0
    BY <2>2 DEF ZeroSwap, ZeroPage
  <2> QED
    BY <2>1, <2>3 DEF HeldIn
<1> QED
  BY <1>1, <1>2

LEMMA SearchTyped ==
  ASSUME NEW r \in Rams, NEW addr \in Nat
  PROVE  Search(r, addr).addr \in Nat /\ Search(r, addr).depth \in Nat
<1> DEFINE k == Search(r, addr).depth
           w == Walk(r, addr)
<1>1. TablesDepth \in Nat \ {0} /\ TablesDepth \in 0 .. TablesDepth
  BY Sizes
<1>2. CASE Search(r, addr).missing
  <2>1. /\ k \in 0 .. TablesDepth - 1
        /\ \A d \in 1 .. k : w[d] # 0
        /\ Search(r, addr).addr = Convert(Path(addr)[k], w[k], k)
    BY <1>2, SearchResult
  <2> HIDE DEF k
  <2>2. k \in 0 .. TablesDepth /\ k \in Nat
    BY <1>1, <2>1
  <2>3. PICK n \in Level(r, k) : n.pAddr = w[k]
    BY <2>1, <2>2, WalkNode
  <2>4. n.pAddr \in Nat
    BY <2>2, TreeLevels, FrameRange DEF NodeAt
  <2>5. Path(addr)[k] \in Nat /\ Neighbors(k) \in Nat
    BY <2>1, <2>2, PathType, NeighborsType
  <2> QED
    BY <2>1, <2>2, <2>3, <2>4, <2>5 DEF Convert, k
<1>3. CASE ~Search(r, addr).missing
  <2>1. /\ k = TablesDepth - 1
        /\ Search(r, addr).addr = w[TablesDepth]
        /\ \A d \in 1 .. TablesDepth : w[d] # 0
    BY <1>3, SearchResult
  <2>2. PICK n \in Level(r, TablesDepth) : n.pAddr = w[TablesDepth]
    BY <1>1, <2>1, WalkNode
  <2>3. n.pAddr \in Nat
    BY <1>1, TreeLevels, FrameRange DEF NodeAt
  <2> QED
    BY <1>1, <2>1, <2>2, <2>3
<1> QED
  BY <1>2, <1>3

\* The entry that search finds missing is a word of the table of a node.
LEMMA MissingEntry ==
  ASSUME NEW r \in Rams, NEW addr \in Nat, Search(r, addr).missing,
         Search(r, addr).addr < RamSize
  PROVE  LET k == Search(r, addr).depth
             i == Path(addr)[k] IN
         /\ k \in 0 .. TablesDepth - 1
         /\ i \in 0 .. Neighbors(k) - 1
         /\ \E z \in Level(r, k) :
              /\ z.pAddr = Walk(r, addr)[k] /\ z.pAddr \in Frame
              /\ Search(r, addr).addr = z.pAddr * PageSize + i
              /\ r[z.pAddr * PageSize + i] = 0
<1> DEFINE k == Search(r, addr).depth
           i == Path(addr)[k]
           w == Walk(r, addr)
<1>1. /\ k \in 0 .. TablesDepth - 1
      /\ \A d \in 1 .. k : w[d] # 0
      /\ w[k + 1] = 0
      /\ Search(r, addr).addr = Convert(i, w[k], k)
  BY SearchResult
<1> HIDE DEF k
<1>2. i \in 0 .. Neighbors(k) - 1 /\ k \in Nat /\ k \in 0 .. TablesDepth
  BY <1>1, PathType, Sizes
<1>3. PICK z \in Level(r, k) : z.pAddr = w[k]
  BY <1>1, <1>2, WalkNode
<1>4. z.pAddr \in Frame /\ Convert(i, z.pAddr, k) = z.pAddr * PageSize + i
  <2>1. NodeAt(z, k)
    BY <1>2, TreeLevels
  <2>2. z.pAddr \in Frame
    <3> HIDE DEF i, w
    <3> QED
      BY <1>1, <1>2, <1>3, <2>1, EntryInRam
  <2> QED
    BY <1>2, <2>1, <2>2, Entry
<1>5. r[Convert(i, w[k], k)] = w[k + 1]
  <2>1. w[k + 1] = LET entry == Convert(i, w[k], k) IN
                     IF entry < RamSize THEN r[entry] ELSE 0
    BY <1>1, WalkDef, Zenon
  <2>2. Convert(i, w[k], k) < RamSize
    BY <1>1
  <2> HIDE DEF i, w
  <2> QED
    BY <2>1, <2>2
<1> HIDE DEF i, w
<1> QED
  BY <1>1, <1>2, <1>3, <1>4, <1>5 DEF k, i, w

\* In a tree that is in the RAM so is a missing entry.
LEMMA MissingInRam ==
  ASSUME NEW r \in Rams, Separate(r), NEW addr \in Nat, Search(r, addr).missing
  PROVE  Search(r, addr).addr < RamSize
<1> DEFINE k == Search(r, addr).depth
           i == Path(addr)[k]
           w == Walk(r, addr)
<1>1. /\ k \in 0 .. TablesDepth - 1
      /\ \A d \in 1 .. k : w[d] # 0
      /\ Search(r, addr).addr = Convert(i, w[k], k)
  BY SearchResult
<1> HIDE DEF k
<1>2. i \in 0 .. Neighbors(k) - 1 /\ k \in Nat /\ k \in 0 .. TablesDepth
  BY <1>1, PathType, Sizes
<1>3. PICK z \in Level(r, k) : z.pAddr = w[k]
  BY <1>1, <1>2, WalkNode
<1>4. NodeAt(z, k) /\ z.pAddr \in Frame
  BY <1>2, TreeLevels, FrameNodes
<1>5. Convert(i, z.pAddr, k) < RamSize
  BY <1>2, <1>4, EntryInRam
<1> QED
  BY <1>1, <1>3, <1>5

-----------------------------------------------------------------------------
(***************************************************************************)
(* Linking a frame at a missing entry.                                     *)
(***************************************************************************)
\* The RAM q is r with a clear frame f linked at the entry i of the node z, where
\* nothing was linked.
Relinking(r, q, k, z, i, f) ==
  /\ r \in Rams /\ q \in Rams /\ Separate(r)
  /\ k \in 0 .. TablesDepth - 1 /\ z \in Level(r, k) /\ i \in 0 .. Neighbors(k) - 1
  /\ r[z.pAddr * PageSize + i] = 0
  /\ f \in Frame \ {0} /\ IsClear(r, f) /\ f # z.pAddr
  /\ Relinks(r, q, z.pAddr * PageSize + i, f)

\* The father of a node is the address of the entry that names it.
LEMMA Fathers ==
  ASSUME NEW r \in Rams, NEW x \in Tree(r), x.pAddr # 0
  PROVE  \E d \in 0 .. TablesDepth - 1 : \E w \in Level(r, d) :
           /\ w \in Tree(r)
           /\ w.depth = d
           /\ x \in Level(r, d + 1)
           /\ x.father \in 0 .. RamSize - 1
           /\ x.father \div PageSize = w.pAddr
           /\ r[x.father] = x.pAddr
<1>1. PICK c \in 0 .. TablesDepth : x \in Level(r, c)
  BY TreeLevels
<1>2. c # 0
  BY <1>1, TreeLevels DEF Root
<1> DEFINE d == c - 1
<1>3. d \in 0 .. TablesDepth - 1 /\ d + 1 = c /\ d \in 0 .. TablesDepth
  BY <1>2, Sizes
<1> HIDE DEF d
<1>4. PICK w \in Level(r, d) : \E i \in 0 .. Neighbors(d) - 1 :
        /\ w.pAddr \in Frame
        /\ x.father = w.pAddr * PageSize + i
        /\ x.pAddr = r[w.pAddr * PageSize + i]
  BY <1>1, <1>3, Ascend
<1>5. w \in Tree(r) /\ w.depth = d
  BY <1>3, TreeLevels
<1>6. /\ x.father \in 0 .. RamSize - 1
      /\ x.father \div PageSize = w.pAddr
  BY <1>3, <1>4, Descend
<1> QED
  BY <1>1, <1>3, <1>4, <1>5, <1>6

\* Relinking changes words of tables only, and leaves the frame clear.
LEMMA RelinkCells ==
  ASSUME NEW r, NEW q, NEW k, NEW z, NEW i, NEW f, Relinking(r, q, k, z, i, f)
  PROVE  /\ \A a \in 0 .. RamSize - 1 :
              (\A w \in Tree(r) : w.depth < TablesDepth => w.pAddr # a \div PageSize)
                => q[a] = r[a]
         /\ IsClear(q, f)
<1> USE DEF Relinking
<1>1. /\ z.pAddr * PageSize + i \in 0 .. RamSize - 1
      /\ (z.pAddr * PageSize + i) \div PageSize = z.pAddr
  BY Descend, FrameNodes, Sizes
<1>2. z \in Tree(r) /\ z.depth < TablesDepth
  BY TreeLevels
<1>3. ASSUME NEW a \in 0 .. RamSize - 1,
             \A w \in Tree(r) : w.depth < TablesDepth => w.pAddr # a \div PageSize
      PROVE  q[a] = r[a]
  <2>1. a # z.pAddr * PageSize + i
    BY <1>1, <1>2, <1>3
  <2>2. ASSUME NEW x \in Tree(r), x.pAddr = f, x.father = a
        PROVE  FALSE
    <3>1. PICK d \in 0 .. TablesDepth - 1 : \E w \in Level(r, d) :
            w \in Tree(r) /\ w.depth = d /\ x.father \div PageSize = w.pAddr
      BY <2>2, Fathers
    <3>2. d < TablesDepth
      BY Sizes
    <3> QED
      BY <1>3, <2>2, <3>1, <3>2
  <2> QED
    BY <2>1, <2>2 DEF Relinks
<1>4. IsClear(q, f)
  <2>1. \A a \in 0 .. RamSize - 1 : a \div PageSize = f => r[a] = 0 /\ q[a] = 0
    BY <1>1, ClearWords DEF Relinks
  <2> QED
    BY <2>1, ClearWords
<1> QED
  BY <1>3, <1>4

\* The tree after relinking has the same nodes but for that of the frame.
LEMMA RelinkTree ==
  ASSUME NEW r, NEW q, NEW k, NEW z, NEW i, NEW f, Relinking(r, q, k, z, i, f)
  PROVE  \E y : /\ y.pAddr = f
                /\ Tree(q) = { x \in Tree(r) : x.pAddr # f } \cup {y}
                /\ \A d \in 0 .. TablesDepth :
                     /\ \A x \in Level(r, d) : x.pAddr # f => x \in Level(q, d)
                     /\ \A x \in Level(q, d) : x = y \/ (x \in Level(r, d) /\ x.pAddr # f)
<1> USE DEF Relinking
<1> DEFINE y == Child(q, z, i)
<1>1. \A d \in 0 .. TablesDepth :
        Level(q, d) = { x \in Level(r, d) : x.pAddr # f }
                        \cup (IF d = k + 1 THEN {y} ELSE {})
  BY RelinkLevels
<1>2. y.pAddr = f
  <2>1. k \in 0 .. TablesDepth /\ k \in Nat
    BY Sizes
  <2>2. NodeAt(z, k) /\ z.depth = k /\ z.pAddr \in Frame
    BY <2>1, TreeLevels, FrameNodes
  <2>3. Convert(i, z.pAddr, k) = z.pAddr * PageSize + i
    BY <2>1, <2>2, Entry
  <2> QED
    BY <2>2, <2>3 DEF Child, Relinks
<1>3. k + 1 \in 0 .. TablesDepth
  BY Sizes
<1> HIDE DEF y
<1>4. Tree(q) = { x \in Tree(r) : x.pAddr # f } \cup {y}
  <2>1. \A x : x \in Tree(q) <=> \E d \in 0 .. TablesDepth : x \in Level(q, d)
    BY TreeLevels
  <2>2. \A x : x \in Tree(r) <=> \E d \in 0 .. TablesDepth : x \in Level(r, d)
    BY TreeLevels
  <2> QED
    BY <1>1, <1>3, <2>1, <2>2
<1>5. \A d \in 0 .. TablesDepth :
        /\ \A x \in Level(r, d) : x.pAddr # f => x \in Level(q, d)
        /\ \A x \in Level(q, d) : x = y \/ (x \in Level(r, d) /\ x.pAddr # f)
  <2> SUFFICES ASSUME NEW d \in 0 .. TablesDepth
               PROVE  /\ \A x \in Level(r, d) : x.pAddr # f => x \in Level(q, d)
                      /\ \A x \in Level(q, d) : x = y \/ (x \in Level(r, d) /\ x.pAddr # f)
    OBVIOUS
  <2>1. \/ Level(q, d) = { x \in Level(r, d) : x.pAddr # f } \cup {y}
        \/ Level(q, d) = { x \in Level(r, d) : x.pAddr # f }
    BY <1>1
  <2>2. ASSUME NEW x \in Level(r, d), x.pAddr # f
        PROVE  x \in Level(q, d)
    BY <2>1, <2>2
  <2>3. ASSUME NEW x \in Level(q, d)
        PROVE  x = y \/ (x \in Level(r, d) /\ x.pAddr # f)
    BY <2>1
  <2> QED
    BY <2>2, <2>3
<1> QED
  BY <1>2, <1>4, <1>5

\* Relinking changes no word that the memory holds: if the frame was a page, then
\* one of zeros, and it is held as zeros without the frame as well.
LEMMA RelinkHeld ==
  ASSUME NEW r, NEW q, NEW k, NEW z, NEW i, NEW f, Relinking(r, q, k, z, i, f),
         NEW s, ZeroSwap(s), NEW t, ZeroSwap(t), PagesFit,
         NEW addr \in Nat, addr < VirtualMemorySize
  PROVE  HeldIn(q, t, addr) = HeldIn(r, s, addr)
<1> DEFINE T == TablesDepth
           o == addr % PageSize
           at(n) == n.pAddr * PageSize + o
           page(n) == n.pageNum = PageOf(addr)
<1>1. r \in Rams /\ q \in Rams /\ f \in Frame
  BY DEF Relinking
<1>2. o \in 0 .. PageSize - 1 /\ T \in 0 .. T
  BY Sizes, Division
<1>3. PICK y : /\ y.pAddr = f
               /\ \A x \in Level(r, T) : x.pAddr # f => x \in Level(q, T)
               /\ \A x \in Level(q, T) : x = y \/ (x \in Level(r, T) /\ x.pAddr # f)
  BY <1>2, RelinkTree
<1>4. r[f * PageSize + o] = 0 /\ q[f * PageSize + o] = 0
  <2>1. IsClear(r, f) /\ IsClear(q, f)
    BY RelinkCells DEF Relinking
  <2> QED
    <3>1. /\ f * PageSize + o \in 0 .. RamSize - 1
          /\ (f * PageSize + o) \div PageSize = f
      BY <1>1, <1>2, Frames
    <3> QED
      BY <1>1, <2>1, <3>1, ClearWords
<1>5. ASSUME NEW n \in Level(r, T), n.pAddr # f
      PROVE  q[at(n)] = r[at(n)]
  <2>1. n.pAddr \in Frame /\ n \in Tree(r) /\ n.depth = T
    BY <1>1, <1>2, TreeLevels, FrameNodes DEF Relinking
  <2>2. at(n) \in 0 .. RamSize - 1 /\ at(n) \div PageSize = n.pAddr
    BY <1>2, <2>1, Frames
  <2>3. \A w \in Tree(r) : w.depth < T => w.pAddr # n.pAddr
    <3>1. T \in Nat
      BY Sizes
    <3> QED
      BY <2>1, <3>1 DEF Relinking, Separate
  <2> HIDE DEF at
  <2> QED
    BY <2>2, <2>3, RelinkCells
<1>10. /\ \A n \in Level(r, T) : n.pAddr \in Frame
       /\ \A n \in Level(q, T) : n.pAddr \in Frame
  BY <1>1, <1>2, <1>3, FrameNodes DEF Relinking
<1>6. /\ \A n \in Level(r, T) : page(n) => HeldIn(r, s, addr) = r[at(n)]
      /\ (\A n \in Level(r, T) : ~page(n)) => HeldIn(r, s, addr) = 0
  BY <1>1, <1>10, HeldWord
<1>7. /\ \A n \in Level(q, T) : page(n) => HeldIn(q, t, addr) = q[at(n)]
      /\ (\A n \in Level(q, T) : ~page(n)) => HeldIn(q, t, addr) = 0
  BY <1>1, <1>10, HeldWord
<1>8. CASE \E n \in Level(r, T) : page(n) /\ n.pAddr # f
  BY <1>3, <1>5, <1>6, <1>7, <1>8
<1>9. CASE \A n \in Level(r, T) : page(n) => n.pAddr = f
  <2>1. HeldIn(r, s, addr) = 0
    BY <1>4, <1>6, <1>9
  <2>2. HeldIn(q, t, addr) = 0
    BY <1>3, <1>4, <1>7, <1>9
  <2> QED
    BY <2>1, <2>2
<1> QED
  BY <1>8, <1>9

\* WellFormed, of the RAM r.
WellFormedIn(r) ==
  /\ Cardinality(Tree(r)) <= NumFrames
  /\ { x.pAddr : x \in Tree(r) } = 0 .. Cardinality(Tree(r)) - 1
  /\ \A frame \in Cardinality(Tree(r)) .. NumFrames - 1 : IsClear(r, frame)

LEMMA TreeSizes ==
  ASSUME NEW r \in Rams, WellFormedIn(r)
  PROVE  /\ Cardinality(Tree(r)) \in Nat \ {0}
         /\ Cardinality(Tree(r)) <= NumFrames
         /\ \A x \in Tree(r) : x.pAddr \in Frame /\ x.pAddr < Cardinality(Tree(r))
         /\ Separate(r)
<1> DEFINE size == Cardinality(Tree(r))
<1>1. IsFiniteSet(Tree(r)) /\ size \in Nat
  BY FiniteTree, FS_CardinalityType
<1>3. \A x \in Tree(r) : x.pAddr \in 0 .. size - 1
  BY DEF WellFormedIn
<1>4. \A g \in 0 .. size - 1 : \E x \in Tree(r) : x.pAddr = g
  BY DEF WellFormedIn
<1>5. Root \in Tree(r)
  BY TreeLevels
<1>6. Separate(r)
  BY CountedIsSeparate DEF WellFormedIn
<1>2. \A x \in Tree(r) : x.pAddr \in Frame
  BY <1>6 DEF Separate
<1>8. size <= NumFrames
  BY DEF WellFormedIn
<1> HIDE DEF size
<1>7. size # 0
  BY <1>1, <1>3, <1>5
<1>9. \A x \in Tree(r) : x.pAddr < size
  BY <1>1, <1>3
<1> QED
  BY <1>1, <1>2, <1>6, <1>7, <1>8, <1>9 DEF size

\* Relinking a frame of the tree, or the first one that is not in it, leaves the
\* tree well formed.
LEMMA RelinkWellFormed ==
  ASSUME NEW r, NEW q, NEW k, NEW z, NEW i, NEW f, Relinking(r, q, k, z, i, f),
         WellFormedIn(r), f <= Cardinality(Tree(r))
  PROVE  WellFormedIn(q)
<1> DEFINE size == Cardinality(Tree(r))
           rest == { x \in Tree(r) : x.pAddr # f }
<1>1. r \in Rams /\ q \in Rams /\ f \in Frame \ {0}
  BY DEF Relinking
<1>2. /\ IsFiniteSet(Tree(r)) /\ size \in Nat \ {0} /\ size <= NumFrames
      /\ \A x, y \in Tree(r) : x.pAddr = y.pAddr => x = y
      /\ \A x \in Tree(r) : x.pAddr \in 0 .. size - 1
      /\ \A g \in 0 .. size - 1 : \E x \in Tree(r) : x.pAddr = g
      /\ \A g \in size .. NumFrames - 1 : IsClear(r, g)
  <2>1. \A x \in Tree(r) : x.pAddr \in 0 .. size - 1
    BY DEF WellFormedIn
  <2>2. \A g \in 0 .. size - 1 : \E x \in Tree(r) : x.pAddr = g
    BY DEF WellFormedIn
  <2> QED
    BY <1>1, <2>1, <2>2, FiniteTree, TreeSizes DEF Separate, WellFormedIn
<1>3. PICK y : y.pAddr = f /\ Tree(q) = rest \cup {y}
  BY RelinkTree
<1>4. f \in Nat /\ f <= size
  BY <1>1, Frames
<1> HIDE DEF size
<1>5. IsFiniteSet(rest) /\ y \notin rest
  BY <1>2, <1>3, FS_Subset
<1>6. Cardinality(Tree(q)) = Cardinality(rest) + 1
  BY <1>3, <1>5, FS_AddElement
<1>7. ASSUME NEW g \in size .. NumFrames - 1, g # f
      PROVE  IsClear(q, g)
  <2>1. g \in Frame /\ \A x \in Tree(r) : x.pAddr # g
    <3>1. g \in Frame
      BY <1>2, Frames, Sizes
    <3>2. g \notin 0 .. size - 1
      BY <1>2, Sizes
    <3> QED
      BY <1>2, <3>1, <3>2
  <2>2. \A a \in 0 .. RamSize - 1 : a \div PageSize = g => r[a] = 0
    BY <1>1, <1>2, <2>1, ClearWords
  <2>3. \A a \in 0 .. RamSize - 1 : a \div PageSize = g => q[a] = 0
    BY <2>1, <2>2, RelinkCells
  <2> QED
    BY <1>1, <2>1, <2>3, ClearWords
<1>8. CASE f = size
  <2>1. rest = Tree(r)
    BY <1>2, <1>8
  <2>2. Cardinality(Tree(q)) = size + 1
    BY <1>6, <2>1 DEF size
  <2>3. \A x \in Tree(q) : x.pAddr \in 0 .. size
    BY <1>2, <1>3, <1>4, <1>8
  <2>4. \A g \in 0 .. size : \E x \in Tree(q) : x.pAddr = g
    BY <1>2, <1>3, <1>8, <2>1
  <2>5. { x.pAddr : x \in Tree(q) } = 0 .. (size + 1) - 1
    <3>1. (size + 1) - 1 = size
      BY <1>2
    <3> QED
      BY <2>3, <2>4, <3>1
  <2>6. \A g \in size + 1 .. NumFrames - 1 : IsClear(q, g)
    <3>1. \A g \in size + 1 .. NumFrames - 1 : g \in size .. NumFrames - 1 /\ g # f
      BY <1>2, <1>8, Sizes
    <3> QED
      BY <1>7, <3>1
  <2>7. size + 1 <= NumFrames
    BY <1>1, <1>2, <1>8, FrameRange
  <2> QED
    BY <2>2, <2>5, <2>6, <2>7 DEF WellFormedIn
<1>9. CASE f # size
  <2>1. f \in 0 .. size - 1
    BY <1>2, <1>4, <1>9
  <2>2. PICK x \in Tree(r) : x.pAddr = f
    BY <1>2, <2>1
  <2>3. rest = Tree(r) \ {x}
    BY <1>2, <2>2
  <2>4. Cardinality(rest) = size - 1
    BY <1>2, <2>2, <2>3, FS_RemoveElement DEF size
  <2>5. Cardinality(Tree(q)) = size
    BY <1>2, <1>6, <2>4
  <2>6. \A v \in Tree(q) : v.pAddr \in 0 .. size - 1
    BY <1>2, <1>3, <2>1
  <2>7. \A g \in 0 .. size - 1 : \E v \in Tree(q) : v.pAddr = g
    BY <1>2, <1>3
  <2>8. { v.pAddr : v \in Tree(q) } = 0 .. size - 1
    BY <2>6, <2>7
  <2>9. \A g \in size .. NumFrames - 1 : IsClear(q, g)
    <3>1. \A g \in size .. NumFrames - 1 : g # f
      BY <1>2, <2>1, Sizes
    <3> QED
      BY <1>7, <3>1
  <2> QED
    BY <1>2, <2>5, <2>8, <2>9 DEF WellFormedIn
<1> QED
  BY <1>8, <1>9

\* Relinking a frame at the entry that search found missing takes the search of
\* the same address further down.
LEMMA RelinkDeeper ==
  ASSUME NEW r, NEW q, NEW f, NEW z, NEW addr \in Nat, Search(r, addr).missing,
         Relinking(r, q, Search(r, addr).depth, z, Path(addr)[Search(r, addr).depth], f),
         z.pAddr = Walk(r, addr)[Search(r, addr).depth]
  PROVE  Mapped(q, addr) \/ Search(q, addr).depth > Search(r, addr).depth
<1> DEFINE k == Search(r, addr).depth
           i == Path(addr)[k]
           v == Walk(r, addr)
           w == Walk(q, addr)
           e == z.pAddr * PageSize + i
<1>1. /\ r \in Rams /\ q \in Rams /\ Separate(r)
      /\ k \in 0 .. TablesDepth - 1 /\ z \in Level(r, k) /\ i \in 0 .. Neighbors(k) - 1
      /\ f \in Frame \ {0} /\ IsClear(r, f) /\ f # z.pAddr
      /\ Relinks(r, q, e, f)
  BY DEF Relinking
<1>2. z.pAddr = v[k] /\ \A d \in 1 .. k : v[d] # 0
  BY SearchResult
<1>3. e \div PageSize = z.pAddr /\ e \in 0 .. RamSize - 1
  BY <1>1, Descend, FrameNodes, Sizes
<1>4. k \in Nat /\ k \in 0 .. TablesDepth /\ TablesDepth \in Nat
  BY <1>1, Sizes
<1> HIDE DEF k
<1> DEFINE S == { d \in Nat : d <= k => w[d] = v[d] }
<1>5. 0 \in S
  BY WalkDef
<1>6. ASSUME NEW d \in S
      PROVE  d + 1 \in S
  <2> SUFFICES ASSUME d + 1 <= k
               PROVE  w[d + 1] = v[d + 1]
    OBVIOUS
  <2>1. /\ d \in Nat /\ d < k /\ d <= k /\ d \in 0 .. TablesDepth - 1 /\ d \in 0 .. TablesDepth
        /\ w[d] = v[d]
    BY <1>4
  <2>2. \A j \in 1 .. d : v[j] # 0
    BY <1>2, <1>4, <2>1
  <2>3. PICK n \in Level(r, d) : n.pAddr = v[d]
    BY <1>1, <2>1, <2>2, WalkNode
  <2> DEFINE cell == n.pAddr * PageSize + Path(addr)[d]
  <2>4. Path(addr)[d] \in 0 .. Neighbors(d) - 1
    BY <2>1, PathType
  <2>12. NodeAt(n, d) /\ n.pAddr \in Frame
    BY <1>1, <2>1, TreeLevels, FrameNodes
  <2>5. /\ Convert(Path(addr)[d], n.pAddr, d) = cell
        /\ Convert(Path(addr)[d], n.pAddr, d) < RamSize
    BY <2>1, <2>4, <2>12, Entry, EntryInRam
  <2>6. cell \in 0 .. RamSize - 1 /\ cell \div PageSize = n.pAddr
    BY <1>1, <2>1, <2>4, <2>12, Descend
  <2>7. v[d + 1] = r[cell] /\ w[d + 1] = q[cell]
    BY <1>1, <2>1, <2>3, <2>5, StepOfWalk
  <2> HIDE DEF cell
  <2>8. cell # e
    <3> SUFFICES ASSUME cell = e
                 PROVE  FALSE
      OBVIOUS
    <3>1. n.pAddr = z.pAddr
      BY <1>3, <2>6
    <3>2. n \in Tree(r) /\ z \in Tree(r) /\ n.depth = d /\ z.depth = k
      BY <1>1, <1>4, <2>1, TreeLevels
    <3> QED
      BY <1>1, <2>1, <1>4, <3>1, <3>2 DEF Separate
  <2>9. v[d + 1] # f
    <3> SUFFICES ASSUME v[d + 1] = f
                 PROVE  FALSE
      OBVIOUS
    <3>1. d + 1 # k
      BY <1>1, <1>2
    <3>2. d + 1 \in 0 .. TablesDepth - 1 /\ d + 1 \in 0 .. TablesDepth /\ (d + 1) + 1 \in 1 .. k
      BY <1>4, <2>1, <3>1
    <3>3. \A j \in 1 .. d + 1 : v[j] # 0
      BY <1>2, <1>4, <2>1
    <3>4. PICK m \in Level(r, d + 1) : m.pAddr = f
      BY <1>1, <3>2, <3>3, WalkNode
    <3>5. Path(addr)[d + 1] \in 0 .. Neighbors(d + 1) - 1
      BY <3>2, PathType
    <3>10. NodeAt(m, d + 1) /\ m.pAddr \in Frame
      BY <1>1, <3>2, TreeLevels, FrameNodes
    <3>6. /\ Convert(Path(addr)[d + 1], m.pAddr, d + 1) = f * PageSize + Path(addr)[d + 1]
          /\ Convert(Path(addr)[d + 1], m.pAddr, d + 1) < RamSize
      BY <3>2, <3>4, <3>5, <3>10, Entry, EntryInRam
    <3>7. /\ f * PageSize + Path(addr)[d + 1] \in 0 .. RamSize - 1
          /\ (f * PageSize + Path(addr)[d + 1]) \div PageSize = f
      BY <1>1, <3>2, <3>4, <3>5, <3>10, Descend
    <3>8. r[f * PageSize + Path(addr)[d + 1]] = 0
      BY <1>1, <3>7, ClearWords
    <3>9. v[(d + 1) + 1] = r[Convert(Path(addr)[d + 1], v[d + 1], d + 1)]
      BY <3>2, <3>4, <3>6, StepOfWalk
    <3> QED
      BY <1>2, <3>2, <3>4, <3>6, <3>8, <3>9
  <2>10. ~ \E x \in Tree(r) : x.pAddr = f /\ x.father = cell
    <3> SUFFICES ASSUME NEW x \in Tree(r), x.pAddr = f, x.father = cell
                 PROVE  FALSE
      OBVIOUS
    <3>1. r[x.father] = x.pAddr
      BY <1>1, Fathers
    <3> QED
      BY <2>7, <2>9, <3>1
  <2>11. q[cell] = r[cell]
    BY <1>1, <2>6, <2>8, <2>10 DEF Relinks
  <2> QED
    BY <2>7, <2>11
<1>7. \A d \in 0 .. k : w[d] = v[d]
  <2> HIDE DEF S
  <2>1. S = Nat
    BY <1>5, <1>6, SetInduction DEF S
  <2> QED
    BY <1>4, <2>1 DEF S
<1>8. w[k + 1] = f
  <2>1. w[k] = v[k]
    BY <1>4, <1>7
  <2>4. NodeAt(z, k) /\ z.pAddr \in Frame
    BY <1>1, <1>4, TreeLevels, FrameNodes
  <2>2. Convert(i, z.pAddr, k) = e /\ Convert(i, z.pAddr, k) < RamSize
    BY <1>1, <1>4, <2>4, Entry, EntryInRam
  <2>3. w[k + 1] = q[Convert(i, w[k], k)]
    BY <1>1, <1>2, <2>1, <2>2, StepOfWalk
  <2> QED
    BY <1>1, <1>2, <2>1, <2>2, <2>3 DEF Relinks
<1>9. \A d \in 1 .. k + 1 : w[d] # 0
  <2>1. \A d \in 1 .. k + 1 : d \in 1 .. k \/ d = k + 1
    BY <1>4
  <2>2. \A d \in 1 .. k : d \in 0 .. k
    BY <1>4
  <2> HIDE DEF v, w
  <2> QED
    BY <1>1, <1>2, <1>7, <1>8, <2>1, <2>2
<1>10. ASSUME Search(q, addr).missing
       PROVE  Search(q, addr).depth > k
  <2> DEFINE c == Search(q, addr).depth
  <2>1. c \in 0 .. TablesDepth - 1 /\ w[c + 1] = 0
    BY <1>10, SearchResult
  <2> HIDE DEF c, w
  <2>2. c + 1 \notin 1 .. k + 1
    BY <1>9, <2>1
  <2>3. c \in Nat
    BY <1>4, <2>1
  <2>4. c > k
    BY <1>4, <2>2, <2>3
  <2> QED
    BY <2>4 DEF c
<1> QED
  BY <1>10 DEF Mapped, k

-----------------------------------------------------------------------------
(***************************************************************************)
(* Trees that are the same, and the tree after VMinitialize.               *)
(***************************************************************************)
\* The tree depends on the words of its tables only.
LEMMA SameTables ==
  ASSUME NEW r \in Rams, NEW q \in Rams,
         \A w \in Tree(r) : w.depth < TablesDepth /\ w.pAddr \in Frame =>
           \A i \in 0 .. PageSize - 1 :
             q[w.pAddr * PageSize + i] = r[w.pAddr * PageSize + i]
  PROVE  /\ \A d \in 0 .. TablesDepth : Level(q, d) = Level(r, d)
         /\ Tree(q) = Tree(r)
<1> DEFINE S == { d \in Nat : d <= TablesDepth => Level(q, d) = Level(r, d) }
<1>1. 0 \in S
  BY TreeLevels
<1>2. ASSUME NEW d \in S
      PROVE  d + 1 \in S
  <2> SUFFICES ASSUME d + 1 <= TablesDepth
               PROVE  Level(q, d + 1) = Level(r, d + 1)
    OBVIOUS
  <2>1. d \in 0 .. TablesDepth - 1 /\ d \in Nat /\ d \in 0 .. TablesDepth /\ d < TablesDepth
    BY Sizes
  <2>2. Level(q, d) = Level(r, d)
    BY <2>1
  <2>3. ASSUME NEW w \in Level(r, d), w.pAddr \in Frame, NEW i \in 0 .. Neighbors(d) - 1
        PROVE  /\ Child(q, w, i) = Child(r, w, i)
               /\ q[w.pAddr * PageSize + i] = r[w.pAddr * PageSize + i]
    <3>1. NodeAt(w, d) /\ w.depth = d /\ w \in Tree(r)
      BY <2>1, TreeLevels
    <3>2. Convert(i, w.pAddr, w.depth) = w.pAddr * PageSize + i /\ i \in 0 .. PageSize - 1
      BY <2>1, <2>3, <3>1, Entry
    <3>3. q[w.pAddr * PageSize + i] = r[w.pAddr * PageSize + i]
      BY <2>1, <2>3, <3>1, <3>2
    <3> QED
      BY <3>2, <3>3 DEF Child
  <2>4. ASSUME NEW x \in Level(r, d + 1)
        PROVE  x \in Level(q, d + 1)
    <3>1. PICK w \in Level(r, d) : \E i \in 0 .. Neighbors(d) - 1 :
            /\ w.pAddr \in Frame
            /\ x = Child(r, w, i) /\ x.pAddr = r[w.pAddr * PageSize + i] /\ x.pAddr # 0
      BY <2>1, Ascend
    <3>2. PICK i \in 0 .. Neighbors(d) - 1 :
            /\ w.pAddr \in Frame
            /\ x = Child(r, w, i) /\ x.pAddr = r[w.pAddr * PageSize + i] /\ x.pAddr # 0
      BY <3>1
    <3> QED
      BY <2>1, <2>2, <2>3, <3>2, Descend
  <2>5. ASSUME NEW x \in Level(q, d + 1)
        PROVE  x \in Level(r, d + 1)
    <3>1. PICK w \in Level(q, d) : \E i \in 0 .. Neighbors(d) - 1 :
            /\ w.pAddr \in Frame
            /\ x = Child(q, w, i) /\ x.pAddr = q[w.pAddr * PageSize + i] /\ x.pAddr # 0
      BY <2>1, Ascend
    <3>2. PICK i \in 0 .. Neighbors(d) - 1 :
            /\ w.pAddr \in Frame
            /\ x = Child(q, w, i) /\ x.pAddr = q[w.pAddr * PageSize + i] /\ x.pAddr # 0
      BY <3>1
    <3> QED
      BY <2>1, <2>2, <2>3, <3>2, Descend
  <2> QED
    BY <2>4, <2>5
<1>3. \A d \in 0 .. TablesDepth : Level(q, d) = Level(r, d)
  <2> HIDE DEF S
  <2>1. S = Nat
    BY <1>1, <1>2, SetInduction DEF S
  <2>2. 0 .. TablesDepth \subseteq Nat /\ \A d \in 0 .. TablesDepth : d <= TablesDepth
    BY Sizes
  <2> QED
    BY <2>1, <2>2 DEF S
<1>4. Tree(q) = Tree(r)
  <2>1. \A x : x \in Tree(q) <=> \E d \in 0 .. TablesDepth : x \in Level(q, d)
    BY TreeLevels
  <2>2. \A x : x \in Tree(r) <=> \E d \in 0 .. TablesDepth : x \in Level(r, d)
    BY TreeLevels
  <2> QED
    BY <1>3, <2>1, <2>2
<1> QED
  BY <1>3, <1>4

\* A RAM whose root table is clear has the root for its tree.
LEMMA ClearRoot ==
  ASSUME NEW r \in Rams,
         \A a \in 0 .. RamSize - 1 : a \notin RootSize .. PageSize - 1 => r[a] = 0
  PROVE  /\ Tree(r) = {Root}
         /\ WellFormedIn(r)
         /\ Level(r, TablesDepth) = {}
<1>0. TablesDepth \in Nat \ {0} /\ RootSize \in 1 .. PageSize /\ PageSize \in Nat \ {0} /\ NumFrames \in Nat \ {0}
  BY Sizes
<1>1. Level(r, 1) = {}
  <2> SUFFICES ASSUME NEW x \in Level(r, 1)
               PROVE  FALSE
    OBVIOUS
  <2>1. 0 \in 0 .. TablesDepth - 1 /\ 0 + 1 = 1
    BY <1>0
  <2>2. x \in Level(r, 0 + 1)
    BY <2>1
  <2>3. PICK w \in Level(r, 0) : \E i \in 0 .. Neighbors(0) - 1 :
          x.pAddr = r[w.pAddr * PageSize + i] /\ x.pAddr # 0
    BY <2>1, <2>2, Ascend
  <2>4. PICK i \in 0 .. Neighbors(0) - 1 : x.pAddr = r[w.pAddr * PageSize + i] /\ x.pAddr # 0
    BY <2>3
  <2>5. w = Root
    BY TreeLevels
  <2>6. w.pAddr * PageSize + i \in 0 .. RamSize - 1
    <3>1. w.pAddr \in Frame
      BY <2>5, FrameRange DEF Root
    <3> QED
      BY <2>1, <3>1, Descend
  <2>7. w.pAddr * PageSize + i = i /\ i \in 0 .. RootSize - 1
    BY <1>0, <2>5 DEF Root, Neighbors
  <2>8. i \notin RootSize .. PageSize - 1
    BY <1>0, <2>7
  <2> QED
    BY <2>4, <2>6, <2>7, <2>8
<1> DEFINE S == { d \in Nat : d + 1 <= TablesDepth => Level(r, d + 1) = {} }
<1>2. 0 \in S
  BY <1>1
<1>3. ASSUME NEW d \in S
      PROVE  d + 1 \in S
  <2> SUFFICES ASSUME (d + 1) + 1 <= TablesDepth, NEW x \in Level(r, (d + 1) + 1)
               PROVE  FALSE
    OBVIOUS
  <2>1. d + 1 \in 0 .. TablesDepth - 1
    BY <1>0
  <2>2. \E w \in Level(r, d + 1) : TRUE
    BY <2>1, Ascend
  <2> QED
    BY <1>0, <2>1, <2>2
<1>4. \A d \in 0 .. TablesDepth : d # 0 => Level(r, d) = {}
  <2> HIDE DEF S
  <2>1. S = Nat
    BY <1>2, <1>3, SetInduction DEF S
  <2>2. \A d \in 0 .. TablesDepth : d # 0 => d - 1 \in Nat /\ (d - 1) + 1 = d /\ d <= TablesDepth
    BY <1>0
  <2> QED
    BY <2>1, <2>2 DEF S
<1>5. Tree(r) = {Root}
  <2>1. \A x : x \in Tree(r) <=> \E d \in 0 .. TablesDepth : x \in Level(r, d)
    BY TreeLevels
  <2>2. Level(r, 0) = {Root} /\ 0 \in 0 .. TablesDepth
    BY <1>0, TreeLevels
  <2> QED
    BY <1>4, <2>1, <2>2
<1>6. Cardinality(Tree(r)) = 1
  BY <1>5, FS_Singleton
<1>7. { x.pAddr : x \in Tree(r) } = 0 .. 1 - 1
  BY <1>5 DEF Root
<1>8. \A g \in 1 .. NumFrames - 1 : IsClear(r, g)
  <2> SUFFICES ASSUME NEW g \in 1 .. NumFrames - 1, NEW i \in 0 .. PageSize - 1
               PROVE  r[g * PageSize + i] = 0
    BY DEF IsClear
  <2>1. g \in Frame
    BY <1>0, FrameRange
  <2>2. g * PageSize + i \in 0 .. RamSize - 1 /\ (g * PageSize + i) \div PageSize = g
    BY <2>1, Frames
  <2>3. \A n \in RootSize .. PageSize - 1 : n \div PageSize = 0
    <3> SUFFICES ASSUME NEW n \in RootSize .. PageSize - 1
                 PROVE  n \div PageSize = 0
      OBVIOUS
    <3>1. n \in 0 .. PageSize - 1 /\ n = 0 * PageSize + n
      BY <1>0
    <3> QED
      BY <1>0, <3>1, DivisionOfSum
  <2> QED
    BY <1>0, <2>2, <2>3
<1>9. WellFormedIn(r)
  BY <1>0, <1>6, <1>7, <1>8 DEF WellFormedIn
<1>10. Level(r, TablesDepth) = {}
  BY <1>0, <1>4
<1> QED
  BY <1>5, <1>9, <1>10

-----------------------------------------------------------------------------
(***************************************************************************)
(* evict: its victims, and what it leaves in the swap file.                *)
(***************************************************************************)
NodeSet(S) == \A x \in S : \E d \in 0 .. TablesDepth : NodeAt(x, d)

LEMMA OrderType ==
  ASSUME NEW x, NEW d \in 0 .. TablesDepth, NodeAt(x, d)
  PROVE  Order(x) \in Nat
<1>1. OffsetWidth * (TablesDepth - d) \in Nat
  BY Sizes, WidthAssumption
<1>2. Pow2[OffsetWidth * (TablesDepth - d)] \in Nat
  BY <1>1, Powers
<1>3. x.pageNum \in Nat /\ x.depth = d
  BY PagesAtDepth, Sizes DEF NodeAt
<1> QED
  BY <1>2, <1>3 DEF Order

\* FirstOf chooses a member: the numbers that it compares have a least one.
LEMMA FirstIsMember ==
  ASSUME NEW S, S # {}, NodeSet(S)
  PROVE  FirstOf(S) \in S
<1> DEFINE N == { Order(x) : x \in S }
<1>1. N \in SUBSET Nat /\ N # {}
  BY OrderType DEF NodeSet
<1>2. PICK n \in N : \A m \in N : n <= m
  <2> HIDE DEF N
  <2> QED
    BY <1>1, LeastElement
<1>3. \E x \in S : \A y \in S : Order(x) <= Order(y)
  BY <1>2
<1> QED
  BY <1>3 DEF FirstOf

\* Among the pages there is one that weighs most.
LEMMA HeaviestExists ==
  ASSUME NEW S, S # {}, \A x \in S : NodeAt(x, TablesDepth)
  PROVE  \E x \in S : \A y \in S : PageWeight(y) <= PageWeight(x)
<1> DEFINE B == WEIGHT_EVEN * (TablesDepth + 2)
           N == { B - PageWeight(x) : x \in S }
<1>1. \A x \in S : PageWeight(x) \in Nat /\ PageWeight(x) <= B
  <2> SUFFICES ASSUME NEW x \in S
               PROVE  PageWeight(x) \in Nat /\ PageWeight(x) <= B
    OBVIOUS
  <2>1. x.weight \in 0 .. WEIGHT_EVEN * (TablesDepth + 1) /\ TablesDepth \in Nat
    BY Sizes DEF NodeAt
  <2>2. Weight(x.pageNum) \in {WEIGHT_EVEN, WEIGHT_ODD}
    BY DEF Weight
  <2> QED
    BY <2>1, <2>2 DEF PageWeight, WEIGHT_EVEN, WEIGHT_ODD
<1>2. B \in Nat
  BY Sizes DEF WEIGHT_EVEN
<1> HIDE DEF B
<1>3. N \in SUBSET Nat /\ N # {}
  BY <1>1, <1>2
<1>4. PICK n \in N : \A m \in N : n <= m
  <2> HIDE DEF N
  <2> QED
    BY <1>3, LeastElement
<1>5. PICK x \in S : n = B - PageWeight(x)
  OBVIOUS
<1>6. \A y \in S : PageWeight(y) <= PageWeight(x)
  <2> SUFFICES ASSUME NEW y \in S
               PROVE  PageWeight(y) <= PageWeight(x)
    OBVIOUS
  <2>1. B - PageWeight(x) <= B - PageWeight(y)
    BY <1>4, <1>5
  <2> QED
    BY <1>1, <1>2, <2>1
<1> QED
  BY <1>6

\* The victims of an eviction are pages, or the root table in a tree without pages.
LEMMA VictimsTyped ==
  ASSUME ram \in Rams, \A x \in Tree(ram) : x.pAddr \in Frame
  PROVE  \A x \in Victims :
           /\ x.father \in 0 .. RamSize - 1
           /\ x.pAddr \in Frame
           /\ x.pageNum \in 0 .. NumPages - 1
           /\ x.depth \in 0 .. TablesDepth
<1> SUFFICES ASSUME NEW x \in Victims
             PROVE  /\ x.father \in 0 .. RamSize - 1
                    /\ x.pAddr \in Frame
                    /\ x.pageNum \in 0 .. NumPages - 1
                    /\ x.depth \in 0 .. TablesDepth
  OBVIOUS
<1> DEFINE pages == Leaves(ram)
           heaviest == { u \in pages : \A y \in pages : PageWeight(y) <= PageWeight(u) }
<1>1. TablesDepth \in 0 .. TablesDepth /\ 0 \in 0 .. TablesDepth /\ NumPages \in Nat \ {0}
  <2>1. TablesDepth \in Nat
    BY Sizes
  <2> QED
    BY <2>1, PagesAtDepth
<1>2. \A u \in pages : NodeAt(u, TablesDepth)
  BY <1>1, TreeLevels DEF Leaves, Level
<1>3. CASE pages = {}
  <2>1. PICK a \in 0 .. RamSize - 1 : x = [ Root EXCEPT !.father = a ]
    BY <1>3 DEF Victims
  <2>2. x.father = a /\ x.pAddr = 0 /\ x.pageNum = 0 /\ x.depth = 0
    BY <2>1 DEF Root
  <2> QED
    BY <1>1, <2>2, Frames
<1>4. CASE pages # {}
  <2>1. x = FirstOf(heaviest)
    BY <1>4 DEF Victims
  <2>2. heaviest # {}
    BY <1>2, <1>4, HeaviestExists
  <2>3. NodeSet(heaviest)
    BY <1>1, <1>2 DEF NodeSet
  <2>4. x \in pages
    <3> HIDE DEF pages
    <3>1. FirstOf(heaviest) \in heaviest
      <4> HIDE DEF heaviest
      <4> QED
        BY <2>2, <2>3, FirstIsMember
    <3> QED
      BY <2>1, <3>1
  <2>5. NodeAt(x, TablesDepth)
    BY <1>2, <2>4
  <2>6. x.pAddr \in Frame
    BY <1>1, <2>4, TreeLevels DEF Leaves, Level
  <2> QED
    BY <1>1, <2>5, <2>6, PagesAtDepth DEF NodeAt
<1> QED
  BY <1>3, <1>4

SwapTyped(s) ==
  /\ DOMAIN s \subseteq 0 .. NumPages - 1
  /\ \A p \in DOMAIN s : s[p] \in Page

LEMMA LoadTyped ==
  ASSUME NEW r \in Rams, NEW frame, NEW page \in Page
  PROVE  Load(r, frame, page) \in Rams
<1>1. ASSUME NEW a \in 0 .. RamSize - 1
      PROVE  page[a % PageSize] \in Word /\ r[a] \in Word
  BY Frames DEF Page, Rams
<1> QED
  BY <1>1 DEF Load, Rams

LEMMA ZeroPageTyped == ZeroPage \in Page
BY Frames DEF ZeroPage, Page

LEMMA ContentsTyped ==
  ASSUME NEW r \in Rams, NEW frame \in Frame
  PROVE  Contents(r, frame) \in Page
BY Frames DEF Contents, Page, Rams

\* A step of the way up from the table of an evicted page.
TableAbove(x, d) == x.father \div Pow2[OffsetWidth * d]
StepUp(x, d, r) ==
  IF \A e \in 1 .. d : IsClear(r, TableAbove(x, e))
    THEN [ r EXCEPT ![TableAbove(x, d)] = 0 ]
    ELSE r
\* up has the RAM after each step of the way up.
ClearUpTo(r, x, n, up) ==
  up = [ d \in 0 .. n |-> IF d = 0 THEN r ELSE StepUp(x, d, up[d - 1]) ]

LEMMA ClearUpExists ==
  ASSUME NEW r, NEW x
  PROVE  \A n \in Nat : \E up : ClearUpTo(r, x, n, up)
<1> DEFINE S == { n \in Nat : \E up : ClearUpTo(r, x, n, up) }
<1>1. 0 \in S
  <2>1. ClearUpTo(r, x, 0, [ d \in 0 .. 0 |-> r ])
    BY DEF ClearUpTo
  <2> QED
    BY <2>1
<1>2. ASSUME NEW n \in S
      PROVE  n + 1 \in S
  <2>1. PICK up : ClearUpTo(r, x, n, up)
    OBVIOUS
  <2> DEFINE longer == [ d \in 0 .. n + 1 |-> IF d = n + 1 THEN StepUp(x, n + 1, up[n])
                                              ELSE up[d] ]
  <2>2. \A d \in 0 .. n : up[d] = IF d = 0 THEN r ELSE StepUp(x, d, up[d - 1])
    BY <2>1 DEF ClearUpTo
  <2>3. \A d \in 0 .. n : longer[d] = up[d]
    OBVIOUS
  <2>4. longer[n + 1] = StepUp(x, n + 1, longer[n])
    BY <2>3
  <2>5. longer = [ d \in 0 .. n + 1 |-> longer[d] ]
    OBVIOUS
  <2> HIDE DEF longer
  <2>6. \A d \in 0 .. n + 1 : longer[d] = IF d = 0 THEN r ELSE StepUp(x, d, longer[d - 1])
    BY <2>2, <2>3, <2>4
  <2>7. ClearUpTo(r, x, n + 1, longer)
    BY <2>5, <2>6 DEF ClearUpTo
  <2> QED
    BY <2>7
<1> QED
  <2> HIDE DEF S
  <2>1. S = Nat
    BY <1>1, <1>2, SetInduction DEF S
  <2> QED
    BY <2>1 DEF S

LEMMA ClearUpTyped ==
  ASSUME NEW r \in Rams, NEW x, x.depth \in 0 .. TablesDepth
  PROVE  ClearUp(r, x) \in Rams
<1> DEFINE up == CHOOSE u : ClearUpTo(r, x, TablesDepth, u)
<1>1. TablesDepth \in Nat \ {0} /\ 0 \in Word
  BY Sizes, FrameRange
<1>2. ClearUpTo(r, x, TablesDepth, up)
  BY <1>1, ClearUpExists
<1>3. ClearUp(r, x) = IF x.depth = 0 THEN r ELSE up[x.depth - 1]
  BY Zenon DEF ClearUp, ClearUpTo, StepUp, TableAbove
<1> HIDE DEF up
<1>4. /\ up[0] = r
      /\ \A d \in 0 .. TablesDepth : d # 0 => up[d] = StepUp(x, d, up[d - 1])
  BY <1>1, <1>2 DEF ClearUpTo
<1>5. \A d, u : u \in Rams => StepUp(x, d, u) \in Rams
  BY <1>1 DEF StepUp, Rams
<1> DEFINE S == { d \in Nat : d <= TablesDepth => up[d] \in Rams }
<1>6. 0 \in S
  BY <1>4
<1>7. ASSUME NEW d \in S
      PROVE  d + 1 \in S
  <2> SUFFICES ASSUME d + 1 <= TablesDepth
               PROVE  up[d + 1] \in Rams
    OBVIOUS
  <2>1. up[d] \in Rams
    BY <1>1
  <2>2. d + 1 \in 0 .. TablesDepth /\ d + 1 # 0 /\ (d + 1) - 1 = d
    BY <1>1
  <2>3. up[d + 1] = StepUp(x, d + 1, up[d])
    BY <1>4, <2>2
  <2> QED
    BY <1>5, <2>1, <2>3
<1>8. S = Nat
  <2> HIDE DEF S
  <2> QED
    BY <1>6, <1>7, SetInduction DEF S
<1>9. x.depth # 0 => x.depth - 1 \in Nat /\ x.depth - 1 <= TablesDepth
  BY <1>1
<1> QED
  BY <1>3, <1>8, <1>9

LEMMA NewNodeTyped ==
  ASSUME NEW r \in Rams, NEW s, SwapTyped(s), NEW frame \in Word,
         NewNode(r, s, frame)
  PROVE  /\ ram' \in Rams
         /\ SwapTyped(swapFile')
         /\ ZeroSwap(s) => ZeroSwap(swapFile')
<1> DEFINE linked == [ r EXCEPT ![Lacking.addr] = frame ]
           page == PageOf(call.addr)
<1>1. linked \in Rams
  BY DEF Rams
<1> HIDE DEF linked
<1>2. PMrestore(linked, s, frame, page) \in Rams
  BY <1>1, LoadTyped DEF PMrestore, SwapTyped
<1>3. SwapTyped(Restored(s, page))
  BY DEF Restored, SwapTyped
<1>4. ZeroSwap(s) => ZeroSwap(Restored(s, page))
  BY DEF Restored, ZeroSwap
<1>5. \/ ram' = linked /\ swapFile' = s
      \/ ram' = PMrestore(linked, s, frame, page) /\ swapFile' = Restored(s, page)
  BY DEF NewNode, linked
<1> QED
  BY <1>1, <1>2, <1>3, <1>4, <1>5

\* An eviction stores a page of zeros.
LEMMA EvictTyped ==
  ASSUME ram \in Rams, SwapTyped(swapFile), Evict,
         \A x \in Tree(ram) : x.pAddr \in Frame
  PROVE  /\ ram' \in Rams
         /\ SwapTyped(swapFile')
         /\ ZeroSwap(swapFile) => ZeroSwap(swapFile')
<1> DEFINE cleared(x) == Load([ ram EXCEPT ![x.father] = 0 ], x.pAddr, ZeroPage)
           stored(x) == PMevict(cleared(x), swapFile, x.pAddr, x.pageNum)
<1>1. PICK x \in Victims : NewNode(ClearUp(cleared(x), x), stored(x), x.pAddr)
  BY DEF Evict
<1>2. /\ x.father \in 0 .. RamSize - 1 /\ x.pAddr \in Frame
      /\ x.pageNum \in 0 .. NumPages - 1 /\ x.depth \in 0 .. TablesDepth
  BY VictimsTyped
<1>3. cleared(x) \in Rams
  <2>1. [ ram EXCEPT ![x.father] = 0 ] \in Rams
    BY FrameRange DEF Rams
  <2> QED
    BY <2>1, ZeroPageTyped, LoadTyped
<1>4. Contents(cleared(x), x.pAddr) = ZeroPage
  <2>1. ASSUME NEW i \in 0 .. PageSize - 1
        PROVE  cleared(x)[x.pAddr * PageSize + i] = 0
    <3>1. /\ x.pAddr * PageSize + i \in 0 .. RamSize - 1
          /\ (x.pAddr * PageSize + i) \div PageSize = x.pAddr
          /\ (x.pAddr * PageSize + i) % PageSize = i
      BY <1>2, Frames
    <3> QED
      BY <3>1 DEF Load, ZeroPage
  <2> HIDE DEF cleared
  <2> QED
    BY <2>1 DEF Contents, ZeroPage
<1> HIDE DEF cleared
<1>5. stored(x) = [ p \in DOMAIN swapFile \cup {x.pageNum} |->
                      IF p = x.pageNum THEN ZeroPage ELSE swapFile[p] ]
  BY <1>4 DEF PMevict
<1>6. SwapTyped(stored(x)) /\ (ZeroSwap(swapFile) => ZeroSwap(stored(x)))
  BY <1>2, <1>5, ZeroPageTyped DEF SwapTyped, ZeroSwap
<1>7. ClearUp(cleared(x), x) \in Rams
  BY <1>2, <1>3, ClearUpTyped
<1> HIDE DEF stored
<1> QED
  BY <1>1, <1>2, <1>6, <1>7, FrameRange, NewNodeTyped

-----------------------------------------------------------------------------
(***************************************************************************)
(* The invariant.                                                          *)
(***************************************************************************)
\* Whatever was in a page, a page in the swap file is zero: evict clears the frame
\* before it stores it.
SwapIsZero == ZeroSwap(swapFile)

\* The inductive invariant.
IInv == TypeOK /\ SwapIsZero

LEMMA CallTyped ==
  ASSUME TypeOK
  PROVE  /\ ram \in Rams /\ SwapTyped(swapFile)
         /\ call.op \in {"read", "write"} => call.addr \in Addrs /\ call.addr \in Nat
         /\ call.op = "write" => call.value \in Word /\ call.value \in Values
<1>1. call \in Flat!Reads \cup Flat!Writes \cup {NoCall, Abort}
  BY DEF TypeOK
<1>2. call.op = "read" => call \in Flat!Reads
  BY <1>1 DEF NoCall, Abort, Flat!Writes
<1>3. call.op = "write" => call \in Flat!Writes
  BY <1>1 DEF NoCall, Abort, Flat!Reads
<1>4. call.op \in {"read", "write"} => call.addr \in Addrs
  BY <1>2, <1>3 DEF Flat!Reads, Flat!Writes
<1>5. call.op = "write" => call.value \in Values
  BY <1>3 DEF Flat!Writes
<1>6. ram \in Rams /\ SwapTyped(swapFile)
  BY DEF TypeOK, Rams, SwapTyped
<1> QED
  BY <1>4, <1>5, <1>6, VirtualMemoryAssumption

\* What getPAddr returns for an address that is not mapped is out of the RAM.
LEMMA LegalIsMapped ==
  ASSUME ram \in Rams, call.addr \in Nat, NEW op \in {"read", "write"}, Found(op),
         IsLegal
  PROVE  /\ Mapped(ram, call.addr)
         /\ Location(ram, call.addr) \in 0 .. RamSize - 1
<1> DEFINE val == Search(ram, call.addr)
           o == call.addr % PageSize
<1>1. val.addr \in Nat /\ val.depth \in Nat /\ RamSize \in Nat /\ o \in Nat
  BY SearchTyped, Sizes, Division
<1>2. Neighbors(val.depth) \in Nat \ {0}
  BY <1>1, NeighborsType
<1>3. Location(ram, call.addr) = val.addr * Neighbors(val.depth) + o
  BY DEF Location, Convert
<1>4. Location(ram, call.addr) < RamSize /\ (val.addr < RamSize => ~val.missing)
  BY DEF IsLegal, Found, Lacks, Lacking
<1> HIDE DEF val, o
<1>5. /\ val.addr * Neighbors(val.depth) \in Nat
      /\ val.addr <= val.addr * Neighbors(val.depth)
  BY <1>1, <1>2
<1>6. Location(ram, call.addr) \in Nat /\ val.addr <= Location(ram, call.addr)
  BY <1>1, <1>3, <1>5
<1> QED
  BY <1>1, <1>4, <1>6 DEF Mapped, val

LEMMA TypeInit ==
  ASSUME Init
  PROVE  IInv
<1>1. ram \in Rams
  BY FrameRange DEF Init, PmInit, Rams
<1>2. DOMAIN swapFile = {}
  BY DEF Init, PmInit
<1> QED
  BY <1>1, <1>2, FrameRange DEF Init, IInv, TypeOK, SwapIsZero, ZeroSwap, Rams

LEMMA TreeSizeTyped ==
  ASSUME ram \in Rams, TreeSize < NumFrames
  PROVE  TreeSize \in Frame
<1>1. TreeSize \in Nat
  BY FiniteTree, FS_CardinalityType DEF TreeSize
<1> QED
  BY <1>1, FrameRange

\* findFreeTable returns a node of the tree.
LEMMA FreeTablesTyped ==
  ASSUME ram \in Rams, Marked \in Rams
  PROVE  /\ \A x \in FreeTables : x.pAddr \in Word /\ x.father \in 0 .. RamSize - 1
         /\ FreeTables # {} => FirstOf(FreeTables) \in FreeTables
<1> DEFINE found == UNION Range(Levels(Marked, TRUE))
<1>1. \A x : x \in found <=> \E d \in 0 .. TablesDepth : x \in LevelMarked(Marked, d)
  BY LevelsUnion, Zenon DEF LevelMarked
<1>2. \A d \in 0 .. TablesDepth : \A x \in LevelMarked(Marked, d) : NodeAt(x, d)
  BY LevelsTyped, Zenon DEF LevelMarked
<1>3. \A x \in FreeTables : x \in found
  BY DEF FreeTables
<1> HIDE DEF found
<1>4. NodeSet(FreeTables)
  BY <1>1, <1>2, <1>3 DEF NodeSet
<1>5. \A x \in FreeTables : x.pAddr \in Word /\ x.father \in 0 .. RamSize - 1
  BY <1>4 DEF NodeSet, NodeAt
<1> QED
  BY <1>4, <1>5, FirstIsMember

LEMMA MarkedTyped ==
  ASSUME ram \in Rams, call.addr \in Nat, Lacks
  PROVE  /\ Lacking.addr \in 0 .. RamSize - 1
         /\ Marked \in Rams
<1>1. Lacking.addr \in 0 .. RamSize - 1
  BY MissingEntry, Descend DEF Lacks, Lacking
<1>2. Lacking.addr \div PageSize \in Word
  BY <1>1, Frames
<1> QED
  BY <1>1, <1>2 DEF Marked, Rams

\* findFreeTable comes to all that is named in the tree: where it does not follow
\* an entry, which names its own table, it has come to that table before.
LEMMA MarkedReaches ==
  ASSUME ram \in Rams, call.addr \in Nat, Lacks
  PROVE  \A d \in 0 .. TablesDepth : \A x \in Level(ram, d) :
           \E c \in 0 .. d : \E y \in LevelMarked(Marked, c) :
             y.pAddr = x.pAddr /\ (c = 0 => d = 0)
<1> DEFINE m == Marked
           reached(d) == \A x \in Level(ram, d) :
             \E c \in 0 .. d : \E y \in LevelMarked(m, c) :
               y.pAddr = x.pAddr /\ (c = 0 => d = 0)
           S == { d \in Nat : d <= TablesDepth => reached(d) }
<1>1. m \in Rams /\ \A a \in 0 .. RamSize - 1 : ram[a] # 0 => m[a] = ram[a]
  <2>1. /\ Lacking.addr \in 0 .. RamSize - 1 /\ m \in Rams
        /\ ram[Lacking.addr] = 0
    BY MarkedTyped, MissingEntry DEF Lacks, Lacking
  <2> QED
    BY <2>1 DEF Rams, Marked
<1> HIDE DEF m
<1>2. 0 \in S
  <2>1. LevelMarked(m, 0) = {Root} /\ Level(ram, 0) = {Root}
    BY LevelZero, TreeLevels DEF LevelMarked
  <2> QED
    BY <2>1
<1>3. ASSUME NEW d \in S
      PROVE  d + 1 \in S
  <2> SUFFICES ASSUME d + 1 <= TablesDepth, NEW u \in Level(ram, d + 1)
               PROVE  \E c \in 0 .. d + 1 : \E y \in LevelMarked(m, c) :
                        y.pAddr = u.pAddr /\ (c = 0 => d + 1 = 0)
    OBVIOUS
  <2>1. d \in 0 .. TablesDepth - 1 /\ d \in Nat /\ d \in 0 .. TablesDepth
    BY Sizes
  <2>2. PICK w \in Level(ram, d) : \E i \in 0 .. Neighbors(d) - 1 :
          /\ w.pAddr \in Frame
          /\ u.pAddr = ram[w.pAddr * PageSize + i] /\ u.pAddr # 0
    BY <2>1, Ascend
  <2>3. PICK i \in 0 .. Neighbors(d) - 1 :
          /\ w.pAddr \in Frame
          /\ u.pAddr = ram[w.pAddr * PageSize + i] /\ u.pAddr # 0
    BY <2>2
  <2>4. PICK c \in 0 .. d : \E y \in LevelMarked(m, c) :
          y.pAddr = w.pAddr /\ (c = 0 => d = 0)
    <3>1. d \in Nat /\ d <= TablesDepth
      BY <2>1
    <3>2. reached(d)
      BY <1>3, <3>1
    <3> QED
      BY <3>2
  <2>5. PICK v \in LevelMarked(m, c) : v.pAddr = w.pAddr /\ (c = 0 => d = 0)
    BY <2>4
  <2>6. c \in 0 .. TablesDepth - 1 /\ c \in 0 .. TablesDepth /\ c \in Nat
    BY <2>1, <2>4, Sizes
  <2>7. NodeAt(v, c)
    BY <1>1, <2>6, LevelsTyped, Zenon DEF LevelMarked
  <2>8. CASE u.pAddr = w.pAddr
    <3>1. c # 0
      BY <2>3, <2>5, <2>7, <2>8 DEF NodeAt, Root
    <3>2. c \in 0 .. d + 1
      BY <2>1
    <3> QED
      BY <2>5, <2>8, <3>1, <3>2
  <2>9. CASE u.pAddr # w.pAddr
    <3>1. Neighbors(c) = Neighbors(d) /\ v.depth = c
      BY <2>1, <2>5, <2>6, <2>7 DEF NodeAt, Neighbors
    <3>2. Convert(i, v.pAddr, c) = w.pAddr * PageSize + i
          /\ w.pAddr * PageSize + i \in 0 .. RamSize - 1
      BY <2>3, <2>5, <2>6, <2>7, <3>1, Entry
    <3>3. Child(m, v, i).pAddr = u.pAddr
      BY <1>1, <2>3, <3>1, <3>2 DEF Child
    <3>4. Child(m, v, i) \in LevelMarked(m, c + 1)
      BY <2>3, <2>5, <2>6, <2>9, <3>1, <3>3, LevelMarkedStep
    <3>5. c + 1 \in 0 .. d + 1 /\ c + 1 # 0
      BY <2>1, <2>6
    <3> QED
      BY <3>3, <3>4, <3>5
  <2> QED
    BY <2>8, <2>9
<1> QED
  <2> HIDE DEF S
  <2>1. S = Nat
    BY <1>2, <1>3, SetInduction DEF S
  <2>2. 0 .. TablesDepth \subseteq Nat /\ \A d \in 0 .. TablesDepth : d <= TablesDepth
    BY Sizes
  <2> QED
    BY <2>1, <2>2 DEF S, m

\* What is not in the RAM counts as clear: where findFreeTable finds nothing, the
\* tree is in the RAM.
LEMMA TreeInRam ==
  ASSUME ram \in Rams, call.addr \in Nat, Lacks, FreeTables = {}
  PROVE  \A x \in Tree(ram) : x.pAddr \in Frame
<1> SUFFICES ASSUME NEW x \in Tree(ram), x.pAddr \notin Frame
             PROVE  FALSE
  OBVIOUS
<1>1. PICK d \in 0 .. TablesDepth : x \in Level(ram, d)
  BY TreeLevels
<1>2. PICK c \in 0 .. d : \E y \in LevelMarked(Marked, c) : y.pAddr = x.pAddr
  BY <1>1, MarkedReaches
<1>3. PICK y \in LevelMarked(Marked, c) : y.pAddr = x.pAddr
  BY <1>2
<1>4. NodeAt(x, d) /\ NumFrames \in Nat \ {0} /\ PageSize \in Nat \ {0}
      /\ RamSize = NumFrames * PageSize
  BY <1>1, TreeLevels, Sizes
<1>5. x.pAddr \in Nat /\ NumFrames <= x.pAddr
  <2>1. x.pAddr \in Nat
    BY <1>4, FrameRange DEF NodeAt
  <2> QED
    BY <1>4, <2>1, FrameRange
<1>6. NumFrames * PageSize <= x.pAddr * PageSize
      /\ NumFrames * PageSize \in Nat /\ x.pAddr * PageSize \in Nat
  BY <1>4, <1>5
<1>7. IsClear(Marked, y.pAddr)
  <2>1. \A i \in 0 .. PageSize - 1 : ~(y.pAddr * PageSize + i < RamSize)
    BY <1>3, <1>4, <1>6
  <2> QED
    BY <2>1 DEF IsClear
<1>8. y # Root
  BY <1>3, FrameRange DEF Root
<1>9. c \in 0 .. TablesDepth
  BY <1>1, Sizes
<1>10. y \in UNION Range(Levels(Marked, TRUE))
  <2>1. y \in Levels(Marked, TRUE)[c]
    BY DEF LevelMarked
  <2> QED
    BY <1>9, <2>1, LevelsUnion, Zenon
<1> QED
  BY <1>7, <1>8, <1>10 DEF FreeTables

LEMMA TypeStep ==
  ASSUME IInv, [Next]_vars
  PROVE  IInv'
<1>0. /\ ram \in Rams /\ SwapTyped(swapFile) /\ ZeroSwap(swapFile)
      /\ call \in Flat!Reads \cup Flat!Writes \cup {NoCall, Abort}
      /\ answer.ok \in BOOLEAN /\ answer.value \in Word
      /\ call.op \in {"read", "write"} => call.addr \in Nat
      /\ call.op = "write" => call.value \in Word
  BY CallTyped DEF IInv, TypeOK, SwapIsZero
<1> SUFFICES /\ ram' \in Rams /\ SwapTyped(swapFile') /\ ZeroSwap(swapFile')
             /\ call' \in Flat!Reads \cup Flat!Writes \cup {NoCall, Abort}
             /\ answer'.ok \in BOOLEAN /\ answer'.value \in Word
  BY DEF IInv, TypeOK, SwapIsZero, SwapTyped, ZeroSwap, Rams, Flat!Reads, Flat!Writes
<1>1. CASE VMinitialize
  <2>1. ram' \in Rams
    BY <1>0, <1>1, FrameRange DEF VMinitialize, Rams
  <2> QED
    BY <1>0, <1>1, <2>1 DEF VMinitialize
<1>2. CASE InitializeOverflows
  BY <1>0, <1>2 DEF InitializeOverflows
<1>3. CASE Call
  BY <1>0, <1>3 DEF Call
<1>4. ASSUME Lacks
      PROVE  call.addr \in Nat /\ Marked \in Rams
  BY <1>0, <1>4, MarkedTyped DEF Lacks
<1>5. CASE Reclaim
  <2> DEFINE x == FirstOf(FreeTables)
  <2>1. Marked \in Rams
    BY <1>4, <1>5 DEF Reclaim
  <2>2. x.pAddr \in Word /\ x.father \in 0 .. RamSize - 1
    BY <1>0, <1>5, <2>1, FreeTablesTyped DEF Reclaim
  <2>3. [ ram EXCEPT ![x.father] = 0 ] \in Rams
    BY <1>0, <2>2, FrameRange DEF Rams
  <2>4. NewNode([ ram EXCEPT ![x.father] = 0 ], swapFile, x.pAddr)
    BY <1>5 DEF Reclaim
  <2>5. call' = call /\ answer' = answer
    BY <1>5 DEF Reclaim
  <2> HIDE DEF x
  <2> QED
    BY <1>0, <2>2, <2>3, <2>4, <2>5, NewNodeTyped
<1>6. CASE Extend
  <2>1. TreeSize \in Frame
    BY <1>0, <1>6, TreeSizeTyped DEF Extend
  <2>2. NewNode(ram, swapFile, TreeSize) /\ call' = call /\ answer' = answer
    BY <1>6 DEF Extend
  <2> QED
    BY <1>0, <2>1, <2>2, FrameRange, NewNodeTyped
<1>7. CASE Evict
  <2>1. call' = call /\ answer' = answer
    BY <1>7 DEF Evict
  <2>2. \A x \in Tree(ram) : x.pAddr \in Frame
    BY <1>0, <1>4, <1>7, TreeInRam DEF Evict, Evicts
  <2> QED
    BY <1>0, <1>7, <2>1, <2>2, EvictTyped
<1>8. CASE EvictFails
  BY <1>0, <1>8 DEF EvictFails
<1>9. CASE VMread
  <2>1. Location(ram, call.addr) \in 0 .. RamSize - 1
    BY <1>0, <1>9, LegalIsMapped DEF VMread, Found
  <2>2. ram[Location(ram, call.addr)] \in Word
    BY <1>0, <2>1 DEF Rams
  <2>3. answer'.ok = TRUE /\ answer'.value = ram[Location(ram, call.addr)]
    BY <1>9 DEF VMread, Flat!Success
  <2> QED
    BY <1>0, <1>9, <2>2, <2>3 DEF VMread
<1>10. CASE VMwrite
  <2>1. call.value \in Word
    BY <1>0, <1>10 DEF VMwrite, Found
  <2>2. ram' \in Rams
    BY <1>0, <1>10, <2>1 DEF VMwrite, Rams
  <2>3. answer'.ok = TRUE /\ answer'.value = 0
    BY <1>10 DEF VMwrite, Flat!Success
  <2> QED
    BY <1>0, <1>10, <2>2, <2>3, FrameRange DEF VMwrite
<1>11. CASE Refuse
  <2>1. answer'.ok = FALSE /\ answer'.value = 0
    BY <1>11 DEF Refuse, Flat!Failure
  <2> QED
    BY <1>0, <1>11, <2>1, FrameRange DEF Refuse
<1>12. CASE UNCHANGED vars
  BY <1>0, <1>12 DEF vars
<1>13. CASE RestoreFails
  BY <1>0, <1>13 DEF RestoreFails
<1> QED
  BY <1>1, <1>2, <1>3, <1>5, <1>6, <1>7, <1>8, <1>9, <1>10, <1>11, <1>12, <1>13 DEF Next

\* getPAddr, VMread, VMwrite, VMinitialize and evict keep the inductive invariant,
\* whatever the client calls.
THEOREM InvariantHolds == Spec => []IInv
<1>1. Init => IInv
  BY TypeInit
<1>2. IInv /\ [Next]_vars => IInv'
  BY TypeStep
<1> QED
  BY <1>1, <1>2, PTL DEF Spec

\* Whatever words the client writes, and whichever of them are taken for entries of
\* a table, every word of the RAM and of the swap file is a word, and PMevict stores
\* pages of the memory only.
THEOREM TypeCorrect == Spec => []TypeOK
<1>1. IInv => TypeOK
  BY DEF IInv
<1> QED
  BY <1>1, InvariantHolds, PTL

\* getPAddr (VirtualMemory.cpp), whatever words the client writes: when no clear
\* table is found, so that the tree is counted or a page is evicted, no entry leads
\* out of the RAM.  findMaxFrame, findMaxFrameWeight and evict read the RAM without
\* a look at the address, and the assertions of PMread and PMwrite do not fail.
THEOREM CountedTreesAreInRam == Spec => []WalksStayInside
<1>1. IInv => WalksStayInside
  <2> SUFFICES ASSUME IInv, Lacks, FreeTables = {}
               PROVE  \A x \in Tree(ram) : x.pAddr \in Frame
    BY DEF WalksStayInside
  <2>1. ram \in Rams /\ call.addr \in Nat
    BY CallTyped DEF IInv, Lacks
  <2> QED
    BY <2>1, TreeInRam
<1> QED
  BY <1>1, InvariantHolds, PTL

\* evict makes a frame zero before it stores it (VirtualMemory.cpp): no page that
\* is in the swap file holds anything but zeros.
THEOREM EvictedPagesAreZero == Spec => []SwapIsZero
<1>1. IInv => SwapIsZero
  BY DEF IInv
<1> QED
  BY <1>1, InvariantHolds, PTL

-----------------------------------------------------------------------------
(***************************************************************************)
(* getPAddr without an eviction.                                           *)
(***************************************************************************)
\* Restoring a page into a clear frame changes nothing.
LEMMA RestoreNothing ==
  ASSUME NEW q \in Rams, NEW f \in Frame, IsClear(q, f), NEW s, ZeroSwap(s), NEW page
  PROVE  PMrestore(q, s, f, page) = q
<1>1. Load(q, f, ZeroPage) = q
  <2>1. ASSUME NEW a \in 0 .. RamSize - 1, a \div PageSize = f
        PROVE  q[a] = 0 /\ ZeroPage[a % PageSize] = 0
    BY <2>1, ClearWords, Frames DEF ZeroPage
  <2> QED
    BY <2>1 DEF Load, Rams
<1> QED
  BY <1>1 DEF PMrestore, ZeroSwap

\* The node of the tree whose entry the call lacks.
LEMMA LackingNode ==
  ASSUME ram \in Rams, call.addr \in Nat, Lacks
  PROVE  LET k == Lacking.depth
             i == Path(call.addr)[k] IN
         /\ Lacking = Search(ram, call.addr)
         /\ Lacking.missing
         /\ k \in 0 .. TablesDepth - 1
         /\ i \in 0 .. Neighbors(k) - 1
         /\ \E z \in Level(ram, k) :
              /\ z \in Tree(ram)
              /\ z.pAddr = Walk(ram, call.addr)[k]
              /\ Lacking.addr = z.pAddr * PageSize + i
              /\ ram[z.pAddr * PageSize + i] = 0
              /\ Lacking.addr \in 0 .. RamSize - 1
              /\ Lacking.addr \div PageSize = z.pAddr
<1> DEFINE k == Lacking.depth
           i == Path(call.addr)[k]
<1>1. Lacking = Search(ram, call.addr) /\ Lacking.missing
  BY DEF Lacks, Lacking
<1>2. /\ k \in 0 .. TablesDepth - 1
      /\ i \in 0 .. Neighbors(k) - 1
  BY <1>1, MissingEntry DEF Lacks
<1>3. PICK z \in Level(ram, k) :
        /\ z.pAddr = Walk(ram, call.addr)[k] /\ z.pAddr \in Frame
        /\ Lacking.addr = z.pAddr * PageSize + i
        /\ ram[z.pAddr * PageSize + i] = 0
  BY <1>1, MissingEntry DEF Lacks
<1> HIDE DEF k, i
<1>4. /\ z.pAddr * PageSize + i \in 0 .. RamSize - 1
      /\ (z.pAddr * PageSize + i) \div PageSize = z.pAddr
  BY <1>2, <1>3, Descend
<1>5. z \in Tree(ram)
  <2>1. k \in 0 .. TablesDepth
    BY <1>2, Sizes
  <2> QED
    BY <2>1, TreeLevels
<1> QED
  BY <1>1, <1>2, <1>3, <1>4, <1>5 DEF k, i

\* A step of getPAddr that evicts nothing relinks the RAM at the missing entry.
StepRelinks ==
  \E z, f : /\ Relinking(ram, ram', Lacking.depth, z,
                         Path(call.addr)[Lacking.depth], f)
            /\ z.pAddr = Walk(ram, call.addr)[Lacking.depth]
            /\ f <= Cardinality(Tree(ram))

\* NewNode, with a clear frame that is unlinked where it was, relinks the RAM.
LEMMA NewNodeRelinks ==
  ASSUME IInv, Lacks, Separate(ram), NEW r \in Rams, NEW f \in Frame \ {0},
         IsClear(ram, f), f # Lacking.addr \div PageSize,
         f <= Cardinality(Tree(ram)),
         \A a \in 0 .. RamSize - 1 :
           \/ r[a] = ram[a] /\ ~ \E x \in Tree(ram) : x.pAddr = f /\ x.father = a
           \/ r[a] = 0 /\ \E x \in Tree(ram) : x.pAddr = f /\ x.father = a,
         NewNode(r, swapFile, f)
  PROVE  StepRelinks
<1> DEFINE k == Lacking.depth
           i == Path(call.addr)[k]
           e == Lacking.addr
           q == [ r EXCEPT ![e] = f ]
<1>1. ram \in Rams /\ ZeroSwap(swapFile) /\ call.addr \in Nat
  BY CallTyped DEF IInv, SwapIsZero, Lacks
<1>2. PICK z \in Level(ram, k) :
        /\ z.pAddr = Walk(ram, call.addr)[k]
        /\ e = z.pAddr * PageSize + i
        /\ ram[z.pAddr * PageSize + i] = 0
        /\ e \in 0 .. RamSize - 1
        /\ e \div PageSize = z.pAddr
  BY <1>1, LackingNode
<1>3. k \in 0 .. TablesDepth - 1 /\ i \in 0 .. Neighbors(k) - 1
  BY <1>1, LackingNode
<1>4. q \in Rams /\ q[e] = f /\ \A a \in 0 .. RamSize - 1 : a # e => q[a] = r[a]
  BY <1>2, FrameRange DEF Rams
<1> HIDE DEF q
<1>5. Relinks(ram, q, z.pAddr * PageSize + i, f)
  BY <1>2, <1>4 DEF Relinks
<1>6. Relinking(ram, q, k, z, i, f)
  BY <1>1, <1>2, <1>3, <1>4, <1>5 DEF Relinking
<1>7. IsClear(q, f)
  BY <1>6, RelinkCells
<1>8. ram' = q
  BY <1>1, <1>4, <1>7, RestoreNothing DEF NewNode, q
<1> QED
  BY <1>2, <1>6, <1>8 DEF StepRelinks

\* The first frame that is not in the tree is clear.
LEMMA ExtendRelinks ==
  ASSUME IInv, WellFormedIn(ram), Extend
  PROVE  StepRelinks
<1> DEFINE f == Cardinality(Tree(ram))
<1>1. ram \in Rams
  BY CallTyped DEF IInv
<1>2. /\ f \in Nat \ {0} /\ f < NumFrames /\ Separate(ram)
      /\ \A x \in Tree(ram) : x.pAddr \in Frame /\ x.pAddr < f
  BY <1>1, TreeSizes DEF Extend, TreeSize
<1>3. Lacks /\ NewNode(ram, swapFile, f)
  BY DEF Extend, TreeSize
<1>4. IsClear(ram, f)
  BY <1>2, FrameRange DEF WellFormedIn
<1> HIDE DEF f
<1>5. f \in Frame \ {0}
  BY <1>2, FrameRange
<1>6. \A x \in Tree(ram) : x.pAddr # f
  BY <1>2, FrameRange
<1>7. f # Lacking.addr \div PageSize
  <2>1. call.addr \in Nat
    BY <1>3, CallTyped DEF IInv, Lacks
  <2> QED
    BY <1>1, <1>3, <1>6, <2>1, LackingNode
<1>8. f <= Cardinality(Tree(ram))
  BY <1>2 DEF f
<1> QED
  BY <1>1, <1>2, <1>3, <1>4, <1>5, <1>6, <1>7, <1>8, NewNodeRelinks

\* What findFreeTable finds is a clear frame of the tree, and not the table that
\* lacks the entry.
LEMMA FreeTablesInTree ==
  ASSUME ram \in Rams, Separate(ram), call.addr \in Nat, Lacks, NEW x \in FreeTables
  PROVE  /\ x \in Tree(ram)
         /\ x.pAddr \in Frame \ {0}
         /\ IsClear(ram, x.pAddr)
         /\ x.pAddr # Lacking.addr \div PageSize
<1> DEFINE e == Lacking.addr
<1>1. e \in 0 .. RamSize - 1 /\ ram[e] = 0
  BY LackingNode
<1>2. \A d \in 0 .. TablesDepth : LevelMarked(Marked, d) = Level(ram, d)
  BY <1>1, MarkedLevels DEF Marked
<1>3. \A y : y \in UNION Range(Levels(Marked, TRUE)) <=>
               \E d \in 0 .. TablesDepth : y \in LevelMarked(Marked, d)
  BY LevelsUnion, Zenon DEF LevelMarked
<1>4. x \in UNION Range(Levels(Marked, TRUE)) /\ x # Root /\ IsClear(Marked, x.pAddr)
  BY DEF FreeTables
<1>5. PICK d \in 0 .. TablesDepth : x \in Level(ram, d)
  BY <1>2, <1>3, <1>4
<1>6. x \in Tree(ram) /\ NodeAt(x, d)
  BY <1>5, TreeLevels
<1>7. x.pAddr \in Frame \ {0}
  <2>1. x.pAddr \in Frame
    BY <1>6 DEF Separate
  <2>2. x.pAddr # 0
    BY <1>4, <1>6 DEF NodeAt
  <2> QED
    BY <2>1, <2>2
<1> QED
  BY <1>1, <1>4, <1>6, <1>7, MarkedClear DEF Marked

LEMMA ReclaimRelinks ==
  ASSUME IInv, WellFormedIn(ram), Reclaim
  PROVE  StepRelinks
<1> DEFINE x == FirstOf(FreeTables)
           f == x.pAddr
           r == [ ram EXCEPT ![x.father] = 0 ]
<1>1. ram \in Rams /\ Lacks /\ NewNode(r, swapFile, f) /\ FreeTables # {}
  BY CallTyped DEF IInv, Reclaim
<1>2. call.addr \in Nat
  BY <1>1, CallTyped DEF IInv, Lacks
<1>3. /\ Separate(ram)
      /\ \A y \in Tree(ram) : y.pAddr < Cardinality(Tree(ram)) /\ y.pAddr \in Frame
      /\ Cardinality(Tree(ram)) \in Nat
  BY <1>1, TreeSizes
<1>4. x \in FreeTables
  BY <1>1, <1>2, MarkedTyped, FreeTablesTyped DEF Lacks
<1>5. x \in Tree(ram) /\ f \in Frame \ {0} /\ IsClear(ram, f) /\ f # Lacking.addr \div PageSize
  BY <1>1, <1>2, <1>3, <1>4, FreeTablesInTree
<1> HIDE DEF x
<1>6. x.father \in 0 .. RamSize - 1
  BY <1>1, <1>5, Fathers
<1>7. r \in Rams
  BY <1>1, FrameRange DEF Rams
<1>8. \A y \in Tree(ram) : y.pAddr = f => y = x
  BY <1>3, <1>5 DEF Separate
<1>9. \A a \in 0 .. RamSize - 1 :
        \/ r[a] = ram[a] /\ ~ \E y \in Tree(ram) : y.pAddr = f /\ y.father = a
        \/ r[a] = 0 /\ \E y \in Tree(ram) : y.pAddr = f /\ y.father = a
  <2> SUFFICES ASSUME NEW a \in 0 .. RamSize - 1
               PROVE  \/ r[a] = ram[a] /\ ~ \E y \in Tree(ram) : y.pAddr = f /\ y.father = a
                      \/ r[a] = 0 /\ \E y \in Tree(ram) : y.pAddr = f /\ y.father = a
    OBVIOUS
  <2>1. CASE a = x.father
    <3>1. r[a] = 0
      BY <1>1, <2>1 DEF Rams
    <3> QED
      BY <1>5, <2>1, <3>1
  <2>2. CASE a # x.father
    <3>1. r[a] = ram[a]
      BY <1>1, <2>2 DEF Rams
    <3> QED
      BY <1>8, <2>2, <3>1
  <2> QED
    BY <2>1, <2>2
<1>10. f <= Cardinality(Tree(ram))
  BY <1>3, <1>5, FrameRange
<1> HIDE DEF f, r
<1> QED
  BY <1>1, <1>3, <1>5, <1>7, <1>9, <1>10, NewNodeRelinks

\* With a well formed tree, findFreeTable finds no word that names no frame.
LEMMA NoStrayPage ==
  ASSUME IInv, WellFormedIn(ram)
  PROVE  ~StrayPage
<1> SUFFICES ASSUME Lacks, FreeTables # {}, FirstOf(FreeTables).pAddr \notin Frame
             PROVE  FALSE
  BY DEF StrayPage
<1>1. ram \in Rams /\ call.addr \in Nat /\ Separate(ram)
  BY CallTyped, TreeSizes DEF IInv, Lacks
<1>2. FirstOf(FreeTables) \in FreeTables
  BY <1>1, MarkedTyped, FreeTablesTyped
<1> QED
  BY <1>1, <1>2, FreeTablesInTree

\* The loop of getPAddr: a step that evicts nothing maps the address or finds the
\* next missing entry further down, so that the loop ends.
THEOREM EveryStepGoesDown == Spec => StepsGoDown
<1>1. ASSUME IInv, [Next]_vars, WellFormed, Lacks, ~Evicts
      PROVE  \/ UNCHANGED vars
             \/ Mapped(ram', call.addr)
             \/ Search(ram', call.addr).depth > Lacking.depth
  <2>1. call.addr \in Nat /\ ram \in Rams
    BY <1>1, CallTyped DEF IInv, Lacks
  <2>2. WellFormedIn(ram)
    BY <1>1 DEF WellFormed, WellFormedIn
  <2>3. Reclaim \/ Extend \/ UNCHANGED vars
    BY <1>1, <2>2, NoStrayPage DEF Next, Lacks, VMinitialize, InitializeOverflows, Call,
       NoCall, Evict, EvictFails, VMread, VMwrite, Refuse, Found, RestoreFails
  <2>4. ASSUME StepRelinks
        PROVE  \/ Mapped(ram', call.addr)
               \/ Search(ram', call.addr).depth > Lacking.depth
    BY <1>1, <2>1, <2>4, LackingNode, RelinkDeeper DEF StepRelinks
  <2> QED
    BY <1>1, <2>2, <2>3, <2>4, ReclaimRelinks, ExtendRelinks
<1> QED
  BY <1>1, InvariantHolds, PTL DEF Spec, StepsGoDown

-----------------------------------------------------------------------------
(***************************************************************************)
(* The calls of the client, and the refinement.                            *)
(***************************************************************************)
\* The RAM after VMwrite.
Written(r, addr, v) == [ r EXCEPT ![Location(r, addr)] = v ]

\* A word written into a page changes nothing else that the memory holds.
LEMMA WriteHeld ==
  ASSUME NEW r \in Rams, WellFormedIn(r), PagesFit, NEW s, ZeroSwap(s),
         NEW addr \in Nat, addr < VirtualMemorySize, Mapped(r, addr), NEW v \in Word
  PROVE  /\ WellFormedIn(Written(r, addr, v))
         /\ \A a \in Nat : a < VirtualMemorySize =>
              HeldIn(Written(r, addr, v), s, a) = IF a = addr THEN v ELSE HeldIn(r, s, a)
<1> DEFINE q == Written(r, addr, v)
           T == TablesDepth
           at(m, a) == m.pAddr * PageSize + (a % PageSize)
           size == Cardinality(Tree(r))
<1>1. PICK n \in Level(r, T) : /\ n.pageNum = PageOf(addr)
                               /\ Location(r, addr) = at(n, addr)
  BY MappedPage
<1>2. /\ T \in 0 .. T /\ T \in Nat /\ PageSize \in Nat \ {0} /\ NumFrames \in Nat
      /\ \A a \in Nat : /\ a % PageSize \in 0 .. PageSize - 1
                        /\ a = PageOf(a) * PageSize + (a % PageSize)
  <2>1. T \in Nat /\ PageSize \in Nat \ {0} /\ NumFrames \in Nat
    BY Sizes
  <2> QED
    BY <2>1, Division DEF PageOf
<1>3. \A m \in Level(r, T) : m \in Tree(r) /\ m.depth = T
  BY <1>2, TreeLevels
<1>4. /\ size \in Nat \ {0} /\ size <= NumFrames /\ Separate(r)
      /\ \A x \in Tree(r) : x.pAddr \in Frame /\ x.pAddr < size
      /\ \A x, y \in Tree(r) : x.pAddr = y.pAddr => x = y
  BY TreeSizes DEF Separate
<1>5. \A m \in Level(r, T), a \in Nat :
        /\ at(m, a) \in 0 .. RamSize - 1
        /\ at(m, a) \div PageSize = m.pAddr
        /\ at(m, a) % PageSize = a % PageSize
  BY <1>2, <1>3, <1>4, Frames
<1> HIDE DEF at
<1>6. /\ q \in Rams
      /\ q[at(n, addr)] = v
      /\ \A b \in 0 .. RamSize - 1 : b # at(n, addr) => q[b] = r[b]
  BY <1>1, <1>5 DEF Rams, Written
<1> HIDE DEF q
<1>7. \A g \in Frame, i \in 0 .. PageSize - 1 : g # n.pAddr =>
        q[g * PageSize + i] = r[g * PageSize + i]
  <2> SUFFICES ASSUME NEW g \in Frame, NEW i \in 0 .. PageSize - 1, g # n.pAddr
               PROVE  q[g * PageSize + i] = r[g * PageSize + i]
    OBVIOUS
  <2> DEFINE b == g * PageSize + i
  <2>1. b \in 0 .. RamSize - 1 /\ b \div PageSize = g
    BY Frames
  <2> HIDE DEF b
  <2>2. b # at(n, addr)
    BY <1>5, <2>1
  <2> QED
    BY <1>6, <2>1, <2>2 DEF b
<1>8. Tree(q) = Tree(r) /\ Level(q, T) = Level(r, T)
  <2>1. ASSUME NEW w \in Tree(r), w.depth < T
        PROVE  w.pAddr \in Frame /\ w.pAddr # n.pAddr
    BY <1>2, <1>3, <1>4, <2>1
  <2>2. ASSUME NEW w \in Tree(r), w.depth < T, NEW i \in 0 .. PageSize - 1
        PROVE  q[w.pAddr * PageSize + i] = r[w.pAddr * PageSize + i]
    BY <1>7, <2>1, <2>2
  <2> QED
    BY <1>2, <1>6, <2>2, SameTables
<1>9. WellFormedIn(q)
  <2>1. ASSUME NEW g \in size .. NumFrames - 1
        PROVE  IsClear(q, g)
    <3>1. g \in Frame
      <4>1. g \in 0 .. NumFrames - 1
        BY <1>2, <1>4
      <4> QED
        BY <4>1, FrameRange
    <3>2. n.pAddr \in Nat /\ n.pAddr < size
      BY <1>3, <1>4, FrameRange
    <3>3. g # n.pAddr
      BY <1>4, <3>2
    <3>4. IsClear(r, g)
      BY DEF WellFormedIn
    <3> QED
      BY <1>7, <3>1, <3>3, <3>4 DEF IsClear
  <2> QED
    BY <1>4, <1>8, <2>1 DEF WellFormedIn
<1>10. \A m \in Level(r, T) : m.pAddr \in Frame
  BY <1>2, <1>4, FrameNodes
<1>11. ASSUME NEW a \in Nat, a < VirtualMemorySize
       PROVE  HeldIn(q, s, a) = IF a = addr THEN v ELSE HeldIn(r, s, a)
  <2>1. CASE \E m \in Level(r, T) : m.pageNum = PageOf(a)
    <3>1. PICK m \in Level(r, T) : m.pageNum = PageOf(a)
      BY <2>1
    <3>2. HeldIn(r, s, a) = r[at(m, a)]
      BY <1>10, <1>11, <3>1, HeldWord DEF at
    <3>3. HeldIn(q, s, a) = q[at(m, a)]
      <4>1. m \in Level(q, T) /\ q \in Rams /\ \A w \in Level(q, T) : w.pAddr \in Frame
        BY <1>6, <1>8, <1>10
      <4>2. HeldIn(q, s, a) = q[m.pAddr * PageSize + (a % PageSize)]
        BY <1>11, <3>1, <4>1, HeldWord
      <4> QED
        BY <4>2 DEF at
    <3>4. CASE a = addr
      <4>1. m = n
        BY <1>1, <1>2, <3>1, <3>4, SameNumber
      <4> QED
        BY <1>6, <3>3, <3>4, <4>1
    <3>5. CASE a # addr
      <4>1. at(m, a) # at(n, addr)
        <5> SUFFICES ASSUME at(m, a) = at(n, addr)
                     PROVE  FALSE
          OBVIOUS
        <5>1. m.pAddr = n.pAddr /\ a % PageSize = addr % PageSize
          BY <1>5
        <5>2. m = n
          BY <1>3, <1>4, <5>1
        <5>3. PageOf(a) = PageOf(addr)
          BY <1>1, <3>1, <5>2
        <5>4. a = addr
          BY <1>2, <5>1, <5>3
        <5> QED
          BY <3>5, <5>4
      <4>2. q[at(m, a)] = r[at(m, a)]
        BY <1>5, <1>6, <4>1
      <4> QED
        BY <3>2, <3>3, <3>5, <4>2
    <3> QED
      BY <3>4, <3>5
  <2>2. CASE \A m \in Level(r, T) : m.pageNum # PageOf(a)
    <3>1. a # addr
      BY <1>1, <2>2
    <3>2. HeldIn(r, s, a) = 0 /\ HeldIn(q, s, a) = 0
      BY <1>6, <1>8, <1>10, <1>11, <2>2, HeldWord
    <3> QED
      BY <3>1, <3>2
  <2> QED
    BY <2>1, <2>2
<1> QED
  BY <1>9, <1>11 DEF q

\* The addresses of the virtual memory.
Legal == { a \in Addrs : a < VirtualMemorySize }

\* The refinement mapping and WellFormed, in this state and in the next.
LEMMA ImageHeld ==
  /\ Image = [ a \in Legal |-> HeldIn(ram, swapFile, a) ]
  /\ Image' = [ a \in Legal |-> HeldIn(ram', swapFile', a) ]
  /\ WellFormed = WellFormedIn(ram)
  /\ WellFormed' = WellFormedIn(ram')
  /\ Legal = Flat!Legal
  /\ \A a \in Legal : a \in Nat /\ a < VirtualMemorySize
<1>1. /\ Image = [ a \in Legal |-> HeldIn(ram, swapFile, a) ]
      /\ Image' = [ a \in Legal |-> HeldIn(ram', swapFile', a) ]
  BY DEF Held, HeldIn, Image, Legal
<1>2. /\ WellFormed = WellFormedIn(ram)
      /\ WellFormed' = WellFormedIn(ram')
  BY DEF WellFormed, WellFormedIn
<1>3. /\ Legal = Flat!Legal
      /\ \A a \in Legal : a \in Nat /\ a < VirtualMemorySize
  BY VirtualMemoryAssumption DEF Legal, Flat!Legal
<1> QED
  BY <1>1, <1>2, <1>3

\* A step of getPAddr that evicts nothing changes no word that the memory holds.
LEMMA RelinksStutters ==
  ASSUME PagesFit, IInv, IInv', WellFormed, StepRelinks
  PROVE  Image' = Image /\ WellFormed'
<1>1. ZeroSwap(swapFile) /\ ZeroSwap(swapFile')
  BY DEF IInv, SwapIsZero, ZeroSwap
<1>2. PICK z, f : /\ Relinking(ram, ram', Lacking.depth, z,
                               Path(call.addr)[Lacking.depth], f)
                  /\ f <= Cardinality(Tree(ram))
  BY DEF StepRelinks
<1>3. \A a \in Legal : HeldIn(ram', swapFile', a) = HeldIn(ram, swapFile, a)
  BY <1>1, <1>2, ImageHeld, RelinkHeld
<1>4. WellFormedIn(ram')
  BY <1>2, ImageHeld, RelinkWellFormed
<1> QED
  BY <1>3, <1>4, ImageHeld

\* A RAM with a clear root table, and a swap file of zeros, hold only zeros.
LEMMA ClearHeld ==
  ASSUME NEW r \in Rams, NEW s, ZeroSwap(s), PagesFit,
         \A a \in 0 .. RamSize - 1 : a \notin RootSize .. PageSize - 1 => r[a] = 0
  PROVE  \A a \in Legal : HeldIn(r, s, a) = 0
<1>1. Level(r, TablesDepth) = {}
  BY ClearRoot
<1> QED
  BY <1>1, HeldWord, ImageHeld

\* VMinitialize makes every word zero.
LEMMA InitializeIsFlat ==
  ASSUME PagesFit, IInv, IInv', VMinitialize
  PROVE  Flat!Initialize /\ WellFormed'
<1>1. ram' \in Rams /\ ZeroSwap(swapFile')
  BY DEF IInv, TypeOK, Rams, SwapIsZero, ZeroSwap
<1>2. \A a \in 0 .. RamSize - 1 : a \notin RootSize .. PageSize - 1 => ram'[a] = 0
  BY DEF VMinitialize
<1>3. WellFormed'
  BY <1>1, <1>2, ClearRoot, ImageHeld
<1>4. Image' = Flat!Zeros
  <2>1. \A a \in Legal : HeldIn(ram', swapFile', a) = 0
    BY <1>1, <1>2, ClearHeld
  <2> QED
    BY <2>1, ImageHeld DEF Flat!Zeros
<1> QED
  BY <1>3, <1>4 DEF VMinitialize, Flat!Initialize, NoCall, Flat!NoCall

\* VMread returns the word that the memory holds.
LEMMA ReadIsFlat ==
  ASSUME IInv, VMread
  PROVE  Flat!Return /\ UNCHANGED << ram, swapFile >>
<1>1. call.op = "read" /\ Mapped(ram, call.addr)
  BY CallTyped, LegalIsMapped DEF VMread, Found, IInv
<1>2. call.addr \in Legal
  BY <1>1, CallTyped DEF IInv, VMread, IsLegal, Legal
<1>3. Image[call.addr] = ram[Location(ram, call.addr)]
  <2>1. HeldIn(ram, swapFile, call.addr) = ram[Location(ram, call.addr)]
    BY <1>1 DEF HeldIn, Mapped, VMread, IsLegal
  <2> QED
    BY <1>2, <2>1, ImageHeld
<1>4. UNCHANGED << ram, swapFile >>
  BY DEF VMread
<1>5. Image' = Image
  BY <1>4, ImageHeld
<1>6. Flat!Read
  BY <1>1, <1>2, <1>3, <1>5, ImageHeld DEF VMread, Flat!Read
<1> QED
  BY <1>4, <1>6 DEF VMread, Flat!Return, NoCall, Flat!NoCall

\* VMwrite changes this word and no other.
LEMMA WriteIsFlat ==
  ASSUME PagesFit, IInv, WellFormed, VMwrite
  PROVE  Flat!Return /\ WellFormed'
<1>1. call.op = "write" /\ Mapped(ram, call.addr) /\ ZeroSwap(swapFile)
  BY CallTyped, LegalIsMapped DEF VMwrite, Found, IInv, SwapIsZero
<1>2. /\ ram \in Rams
      /\ call.addr \in Legal /\ call.addr \in Nat /\ call.addr < VirtualMemorySize
      /\ call.value \in Word
  BY <1>1, CallTyped DEF IInv, VMwrite, IsLegal, Legal
<1>3. /\ ram' = [ ram EXCEPT ![Location(ram, call.addr)] = call.value ]
      /\ swapFile' = swapFile
  BY DEF VMwrite
<1>4. /\ WellFormedIn(ram')
      /\ \A a \in Nat : a < VirtualMemorySize =>
           HeldIn(ram', swapFile, a) =
             IF a = call.addr THEN call.value ELSE HeldIn(ram, swapFile, a)
  <2>1. WellFormedIn(ram)
    BY ImageHeld
  <2>2. ram' = Written(ram, call.addr, call.value)
    BY <1>3 DEF Written
  <2> QED
    BY <1>1, <1>2, <2>1, <2>2, WriteHeld
<1>5. Image' = [ Image EXCEPT ![call.addr] = call.value ]
  BY <1>2, <1>3, <1>4, ImageHeld
<1>6. Flat!Write
  BY <1>1, <1>2, <1>5, ImageHeld DEF VMwrite, Flat!Write
<1> QED
  BY <1>4, <1>6, ImageHeld DEF VMwrite, Flat!Return, NoCall, Flat!NoCall

\* An address above the memory fails.
LEMMA RefuseIsFlat ==
  ASSUME PagesFit, IInv, WellFormed, Refuse
  PROVE  /\ Flat!Return /\ UNCHANGED << ram, swapFile >>
         /\ call.addr \notin Flat!Legal
<1>1. call.op \in {"read", "write"}
  BY DEF Refuse, Found
<1>2. call # Flat!NoCall
  BY <1>1 DEF Flat!NoCall
<1>3. call.addr \notin Flat!Legal
  <2>1. call.addr \in Nat /\ ram \in Rams /\ Separate(ram)
    BY <1>1, CallTyped, ImageHeld, TreeSizes DEF IInv
  <2>2. ~(call.addr < VirtualMemorySize)
    <3> SUFFICES ASSUME call.addr < VirtualMemorySize
                 PROVE  FALSE
      OBVIOUS
    <3>1. Mapped(ram, call.addr)
      BY <2>1, MissingInRam DEF Refuse, Found, Lacks, Lacking, Mapped
    <3>2. PICK n \in Level(ram, TablesDepth) :
            Location(ram, call.addr) = n.pAddr * PageSize + (call.addr % PageSize)
      BY <2>1, <3>1, MappedPage
    <3>3. n.pAddr \in Frame /\ call.addr % PageSize \in 0 .. PageSize - 1
      <4>1. TablesDepth \in 0 .. TablesDepth
        BY Sizes
      <4>2. n.pAddr \in Frame
        BY <2>1, <4>1, FrameNodes
      <4>3. call.addr % PageSize \in 0 .. PageSize - 1
        BY <2>1, Sizes, Division
      <4> QED
        BY <4>2, <4>3
    <3>4. n.pAddr * PageSize + (call.addr % PageSize) \in 0 .. RamSize - 1
      BY <3>3, Frames
    <3>5. Location(ram, call.addr) < RamSize
      BY <3>2, <3>4, Sizes
    <3> QED
      BY <3>5 DEF Refuse, IsLegal
  <2> QED
    BY <2>1, <2>2 DEF Flat!Legal
<1>4. UNCHANGED << ram, swapFile >>
  BY DEF Refuse
<1>5. Image' = Image
  BY <1>4, ImageHeld
<1>6. Flat!Fail
  BY <1>2, <1>3, <1>5 DEF Refuse, Flat!Fail
<1> QED
  BY <1>3, <1>4, <1>6 DEF Refuse, Flat!Return, NoCall, Flat!NoCall

\* Every step but those that OnlyEvictionLoses excepts is a step of the memory.
LEMMA StepIsFlat ==
  ASSUME PagesFit, IInv, IInv', [Next]_vars, WellFormed, ~Evicts,
         ~InitializeOverflows
  PROVE  [Flat!Next]_(Flat!vars) /\ WellFormed'
<1>1. /\ UNCHANGED << ram, swapFile >> => Image' = Image /\ WellFormed'
  BY ImageHeld
<1>2. CASE VMinitialize
  BY <1>2, InitializeIsFlat DEF Flat!Next
<1>3. CASE Call
  <2>1. Flat!Call
    BY <1>1, <1>3 DEF Call, NoCall, Flat!Call, Flat!NoCall
  <2> QED
    BY <1>1, <1>3, <2>1 DEF Call, Flat!Next
<1>4. CASE Reclaim \/ Extend
  <2>1. Image' = Image /\ WellFormed'
    BY <1>4, ImageHeld, ReclaimRelinks, ExtendRelinks, RelinksStutters
  <2>2. UNCHANGED << call, answer >>
    BY <1>4 DEF Reclaim, Extend
  <2> QED
    BY <2>1, <2>2 DEF Flat!vars
<1>5. CASE VMread
  BY <1>1, <1>5, ReadIsFlat DEF Flat!Next
<1>6. CASE VMwrite
  BY <1>6, WriteIsFlat DEF Flat!Next
<1>7. CASE Refuse
  BY <1>1, <1>7, RefuseIsFlat DEF Flat!Next
<1>8. CASE UNCHANGED vars
  BY <1>1, <1>8 DEF vars, Flat!vars
<1>9. ~Evict /\ ~EvictFails /\ ~InitializeOverflows
  BY DEF Evict, EvictFails
<1>10. ~RestoreFails
  BY ImageHeld, NoStrayPage DEF RestoreFails
<1> QED
  BY <1>2, <1>3, <1>4, <1>5, <1>6, <1>7, <1>8, <1>9, <1>10 DEF Next

\* VMread, VMwrite and VMinitialize do what a flat memory does, and no step of
\* getPAddr that evicts nothing changes a word that a client could read; the tree
\* stays well formed.
THEOREM OnlyEvictionsLose ==
  ASSUME PagesFit
  PROVE  Spec => OnlyEvictionLoses
<1>1. ASSUME IInv, IInv', [Next]_vars
      PROVE  WellFormed /\ ~Evicts /\ ~InitializeOverflows =>
               [Flat!Next]_(Flat!vars) /\ WellFormed'
  BY <1>1, StepIsFlat
<1> QED
  BY <1>1, InvariantHolds, PTL DEF Spec, OnlyEvictionLoses

\* While no page is evicted and nothing fails, the virtual memory is a memory.
Smooth == ~Evicts /\ call # Abort

LEMMA InitIsFlat ==
  ASSUME PagesFit, IInv, Init
  PROVE  Flat!Init /\ WellFormed
<1>1. ram \in Rams /\ ZeroSwap(swapFile)
  BY DEF IInv, TypeOK, Rams, SwapIsZero, ZeroSwap
<1>2. \A a \in 0 .. RamSize - 1 : a \notin RootSize .. PageSize - 1 => ram[a] = 0
  BY DEF Init, PmInit
<1>3. WellFormed
  BY <1>1, <1>2, ClearRoot, ImageHeld
<1>4. Image = Flat!Zeros
  <2>1. \A a \in Legal : HeldIn(ram, swapFile, a) = 0
    BY <1>1, <1>2, ClearHeld
  <2> QED
    BY <2>1, ImageHeld DEF Flat!Zeros
<1> QED
  BY <1>3, <1>4 DEF Init, Flat!Init, NoCall, Flat!NoCall, Flat!Failure

\* The virtual memory of VirtualMemory.h: as long as evict is not reached, and
\* VMinitialize returns, it is an array of words, and its tree is well formed.
THEOREM ImplementsMemory ==
  ASSUME PagesFit
  PROVE  Spec /\ []Smooth => Flat!Spec /\ []WellFormed
<1>1. IInv /\ Init => Flat!Init /\ WellFormed
  BY InitIsFlat
<1>2. ASSUME IInv, IInv', [Next]_vars, WellFormed, Smooth, Smooth'
      PROVE  [Flat!Next]_(Flat!vars) /\ WellFormed'
  <2>1. ~InitializeOverflows
    BY <1>2 DEF Smooth, InitializeOverflows
  <2> QED
    BY <1>2, <2>1, StepIsFlat DEF Smooth
<1> QED
  BY <1>1, <1>2, InvariantHolds, PTL DEF Spec, Flat!Spec

-----------------------------------------------------------------------------
(***************************************************************************)
(* The tests, as sequences of operations.                                  *)
(***************************************************************************)
\* Two sequences, one after the other.
LEMMA Joined ==
  ASSUME NEW S, NEW u \in Seq(S), NEW v \in Seq(S)
  PROVE  /\ u \o v \in Seq(S)
         /\ Len(u \o v) = Len(u) + Len(v)
         /\ \A k \in 1 .. Len(u) + Len(v) :
              (u \o v)[k] = IF k <= Len(u) THEN u[k] ELSE v[k - Len(u)]
BY ConcatProperties, Zenon

\* Pairs written one after the other.
IsFlat(S, n, A, B, s) ==
  /\ s \in Seq(S)
  /\ Len(s) = 2 * n
  /\ \A j \in 1 .. n : s[2 * j - 1] = A[j] /\ s[2 * j] = B[j]

LEMMA FlatPairs ==
  ASSUME NEW S, NEW n \in Nat, NEW A \in [ 1 .. n -> S ], NEW B \in [ 1 .. n -> S ],
         NEW p, p = [ j \in 1 .. n |-> << A[j], B[j] >> ]
  PROVE  IsFlat(S, n, A, B, FlattenSeq(p))
<1> DEFINE inter == [ i \in 0 .. n |-> [ k \in 1 .. 2 * i |->
                        IF k % 2 = 1 THEN A[(k + 1) \div 2] ELSE B[k \div 2] ] ]
           flat(f) == f = [ i \in 1 .. n |-> IF i = 1 THEN p[i] ELSE f[i - 1] \o p[i] ]
<1>1. p \in Seq(Seq(S)) /\ Len(p) = n
  <2>1. \A j \in 1 .. n : << A[j], B[j] >> \in Seq(S)
    OBVIOUS
  <2> QED
    BY <2>1
<1>2. ASSUME NEW i \in 0 .. n
      PROVE  /\ inter[i] \in Seq(S)
             /\ Len(inter[i]) = 2 * i
             /\ DOMAIN inter[i] = 1 .. 2 * i
             /\ \A j \in 1 .. i : inter[i][2 * j - 1] = A[j] /\ inter[i][2 * j] = B[j]
  <2>1. \A k \in 1 .. 2 * i : /\ k % 2 = 1 => (k + 1) \div 2 \in 1 .. n
                              /\ k % 2 # 1 => k \div 2 \in 1 .. n
    OBVIOUS
  <2>2. \A k \in 1 .. 2 * i :
          (IF k % 2 = 1 THEN A[(k + 1) \div 2] ELSE B[k \div 2]) \in S
    BY <2>1
  <2>3. 2 * i \in Nat
    OBVIOUS
  <2>4. inter[i] \in [ 1 .. 2 * i -> S ]
    BY <2>2
  <2>5. \A j \in 1 .. i : /\ 2 * j - 1 \in 1 .. 2 * i /\ 2 * j \in 1 .. 2 * i
                          /\ (2 * j - 1) % 2 = 1 /\ ((2 * j - 1) + 1) \div 2 = j
                          /\ (2 * j) % 2 # 1 /\ (2 * j) \div 2 = j
    OBVIOUS
  <2>6. \A j \in 1 .. i : inter[i][2 * j - 1] = A[j] /\ inter[i][2 * j] = B[j]
    BY <2>5
  <2> QED
    BY <2>3, <2>4, <2>6
<1>3. CASE n = 0
  <2>1. FlattenSeq(p) = p
    BY <1>1, <1>3 DEF FlattenSeq
  <2>2. p = << >>
    BY <1>1, <1>3
  <2>3. << >> \in Seq(S) /\ Len(<< >>) = 2 * n
    BY <1>3, EmptySeq
  <2>4. 1 .. n = {}
    BY <1>3
  <2>5. FlattenSeq(p) \in Seq(S) /\ Len(FlattenSeq(p)) = 2 * n
    BY <2>1, <2>2, <2>3
  <2>6. IsFlat(S, n, A, B, FlattenSeq(p))
    BY <2>4, <2>5 DEF IsFlat
  <2> QED
    BY <2>6
<1>4. CASE n # 0
  <2>1. FlattenSeq(p) = (CHOOSE f : flat(f))[n]
    BY <1>1, <1>4 DEF FlattenSeq
  <2>2. \A i \in 1 .. n : inter[i] = IF i = 1 THEN p[i] ELSE inter[i - 1] \o p[i]
    <3> SUFFICES ASSUME NEW i \in 1 .. n
                 PROVE  inter[i] = IF i = 1 THEN p[i] ELSE inter[i - 1] \o p[i]
      OBVIOUS
    <3>1. p[i] \in Seq(S) /\ Len(p[i]) = 2 /\ p[i][1] = A[i] /\ p[i][2] = B[i]
      OBVIOUS
    <3>2. /\ inter[i] \in Seq(S) /\ Len(inter[i]) = 2 * i
          /\ \A j \in 1 .. i : inter[i][2 * j - 1] = A[j] /\ inter[i][2 * j] = B[j]
      <4>1. i \in 0 .. n
        OBVIOUS
      <4> QED
        BY <1>2, <4>1
    <3>3. CASE i = 1
      <4>1. inter[i][2 * 1 - 1] = A[1] /\ inter[i][2 * 1] = B[1]
        BY <3>2, <3>3
      <4>2. \A k \in 1 .. Len(inter[i]) : inter[i][k] = p[i][k]
        BY <3>1, <3>2, <3>3, <4>1
      <4> HIDE DEF inter
      <4> QED
        BY <3>1, <3>2, <3>3, <4>2, SeqEqual
    <3>4. CASE i # 1
      <4>1. i - 1 \in 0 .. n
        BY <3>4
      <4>2. /\ inter[i - 1] \in Seq(S) /\ Len(inter[i - 1]) = 2 * (i - 1)
            /\ \A k \in 1 .. 2 * (i - 1) : inter[i - 1][k] = inter[i][k]
        BY <1>2, <4>1
      <4>3. inter[i][2 * i - 1] = A[i] /\ inter[i][2 * i] = B[i]
        BY <3>2
      <4> HIDE DEF inter
      <4> DEFINE u == inter[i - 1]
                 y == p[i]
                 c == u \o y
      <4>4. /\ c \in Seq(S)
            /\ Len(c) = 2 * i
            /\ \A k \in 1 .. Len(c) : c[k] = IF k <= 2 * (i - 1) THEN inter[i - 1][k]
                                             ELSE p[i][k - 2 * (i - 1)]
        <5>1. /\ u \in Seq(S) /\ Len(u) = 2 * (i - 1)
              /\ y \in Seq(S) /\ Len(y) = 2
          BY <3>1, <4>2
        <5> HIDE DEF u, y
        <5>2. /\ c \in Seq(S)
              /\ Len(c) = Len(u) + Len(y)
              /\ \A k \in 1 .. Len(u) + Len(y) :
                   c[k] = IF k <= Len(u) THEN u[k] ELSE y[k - Len(u)]
          BY <5>1, Joined
        <5> HIDE DEF c
        <5>3. /\ c \in Seq(S)
              /\ Len(c) = 2 * i
              /\ \A k \in 1 .. Len(c) : c[k] = IF k <= 2 * (i - 1) THEN u[k]
                                               ELSE y[k - 2 * (i - 1)]
          BY <5>1, <5>2
        <5> QED
          BY <5>3 DEF u, y
      <4>5. \A k \in 1 .. 2 * i : c[k] = inter[i][k]
        <5> SUFFICES ASSUME NEW k \in 1 .. 2 * i PROVE c[k] = inter[i][k]
          OBVIOUS
        <5>1. \/ k <= 2 * (i - 1) \/ k = 2 * i - 1 \/ k = 2 * i
          OBVIOUS
        <5> QED
          <6> HIDE DEF c
          <6>1. c[k] = IF k <= 2 * (i - 1) THEN inter[i - 1][k] ELSE p[i][k - 2 * (i - 1)]
            BY <4>4
          <6>2. CASE k <= 2 * (i - 1)
            BY <4>2, <6>1, <6>2
          <6>3. CASE k = 2 * i - 1
            <7>1. ~ (k <= 2 * (i - 1)) /\ k - 2 * (i - 1) = 1
              BY <6>3
            <7> QED
              BY <3>1, <4>3, <6>1, <6>3, <7>1
          <6>4. CASE k = 2 * i
            <7>1. ~ (k <= 2 * (i - 1)) /\ k - 2 * (i - 1) = 2
              BY <6>4
            <7> QED
              BY <3>1, <4>3, <6>1, <6>4, <7>1
          <6> QED
            BY <5>1, <6>2, <6>3, <6>4
      <4> HIDE DEF c
      <4>6. inter[i] = c
        BY <3>2, <4>4, <4>5, SeqEqual
      <4> QED
        BY <3>4, <4>6 DEF c, u, y
    <3> QED
      BY <3>3, <3>4
  <2>3. flat([ i \in 1 .. n |-> inter[i] ])
    <3> DEFINE g == [ i \in 1 .. n |-> inter[i] ]
    <3>1. \A i \in 1 .. n : g[i] = inter[i] /\ (i # 1 => g[i - 1] = inter[i - 1])
      OBVIOUS
    <3> HIDE DEF inter
    <3>2. \A i \in 1 .. n : g[i] = IF i = 1 THEN p[i] ELSE g[i - 1] \o p[i]
      BY <2>2, <3>1
    <3> QED
      BY <3>2
  <2>4. flat(CHOOSE f : flat(f))
    <3> HIDE DEF flat
    <3> QED
      BY <2>3
  <2> DEFINE h == CHOOSE f : flat(f)
             T == { i \in Nat : i + 1 <= n => h[i + 1] = inter[i + 1] }
  <2>5. \A i \in 1 .. n : h[i] = IF i = 1 THEN p[i] ELSE h[i - 1] \o p[i]
    <3>1. h = [ i \in 1 .. n |-> IF i = 1 THEN p[i] ELSE h[i - 1] \o p[i] ]
      BY <2>4
    <3> HIDE DEF h, inter, flat
    <3> QED
      BY ONLY <3>1
  <2> HIDE DEF h, inter
  <2>6. 0 \in T
    BY <1>4, <2>2, <2>5
  <2>7. ASSUME NEW i \in T PROVE i + 1 \in T
    <3> SUFFICES ASSUME (i + 1) + 1 <= n PROVE h[(i + 1) + 1] = inter[(i + 1) + 1]
      OBVIOUS
    <3>1. i \in Nat /\ i + 1 <= n /\ h[i + 1] = inter[i + 1]
      OBVIOUS
    <3>2. (i + 1) + 1 \in 1 .. n /\ (i + 1) + 1 # 1 /\ ((i + 1) + 1) - 1 = i + 1
      BY <3>1
    <3> QED
      BY <2>2, <2>5, <3>1, <3>2
  <2>8. T = Nat
    <3> HIDE DEF T
    <3>1. T \in SUBSET Nat
      BY DEF T
    <3> QED
      BY <2>6, <2>7, <3>1, SetInduction
  <2>9. h[n] = inter[n]
    <3>1. n - 1 \in Nat /\ (n - 1) + 1 = n
      BY <1>4
    <3>2. (n - 1) + 1 <= n => h[(n - 1) + 1] = inter[(n - 1) + 1]
      BY <2>8, <3>1
    <3> QED
      BY <3>1, <3>2
  <2>10. FlattenSeq(p) = inter[n] /\ n \in 0 .. n
    BY <2>1, <2>9 DEF h
  <2>11. IsFlat(S, n, A, B, FlattenSeq(p))
    BY <1>2, <2>10 DEF IsFlat
  <2> QED
    BY <2>11
<1> QED
  BY <1>3, <1>4

\* An operation of a test that calls, or looks at a word of the RAM.
AnyOp ==
  [ op : { "read", "write", "PMread" }, addr : Nat, value : Nat, ok : BOOLEAN ]

\* The k-th operation is the last one before the n-th that writes at a.
WritesTo(e, a) == e.op = "write" /\ e.ok /\ e.addr = a
LastWrite(ops, n, k, a) ==
  /\ WritesTo(ops[k], a)
  /\ \A l \in k + 1 .. n - 1 : ~WritesTo(ops[l], a)

\* A test that only calls, and expects to read what it has written.
Expected(ops, j) ==
  /\ ops[j].op \in { "read", "write" }
  /\ ops[j].ok <=> ops[j].addr < VirtualMemorySize
  /\ ops[j].op = "read" /\ ~ops[j].ok => ops[j].value = 0
  /\ ops[j].op = "read" /\ ops[j].ok =>
       \E k \in 1 .. j - 1 :
         LastWrite(ops, j, k, ops[j].addr) /\ ops[k].value = ops[j].value
ReadsBack(ops) == \A j \in 1 .. Len(ops) : Expected(ops, j)

LEMMA SizeIsPositive == VirtualMemorySize \in Nat \ {0}
BY WidthAssumption, Powers DEF VirtualMemorySize

\* Where every address has one value, a read has only to come after a write.
LEMMA OneValueEach ==
  ASSUME NEW ops \in Seq(AnyOp), NEW v,
         \A j \in 1 .. Len(ops) :
           /\ ops[j].op \in { "read", "write" }
           /\ ops[j].ok = TRUE /\ ops[j].addr \in 0 .. VirtualMemorySize - 1
           /\ ops[j].value = v[ops[j].addr]
           /\ ops[j].op = "read" =>
                \E k \in 1 .. j - 1 : ops[k].op = "write" /\ ops[k].addr = ops[j].addr
  PROVE  ReadsBack(ops)
<1> SUFFICES ASSUME NEW j \in 1 .. Len(ops) PROVE Expected(ops, j)
  BY DEF ReadsBack
<1>1. Len(ops) \in Nat /\ VirtualMemorySize \in Nat
  BY SizeIsPositive
<1>2. ops[j].addr < VirtualMemorySize
  BY <1>1
<1>3. ASSUME ops[j].op = "read"
      PROVE  \E k \in 1 .. j - 1 :
               LastWrite(ops, j, k, ops[j].addr) /\ ops[k].value = ops[j].value
  <2> DEFINE K == { k \in 1 .. j - 1 : WritesTo(ops[k], ops[j].addr) }
  <2>1. \A k \in 1 .. j - 1 : k \in 1 .. Len(ops)
    BY <1>1
  <2>2. K # {}
    BY <1>3, <2>1 DEF WritesTo
  <2>3. PICK k \in K : \A l \in K : l <= k
    <3> HIDE DEF K
    <3>1. K \in SUBSET (1 .. j - 1) /\ j \in Nat
      BY <1>1 DEF K
    <3> QED
      BY <2>2, <3>1, Greatest
  <2>4. \A l \in k + 1 .. j - 1 : ~WritesTo(ops[l], ops[j].addr)
    BY <1>1, <2>3
  <2>5. ops[k].value = ops[j].value
    BY <2>1 DEF WritesTo
  <2> QED
    BY <2>4, <2>5 DEF LastWrite
<1> QED
  BY <1>2, <1>3 DEF Expected

\* The operations for given addresses, with a value for each.
Writing(a, v) == [ j \in DOMAIN a |-> Write(a[j], v[a[j]]) ]
Reading(a, v) == [ j \in DOMAIN a |-> Read(a[j], v[a[j]]) ]

\* w and r are these operations.
AreCalls(n, a, v, w, r) ==
  /\ w \in Seq(AnyOp) /\ Len(w) = n /\ r \in Seq(AnyOp) /\ Len(r) = n
  /\ w \in [ 1 .. n -> AnyOp ] /\ r \in [ 1 .. n -> AnyOp ]
  /\ \A j \in 1 .. n :
       /\ a[j] \in 0 .. VirtualMemorySize - 1
       /\ w[j].op = "write" /\ w[j].addr = a[j] /\ w[j].value = v[a[j]] /\ w[j].ok = TRUE
       /\ r[j].op = "read" /\ r[j].addr = a[j] /\ r[j].value = v[a[j]] /\ r[j].ok = TRUE

LEMMA CallsTyped ==
  ASSUME NEW n \in Nat, NEW a \in [ 1 .. n -> 0 .. VirtualMemorySize - 1 ],
         NEW v \in [ 0 .. VirtualMemorySize - 1 -> Nat ]
  PROVE  AreCalls(n, a, v, Writing(a, v), Reading(a, v))
<1>1. \A j \in 1 .. n : a[j] \in 0 .. VirtualMemorySize - 1 /\ v[a[j]] \in Nat
  OBVIOUS
<1>2. \A j \in 1 .. n : a[j] \in Nat
  BY <1>1, SizeIsPositive
<1>3. \A j \in 1 .. n : /\ Write(a[j], v[a[j]]) \in AnyOp
                        /\ Read(a[j], v[a[j]]) \in AnyOp
  BY <1>1, <1>2 DEF Write, Read, Operation, AnyOp
<1>4. /\ Writing(a, v) \in [ 1 .. n -> AnyOp ] /\ Reading(a, v) \in [ 1 .. n -> AnyOp ]
  BY <1>3 DEF Writing, Reading
<1>5. /\ Writing(a, v) \in Seq(AnyOp) /\ Len(Writing(a, v)) = n
      /\ Reading(a, v) \in Seq(AnyOp) /\ Len(Reading(a, v)) = n
  BY <1>4
<1>6. \A j \in 1 .. n : /\ Writing(a, v)[j] = Write(a[j], v[a[j]])
                        /\ Reading(a, v)[j] = Read(a[j], v[a[j]])
  BY DEF Writing, Reading
<1> QED
  BY <1>1, <1>2, <1>4, <1>5, <1>6 DEF Write, Read, Operation, AreCalls

\* All writes and then all reads.
LEMMA WritesThenReads ==
  ASSUME NEW n \in Nat, NEW a \in [ 1 .. n -> 0 .. VirtualMemorySize - 1 ],
         NEW v \in [ 0 .. VirtualMemorySize - 1 -> Nat ]
  PROVE  /\ Writing(a, v) \o Reading(a, v) \in Seq(AnyOp)
         /\ ReadsBack(Writing(a, v) \o Reading(a, v))
<1> DEFINE w == Writing(a, v)
           r == Reading(a, v)
           ops == w \o r
<1>0. AreCalls(n, a, v, w, r)
  BY CallsTyped
<1> HIDE DEF w, r
<1>1. /\ w \in Seq(AnyOp) /\ Len(w) = n /\ r \in Seq(AnyOp) /\ Len(r) = n
  BY <1>0 DEF AreCalls
<1>2. /\ ops \in Seq(AnyOp) /\ Len(ops) = Len(w) + Len(r)
      /\ \A i \in 1 .. Len(w) + Len(r) :
           ops[i] = IF i <= Len(w) THEN w[i] ELSE r[i - Len(w)]
  BY <1>1, ConcatProperties, Zenon
<1> HIDE DEF ops
<1>3. \A i \in 1 .. n : ops[i] = w[i] /\ ops[n + i] = r[i]
  <2> SUFFICES ASSUME NEW i \in 1 .. n PROVE ops[i] = w[i] /\ ops[n + i] = r[i]
    OBVIOUS
  <2>1. /\ i \in 1 .. n + n /\ i <= n
        /\ n + i \in 1 .. n + n /\ ~ (n + i <= n) /\ (n + i) - n = i
    OBVIOUS
  <2> QED
    BY <1>1, <1>2, <2>1
<1>4. \A j \in 1 .. Len(ops) :
        /\ ops[j].op \in { "read", "write" }
        /\ ops[j].ok = TRUE /\ ops[j].addr \in 0 .. VirtualMemorySize - 1
        /\ ops[j].value = v[ops[j].addr]
        /\ ops[j].op = "read" =>
             \E k \in 1 .. j - 1 : ops[k].op = "write" /\ ops[k].addr = ops[j].addr
  <2> SUFFICES ASSUME NEW j \in 1 .. Len(ops)
               PROVE  /\ ops[j].op \in { "read", "write" }
                      /\ ops[j].ok = TRUE /\ ops[j].addr \in 0 .. VirtualMemorySize - 1
                      /\ ops[j].value = v[ops[j].addr]
                      /\ ops[j].op = "read" => \E k \in 1 .. j - 1 :
                           ops[k].op = "write" /\ ops[k].addr = ops[j].addr
    OBVIOUS
  <2>1. PICK i \in 1 .. n : j = i \/ j = n + i
    <3>1. j \in 1 .. n + n
      BY <1>1, <1>2
    <3>2. j \in 1 .. n \/ (j - n \in 1 .. n /\ j = n + (j - n))
      BY <3>1
    <3> QED
      BY <3>2
  <2>4. /\ a[i] \in 0 .. VirtualMemorySize - 1
        /\ w[i].op = "write" /\ w[i].addr = a[i] /\ w[i].value = v[a[i]] /\ w[i].ok = TRUE
        /\ r[i].op = "read" /\ r[i].addr = a[i] /\ r[i].value = v[a[i]] /\ r[i].ok = TRUE
    BY <1>0 DEF AreCalls
  <2>2. CASE j = i
    <3>1. ops[j] = w[i]
      BY <1>3, <2>2
    <3> QED
      BY <2>4, <3>1
  <2>3. CASE j = n + i
    <3>1. i \in 1 .. j - 1 /\ ops[j] = r[i] /\ ops[i] = w[i]
      BY <1>3, <2>3
    <3> QED
      BY <2>4, <3>1
  <2> QED
    BY <2>1, <2>2, <2>3
<1>5. ReadsBack(ops)
  BY <1>2, <1>4, OneValueEach
<1> QED
  BY <1>2, <1>5 DEF ops, w, r

\* Each write with its read, and then all reads again.
LEMMA PairsThenReads ==
  ASSUME NEW n \in Nat, NEW a \in [ 1 .. n -> 0 .. VirtualMemorySize - 1 ],
         NEW v \in [ 0 .. VirtualMemorySize - 1 -> Nat ]
  PROVE  LET w == Writing(a, v)
             r == Reading(a, v)
             ops == FlattenSeq([ j \in 1 .. n |-> << w[j], r[j] >> ]) \o r IN
         ops \in Seq(AnyOp) /\ ReadsBack(ops)
<1> DEFINE w == Writing(a, v)
           r == Reading(a, v)
           q == [ j \in 1 .. n |-> << w[j], r[j] >> ]
           p == FlattenSeq(q)
           ops == p \o r
<1>0. AreCalls(n, a, v, w, r)
  BY CallsTyped
<1> HIDE DEF w, r
<1>1. /\ r \in Seq(AnyOp) /\ Len(r) = n
      /\ w \in [ 1 .. n -> AnyOp ] /\ r \in [ 1 .. n -> AnyOp ]
  BY <1>0 DEF AreCalls
<1>2. /\ p \in Seq(AnyOp) /\ Len(p) = 2 * n
      /\ \A j \in 1 .. n : p[2 * j - 1] = w[j] /\ p[2 * j] = r[j]
  <2>1. q = [ j \in 1 .. n |-> << w[j], r[j] >> ]
    OBVIOUS
  <2> HIDE DEF q
  <2>2. IsFlat(AnyOp, n, w, r, p)
    BY <1>1, <2>1, FlatPairs
  <2> QED
    BY <2>2 DEF IsFlat
<1> HIDE DEF p, q
<1>3. /\ ops \in Seq(AnyOp) /\ Len(ops) = Len(p) + Len(r)
      /\ \A i \in 1 .. Len(p) + Len(r) :
           ops[i] = IF i <= Len(p) THEN p[i] ELSE r[i - Len(p)]
  BY <1>1, <1>2, ConcatProperties, Zenon
<1> HIDE DEF ops
<1>4. \A i \in 1 .. n : ops[2 * i - 1] = w[i] /\ ops[2 * i] = r[i] /\ ops[2 * n + i] = r[i]
  <2> SUFFICES ASSUME NEW i \in 1 .. n
               PROVE  ops[2 * i - 1] = w[i] /\ ops[2 * i] = r[i] /\ ops[2 * n + i] = r[i]
    OBVIOUS
  <2>1. /\ 2 * i - 1 \in 1 .. 2 * n + n /\ 2 * i - 1 <= 2 * n
        /\ 2 * i \in 1 .. 2 * n + n /\ 2 * i <= 2 * n
        /\ 2 * n + i \in 1 .. 2 * n + n /\ ~ (2 * n + i <= 2 * n) /\ (2 * n + i) - 2 * n = i
    OBVIOUS
  <2> QED
    BY <1>1, <1>2, <1>3, <2>1
<1>5. \A j \in 1 .. Len(ops) :
        /\ ops[j].op \in { "read", "write" }
        /\ ops[j].ok = TRUE /\ ops[j].addr \in 0 .. VirtualMemorySize - 1
        /\ ops[j].value = v[ops[j].addr]
        /\ ops[j].op = "read" =>
             \E k \in 1 .. j - 1 : ops[k].op = "write" /\ ops[k].addr = ops[j].addr
  <2> SUFFICES ASSUME NEW j \in 1 .. Len(ops)
               PROVE  /\ ops[j].op \in { "read", "write" }
                      /\ ops[j].ok = TRUE /\ ops[j].addr \in 0 .. VirtualMemorySize - 1
                      /\ ops[j].value = v[ops[j].addr]
                      /\ ops[j].op = "read" => \E k \in 1 .. j - 1 :
                           ops[k].op = "write" /\ ops[k].addr = ops[j].addr
    OBVIOUS
  <2>1. PICK i \in 1 .. n : j = 2 * i - 1 \/ j = 2 * i \/ j = 2 * n + i
    <3>1. j \in 1 .. 2 * n + n
      BY <1>1, <1>2, <1>3
    <3>2. CASE j > 2 * n
      <4>1. j - 2 * n \in 1 .. n /\ j = 2 * n + (j - 2 * n)
        BY <3>1, <3>2
      <4> QED
        BY <4>1
    <3>3. CASE j <= 2 * n
      <4>1. /\ (j + 1) \div 2 \in 1 .. n
            /\ j = 2 * ((j + 1) \div 2) - 1 \/ j = 2 * ((j + 1) \div 2)
        BY <3>1, <3>3
      <4> QED
        BY <4>1
    <3> QED
      BY <3>1, <3>2, <3>3
  <2>5. /\ a[i] \in 0 .. VirtualMemorySize - 1
        /\ w[i].op = "write" /\ w[i].addr = a[i] /\ w[i].value = v[a[i]] /\ w[i].ok = TRUE
        /\ r[i].op = "read" /\ r[i].addr = a[i] /\ r[i].value = v[a[i]] /\ r[i].ok = TRUE
    BY <1>0 DEF AreCalls
  <2>2. CASE j = 2 * i - 1
    <3>1. ops[j] = w[i]
      BY <1>4, <2>2
    <3> QED
      BY <2>5, <3>1
  <2>3. CASE j = 2 * i
    <3>1. 2 * i - 1 \in 1 .. j - 1
      BY <2>3
    <3>2. ops[j] = r[i] /\ ops[2 * i - 1] = w[i]
      BY <1>4, <2>3
    <3> QED
      BY <2>5, <3>1, <3>2
  <2>4. CASE j = 2 * n + i
    <3>1. 2 * i - 1 \in 1 .. j - 1 /\ ops[j] = r[i] /\ ops[2 * i - 1] = w[i]
      BY <1>4, <2>4
    <3> QED
      BY <2>5, <3>1
  <2> QED
    BY <2>1, <2>2, <2>3, <2>4
<1>6. ReadsBack(ops)
  BY <1>3, <1>5, OneValueEach
<1> QED
  BY <1>3, <1>6 DEF ops, p, q, w, r

\* A test that reads back what it writes.
Programmed(t) ==
  /\ t.ops \in Seq(AnyOp)
  /\ ReadsBack(t.ops)
  /\ t.method = AsItIs => \A j \in 1 .. Len(t.ops) : t.ops[j].ok = FALSE

LEMMA Methods ==
  /\ ZeroMemory # AsItIs /\ FillWithSpecificValue # AsItIs /\ RandomizeValues # AsItIs
  /\ \A m, ops : Program(m, ops).method = m /\ Program(m, ops).ops = ops
BY DEF ZeroMemory, FillWithSpecificValue, RandomizeValues, AsItIs, Program

LEMMA ProgramOf ==
  ASSUME NEW method, method # AsItIs, NEW ops \in Seq(AnyOp), ReadsBack(ops)
  PROVE  Programmed(Program(method, ops))
BY Methods DEF Programmed

LEMMA GenValueType ==
  \A a \in Nat : genValue(a) \in Nat
BY Sizes, WordAssumption DEF genValue, PageOf

\* The value that each address gets in the tests of kb_tests.cpp.
GenValues == [ a \in 0 .. VirtualMemorySize - 1 |-> genValue(a) ]

LEMMA GenValuesType == GenValues \in [ 0 .. VirtualMemorySize - 1 -> Nat ]
<1>1. \A a \in 0 .. VirtualMemorySize - 1 : genValue(a) \in Nat
  BY GenValueType, SizeIsPositive
<1> QED
  BY <1>1 DEF GenValues

\* The addresses of ReadWriteTest are below its end.
LEMMA AddressesBelow ==
  ASSUME NEW to \in Nat, NEW increment \in Nat \ {0},
         NEW j \in 1 .. (to - 0 + increment - 1) \div increment
  PROVE  0 + (j - 1) * increment \in 0 .. to - 1
<1> DEFINE s == to + increment - 1
           n == s \div increment
<1>1. s \in Nat /\ to - 0 + increment - 1 = s
  OBVIOUS
<1> HIDE DEF s
<1>2. n \in Nat /\ s = n * increment + (s % increment) /\ s % increment \in 0 .. increment - 1
  BY <1>1, Division
<1>3. j \in 1 .. n
  BY <1>1
<1> HIDE DEF n
<1>4. (j - 1) * increment <= (n - 1) * increment
  <2> DEFINE d == n - j
  <2>1. d \in Nat /\ n - 1 = (j - 1) + d
    BY <1>2, <1>3
  <2> HIDE DEF d
  <2>2. (n - 1) * increment = (j - 1) * increment + d * increment
    BY <1>3, <2>1
  <2>3. d * increment \in Nat /\ (j - 1) * increment \in Nat
    BY <1>3, <2>1
  <2> QED
    BY <2>2, <2>3
<1>5. (n - 1) * increment = n * increment - increment
  BY <1>2
<1>6. n * increment \in Nat /\ (j - 1) * increment \in Nat
  BY <1>2, <1>3
<1>7. n * increment <= s
  BY <1>2, <1>6
<1>8. (n - 1) * increment <= to - 1
  BY <1>5, <1>6, <1>7 DEF s
<1> QED
  BY <1>4, <1>6, <1>8, <1>5

LEMMA ReadWriteProgrammed ==
  ASSUME NEW p \in Parameters, ~Skipped(p)
  PROVE  Programmed(ReadWriteTest(p[1], p[2], p[3], p[4]))
<1> DEFINE to == p[2]
           increment == p[3]
           n == (to - 0 + increment - 1) \div increment
           a == [ j \in 1 .. n |-> 0 + (j - 1) * increment ]
           v == GenValues
           w == Writing(a, v)
           r == Reading(a, v)
           pairs == [ j \in 1 .. n |-> << w[j], r[j] >> ]
           method == p[4]
<1>1. /\ p[1] = 0 /\ to \in Nat /\ to <= VirtualMemorySize
      /\ increment \in Nat \ {0}
      /\ method # AsItIs
  <2>1. /\ VirtualMemorySize \in Nat /\ NumFrames \in Nat /\ 14 * NumFrames \in Nat
        /\ PageSize \in Nat /\ PageSize \div 2 \in Nat /\ PageSize \div 4 \in Nat
    BY Sizes, SizeIsPositive
  <2>2. /\ p[1] = 0 /\ p[2] \in { NumFrames, 14 * NumFrames, VirtualMemorySize }
        /\ p[3] \in { PageSize, PageSize \div 2, PageSize \div 4, 1 }
        /\ p[4] \in { ZeroMemory, FillWithSpecificValue, RandomizeValues }
    BY DEF Parameters
  <2>3. p[3] # 0 /\ ~ (p[2] > VirtualMemorySize)
    BY DEF Skipped
  <2> QED
    BY <2>1, <2>2, <2>3, Methods
<1>2. n \in Nat
  <2>1. to - 0 + increment - 1 \in Nat
    BY <1>1
  <2> QED
    BY <1>1, <2>1, Division
<1>3. a \in [ 1 .. n -> 0 .. VirtualMemorySize - 1 ]
  <2>1. ASSUME NEW j \in 1 .. n PROVE 0 + (j - 1) * increment \in 0 .. VirtualMemorySize - 1
    <3> HIDE DEF to, increment
    <3>1. 0 + (j - 1) * increment \in 0 .. to - 1
      BY <1>1, AddressesBelow
    <3> QED
      BY <1>1, <3>1, SizeIsPositive
  <2> QED
    BY <2>1
<1> HIDE DEF to, increment, n
<1>4. DOMAIN a = 1 .. n
  OBVIOUS
<1>5. \A j \in 1 .. n : v[a[j]] = genValue(a[j])
  BY <1>3 DEF GenValues
<1> HIDE DEF a
<1>6. v \in [ 0 .. VirtualMemorySize - 1 -> Nat ]
  BY GenValuesType
<1> HIDE DEF v
<1>7. /\ pairs = [ j \in DOMAIN a |->
                    << Write(a[j], genValue(a[j])), Read(a[j], genValue(a[j])) >> ]
      /\ r = [ j \in DOMAIN a |-> Read(a[j], genValue(a[j])) ]
  BY <1>4, <1>5 DEF Writing, Reading
<1>8. LET ops == FlattenSeq(pairs) \o r IN ops \in Seq(AnyOp) /\ ReadsBack(ops)
  BY <1>2, <1>3, <1>6, PairsThenReads
<1> HIDE DEF w, r, pairs
<1>9. ReadWriteTest(p[1], p[2], p[3], p[4]) = Program(method, FlattenSeq(pairs) \o r)
  <2>1. p[1] = 0
    BY <1>1
  <2> QED
    BY <1>7, <2>1 DEF ReadWriteTest, a, n, to, increment
<1>10. Programmed(Program(method, FlattenSeq(pairs) \o r))
  BY <1>1, <1>8, ProgramOf
<1> QED
  BY <1>9, <1>10

\* The address of the j-th operation of SimpleTest.cpp.
SimpleAddr(j) == 5 * (j - 1) * PageSize
SimpleValues ==
  [ a \in 0 .. VirtualMemorySize - 1 |-> a \div (5 * PageSize) ]
Simples == Cardinality(SimpleAddrs)

\* Below the end of the memory there are the first ones of these addresses.
LEMMA SimpleAddresses ==
  /\ Simples \in Nat
  /\ \A j \in 1 .. Simples : SimpleAddr(j) \in 0 .. VirtualMemorySize - 1
<1>1. PageSize \in Nat \ {0} /\ NumFrames \in Nat /\ VirtualMemorySize \in Nat
  BY Sizes, SizeIsPositive
<1>2. IsFiniteSet(SimpleAddrs) /\ Simples \in Nat
  <2>1. IsFiniteSet(0 .. 2 * NumFrames - 1)
    BY <1>1, FS_Interval
  <2>2. SimpleAddrs \in SUBSET (0 .. 2 * NumFrames - 1)
    BY DEF SimpleAddrs
  <2>3. IsFiniteSet(SimpleAddrs)
    BY <2>1, <2>2, FS_Subset
  <2> QED
    BY <2>3, FS_CardinalityType DEF Simples
<1>3. ASSUME NEW j \in 1 .. Simples, ~ (SimpleAddr(j) < VirtualMemorySize)
      PROVE  FALSE
  <2>1. j \in Nat \ {0} /\ j - 1 \in Nat
    BY <1>2
  <2>2. SimpleAddrs \subseteq 0 .. j - 2
    <3> SUFFICES ASSUME NEW i \in SimpleAddrs PROVE i \in 0 .. j - 2
      OBVIOUS
    <3>1. i \in Nat /\ 5 * i * PageSize < VirtualMemorySize
      BY <1>1 DEF SimpleAddrs
    <3>2. SUFFICES ASSUME i > j - 2 PROVE FALSE
      BY <2>1, <3>1
    <3> DEFINE d == i - (j - 1)
    <3>3. d \in Nat /\ i = (j - 1) + d
      BY <2>1, <3>1, <3>2
    <3> HIDE DEF d
    <3>4. 5 * i * PageSize = 5 * (j - 1) * PageSize + 5 * d * PageSize
      BY <1>1, <2>1, <3>3
    <3>5. 5 * d * PageSize \in Nat /\ 5 * (j - 1) * PageSize \in Nat
      BY <1>1, <2>1, <3>3
    <3>6. ~ (5 * (j - 1) * PageSize < VirtualMemorySize)
      BY <1>3 DEF SimpleAddr
    <3> DEFINE u == 5 * i * PageSize
               v == 5 * (j - 1) * PageSize
               w == 5 * d * PageSize
    <3>7. u < VirtualMemorySize /\ u = v + w /\ w \in Nat /\ v \in Nat
          /\ ~ (v < VirtualMemorySize)
      BY <3>1, <3>4, <3>5, <3>6
    <3> HIDE DEF u, v, w
    <3> QED
      BY <1>1, <3>7
  <2>3. IsFiniteSet(0 .. j - 2) /\ Cardinality(0 .. j - 2) = j - 1
    BY <2>1, FS_Interval
  <2>4. Simples <= j - 1
    BY <2>2, <2>3, FS_Subset DEF Simples
  <2> QED
    BY <1>2, <2>4
<1>4. ASSUME NEW j \in 1 .. Simples PROVE SimpleAddr(j) \in 0 .. VirtualMemorySize - 1
  <2>1. j - 1 \in Nat
    BY <1>2
  <2>2. SimpleAddr(j) \in Nat
    BY <1>1, <2>1 DEF SimpleAddr
  <2>3. SimpleAddr(j) < VirtualMemorySize
    BY <1>3
  <2> QED
    BY <1>1, <2>2, <2>3
<1> QED
  BY <1>2, <1>4

\* They are written and read with a value for each.
LEMMA SimpleCalls ==
  LET a == [ j \in 1 .. Simples |-> SimpleAddr(j) ] IN
  /\ a \in [ 1 .. Simples -> 0 .. VirtualMemorySize - 1 ]
  /\ SimpleValues \in [ 0 .. VirtualMemorySize - 1 -> Nat ]
  /\ Simple(Write) = Writing(a, SimpleValues)
  /\ Simple(Read) = Reading(a, SimpleValues)
<1> DEFINE a == [ j \in 1 .. Simples |-> SimpleAddr(j) ]
<1>1. PageSize \in Nat \ {0} /\ NumFrames \in Nat \ {0} /\ VirtualMemorySize \in Nat
  BY Sizes, SizeIsPositive
<1>2. a \in [ 1 .. Simples -> 0 .. VirtualMemorySize - 1 ]
  BY SimpleAddresses
<1>3. SimpleValues \in [ 0 .. VirtualMemorySize - 1 -> Nat ]
  <2> DEFINE b == 5 * PageSize
  <2>1. b \in Nat \ {0}
    BY <1>1
  <2> HIDE DEF b
  <2>2. \A x \in 0 .. VirtualMemorySize - 1 : x \in Nat
    BY <1>1
  <2>3. \A x \in 0 .. VirtualMemorySize - 1 : x \div b \in Nat
    BY <1>1, <2>1, <2>2, Division
  <2> QED
    BY <2>3 DEF SimpleValues, b
<1>4. ASSUME NEW j \in 1 .. Simples
      PROVE  a[j] = 5 * (j - 1) * PageSize /\ SimpleValues[a[j]] = j - 1
  <2>1. a[j] = SimpleAddr(j) /\ a[j] \in 0 .. VirtualMemorySize - 1
    BY <1>2
  <2>2. SimpleValues[a[j]] = SimpleAddr(j) \div (5 * PageSize)
    BY <2>1 DEF SimpleValues
  <2>3. j - 1 \in Nat /\ 5 * PageSize \in Nat \ {0}
    BY <1>1, SimpleAddresses
  <2>4. SimpleAddr(j) = (j - 1) * (5 * PageSize) + 0
    BY <1>1, <2>3 DEF SimpleAddr
  <2>5. 0 \in 0 .. 5 * PageSize - 1
    BY <2>3
  <2>6. SimpleAddr(j) \div (5 * PageSize) = j - 1
    BY <2>3, <2>4, <2>5, DivisionOfSum
  <2> QED
    BY <2>1, <2>2, <2>6 DEF SimpleAddr
<1>5. DOMAIN a = 1 .. Simples
  OBVIOUS
<1> HIDE DEF a
<1>6. /\ Simple(Write) = Writing(a, SimpleValues)
      /\ Simple(Read) = Reading(a, SimpleValues)
  <2>1. /\ Simple(Write) =
             [ j \in 1 .. Simples |-> Write(5 * (j - 1) * PageSize, j - 1) ]
        /\ Simple(Read) =
             [ j \in 1 .. Simples |-> Read(5 * (j - 1) * PageSize, j - 1) ]
    BY DEF Simple, Simples
  <2>2. \A j \in 1 .. Simples :
          /\ Write(5 * (j - 1) * PageSize, j - 1)
               = Write(a[j], SimpleValues[a[j]])
          /\ Read(5 * (j - 1) * PageSize, j - 1)
               = Read(a[j], SimpleValues[a[j]])
    BY <1>4
  <2> QED
    BY <1>5, <2>1, <2>2 DEF Writing, Reading
<1> QED
  BY <1>2, <1>3, <1>6 DEF a

LEMMA SimpleProgrammed ==
  Programmed(SimpleTest) /\ Programmed(Can_Read_Then_Write_Memory_Original)
<1> DEFINE a == [ j \in 1 .. Simples |-> SimpleAddr(j) ]
           v == SimpleValues
           w == Simple(Write)
           r == Simple(Read)
           pairs == [ j \in 1 .. Simples |-> << w[j], r[j] >> ]
<1>1. /\ a \in [ 1 .. Simples -> 0 .. VirtualMemorySize - 1 ]
      /\ v \in [ 0 .. VirtualMemorySize - 1 -> Nat ]
      /\ w = Writing(a, v) /\ r = Reading(a, v) /\ Simples \in Nat
  BY SimpleCalls, SimpleAddresses
<1>2. /\ SimpleTest = Program(ZeroMemory, w \o r)
      /\ Can_Read_Then_Write_Memory_Original = Program(ZeroMemory, FlattenSeq(pairs) \o r)
  BY DEF SimpleTest, Can_Read_Then_Write_Memory_Original, Simples
<1> HIDE DEF a, v, w, r
<1>3. w \o r \in Seq(AnyOp) /\ ReadsBack(w \o r)
  BY <1>1, WritesThenReads
<1>4. FlattenSeq(pairs) \o r \in Seq(AnyOp) /\ ReadsBack(FlattenSeq(pairs) \o r)
  BY <1>1, PairsThenReads
<1> HIDE DEF pairs
<1> QED
  BY <1>2, <1>3, <1>4, Methods, ProgramOf

LEMMA ErrorsProgrammed == Programmed(ErrorChecks) /\ Programmed(NoTest)
<1>1. VirtualMemorySize \in Nat /\ W1337 \in Nat
  BY SizeIsPositive, WordAssumption DEF W1337
<1>2. Programmed(ErrorChecks)
  <2> DEFINE x == Operation("write", VirtualMemorySize, W1337, FALSE)
             y == Operation("read", VirtualMemorySize, 0, FALSE)
             ops == << x, y >>
  <2>1. x \in AnyOp /\ y \in AnyOp
    BY <1>1 DEF AnyOp, Operation
  <2>2. /\ x.op = "write" /\ x.addr = VirtualMemorySize /\ x.ok = FALSE
        /\ y.op = "read" /\ y.addr = VirtualMemorySize /\ y.ok = FALSE /\ y.value = 0
    BY DEF Operation
  <2>3. ErrorChecks = Program(AsItIs, ops)
    BY DEF ErrorChecks
  <2> HIDE DEF x, y
  <2>4. ops \in Seq(AnyOp) /\ Len(ops) = 2 /\ ops[1] = x /\ ops[2] = y
    BY <2>1
  <2> HIDE DEF ops
  <2>5. \A j \in 1 .. Len(ops) : j = 1 \/ j = 2
    BY <2>4
  <2>6. ASSUME NEW j \in 1 .. Len(ops) PROVE Expected(ops, j) /\ ops[j].ok = FALSE
    BY <1>1, <2>2, <2>4, <2>5 DEF Expected
  <2>7. ReadsBack(ops) /\ \A j \in 1 .. Len(ops) : ops[j].ok = FALSE
    BY <2>6 DEF ReadsBack
  <2>8. ErrorChecks.ops = ops
    BY <2>3, Methods, Zenon
  <2> QED
    BY <2>4, <2>7, <2>8 DEF Programmed
<1>3. Programmed(NoTest)
  <2>1. << >> \in Seq(AnyOp) /\ Len(<< >>) = 0
    BY EmptySeq
  <2>2. 1 .. 0 = {}
    OBVIOUS
  <2> QED
    BY <2>1, <2>2, Methods DEF Programmed, ReadsBack, NoTest
<1> QED
  BY <1>2, <1>3

\* A sequence of the members of a finite set.
LEMMA MembersInSequence ==
  ASSUME NEW S, IsFiniteSet(S)
  PROVE  /\ Cardinality(S) \in Nat
         /\ SetToSeq(S) \in [ 1 .. Cardinality(S) -> S ]
<1>1. /\ Cardinality(S) \in Nat
      /\ ExistsBijection(1 .. Cardinality(S), S)
  BY FS_CardinalityType
<1>2. \E f \in [ 1 .. Cardinality(S) -> S ] : IsInjective(f)
  BY <1>1 DEF ExistsBijection, Bijection, Injection, IsInjective
<1>3. SetToSeq(S) \in [ 1 .. Cardinality(S) -> S ]
  BY <1>2 DEF SetToSeq
<1> QED
  BY <1>1, <1>3

\* An operation of a test that writes at an address of the memory.
Writes(e) ==
  /\ e \in AnyOp /\ e.op = "write" /\ e.ok = TRUE /\ e.addr \in 0 .. VirtualMemorySize - 1

\* Writes, and then a read of what each address got last.
LEMMA LastReads ==
  ASSUME NEW n \in Nat, NEW w, w \in [ 1 .. n -> AnyOp ], \A j \in 1 .. n : Writes(w[j]),
         NEW m \in Nat, NEW last \in [ 1 .. m -> 1 .. n ],
         \A k \in 1 .. m : \A l \in 1 .. n : w[l].addr = w[last[k]].addr => l <= last[k],
         NEW r, r = [ k \in 1 .. m |-> Read(w[last[k]].addr, w[last[k]].value) ]
  PROVE  w \o r \in Seq(AnyOp) /\ ReadsBack(w \o r)
<1> DEFINE ops == w \o r
<1>1. ASSUME NEW k \in 1 .. m
      PROVE  /\ r[k] \in AnyOp
             /\ r[k].op = "read" /\ r[k].ok = TRUE
             /\ r[k].addr = w[last[k]].addr /\ r[k].addr \in 0 .. VirtualMemorySize - 1
             /\ r[k].value = w[last[k]].value
  <2>1. r[k] = Read(w[last[k]].addr, w[last[k]].value)
    OBVIOUS
  <2>2. last[k] \in 1 .. n
    OBVIOUS
  <2>3. /\ w[last[k]].addr \in 0 .. VirtualMemorySize - 1 /\ w[last[k]].addr \in Nat
        /\ w[last[k]].value \in Nat
    BY <2>2 DEF Writes, AnyOp
  <2> QED
    BY <2>1, <2>3 DEF Read, Operation, AnyOp
<1>2. r \in [ 1 .. m -> AnyOp ]
  BY <1>1
<1>3. /\ r \in Seq(AnyOp) /\ Len(r) = m
      /\ w \in Seq(AnyOp) /\ Len(w) = n
  BY <1>2
<1>4. /\ ops \in Seq(AnyOp) /\ Len(ops) = Len(w) + Len(r)
      /\ \A i \in 1 .. Len(w) + Len(r) : ops[i] = IF i <= Len(w) THEN w[i] ELSE r[i - Len(w)]
  <2>1. w \in Seq(AnyOp) /\ r \in Seq(AnyOp)
    BY <1>3
  <2> QED
    BY <2>1, Joined, Zenon
<1> HIDE DEF ops
<1>5. /\ \A j \in 1 .. n : ops[j] = w[j]
      /\ \A j \in 1 .. Len(ops) : j \in 1 .. n \/ (j - n \in 1 .. m /\ ops[j] = r[j - n])
      /\ Len(ops) = n + m
  BY <1>3, <1>4
<1>6. ASSUME NEW j \in 1 .. Len(ops) PROVE Expected(ops, j)
  <2>1. CASE j \in 1 .. n
    <3>1. ops[j] = w[j] /\ Writes(w[j])
      BY <1>5, <2>1
    <3>2. /\ ops[j].op = "write" /\ ops[j].ok = TRUE
          /\ ops[j].addr < VirtualMemorySize
      BY <3>1, SizeIsPositive DEF Writes
    <3> QED
      BY <3>2 DEF Expected
  <2>2. CASE j \notin 1 .. n
    <3> DEFINE k == j - n
               l == last[k]
    <3>1. k \in 1 .. m /\ ops[j] = r[k]
      BY <1>5, <2>2
    <3>2. /\ l \in 1 .. n /\ Writes(w[l])
          /\ \A x \in 1 .. n : w[x].addr = w[l].addr => x <= l
      BY <3>1
    <3>3. /\ ops[j].op = "read" /\ ops[j].ok = TRUE /\ ops[j].addr = w[l].addr
          /\ ops[j].addr \in 0 .. VirtualMemorySize - 1
          /\ ops[j].value = w[l].value
      <4> HIDE DEF k
      <4>1. /\ r[k].op = "read" /\ r[k].ok = TRUE /\ r[k].addr = w[last[k]].addr
            /\ r[k].addr \in 0 .. VirtualMemorySize - 1
            /\ r[k].value = w[last[k]].value
        BY <1>1, <3>1
      <4> QED
        BY <3>1, <4>1
    <3> HIDE DEF k, l
    <3>4. ops[j].addr < VirtualMemorySize
      BY <3>3, SizeIsPositive
    <3>5. ops[l] = w[l] /\ l \in 1 .. j - 1
      BY <1>5, <2>2, <3>2
    <3>6. WritesTo(ops[l], ops[j].addr)
      BY <3>2, <3>3, <3>5 DEF WritesTo, Writes
    <3>7. ASSUME NEW x \in l + 1 .. j - 1 PROVE ~WritesTo(ops[x], ops[j].addr)
      <4>1. x \in 1 .. Len(ops) /\ ~ (x <= l)
        BY <1>5, <3>2
      <4>2. CASE x \in 1 .. n
        <5>1. ops[x] = w[x] /\ w[x].addr # w[l].addr
          BY <1>5, <3>2, <4>1, <4>2
        <5> QED
          BY <3>3, <5>1 DEF WritesTo
      <4>3. CASE x \notin 1 .. n
        <5> DEFINE y == x - n
        <5>1. y \in 1 .. m /\ ops[x] = r[y]
          BY <1>5, <4>1, <4>3
        <5> HIDE DEF y
        <5>2. ops[x].op = "read"
          BY <1>1, <5>1
        <5> QED
          BY <5>2 DEF WritesTo
      <4> QED
        BY <4>2, <4>3
    <3>8. LastWrite(ops, j, l, ops[j].addr) /\ ops[l].value = ops[j].value
      BY <3>3, <3>5, <3>6, <3>7 DEF LastWrite
    <3> QED
      BY <3>3, <3>4, <3>5, <3>8 DEF Expected
  <2> QED
    BY <2>1, <2>2
<1>7. ReadsBack(ops)
  BY <1>6 DEF ReadsBack
<1> QED
  BY <1>4, <1>7 DEF ops

\* What the random test writes.
RandomWrites ==
  [ 1 .. Iterations ->
      { Write(a, v) : a \in FreeAddrs \ {VirtualMemorySize}, v \in FreeValues } ]

LEMMA RandomWrite ==
  ASSUME NEW writes \in RandomWrites
  PROVE  /\ Iterations \in Nat /\ DOMAIN writes = 1 .. Iterations
         /\ writes \in [ 1 .. Iterations -> AnyOp ]
         /\ \A j \in 1 .. Iterations : Writes(writes[j])
<1>1. ASSUME NEW j \in 1 .. Iterations PROVE Writes(writes[j])
  <2>1. PICK a \in FreeAddrs \ {VirtualMemorySize}, v \in FreeValues : writes[j] = Write(a, v)
    BY DEF RandomWrites
  <2>2. a \in 0 .. VirtualMemorySize - 1 /\ a \in Nat /\ v \in Nat
    BY TestsAssumption, SizeIsPositive, Sizes DEF Word
  <2> QED
    BY <2>1, <2>2 DEF Write, Operation, AnyOp, Writes
<1>2. Iterations \in Nat /\ DOMAIN writes = 1 .. Iterations
  BY TestsAssumption DEF RandomWrites
<1>3. writes \in [ 1 .. Iterations -> AnyOp ]
  <2>1. \A j \in 1 .. Iterations : writes[j] \in AnyOp
    BY <1>1 DEF Writes
  <2>2. writes = [ j \in 1 .. Iterations |-> writes[j] ]
    BY DEF RandomWrites
  <2> QED
    BY <2>1, <2>2
<1> QED
  BY <1>1, <1>2, <1>3

LEMMA RandomProgrammed ==
  ASSUME NEW writes \in RandomWrites
  PROVE  Programmed(Random_Addresses_Random_Values(writes))
<1> DEFINE n == Iterations
           S == { writes[j].addr : j \in DOMAIN writes }
           at(addr) == { j \in DOMAIN writes : writes[j].addr = addr }
           addrs == SetToSeq(S)
           m == Cardinality(S)
           last == [ k \in 1 .. m |-> Max(at(addrs[k])) ]
           r == [ k \in DOMAIN addrs |-> Read(addrs[k], writes[Max(at(addrs[k]))].value) ]
<1>1. /\ n \in Nat /\ DOMAIN writes = 1 .. n
      /\ writes \in [ 1 .. n -> AnyOp ]
      /\ \A j \in 1 .. n : Writes(writes[j])
  BY RandomWrite
<1>2. IsFiniteSet(S)
  <2>1. IsFiniteSet(1 .. n)
    BY <1>1, FS_Interval
  <2> DEFINE f == [ j \in 1 .. n |-> writes[j].addr ]
  <2>2. S = { f[j] : j \in 1 .. n }
    BY <1>1
  <2>3. IsFiniteSet({ f[j] : j \in 1 .. n })
    <3> HIDE DEF f
    <3> QED
      BY <2>1, FiniteImage
  <2> QED
    BY <2>2, <2>3
<1>3. m \in Nat /\ addrs \in [ 1 .. m -> S ]
  <2> HIDE DEF S
  <2> QED
    BY <1>2, MembersInSequence
<1> HIDE DEF addrs, m
<1>4. DOMAIN addrs = 1 .. m /\ \A k \in 1 .. m : addrs[k] \in S
  <2> HIDE DEF S
  <2> QED
    BY <1>3
<1>5. ASSUME NEW k \in 1 .. m
      PROVE  /\ last[k] \in 1 .. n /\ writes[last[k]].addr = addrs[k]
             /\ \A l \in 1 .. n : writes[l].addr = addrs[k] => l <= last[k]
  <2> DEFINE K == at(addrs[k])
  <2>1. K # {} /\ K \in SUBSET (1 .. n)
    BY <1>1, <1>4
  <2>2. last[k] = Max(K)
    OBVIOUS
  <2>3. \A x : x \in K <=> x \in 1 .. n /\ writes[x].addr = addrs[k]
    BY <1>1
  <2> HIDE DEF K, last
  <2>4. n + 1 \in Nat /\ K \in SUBSET (1 .. (n + 1) - 1)
    BY <1>1, <2>1
  <2>5. \E x \in K : \A y \in K : y <= x
    BY <2>1, <2>4, Greatest
  <2>6. \A x, y \in K : y <= x <=> x >= y
    BY <1>1, <2>1
  <2>7. \E x \in K : \A y \in K : x >= y
    BY <2>5, <2>6
  <2>8. Max(K) \in K /\ \A y \in K : Max(K) >= y
    BY <2>7, Zenon DEF Max
  <2>9. \A y \in K : y <= Max(K)
    BY <2>6, <2>8
  <2> QED
    BY <2>2, <2>3, <2>8, <2>9
<1>6. last \in [ 1 .. m -> 1 .. n ]
  <2>1. \A k \in 1 .. m : last[k] \in 1 .. n
    BY <1>5
  <2> QED
    BY <2>1
<1>7. r = [ k \in 1 .. m |-> Read(writes[last[k]].addr, writes[last[k]].value) ]
  <2>1. \A k \in 1 .. m : last[k] = Max(at(addrs[k])) /\ writes[last[k]].addr = addrs[k]
    BY <1>5
  <2> HIDE DEF last
  <2> QED
    BY <1>4, <2>1
<1>8. Random_Addresses_Random_Values(writes) = Program(RandomizeValues, writes \o r)
  BY DEF Random_Addresses_Random_Values, r, addrs
<1> HIDE DEF r, last
<1>9. \A k \in 1 .. m : \A l \in 1 .. n : writes[l].addr = writes[last[k]].addr => l <= last[k]
  BY <1>5
<1>10. writes \o r \in Seq(AnyOp) /\ ReadsBack(writes \o r)
  BY <1>1, <1>3, <1>6, <1>7, <1>9, LastReads
<1> QED
  BY <1>8, <1>10, Methods, ProgramOf

Once == Can_Read_And_Write_Memory_Once

\* Every test reads back what it writes, or is the one that looks at the RAM.
LEMMA Programs ==
  ASSUME ~TEST_CONSTANTS, NEW t \in Tests \cup {NoTest}
  PROVE  Programmed(t) \/ t = Once
<1>1. CASE t = NoTest
  BY <1>1, ErrorsProgrammed
<1>2. CASE t # NoTest
  <2>1. t \in AllTests
    BY <1>2 DEF Tests
  <2>2. \/ t \in ReadWriteTests \/ t \in RandomTests \/ t = Once
        \/ t = Can_Read_Then_Write_Memory_Original \/ t = SimpleTest \/ t = ErrorChecks
    BY <2>1 DEF AllTests, Once
  <2>3. CASE t \in ReadWriteTests
    <3>1. PICK p \in { q \in Parameters : ~Skipped(q) } :
            t = ReadWriteTest(p[1], p[2], p[3], p[4])
      BY <2>3 DEF ReadWriteTests
    <3>2. p \in Parameters /\ ~Skipped(p)
      OBVIOUS
    <3> QED
      BY <3>1, <3>2, ReadWriteProgrammed
  <2>4. CASE t \in RandomTests
    <3>1. PICK writes \in RandomWrites : t = Random_Addresses_Random_Values(writes)
      BY <2>4 DEF RandomTests, RandomWrites
    <3> QED
      BY <3>1, RandomProgrammed
  <2> QED
    BY <2>2, <2>3, <2>4, SimpleProgrammed, ErrorsProgrammed
<1> QED
  BY <1>1, <1>2

\* The calls of a test are calls of the client.
LEMMA CallsOfTests ==
  ASSUME NEW t \in Tests \cup {NoTest}, NEW j \in DOMAIN t.ops,
         t.ops[j].op \in { "read", "write" }
  PROVE  t.ops[j].addr \in Addrs /\ t.ops[j].value \in Values
<1>1. CASE t = NoTest
  <2>1. t.ops = << >>
    BY <1>1 DEF NoTest, Program
  <2>2. DOMAIN << >> = {}
    OBVIOUS
  <2> QED
    BY <2>1, <2>2
<1>2. CASE t # NoTest
  <2>1. t.ops[j] \in CallsOf(t)
    BY DEF CallsOf
  <2> QED
    BY <1>2, <2>1 DEF Tests
<1> QED
  BY <1>1, <1>2

\* The address of the test that looks at the RAM, and where its word comes to.
OnceAddr == 572275 % VirtualMemorySize
OncePlace == TablesDepth * PageSize + (OnceAddr % PageSize)
\* The entry of its way at the depth d.
OnceEntry(d) == Convert(Path(OnceAddr)[d], d, d)

\* A look at the RAM.
Looks(e, a, w) == e.op = "PMread" /\ e.addr = a /\ e.value = w

\* Its operations.
LEMMA OnceOps ==
  /\ Once.method = ZeroMemory
  /\ Once.ops \in Seq(AnyOp)
  /\ Len(Once.ops) = TablesDepth + 3
  /\ LET e == Once.ops[1] IN
       e.op = "write" /\ e.addr = OnceAddr /\ e.value = W1337 /\ e.ok = TRUE
  /\ \A d \in 0 .. TablesDepth - 1 : Looks(Once.ops[d + 2], OnceEntry(d), d + 1)
  /\ Looks(Once.ops[TablesDepth + 2], OncePlace, W1337)
  /\ LET e == Once.ops[TablesDepth + 3] IN
       e.op = "read" /\ e.addr = OnceAddr /\ e.value = W1337 /\ e.ok = TRUE
  /\ OnceAddr \in Nat /\ OnceAddr < VirtualMemorySize
<1> DEFINE T == TablesDepth
           map == [ d \in 1 .. T |-> << Convert(Path(OnceAddr)[d - 1], d - 1, d - 1), d >> ]
           a == << Write(OnceAddr, W1337) >>
           b == ExpectRam(map)
           y == ExpectWord(Convert(OnceAddr % PageSize, T, 1), W1337)
           z == Read(OnceAddr, W1337)
           c == << y, z >>
<1>1. /\ T \in Nat \ {0} /\ PageSize \in Nat \ {0} /\ VirtualMemorySize \in Nat \ {0}
      /\ W1337 \in Nat
  BY Sizes, SizeIsPositive, WordAssumption DEF W1337
<1>2. /\ OnceAddr \in Nat /\ OnceAddr < VirtualMemorySize
      /\ OnceAddr % PageSize \in 0 .. PageSize - 1
  <2>1. 572275 \in Nat
    OBVIOUS
  <2>2. OnceAddr \in 0 .. VirtualMemorySize - 1
    BY <1>1, <2>1, Division DEF OnceAddr
  <2>3. OnceAddr \in Nat /\ OnceAddr < VirtualMemorySize
    BY <1>1, <2>2
  <2> QED
    BY <1>1, <2>3, Division
<1>3. Convert(OnceAddr % PageSize, T, 1) = OncePlace /\ OncePlace \in Nat
  <2>1. Neighbors(1) = PageSize
    BY DEF Neighbors
  <2>2. OncePlace \in Nat
    <3>1. T * PageSize \in Nat
      BY <1>1
    <3> QED
      BY <1>2, <3>1 DEF OncePlace
  <2> QED
    BY <2>1, <2>2 DEF Convert, OncePlace
<1>4. \A d \in 0 .. T - 1 : OnceEntry(d) \in Nat
  <2> SUFFICES ASSUME NEW d \in 0 .. T - 1 PROVE OnceEntry(d) \in Nat
    OBVIOUS
  <2>1. d \in Nat /\ Path(OnceAddr)[d] \in 0 .. Neighbors(d) - 1 /\ Neighbors(d) \in Nat \ {0}
    BY <1>1, <1>2, PathType, NeighborsType
  <2>2. d * Neighbors(d) \in Nat
    BY <2>1
  <2> QED
    BY <2>1, <2>2 DEF OnceEntry, Convert
<1>5. a \in Seq(AnyOp) /\ Len(a) = 1 /\ a[1] = Write(OnceAddr, W1337)
  <2>1. Write(OnceAddr, W1337) \in AnyOp
    BY <1>1, <1>2 DEF Write, Operation, AnyOp
  <2> QED
    BY <2>1
<1>6. c \in Seq(AnyOp) /\ Len(c) = 2 /\ c[1] = y /\ c[2] = z
  <2>1. y \in AnyOp /\ z \in AnyOp
    BY <1>1, <1>2, <1>3 DEF ExpectWord, Read, Operation, AnyOp
  <2> QED
    BY <2>1
<1>7. \A d \in 1 .. T : b[d] = ExpectWord(OnceEntry(d - 1), d)
  BY DEF ExpectRam, OnceEntry
<1>8. b \in Seq(AnyOp) /\ Len(b) = T
  <2>1. \A d \in 1 .. T : ExpectWord(OnceEntry(d - 1), d) \in AnyOp
    <3> SUFFICES ASSUME NEW d \in 1 .. T PROVE ExpectWord(OnceEntry(d - 1), d) \in AnyOp
      OBVIOUS
    <3>1. d - 1 \in 0 .. T - 1 /\ d \in Nat
      BY <1>1
    <3>2. OnceEntry(d - 1) \in Nat
      BY <1>4, <3>1
    <3> QED
      BY <3>1, <3>2 DEF ExpectWord, Operation, AnyOp
  <2>2. b = [ d \in 1 .. T |-> b[d] ]
    BY DEF ExpectRam
  <2>3. b \in [ 1 .. T -> AnyOp ]
    <3> HIDE DEF b
    <3> QED
      BY <1>7, <2>1, <2>2
  <2> HIDE DEF b
  <2> QED
    BY <1>1, <2>3
<1>9. Once = Program(ZeroMemory, (a \o b) \o c)
  BY DEF Once, Can_Read_And_Write_Memory_Once, OnceAddr
<1> HIDE DEF a, b, c
<1> DEFINE ab == a \o b
           ops == ab \o c
<1>10. /\ ab \in Seq(AnyOp) /\ Len(ab) = Len(a) + Len(b)
       /\ \A i \in 1 .. Len(a) + Len(b) : ab[i] = IF i <= Len(a) THEN a[i] ELSE b[i - Len(a)]
  BY <1>5, <1>8, Joined
<1> HIDE DEF ab
<1>11. /\ ops \in Seq(AnyOp) /\ Len(ops) = Len(ab) + Len(c)
       /\ \A i \in 1 .. Len(ab) + Len(c) :
            ops[i] = IF i <= Len(ab) THEN ab[i] ELSE c[i - Len(ab)]
  <2>1. ab \in Seq(AnyOp) /\ c \in Seq(AnyOp)
    BY <1>6, <1>10
  <2> QED
    BY <2>1, Joined, Zenon
<1> HIDE DEF ops
<1>12. Len(ops) = T + 3
  BY <1>1, <1>5, <1>6, <1>8, <1>10, <1>11
<1>13. ops[1] = Write(OnceAddr, W1337)
  BY <1>1, <1>5, <1>6, <1>8, <1>10, <1>11
<1>14. ASSUME NEW d \in 0 .. T - 1 PROVE ops[d + 2] = ExpectWord(OnceEntry(d), d + 1)
  <2>1. /\ d + 2 \in 1 .. 1 + T /\ ~ (d + 2 <= 1) /\ (d + 2) - 1 = d + 1
        /\ d + 2 \in 1 .. (1 + T) + 2 /\ d + 2 <= 1 + T /\ d + 1 \in 1 .. T /\ (d + 1) - 1 = d
    BY <1>1
  <2>2. ops[d + 2] = ab[d + 2]
    BY <1>5, <1>6, <1>8, <1>10, <1>11, <2>1
  <2>3. ab[d + 2] = b[d + 1]
    BY <1>5, <1>8, <1>10, <2>1
  <2> QED
    BY <1>7, <2>1, <2>2, <2>3
<1>15. ops[T + 2] = y /\ ops[T + 3] = z
  <2>1. /\ T + 2 \in 1 .. (1 + T) + 2 /\ ~ (T + 2 <= 1 + T) /\ (T + 2) - (1 + T) = 1
        /\ T + 3 \in 1 .. (1 + T) + 2 /\ ~ (T + 3 <= 1 + T) /\ (T + 3) - (1 + T) = 2
    BY <1>1
  <2>2. Len(ab) = 1 + T /\ Len(c) = 2
    BY <1>5, <1>6, <1>8, <1>10
  <2>3. \A i \in 1 .. (1 + T) + 2 : ~ (i <= 1 + T) => ops[i] = c[i - (1 + T)]
    BY <1>11, <2>2
  <2> QED
    BY <1>6, <2>1, <2>3
<1>16. Once.ops = ops /\ Once.method = ZeroMemory
  BY <1>9, Methods DEF ops, ab
<1>17. LET e == ops[1] IN
         e.op = "write" /\ e.addr = OnceAddr /\ e.value = W1337 /\ e.ok = TRUE
  BY <1>13 DEF Write, Operation
<1>18. LET e == ops[T + 3] IN
         e.op = "read" /\ e.addr = OnceAddr /\ e.value = W1337 /\ e.ok = TRUE
  BY <1>15 DEF Read, Operation
<1>19. \A d \in 0 .. T - 1 : Looks(ops[d + 2], OnceEntry(d), d + 1)
  <2>1. \A x, v : Looks(ExpectWord(x, v), x, v)
    BY DEF ExpectWord, Operation, Looks
  <2> QED
    BY <1>14, <2>1
<1>20. Looks(ops[T + 2], OncePlace, W1337)
  BY <1>3, <1>15 DEF ExpectWord, Operation, Looks
<1> QED
  BY <1>2, <1>11, <1>12, <1>16, <1>17, <1>18, <1>19, <1>20

\* The RAM when n frames were used one after the other on the way of that
\* address, and the RAM with its word written.
Chain(n) ==
  [ a \in 0 .. RamSize - 1 |->
      LET f == a \div PageSize IN IF f < n /\ a = OnceEntry(f) THEN f + 1 ELSE 0 ]
WrittenOnce == [ Chain(TablesDepth) EXCEPT ![OncePlace] = W1337 ]

LEMMA OnceEntries ==
  ASSUME NEW d \in 0 .. TablesDepth - 1
  PROVE  /\ OnceEntry(d) \in 0 .. RamSize - 1
         /\ OnceEntry(d) \div PageSize = d
         /\ d \in Frame /\ d + 1 \in Frame
<1>1. /\ TablesDepth \in Nat \ {0} /\ NumFrames \in Nat /\ TablesDepth < NumFrames
      /\ PageSize \in Nat \ {0}
  BY Sizes, VirtualMemoryAssumption
<1>2. d \in Frame /\ d + 1 \in Frame /\ d \in Nat
  BY <1>1, FrameRange
<1>3. Path(OnceAddr)[d] \in 0 .. Neighbors(d) - 1 /\ Path(OnceAddr)[d] \in 0 .. PageSize - 1
  BY <1>2, OnceOps, PathType, NeighborsType
<1>4. OnceEntry(d) = d * PageSize + Path(OnceAddr)[d]
  <2>1. CASE d = 0
    <3>1. 0 * Neighbors(0) = 0 /\ 0 * PageSize = 0
      BY <1>1, <1>2, <2>1, NeighborsType
    <3> QED
      BY <1>3, <2>1, <3>1 DEF OnceEntry, Convert
  <2>2. CASE d # 0
    BY <2>2 DEF OnceEntry, Convert, Neighbors
  <2> QED
    BY <2>1, <2>2
<1> QED
  BY <1>2, <1>3, <1>4, Frames

LEMMA ChainWords ==
  ASSUME NEW n \in 0 .. TablesDepth
  PROVE  /\ Chain(n) \in Rams
         /\ \A d \in 0 .. n - 1 : Chain(n)[OnceEntry(d)] = d + 1
         /\ \A a \in 0 .. RamSize - 1 : Chain(n)[a] # 0 =>
              \E d \in 0 .. n - 1 : a = OnceEntry(d) /\ d = a \div PageSize
<1>1. n \in Nat /\ TablesDepth \in Nat
  BY Sizes
<1>2. ASSUME NEW a \in 0 .. RamSize - 1
      PROVE  /\ Chain(n)[a] \in Word
             /\ Chain(n)[a] # 0 =>
                  \E d \in 0 .. n - 1 : a = OnceEntry(d) /\ d = a \div PageSize
  <2> DEFINE f == a \div PageSize
  <2>1. f \in Nat /\ f \in Frame /\ 0 \in Frame
    <3>1. f \in Frame /\ 0 \in Frame
      BY Frames
    <3> HIDE DEF f
    <3> QED
      BY <3>1, FrameRange
  <2>2. Chain(n)[a] = IF f < n /\ a = OnceEntry(f) THEN f + 1 ELSE 0
    BY DEF Chain
  <2> HIDE DEF f
  <2>3. CASE f < n /\ a = OnceEntry(f)
    <3>1. f \in 0 .. n - 1 /\ f \in 0 .. TablesDepth - 1
      BY <1>1, <2>1, <2>3
    <3>2. f + 1 \in Frame
      BY <3>1, OnceEntries
    <3>3. f + 1 \in Word
      BY <3>2, FrameRange
    <3> QED
      BY <2>2, <2>3, <3>1, <3>3 DEF f
  <2>4. CASE ~ (f < n /\ a = OnceEntry(f))
    BY <2>1, <2>2, <2>4, FrameRange
  <2> QED
    BY <2>3, <2>4
<1>3. Chain(n) \in Rams
  <2>1. Chain(n) = [ a \in 0 .. RamSize - 1 |-> Chain(n)[a] ]
    BY DEF Chain
  <2> QED
    BY <1>2, <2>1 DEF Rams
<1>4. ASSUME NEW d \in 0 .. n - 1 PROVE Chain(n)[OnceEntry(d)] = d + 1
  <2>1. d \in 0 .. TablesDepth - 1 /\ d < n
    BY <1>1
  <2>2. OnceEntry(d) \in 0 .. RamSize - 1 /\ OnceEntry(d) \div PageSize = d
    BY <2>1, OnceEntries
  <2> QED
    BY <2>1, <2>2 DEF Chain
<1> QED
  BY <1>2, <1>3, <1>4

\* The way of that address down frames that were used one after the other.
LEMMA WalkDown ==
  ASSUME NEW r \in Rams, NEW n \in 0 .. TablesDepth,
         \A d \in 0 .. n - 1 : r[OnceEntry(d)] = d + 1
  PROVE  \A k \in 0 .. n : Walk(r, OnceAddr)[k] = k
<1> DEFINE S == { k \in Nat : k <= n => Walk(r, OnceAddr)[k] = k }
<1>1. n \in Nat /\ TablesDepth \in Nat
  BY Sizes
<1>2. 0 \in S
  BY WalkDef
<1>3. ASSUME NEW k \in S PROVE k + 1 \in S
  <2> SUFFICES ASSUME k + 1 <= n PROVE Walk(r, OnceAddr)[k + 1] = k + 1
    OBVIOUS
  <2>1. k \in 0 .. n - 1 /\ k \in 0 .. TablesDepth - 1 /\ Walk(r, OnceAddr)[k] = k
    BY <1>1
  <2>2. Walk(r, OnceAddr)[k + 1] = r[Convert(Path(OnceAddr)[k], Walk(r, OnceAddr)[k], k)]
    <3>1. Convert(Path(OnceAddr)[k], Walk(r, OnceAddr)[k], k) = OnceEntry(k)
      BY <2>1 DEF OnceEntry
    <3>2. OnceEntry(k) < RamSize
      BY <2>1, OnceEntries, Sizes
    <3> QED
      BY <2>1, <3>1, <3>2, StepOfWalk
  <2> QED
    BY <2>1, <2>2 DEF OnceEntry
<1>4. S = Nat
  <2>1. S \in SUBSET Nat
    OBVIOUS
  <2> HIDE DEF S
  <2> QED
    BY <1>2, <1>3, <2>1, SetInduction
<1>5. ASSUME NEW k \in 0 .. n PROVE Walk(r, OnceAddr)[k] = k
  <2>1. k \in Nat /\ k <= n
    BY <1>1
  <2>2. k \in S
    BY <1>4, <2>1
  <2> QED
    BY <2>1, <2>2
<1> QED
  BY <1>5

\* search misses the entry of the last frame, unless it comes to the page.
LEMMA ChainSearch ==
  ASSUME NEW n \in 0 .. TablesDepth
  PROVE  IF n = TablesDepth THEN Mapped(Chain(n), OnceAddr)
         ELSE /\ Search(Chain(n), OnceAddr).missing
              /\ Search(Chain(n), OnceAddr).depth = n
              /\ Search(Chain(n), OnceAddr).addr = OnceEntry(n)
<1> DEFINE r == Chain(n)
           w == Walk(r, OnceAddr)
<1>1. n \in Nat /\ TablesDepth \in Nat \ {0} /\ r \in Rams
  BY Sizes, ChainWords
<1>2. \A k \in 0 .. n : w[k] = k
  <2>1. \A d \in 0 .. n - 1 : r[OnceEntry(d)] = d + 1
    BY ChainWords
  <2> HIDE DEF r
  <2> QED
    BY <1>1, <2>1, WalkDown
<1>3. CASE n = TablesDepth
  <2>1. \A d \in 1 .. TablesDepth : w[d] # 0
    BY <1>1, <1>2, <1>3
  <2>2. ~Search(r, OnceAddr).missing
    BY <2>1, SearchResult
  <2> QED
    BY <1>3, <2>2 DEF Mapped
<1>4. CASE n # TablesDepth
  <2>1. n \in 0 .. TablesDepth - 1 /\ n + 1 \in 1 .. TablesDepth /\ w[n] = n
    BY <1>1, <1>2, <1>4
  <2>2. w[n + 1] = r[OnceEntry(n)]
    <3>1. Convert(Path(OnceAddr)[n], w[n], n) = OnceEntry(n)
      BY <2>1 DEF OnceEntry
    <3>2. OnceEntry(n) < RamSize
      BY <2>1, OnceEntries, Sizes
    <3> QED
      BY <2>1, <3>1, <3>2, StepOfWalk
  <2>3. r[OnceEntry(n)] = 0
    <3>1. OnceEntry(n) \in 0 .. RamSize - 1 /\ OnceEntry(n) \div PageSize = n
      BY <2>1, OnceEntries
    <3> QED
      BY <1>1, <3>1, ChainWords
  <2> DEFINE s == Search(r, OnceAddr)
             k == s.depth
  <2>4. s.missing
    BY <2>1, <2>2, <2>3, SearchResult
  <2>5. /\ k \in 0 .. TablesDepth - 1
        /\ \A d \in 1 .. k : w[d] # 0
        /\ w[k + 1] = 0
        /\ s.addr = Convert(Path(OnceAddr)[k], w[k], k)
    BY <2>4, SearchResult
  <2> HIDE DEF k, s, w, r
  <2>6. k <= n
    <3> SUFFICES ASSUME n + 1 <= k PROVE FALSE
      BY <1>1, <2>5
    <3>1. n + 1 \in 1 .. k
      BY <1>1, <2>5
    <3> QED
      BY <2>2, <2>3, <2>5, <3>1
  <2>7. k >= n
    <3> SUFFICES ASSUME k + 1 <= n PROVE FALSE
      BY <1>1, <2>5
    <3>1. k + 1 \in 0 .. n /\ k + 1 # 0
      BY <1>1, <2>5
    <3> QED
      BY <1>2, <2>5, <3>1
  <2>8. k = n
    BY <1>1, <2>5, <2>6, <2>7
  <2>9. s.addr = OnceEntry(n)
    BY <2>1, <2>5, <2>8 DEF OnceEntry
  <2> QED
    BY <1>4, <2>4, <2>8, <2>9 DEF k, s, r
<1> QED
  BY <1>3, <1>4

\* At each depth down to the last of these frames there is one node.
LEMMA ChainLevels ==
  ASSUME NEW n \in 0 .. TablesDepth
  PROVE  /\ \A k \in 0 .. TablesDepth : \A x \in Level(Chain(n), k) : x.pAddr = k /\ k <= n
         /\ \A k \in 0 .. n : \E x \in Tree(Chain(n)) : x.pAddr = k
<1> DEFINE r == Chain(n)
           S == { k \in Nat : k <= TablesDepth =>
                    \A x \in Level(r, k) : x.pAddr = k /\ k <= n }
<1>1. n \in Nat /\ TablesDepth \in Nat \ {0} /\ r \in Rams
  BY Sizes, ChainWords
<1>2. 0 \in S
  BY <1>1, TreeLevels DEF Root
<1>3. ASSUME NEW k \in S PROVE k + 1 \in S
  <2> SUFFICES ASSUME k + 1 <= TablesDepth, NEW x \in Level(r, k + 1)
               PROVE  x.pAddr = k + 1 /\ k + 1 <= n
    OBVIOUS
  <2>1. k \in 0 .. TablesDepth - 1 /\ k \in Nat
    BY <1>1
  <2>2. PICK w \in Level(r, k), i \in 0 .. Neighbors(k) - 1 :
          /\ w.pAddr \in Frame
          /\ x.pAddr = r[w.pAddr * PageSize + i] /\ x.pAddr # 0
    BY <1>1, <2>1, Ascend
  <2>3. w.pAddr = k
    <3>1. k <= TablesDepth
      BY <2>1, <1>1
    <3> HIDE DEF r
    <3> QED
      BY <3>1
  <2> DEFINE cell == w.pAddr * PageSize + i
  <2>4. cell \in 0 .. RamSize - 1 /\ cell \div PageSize = w.pAddr
    BY <1>1, <2>1, <2>2, Descend
  <2> HIDE DEF cell
  <2>5. r[cell] # 0 /\ x.pAddr = r[cell]
    BY <2>2 DEF cell
  <2>6. PICK d \in 0 .. n - 1 : cell = OnceEntry(d) /\ d = cell \div PageSize
    BY <2>4, <2>5, ChainWords
  <2>7. d = k /\ r[cell] = d + 1
    BY <2>3, <2>4, <2>6, ChainWords
  <2> QED
    <3>1. x.pAddr = k + 1 /\ k \in 0 .. n - 1
      BY <2>5, <2>6, <2>7
    <3> QED
      BY <1>1, <2>1, <3>1
<1>4. S = Nat
  <2>1. S \in SUBSET Nat
    OBVIOUS
  <2> HIDE DEF S
  <2> QED
    BY <1>2, <1>3, <2>1, SetInduction
<1>5. ASSUME NEW k \in 0 .. TablesDepth, NEW x \in Level(r, k) PROVE x.pAddr = k /\ k <= n
  <2>1. k \in Nat /\ k <= TablesDepth
    BY <1>1
  <2>2. k \in S
    BY <1>4, <2>1
  <2> QED
    BY <2>1, <2>2
<1>6. ASSUME NEW k \in 0 .. n PROVE \E x \in Tree(r) : x.pAddr = k
  <2>1. \A j \in 0 .. n : Walk(r, OnceAddr)[j] = j
    <3>1. \A d \in 0 .. n - 1 : r[OnceEntry(d)] = d + 1
      BY ChainWords
    <3> HIDE DEF r
    <3> QED
      BY <1>1, <3>1, WalkDown
  <2>2. \A j \in 1 .. k : Walk(r, OnceAddr)[j] # 0
    BY <1>1, <2>1
  <2>3. k \in 0 .. TablesDepth /\ Walk(r, OnceAddr)[k] = k
    BY <1>1, <2>1
  <2> HIDE DEF r
  <2>4. PICK x \in Level(r, k) : x.pAddr = Walk(r, OnceAddr)[k]
    <3>1. OnceAddr \in Nat
      BY OnceOps
    <3> HIDE DEF OnceAddr
    <3> QED
      BY <1>1, <2>2, <2>3, <3>1, WalkNode
  <2> QED
    BY <1>1, <2>3, <2>4, TreeLevels
<1> QED
  BY <1>5, <1>6

\* The frame after those on the way is the next one.
LEMMA ChainExtends ==
  ASSUME IInv, WellFormed, NEW n \in 0 .. TablesDepth, ram = Chain(n),
         call.addr = OnceAddr, Reclaim \/ Extend
  PROVE  n < TablesDepth /\ ram' = Chain(n + 1)
<1>1. /\ n \in Nat /\ TablesDepth \in Nat \ {0} /\ ram \in Rams /\ ram = Chain(n)
      /\ OnceAddr \in Nat /\ NumFrames \in Nat
  BY Sizes, ChainWords, OnceOps
<1>2. Lacks
  BY DEF Reclaim, Extend
<1>3. n \in 0 .. TablesDepth - 1
  <2>1. ~Mapped(ram, OnceAddr)
    BY <1>2 DEF Lacks, Lacking, Mapped
  <2>2. n # TablesDepth
    BY <2>1, ChainSearch
  <2> QED
    BY <1>1, <2>2
<1>4. Lacking.depth = n /\ Lacking.addr = OnceEntry(n)
  <2>1. n # TablesDepth
    BY <1>1, <1>3
  <2>2. /\ Search(ram, OnceAddr).depth = n
        /\ Search(ram, OnceAddr).addr = OnceEntry(n)
    BY <2>1, ChainSearch
  <2> QED
    BY <2>2 DEF Lacking
<1>5. /\ OnceEntry(n) \in 0 .. RamSize - 1 /\ OnceEntry(n) \div PageSize = n
      /\ n + 1 \in Frame
  BY <1>3, OnceEntries
<1>6. /\ Separate(ram) /\ Cardinality(Tree(ram)) \in Nat
      /\ { x.pAddr : x \in Tree(ram) } = 0 .. Cardinality(Tree(ram)) - 1
  <2>1. WellFormedIn(ram)
    BY ImageHeld
  <2> QED
    BY <1>1, <2>1, TreeSizes DEF WellFormedIn
<1>7. \A x \in Tree(ram) : x.pAddr \in 0 .. n
  <2> SUFFICES ASSUME NEW x \in Tree(ram) PROVE x.pAddr \in 0 .. n
    OBVIOUS
  <2>1. PICK k \in 0 .. TablesDepth : x \in Level(ram, k)
    BY <1>1, TreeLevels
  <2>2. x.pAddr = k /\ k <= n
    BY <2>1, ChainLevels
  <2> QED
    BY <1>1, <2>2
<1>8. FreeTables = {}
  <2> SUFFICES ASSUME NEW x \in FreeTables PROVE FALSE
    OBVIOUS
  <2>1. /\ x \in Tree(ram) /\ IsClear(ram, x.pAddr) /\ x.pAddr # n /\ x.pAddr \in Frame
    BY <1>1, <1>2, <1>4, <1>5, <1>6, FreeTablesInTree
  <2> DEFINE k == x.pAddr
  <2>2. k \in 0 .. n - 1 /\ k \in 0 .. TablesDepth - 1
    BY <1>1, <1>7, <2>1
  <2>3. OnceEntry(k) \in 0 .. RamSize - 1 /\ OnceEntry(k) \div PageSize = k
    BY <2>2, OnceEntries
  <2>4. ram[OnceEntry(k)] = k + 1
    BY <2>2, ChainWords
  <2>5. ram[OnceEntry(k)] = 0
    <3> HIDE DEF k
    <3>1. k \in Frame /\ IsClear(ram, k)
      BY <2>1 DEF k
    <3> QED
      BY <1>1, <2>3, <3>1, ClearWords
  <2> QED
    BY <2>2, <2>4, <2>5
<1>9. TreeSize = n + 1
  <2>1. TreeSize \in Nat /\ { x.pAddr : x \in Tree(ram) } = 0 .. TreeSize - 1
    BY <1>6 DEF TreeSize
  <2>2. n \in 0 .. TreeSize - 1
    <3>1. n \in 0 .. n
      BY <1>1
    <3>2. \E x \in Tree(ram) : x.pAddr = n
      BY <3>1, ChainLevels
    <3> QED
      BY <2>1, <3>2
  <2>3. TreeSize - 1 \in 0 .. TreeSize - 1
    BY <2>1, <2>2
  <2>4. \E x \in Tree(ram) : x.pAddr = TreeSize - 1
    BY <2>1, <2>3
  <2>5. TreeSize - 1 \in 0 .. n
    BY <1>7, <2>4
  <2> QED
    BY <1>1, <2>1, <2>2, <2>5
<1>10. Extend /\ NewNode(ram, swapFile, n + 1)
  BY <1>8, <1>9 DEF Reclaim, Extend
<1> DEFINE q == [ ram EXCEPT ![OnceEntry(n)] = n + 1 ]
<1>11. q \in Rams
  BY <1>1, <1>5, FrameRange DEF Rams
<1>12. ASSUME NEW a \in 0 .. RamSize - 1 PROVE q[a] = Chain(n + 1)[a]
  <2>1. n + 1 \in 0 .. TablesDepth /\ n \in 0 .. (n + 1) - 1
    BY <1>1, <1>3
  <2>2. CASE a = OnceEntry(n)
    <3>1. Chain(n + 1)[OnceEntry(n)] = n + 1
      BY <2>1, ChainWords
    <3>2. q[OnceEntry(n)] = n + 1
      BY <1>1, <1>5 DEF Rams
    <3> QED
      BY <2>2, <3>1, <3>2
  <2>3. CASE a # OnceEntry(n)
    <3> DEFINE f == a \div PageSize
    <3>1. f \in Nat
      <4>1. f \in Frame
        BY Frames
      <4> HIDE DEF f
      <4> QED
        BY <1>1, <4>1, FrameRange
    <3>2. q[a] = Chain(n)[a]
      BY <1>1, <2>3 DEF Rams
    <3>3. /\ Chain(n)[a] = IF f < n /\ a = OnceEntry(f) THEN f + 1 ELSE 0
          /\ Chain(n + 1)[a] = IF f < n + 1 /\ a = OnceEntry(f) THEN f + 1 ELSE 0
      BY DEF Chain
    <3> HIDE DEF f, q
    <3>4. f # n \/ a # OnceEntry(f)
      BY <2>3
    <3> QED
      BY <1>1, <3>1, <3>2, <3>3, <3>4
  <2> QED
    BY <2>2, <2>3
<1>13. q = Chain(n + 1)
  <2>1. q = [ a \in 0 .. RamSize - 1 |-> q[a] ]
    BY <1>1 DEF Rams
  <2>2. Chain(n + 1) = [ a \in 0 .. RamSize - 1 |-> Chain(n + 1)[a] ]
    BY DEF Chain
  <2> HIDE DEF q
  <2> QED
    BY <1>12, <2>1, <2>2
<1>14. IsClear(q, n + 1)
  <2>1. ASSUME NEW a \in 0 .. RamSize - 1, a \div PageSize = n + 1 PROVE q[a] = 0
    <3>1. ~ (n + 1 < n + 1)
      BY <1>1
    <3>2. Chain(n + 1)[a] = IF n + 1 < n + 1 /\ a = OnceEntry(n + 1) THEN (n + 1) + 1 ELSE 0
      BY <2>1 DEF Chain
    <3> QED
      BY <1>13, <3>1, <3>2
  <2> HIDE DEF q
  <2> QED
    BY <1>5, <1>11, <2>1, ClearWords
<1>15. ram' = q
  <2>1. ZeroSwap(swapFile)
    BY DEF IInv, SwapIsZero
  <2>2. PMrestore(q, swapFile, n + 1, PageOf(call.addr)) = q
    <3> HIDE DEF q
    <3> QED
      BY <1>5, <1>11, <1>14, <2>1, RestoreNothing
  <2>3. PMwrite(ram, Lacking.addr, n + 1) = q
    BY <1>4 DEF PMwrite
  <2> HIDE DEF q
  <2> QED
    BY <1>10, <2>2, <2>3 DEF NewNode
<1> QED
  BY <1>1, <1>3, <1>13, <1>15

\* Where the frames were used one after the other the page is in the last of them.
LEMMA OnceLocation ==
  ASSUME PagesFit, NEW r \in Rams, \A d \in 0 .. TablesDepth - 1 : r[OnceEntry(d)] = d + 1
  PROVE  Mapped(r, OnceAddr) /\ Location(r, OnceAddr) = OncePlace
<1>1. TablesDepth \in Nat \ {0} /\ TablesDepth \in 0 .. TablesDepth
  BY Sizes
<1>2. \A k \in 0 .. TablesDepth : Walk(r, OnceAddr)[k] = k
  BY <1>1, WalkDown
<1>3. \A d \in 1 .. TablesDepth : Walk(r, OnceAddr)[d] # 0
  BY <1>1, <1>2
<1>4. /\ ~Search(r, OnceAddr).missing
      /\ Search(r, OnceAddr).depth = TablesDepth - 1
      /\ Search(r, OnceAddr).addr = TablesDepth
  BY <1>1, <1>2, <1>3, SearchResult
<1>5. Neighbors(TablesDepth - 1) = PageSize
  <2>1. CASE TablesDepth = 1
    <3>1. RootSize = PageSize
      BY <2>1 DEF PagesFit
    <3>2. TablesDepth - 1 = 0
      BY <2>1
    <3> QED
      BY <3>1, <3>2 DEF Neighbors
  <2>2. CASE TablesDepth # 1
    <3>1. TablesDepth - 1 # 0
      BY <1>1, <2>2
    <3> QED
      BY <3>1 DEF Neighbors
  <2> QED
    BY <2>1, <2>2
<1> QED
  BY <1>4, <1>5 DEF Mapped, Location, Convert, OncePlace

LEMMA OncePlaced ==
  /\ OncePlace \in 0 .. RamSize - 1
  /\ \A d \in 0 .. TablesDepth - 1 : OnceEntry(d) # OncePlace
  /\ WrittenOnce \in Rams
  /\ WrittenOnce[OncePlace] = W1337
  /\ \A d \in 0 .. TablesDepth - 1 : WrittenOnce[OnceEntry(d)] = d + 1
<1>1. /\ TablesDepth \in Nat \ {0} /\ NumFrames \in Nat /\ TablesDepth < NumFrames
      /\ PageSize \in Nat \ {0} /\ TablesDepth \in 0 .. TablesDepth
  BY Sizes, VirtualMemoryAssumption
<1>2. TablesDepth \in Frame /\ W1337 \in Word
  BY <1>1, FrameRange, WordAssumption DEF Word, W1337
<1>3. OnceAddr % PageSize \in 0 .. PageSize - 1
  BY <1>1, OnceOps, Division
<1>4. OncePlace \in 0 .. RamSize - 1 /\ OncePlace \div PageSize = TablesDepth
  BY <1>2, <1>3, Frames DEF OncePlace
<1>5. \A d \in 0 .. TablesDepth - 1 : OnceEntry(d) # OncePlace
  <2> SUFFICES ASSUME NEW d \in 0 .. TablesDepth - 1, OnceEntry(d) = OncePlace PROVE FALSE
    OBVIOUS
  <2>1. OnceEntry(d) \div PageSize = d
    BY OnceEntries
  <2> QED
    BY <1>1, <1>4, <2>1
<1>6. /\ Chain(TablesDepth) \in Rams
      /\ \A d \in 0 .. TablesDepth - 1 : Chain(TablesDepth)[OnceEntry(d)] = d + 1
  BY <1>1, ChainWords
<1>7. WrittenOnce \in Rams /\ WrittenOnce[OncePlace] = W1337
  BY <1>2, <1>4, <1>6 DEF WrittenOnce, Rams
<1>8. ASSUME NEW d \in 0 .. TablesDepth - 1 PROVE WrittenOnce[OnceEntry(d)] = d + 1
  <2>1. OnceEntry(d) \in 0 .. RamSize - 1 /\ OnceEntry(d) # OncePlace
    BY <1>5, OnceEntries
  <2>2. WrittenOnce[OnceEntry(d)] = Chain(TablesDepth)[OnceEntry(d)]
    BY <1>6, <2>1 DEF WrittenOnce, Rams
  <2> QED
    BY <1>6, <2>2
<1> QED
  BY <1>4, <1>5, <1>7, <1>8

-----------------------------------------------------------------------------
(***************************************************************************)
(* The inductive invariant of the tests.                                   *)
(***************************************************************************)
\* The call in progress is the operation that the test has come to.
CallIsOp ==
  test # Anything /\ call \notin {NoCall, Abort} =>
    /\ Running
    /\ Op.op \in { "read", "write" }
    /\ call.op = Op.op /\ call.addr = Op.addr
    /\ call.op = "write" => call.value = Op.value

\* The memory holds at each address what the test wrote there last.
Remembered ==
  test.method # AsItIs /\ ReadsBack(test.ops) =>
    \A a \in Legal : \A k \in 1 .. ip - 1 :
      LastWrite(test.ops, ip, k, a) => Image[a] = test.ops[k].value

\* The RAM in the test that looks at it.
OnceRam ==
  test = Once =>
    IF ip = 1 THEN \E d \in 0 .. TablesDepth : ram = Chain(d) ELSE ram = WrittenOnce

Steady ==
  /\ call # Abort
  /\ failed = IF RootNotZero THEN {"root"} ELSE {}
  /\ WellFormed
  /\ Remembered
  /\ OnceRam

Undisturbed == test # Anything /\ ~evicted

TestsInv ==
  /\ IInv
  /\ test \in Tests \cup {NoTest, Anything}
  /\ ip \in Nat \ {0}
  /\ CallIsOp
  /\ Undisturbed => Steady

\* The operation that a test has come to.
LEMMA OpTyped ==
  ASSUME ~TEST_CONSTANTS, test \in Tests \cup {NoTest, Anything}, ip \in Nat \ {0}, Running
  PROVE  /\ test # Anything
         /\ test \in Tests \cup {NoTest}
         /\ Programmed(test) \/ test = Once
         /\ Len(test.ops) \in Nat
         /\ ip \in 1 .. Len(test.ops)
         /\ Op \in AnyOp
         /\ Op.op \in { "read", "write" } => Op.addr \in Addrs /\ Op.value \in Values
<1>1. test # Anything
  <2> SUFFICES ASSUME test = Anything PROVE FALSE
    OBVIOUS
  <2>1. test.ops = << >>
    BY DEF Anything, Program
  <2>2. Len(<< >>) = 0
    BY EmptySeq
  <2> QED
    BY <2>1, <2>2 DEF Running
<1>2. test \in Tests \cup {NoTest}
  BY <1>1
<1>3. Programmed(test) \/ test = Once
  BY <1>2, Programs
<1>4. test.ops \in Seq(AnyOp)
  BY <1>3, OnceOps DEF Programmed
<1>5. Len(test.ops) \in Nat /\ DOMAIN test.ops = 1 .. Len(test.ops)
  BY <1>4
<1>6. ip \in 1 .. Len(test.ops)
  BY <1>5 DEF Running
<1>7. Op \in AnyOp
  BY <1>4, <1>6 DEF Op
<1>8. Op.op \in { "read", "write" } => Op.addr \in Addrs /\ Op.value \in Values
  BY <1>2, <1>5, <1>6, CallsOfTests DEF Op
<1> QED
  BY <1>1, <1>2, <1>3, <1>5, <1>6, <1>7, <1>8

\* A look at the RAM changes nothing that the memory has.
LEMMA LookChangesNothing ==
  ASSUME ~TEST_CONSTANTS, TestsInv, LookAtMemory
  PROVE  UNCHANGED vars /\ Op.op = "PMread"
<1>1. Op \in AnyOp
  BY OpTyped DEF TestsInv, LookAtMemory
<1>2. Op.op \in { "read", "write", "PMread" }
  BY <1>1 DEF AnyOp
<1>3. Op.op = "PMread"
  BY <1>2 DEF LookAtMemory
<1>4. Put(swapFile, Op) = swapFile
  BY <1>3 DEF Put
<1> QED
  BY <1>3, <1>4 DEF LookAtMemory, vars

\* The operations of the tests, and the calls of the client that calls anything,
\* are steps of the virtual memory.
LEMMA TestStepIsStep ==
  ASSUME ~TEST_CONSTANTS, TestsInv, TestStep \/ AnythingNext
  PROVE  [Next]_vars
<1>1. CASE CallNext
  <2>1. /\ call = NoCall /\ UNCHANGED << ram, swapFile, answer >>
        /\ Op.op \in { "read", "write" }
        /\ call' = [ op |-> Op.op, addr |-> Op.addr,
                     value |-> IF Op.op = "write" THEN Op.value ELSE 0 ]
    BY <1>1 DEF CallNext
  <2>2. Op.addr \in Addrs /\ Op.value \in Values
    BY <1>1, <2>1, OpTyped DEF CallNext, TestsInv
  <2>3. call' \in Flat!Reads \cup Flat!Writes
    BY <2>1, <2>2 DEF Flat!Reads, Flat!Writes
  <2> QED
    BY <2>1, <2>3 DEF Next, Call
<1>2. CASE Work
  BY <1>2 DEF Work, Next
<1>3. CASE Return
  BY <1>3 DEF Return, Next
<1>4. CASE LookAtMemory
  BY <1>4, LookChangesNothing
<1>5. CASE AnythingNext
  BY <1>5 DEF AnythingNext, FreeCall, Next
<1> QED
  BY <1>1, <1>2, <1>3, <1>4, <1>5 DEF TestStep

\* A test fills the RAM with words.
LEMMA RefilledTyped ==
  ASSUME NEW method
  PROVE  /\ Refilled(method) \in Rams
         /\ RootIsZero(Refilled(method)) <=> method = ZeroMemory \/ ~ (RootSize < PageSize)
         /\ \A a \in 0 .. RamSize - 1 :
              a \notin RootSize .. PageSize - 1 \/ method = ZeroMemory =>
                Refilled(method)[a] = 0
<1>1. /\ MaxWord \in Word /\ SPECIFIC_FILL_VALUE \in Word /\ 0 \in Word
      /\ MaxWord # 0 /\ SPECIFIC_FILL_VALUE # 0
  BY FrameRange, WordAssumption, TestsAssumption DEF Word, SPECIFIC_FILL_VALUE
<1>2. ASSUME NEW a \in 0 .. RamSize - 1
      PROVE  /\ Refilled(method)[a] \in {0, MaxWord, SPECIFIC_FILL_VALUE}
             /\ a \notin RootSize .. PageSize - 1 \/ method = ZeroMemory <=>
                  Refilled(method)[a] = 0
  <2>1. CASE a \notin RootSize .. PageSize - 1 \/ method = ZeroMemory
    BY <2>1 DEF Refilled, ZeroMemory, FillWithSpecificValue
  <2>2. CASE a \in RootSize .. PageSize - 1 /\ method # ZeroMemory
    <3>1. CASE method = FillWithSpecificValue
      BY <1>1, <2>2, <3>1 DEF Refilled
    <3>2. CASE method # FillWithSpecificValue
      BY <1>1, <2>2, <3>2 DEF Refilled
    <3> QED
      BY <3>1, <3>2
  <2> QED
    BY <2>1, <2>2
<1>3. Refilled(method) \in Rams
  <2>1. Refilled(method) = [ a \in 0 .. RamSize - 1 |-> Refilled(method)[a] ]
    BY DEF Refilled
  <2> QED
    BY <1>1, <1>2, <2>1 DEF Rams
<1>4. \A a \in 0 .. PageSize - 1 : a \in 0 .. RamSize - 1
  <2>1. 0 * PageSize = 0
    BY Sizes
  <2> QED
    BY <2>1, Frames
<1>5. RootSize \in 1 .. PageSize /\ PageSize \in Nat
  BY Sizes
<1>6. CASE method = ZeroMemory
  BY <1>2, <1>3, <1>4, <1>6 DEF RootIsZero
<1>7. CASE method # ZeroMemory /\ RootSize < PageSize
  <2>1. RootSize \in RootSize .. PageSize - 1 /\ RootSize \in 0 .. PageSize - 1
    BY <1>5, <1>7
  <2>2. Refilled(method)[RootSize] # 0
    BY <1>2, <1>4, <1>7, <2>1
  <2> QED
    BY <1>2, <1>3, <1>7, <2>1, <2>2 DEF RootIsZero
<1>8. CASE ~ (RootSize < PageSize)
  <2>1. \A a \in 0 .. RamSize - 1 : a \notin RootSize .. PageSize - 1
    BY <1>5, <1>8, Sizes
  <2> QED
    BY <1>2, <1>3, <1>4, <1>8, <2>1 DEF RootIsZero
<1> QED
  BY <1>6, <1>7, <1>8

LEMMA TestsType ==
  ASSUME ~TEST_CONSTANTS, TestsInv, [TestsNext]_allVars
  PROVE  /\ IInv'
         /\ test' \in Tests \cup {NoTest, Anything}
         /\ ip' \in Nat \ {0}
<1>1. CASE TestStep \/ AnythingNext
  <2>1. IInv'
    BY <1>1, TestStepIsStep, TypeStep DEF TestsInv
  <2>2. test' = test
    BY <1>1 DEF TestStep, CallNext, Work, Return, LookAtMemory, AnythingNext, testVars
  <2>3. \/ ip' = ip
        \/ Running /\ ip' \in { ip + 1, Len(test.ops) + 1 }
    BY <1>1 DEF TestStep, CallNext, Work, Return, LookAtMemory, Judge, AnythingNext, testVars
  <2>4. Running => Len(test.ops) \in Nat
    BY OpTyped DEF TestsInv
  <2> QED
    BY <2>1, <2>2, <2>3, <2>4 DEF TestsInv
<1>2. CASE BeginTest
  <2>1. test' \in Tests /\ ip' = 1
    BY <1>2 DEF BeginTest
  <2>2. ram' \in Rams /\ UNCHANGED << swapFile, call, answer >>
    <3>1. ram \in Rams
      BY DEF TestsInv, IInv, TypeOK, Rams
    <3>2. ram' = ram \/ ram' = Refilled(test'.method)
      BY <1>2 DEF BeginTest
    <3>3. Refilled(test'.method) \in Rams
      BY RefilledTyped
    <3>4. ram' \in Rams
      BY <3>1, <3>2, <3>3
    <3> QED
      BY <1>2, <3>4 DEF BeginTest
  <2>3. IInv'
    BY <2>2 DEF TestsInv, IInv, TypeOK, SwapIsZero, ZeroSwap, Rams, Flat!Reads, Flat!Writes
  <2> QED
    BY <2>1, <2>3
<1>3. CASE UNCHANGED allVars
  <2>1. [Next]_vars
    BY <1>3 DEF allVars
  <2>2. IInv'
    BY <2>1, TypeStep DEF TestsInv
  <2> QED
    BY <1>3, <2>2 DEF TestsInv, allVars, testVars
<1> QED
  BY <1>1, <1>2, <1>3 DEF TestsNext

LEMMA CallIsOpStep ==
  ASSUME ~TEST_CONSTANTS, TestsInv, [TestsNext]_allVars
  PROVE  CallIsOp'
<1>1. CASE CallNext
  <2>1. /\ Running /\ Op.op \in { "read", "write" }
        /\ call' = [ op |-> Op.op, addr |-> Op.addr,
                     value |-> IF Op.op = "write" THEN Op.value ELSE 0 ]
        /\ test' = test /\ ip' = ip
    BY <1>1 DEF CallNext, testVars
  <2>2. Running' /\ Op' = Op
    BY <2>1 DEF Running, Op
  <2> QED
    BY <2>1, <2>2 DEF CallIsOp
<1>2. CASE Work
  <2>1. call' \in { call, Abort } /\ test' = test /\ ip' = ip
    BY <1>2 DEF Work, Reclaim, RestoreFails, Extend, Evict, EvictFails
  <2>2. Running' = Running /\ Op' = Op
    BY <2>1 DEF Running, Op
  <2> QED
    BY <2>1, <2>2 DEF CallIsOp, TestsInv
<1>3. CASE Return
  <2>1. call' = NoCall
    BY <1>3 DEF Return, VMread, VMwrite, Refuse
  <2> QED
    BY <2>1 DEF CallIsOp
<1>4. CASE LookAtMemory
  <2>1. call' = call /\ test' = test
    BY <1>4 DEF LookAtMemory
  <2>2. test # Anything => call \in {NoCall, Abort}
    BY <1>4, LookChangesNothing DEF TestsInv, CallIsOp
  <2> QED
    BY <2>1, <2>2 DEF CallIsOp
<1>5. CASE AnythingNext
  BY <1>5 DEF AnythingNext, testVars, CallIsOp
<1>6. CASE BeginTest
  <2>1. call' = NoCall
    BY <1>6 DEF BeginTest
  <2> QED
    BY <2>1 DEF CallIsOp
<1>7. CASE UNCHANGED allVars
  <2>1. call' = call /\ test' = test /\ ip' = ip
    BY <1>7 DEF allVars, vars, testVars
  <2>2. Running' = Running /\ Op' = Op
    BY <2>1 DEF Running, Op
  <2> QED
    BY <2>1, <2>2 DEF CallIsOp, TestsInv
<1> QED
  BY <1>1, <1>2, <1>3, <1>4, <1>5, <1>6, <1>7 DEF TestsNext, TestStep

LEMMA BeginSteady ==
  ASSUME PagesFit, TestsInv, IInv', BeginTest, ~evicted'
  PROVE  Steady'
<1> DEFINE m == test'.method
<1>1. /\ call' = NoCall /\ ip' = 1
  BY DEF BeginTest
<1>2. ASSUME m # AsItIs
      PROVE  WellFormed' /\ failed' = IF RootNotZero' THEN {"root"} ELSE {}
  <2>1. ram' = Refilled(m)
    BY <1>2 DEF BeginTest
  <2>2. /\ ram' \in Rams
        /\ \A a \in 0 .. RamSize - 1 : a \notin RootSize .. PageSize - 1 => ram'[a] = 0
    BY <2>1, RefilledTyped
  <2>3. failed' = Unless(RootIsZero(ram'), "root")
    BY <1>2 DEF BeginTest
  <2>4. RootIsZero(ram') <=> ~RootNotZero'
    BY <1>2, <2>1, RefilledTyped DEF RootNotZero
  <2> QED
    BY <2>2, <2>3, <2>4, ClearRoot, ImageHeld DEF Unless
<1>7. ASSUME m = AsItIs, ~evicted'
      PROVE  WellFormed' /\ failed' = IF RootNotZero' THEN {"root"} ELSE {}
  <2>1. ram' = ram /\ failed' = {} /\ ~evicted /\ test # Anything
    BY <1>7 DEF BeginTest
  <2>2. WellFormed
    BY <2>1 DEF TestsInv, Undisturbed, Steady
  <2>3. WellFormed'
    BY <2>1, <2>2, ImageHeld
  <2>4. ~RootNotZero'
    BY <1>7 DEF RootNotZero
  <2> QED
    BY <2>1, <2>3, <2>4
<1>3. Remembered'
  BY <1>1 DEF Remembered
<1>4. ASSUME test' = Once PROVE ram' = Chain(0)
  <2>1. m = ZeroMemory /\ m # AsItIs
    BY <1>4, OnceOps, Methods
  <2>2. ram' = Refilled(ZeroMemory)
    BY <2>1 DEF BeginTest
  <2>3. \A a \in 0 .. RamSize - 1 : Refilled(ZeroMemory)[a] = 0
    BY RefilledTyped
  <2>4. \A a \in 0 .. RamSize - 1 : Chain(0)[a] = 0
    <3>1. TablesDepth \in Nat /\ 0 .. 0 - 1 = {}
      BY Sizes
    <3>2. 0 \in 0 .. TablesDepth
      BY <3>1
    <3> QED
      BY <3>1, <3>2, ChainWords
  <2>5. /\ Refilled(ZeroMemory) = [ a \in 0 .. RamSize - 1 |-> Refilled(ZeroMemory)[a] ]
        /\ Chain(0) = [ a \in 0 .. RamSize - 1 |-> Chain(0)[a] ]
    BY DEF Refilled, Chain
  <2> QED
    BY <2>2, <2>3, <2>4, <2>5
<1>5. OnceRam'
  <2>1. 0 \in 0 .. TablesDepth
    BY Sizes
  <2> QED
    BY <1>1, <1>4, <2>1 DEF OnceRam
<1>6. call' # Abort
  BY <1>1 DEF NoCall, Abort
<1> QED
  BY <1>1, <1>2, <1>3, <1>5, <1>6, <1>7 DEF Steady

\* The test that looks at the RAM is none of those that only call.
LEMMA OnceLooks ==
  /\ ~ReadsBack(Once.ops)
  /\ Once.method # AsItIs
<1>1. TablesDepth \in Nat \ {0}
  BY Sizes
<1>2. Looks(Once.ops[0 + 2], OnceEntry(0), 0 + 1)
  <2>1. 0 \in 0 .. TablesDepth - 1
    BY <1>1
  <2> QED
    BY <2>1, OnceOps
<1>3. Once.ops[2].op = "PMread"
  <2>1. 0 + 2 = 2
    OBVIOUS
  <2> QED
    BY <1>2, <2>1 DEF Looks
<1>4. 2 \in 1 .. Len(Once.ops)
  BY <1>1, OnceOps
<1> QED
  BY <1>3, <1>4, OnceOps, Methods DEF ReadsBack, Expected

\* Its operations by their positions.
LEMMA OnceOp ==
  ASSUME NEW j \in 1 .. Len(Once.ops)
  PROVE  LET e == Once.ops[j] IN
         /\ e.op \in { "read", "write" } <=> j \in { 1, TablesDepth + 3 }
         /\ e.op \in { "read", "write" } =>
              e.addr = OnceAddr /\ e.value = W1337 /\ e.ok = TRUE
         /\ e.op = "write" <=> j = 1
         /\ e.op = "PMread" => WrittenOnce[e.addr] = e.value
<1>1. TablesDepth \in Nat \ {0} /\ Len(Once.ops) = TablesDepth + 3
  BY Sizes, OnceOps
<1>2. CASE j = 1
  BY <1>1, <1>2, OnceOps
<1>3. CASE j = TablesDepth + 3
  BY <1>1, <1>3, OnceOps
<1>4. CASE j = TablesDepth + 2
  <2>1. Looks(Once.ops[j], OncePlace, W1337)
    BY <1>4, OnceOps
  <2> QED
    BY <1>1, <1>4, <2>1, OncePlaced DEF Looks
<1>5. CASE j # 1 /\ j # TablesDepth + 2 /\ j # TablesDepth + 3
  <2> DEFINE d == j - 2
  <2>1. d \in 0 .. TablesDepth - 1 /\ j = d + 2
    BY <1>1, <1>5
  <2> HIDE DEF d
  <2>2. Looks(Once.ops[j], OnceEntry(d), d + 1)
    BY <2>1, OnceOps
  <2>3. WrittenOnce[OnceEntry(d)] = d + 1
    BY <2>1, OncePlaced
  <2> QED
    BY <1>5, <2>2, <2>3 DEF Looks
<1> QED
  BY <1>2, <1>3, <1>4, <1>5

\* getPAddr without an eviction changes nothing that the test looks at.
LEMMA WorkSteady ==
  ASSUME PagesFit, ~TEST_CONSTANTS, TestsInv, IInv', Undisturbed, Work, ~evicted'
  PROVE  Steady'
<1>1. Steady /\ IInv /\ ip \in Nat \ {0} /\ WellFormedIn(ram)
  BY ImageHeld DEF TestsInv, Steady
<1>2. /\ Running
      /\ Reclaim \/ Extend
      /\ UNCHANGED << test, ip, failed, call >>
  BY <1>1, NoStrayPage DEF Work, Reclaim, Extend, RestoreFails
<1>3. /\ Programmed(test) \/ test = Once
      /\ ip \in 1 .. Len(test.ops)
  BY <1>2, OpTyped DEF TestsInv
<1>4. /\ Op.op \in { "read", "write" } /\ call.op = Op.op /\ call.addr = Op.addr
      /\ Lacks
  <2>1. Lacks /\ call.op \in { "read", "write" }
    BY <1>2 DEF Reclaim, Extend, Lacks
  <2>2. call \notin {NoCall, Abort}
    BY <2>1 DEF NoCall, Abort
  <2> QED
    BY <2>1, <2>2 DEF TestsInv, CallIsOp, Undisturbed
<1>5. WellFormed' /\ Image' = Image /\ RootNotZero' = RootNotZero
  <2>1. WellFormed /\ WellFormedIn(ram)
    BY <1>1, ImageHeld DEF Steady
  <2>2. StepRelinks
    BY <1>2, <1>1, <2>1, ExtendRelinks, ReclaimRelinks
  <2> QED
    BY <1>2, <1>1, <2>1, <2>2, RelinksStutters DEF RootNotZero
<1>6. Remembered'
  BY <1>2, <1>1, <1>5 DEF Steady, Remembered
<1>7. OnceRam'
  <2> SUFFICES ASSUME test = Once PROVE OnceRam'
    BY <1>2 DEF OnceRam
  <2>1. Op = Once.ops[ip] /\ ip \in 1 .. Len(Once.ops)
    BY <1>3 DEF Op
  <2>2. call.addr = OnceAddr
    BY <1>4, <2>1, OnceOp
  <2>3. CASE ip = 1
    <3>1. PICK d \in 0 .. TablesDepth : ram = Chain(d)
      BY <1>1, <2>3 DEF Steady, OnceRam
    <3>2. WellFormed
      BY <1>1 DEF Steady
    <3>3. d < TablesDepth /\ ram' = Chain(d + 1)
      BY <1>2, <1>1, <2>2, <3>1, <3>2, ChainExtends
    <3>4. d + 1 \in 0 .. TablesDepth
      BY <3>3, Sizes
    <3> QED
      BY <1>2, <2>3, <3>3, <3>4 DEF OnceRam
  <2>4. CASE ip # 1
    <3>1. ram = WrittenOnce
      BY <1>1, <2>4 DEF Steady, OnceRam
    <3>2. Mapped(ram, OnceAddr)
      BY <3>1, OncePlaced, OnceLocation
    <3> QED
      BY <1>4, <2>2, <3>2 DEF Lacks, Lacking, Mapped
  <2> QED
    BY <2>3, <2>4
<1> QED
  BY <1>2, <1>1, <1>5, <1>6, <1>7 DEF Steady

\* What an operation that returns as it should leaves.
LEMMA Returns ==
  ASSUME Return, call' = NoCall, answer'.ok = Op.ok,
         Op.op = "read" => answer'.value = Op.value
  PROVE  ip' = ip + 1 /\ failed' = failed /\ test' = test /\ RootNotZero' = RootNotZero
BY DEF Return, Judge, Unless, RootNotZero

\* What was written last at an address before the next operation.
LEMMA OneMore ==
  ASSUME NEW ops, NEW j \in Nat \ {0}, NEW k \in 1 .. (j + 1) - 1, NEW a,
         LastWrite(ops, j + 1, k, a)
  PROVE  IF k = j THEN WritesTo(ops[j], a)
         ELSE k \in 1 .. j - 1 /\ LastWrite(ops, j, k, a) /\ ~WritesTo(ops[j], a)
<1>1. CASE k = j
  BY <1>1 DEF LastWrite
<1>2. CASE k # j
  <2>1. k \in 1 .. j - 1 /\ j \in k + 1 .. (j + 1) - 1
    BY <1>2
  <2>2. \A l \in k + 1 .. j - 1 : l \in k + 1 .. (j + 1) - 1
    OBVIOUS
  <2> QED
    BY <1>2, <2>1, <2>2 DEF LastWrite
<1> QED
  BY <1>1, <1>2

\* A call that returns is the operation that the test has come to.
LEMMA ReturnsCall ==
  ASSUME PagesFit, TestsInv, test # Anything, Return, WellFormed
  PROVE  /\ call.op \in { "read", "write" } /\ call.op = Op.op /\ call.addr = Op.addr
         /\ call.op = "write" => call.value = Op.value
         /\ call.addr \in Nat /\ call.addr \in Addrs
         /\ call' = NoCall /\ UNCHANGED << test, evicted >>
         /\ \/ call.op = "read" /\ VMread
            \/ call.op = "write" /\ VMwrite
            \/ Refuse
         /\ answer'.ok = (call.addr < VirtualMemorySize)
         /\ Refuse <=> call.addr >= VirtualMemorySize
<1>1. /\ VMread \/ VMwrite \/ Refuse
      /\ UNCHANGED << test, evicted >>
  BY DEF Return
<1>2. call' = NoCall /\ call.op \in { "read", "write" }
  BY <1>1 DEF VMread, VMwrite, Refuse, Found
<1>3. /\ call.op = Op.op /\ call.addr = Op.addr
      /\ call.op = "write" => call.value = Op.value
  <2>1. call \notin {NoCall, Abort}
    BY <1>2 DEF NoCall, Abort
  <2> QED
    BY <2>1 DEF TestsInv, CallIsOp
<1>4. call.addr \in Nat /\ call.addr \in Addrs
  BY <1>2, CallTyped DEF TestsInv, IInv
<1>5. VirtualMemorySize \in Nat
  BY SizeIsPositive
<1>6. /\ VMread => call.op = "read" /\ call.addr < VirtualMemorySize /\ answer'.ok = TRUE
      /\ VMwrite => call.op = "write" /\ call.addr < VirtualMemorySize /\ answer'.ok = TRUE
      /\ Refuse => call.addr >= VirtualMemorySize /\ answer'.ok = FALSE
  <2>1. Refuse => call.addr \notin Flat!Legal
    BY RefuseIsFlat DEF TestsInv
  <2>2. Refuse => call.addr >= VirtualMemorySize
    BY <1>4, <1>5, <2>1 DEF Flat!Legal
  <2> QED
    BY <2>2 DEF VMread, VMwrite, Refuse, Found, IsLegal, Flat!Success, Flat!Failure
<1>7. call.addr < VirtualMemorySize <=> ~ (call.addr >= VirtualMemorySize)
  BY <1>4, <1>5
<1>8. \/ call.op = "read" /\ VMread
      \/ call.op = "write" /\ VMwrite
      \/ Refuse
  BY <1>1, <1>6
<1>9. /\ answer'.ok = (call.addr < VirtualMemorySize)
      /\ Refuse <=> call.addr >= VirtualMemorySize
  <2>1. CASE Refuse
    <3>1. (call.addr < VirtualMemorySize) = FALSE
      BY <1>4, <1>5, <1>6, <2>1
    <3> QED
      BY <1>6, <2>1, <3>1
  <2>2. CASE ~Refuse
    BY <1>6, <1>7, <1>8, <2>2
  <2> QED
    BY <2>1, <2>2
<1> QED
  BY <1>1, <1>2, <1>3, <1>4, <1>8, <1>9

\* What the memory holds after it.
LEMMA ReturnsImage ==
  ASSUME PagesFit, TestsInv, test # Anything, Return, WellFormed
  PROVE  /\ WellFormed'
         /\ \A a \in Legal :
              Image'[a] = IF call.op = "write" /\ call.addr = a THEN call.value ELSE Image[a]
         /\ call.op = "read" /\ call.addr \in Legal => answer'.value = Image[call.addr]
<1>1. IInv
  BY DEF TestsInv
<1>2. \/ call.op = "read" /\ VMread
      \/ call.op = "write" /\ VMwrite
      \/ Refuse
  BY ReturnsCall
<1>3. Flat!Return /\ WellFormed'
  BY <1>1, <1>2, ReadIsFlat, WriteIsFlat, RefuseIsFlat, ImageHeld
<1>4. \A a \in Legal : a \in Flat!Legal
  BY ImageHeld
<1>5. Image = [ a \in Legal |-> Image[a] ]
  BY ImageHeld
<1>6. ASSUME NEW a \in Legal
      PROVE  Image'[a] = IF call.op = "write" /\ call.addr = a THEN call.value ELSE Image[a]
  BY <1>3, <1>4, <1>5 DEF Flat!Return, Flat!Read, Flat!Write, Flat!Fail
<1>7. call.op = "read" /\ call.addr \in Legal => answer'.value = Image[call.addr]
  BY <1>3, <1>4 DEF Flat!Return, Flat!Read, Flat!Write, Flat!Fail, Flat!Success
<1> QED
  BY <1>3, <1>6, <1>7

\* A test that reads back what it writes gets what it expects.
LEMMA ReturnsExpected ==
  ASSUME PagesFit, ~TEST_CONSTANTS, TestsInv, Undisturbed, Return, Programmed(test)
  PROVE  Steady'
<1>1. Steady /\ test # Anything /\ ip \in Nat \ {0} /\ WellFormed
  BY DEF TestsInv, Undisturbed, Steady
<1>2. /\ call.op \in { "read", "write" } /\ call.op = Op.op /\ call.addr = Op.addr
      /\ call.op = "write" => call.value = Op.value
      /\ call.addr \in Nat /\ call.addr \in Addrs
      /\ call' = NoCall /\ UNCHANGED << test, evicted >>
      /\ answer'.ok = (call.addr < VirtualMemorySize)
      /\ Refuse <=> call.addr >= VirtualMemorySize
  BY <1>1, ReturnsCall
<1>3. /\ ip \in 1 .. Len(test.ops) /\ Op \in AnyOp
      /\ Op = test.ops[ip]
  BY OpTyped DEF TestsInv, Return, Op
<1>4. /\ Expected(test.ops, ip) /\ ReadsBack(test.ops)
      /\ test.method = AsItIs => Op.ok = FALSE
  BY <1>3 DEF Programmed, ReadsBack
<1>5. Op.ok = (Op.addr < VirtualMemorySize) /\ Op.ok \in BOOLEAN
  BY <1>3, <1>4 DEF Expected, AnyOp
<1>6. Op.ok => call.addr \in Legal
  BY <1>2, <1>5 DEF Legal
<1>7. /\ WellFormed'
      /\ \A a \in Legal :
           Image'[a] = IF call.op = "write" /\ call.addr = a THEN call.value ELSE Image[a]
      /\ call.op = "read" /\ call.addr \in Legal => answer'.value = Image[call.addr]
  BY <1>1, ReturnsImage
<1>8. ASSUME Op.op = "read" PROVE answer'.value = Op.value
  <2>1. CASE Op.ok
    <3>1. test.method # AsItIs
      BY <1>4, <2>1
    <3>2. PICK k \in 1 .. ip - 1 :
            LastWrite(test.ops, ip, k, Op.addr) /\ test.ops[k].value = Op.value
      BY <1>3, <1>4, <1>8, <2>1 DEF Expected
    <3>3. Image[Op.addr] = Op.value
      BY <1>1, <1>2, <1>4, <1>6, <2>1, <3>1, <3>2 DEF Steady, Remembered
    <3> QED
      BY <1>2, <1>6, <1>7, <1>8, <2>1, <3>1, <3>3
  <2>2. CASE ~Op.ok
    <3>1. Op.value = 0
      BY <1>3, <1>4, <1>8, <2>2 DEF Expected
    <3>2. Refuse
      <4>1. ~ (call.addr < VirtualMemorySize) /\ VirtualMemorySize \in Nat
        BY <1>2, <1>5, <2>2, SizeIsPositive
      <4> QED
        BY <1>2, <4>1
    <3> QED
      BY <3>1, <3>2 DEF Refuse, Flat!Failure
  <2> QED
    BY <2>1, <2>2
<1>9. ip' = ip + 1 /\ failed' = failed /\ test' = test /\ RootNotZero' = RootNotZero
  BY <1>2, <1>5, <1>8, Returns
<1>10. Remembered'
  <2> SUFFICES ASSUME test.method # AsItIs, NEW a \in Legal, NEW k \in 1 .. (ip + 1) - 1,
                      LastWrite(test.ops, ip + 1, k, a)
               PROVE  Image'[a] = test.ops[k].value
    BY <1>9 DEF Remembered
  <2>1. Image'[a] = IF call.op = "write" /\ call.addr = a THEN call.value ELSE Image[a]
    BY <1>7
  <2>2. IF k = ip THEN WritesTo(test.ops[ip], a)
        ELSE /\ k \in 1 .. ip - 1 /\ LastWrite(test.ops, ip, k, a)
             /\ ~WritesTo(test.ops[ip], a)
    BY <1>1, OneMore
  <2>3. CASE k = ip
    <3>1. Op.op = "write" /\ Op.addr = a /\ test.ops[k] = Op
      BY <1>3, <2>2, <2>3 DEF WritesTo
    <3> QED
      BY <1>2, <2>1, <3>1
  <2>4. CASE k # ip
    <3>1. ~ (Op.op = "write" /\ Op.ok /\ Op.addr = a)
      BY <1>3, <2>2, <2>4 DEF WritesTo
    <3>2. a < VirtualMemorySize
      BY DEF Legal
    <3>3. ~ (call.op = "write" /\ call.addr = a)
      BY <1>2, <1>5, <3>1, <3>2
    <3>4. Image[a] = test.ops[k].value
      BY <1>1, <1>4, <2>2, <2>4 DEF Steady, Remembered
    <3> QED
      BY <2>1, <3>3, <3>4
  <2> QED
    BY <2>3, <2>4
<1>11. OnceRam'
  BY <1>4, <1>9, OnceLooks DEF OnceRam
<1>12. call' # Abort
  BY <1>2 DEF NoCall, Abort
<1> QED
  BY <1>1, <1>7, <1>9, <1>10, <1>11, <1>12 DEF Steady

\* The test that looks at the RAM writes its word into the last frame, and reads it there.
LEMMA ReturnsOnce ==
  ASSUME PagesFit, ~TEST_CONSTANTS, TestsInv, Undisturbed, Return, test = Once
  PROVE  Steady'
<1>1. /\ Steady /\ test # Anything /\ ip \in Nat \ {0} /\ WellFormed
  BY DEF TestsInv, Undisturbed, Steady
<1>2. /\ ip \in 1 .. Len(Once.ops) /\ Op = Once.ops[ip]
  BY OpTyped DEF TestsInv, Return, Op
<1>3. /\ call.op \in { "read", "write" } /\ call.op = Op.op /\ call.addr = Op.addr
      /\ call.op = "write" => call.value = Op.value
      /\ call' = NoCall /\ UNCHANGED << test, evicted >>
      /\ \/ call.op = "read" /\ VMread
         \/ call.op = "write" /\ VMwrite
         \/ Refuse
      /\ answer'.ok = (call.addr < VirtualMemorySize)
      /\ Refuse <=> call.addr >= VirtualMemorySize
  BY <1>1, ReturnsCall
<1>4. /\ Op.addr = OnceAddr /\ Op.value = W1337 /\ Op.ok = TRUE
      /\ Op.op = "write" <=> ip = 1
  BY <1>2, <1>3, OnceOp
<1>5. OnceAddr < VirtualMemorySize /\ OnceAddr \in Nat /\ VirtualMemorySize \in Nat
  BY OnceOps, SizeIsPositive
<1>6. (call.op = "read" /\ VMread) \/ (call.op = "write" /\ VMwrite)
  <2>1. ~Refuse
    BY <1>3, <1>4, <1>5
  <2> QED
    BY <1>3, <2>1
<1>7. answer'.ok = Op.ok
  BY <1>3, <1>4, <1>5
<1>8. ASSUME ip = 1 PROVE ram' = WrittenOnce
  <2>1. PICK d \in 0 .. TablesDepth : ram = Chain(d)
    BY <1>1, <1>8 DEF Steady, OnceRam
  <2>2. VMwrite /\ call.addr = OnceAddr /\ call.value = W1337
    BY <1>3, <1>4, <1>6, <1>8
  <2>3. Mapped(ram, OnceAddr) /\ ram' = [ ram EXCEPT ![Location(ram, OnceAddr)] = W1337 ]
    <3>1. call.addr \in Nat /\ ram \in Rams
      BY <1>5, <2>2, CallTyped DEF TestsInv, IInv
    <3> QED
      BY <2>2, <3>1, LegalIsMapped DEF VMwrite, PMwrite
  <2>4. d = TablesDepth
    BY <2>1, <2>3, ChainSearch DEF Mapped
  <2>5. Location(ram, OnceAddr) = OncePlace
    <3>1. /\ Chain(TablesDepth) \in Rams
          /\ \A e \in 0 .. TablesDepth - 1 : Chain(TablesDepth)[OnceEntry(e)] = e + 1
      BY <2>4, ChainWords
    <3>2. Location(Chain(TablesDepth), OnceAddr) = OncePlace
      BY <3>1, OnceLocation
    <3> QED
      BY <2>1, <2>4, <3>2
  <2> QED
    BY <2>1, <2>3, <2>4, <2>5 DEF WrittenOnce
<1>9. ASSUME ip # 1 PROVE ram' = WrittenOnce /\ answer'.value = W1337
  <2>1. ram = WrittenOnce
    BY <1>1, <1>9 DEF Steady, OnceRam
  <2>2. VMread /\ call.addr = OnceAddr
    BY <1>3, <1>4, <1>6, <1>9
  <2>3. ram' = ram /\ answer'.value = ram[Location(ram, OnceAddr)]
    BY <2>2 DEF VMread, PMread, Flat!Success
  <2>4. Location(WrittenOnce, OnceAddr) = OncePlace
    BY OncePlaced, OnceLocation
  <2> QED
    BY <2>1, <2>3, <2>4, OncePlaced
<1>10. Op.op = "read" => answer'.value = Op.value
  BY <1>4, <1>9
<1>11. ip' = ip + 1 /\ failed' = failed /\ test' = test /\ RootNotZero' = RootNotZero
  BY <1>3, <1>7, <1>10, Returns
<1>12. OnceRam'
  <2>1. ram' = WrittenOnce
    BY <1>8, <1>9
  <2>2. ip' # 1
    BY <1>1, <1>11
  <2> QED
    BY <2>1, <2>2 DEF OnceRam
<1>13. Remembered'
  BY <1>11, OnceLooks DEF Remembered
<1>14. WellFormed'
  BY <1>1, ReturnsImage
<1>15. call' # Abort
  BY <1>3 DEF NoCall, Abort
<1> QED
  BY <1>1, <1>11, <1>12, <1>13, <1>14, <1>15 DEF Steady

\* It finds in the RAM what it expects.
LEMMA LooksSteady ==
  ASSUME ~TEST_CONSTANTS, TestsInv, Undisturbed, LookAtMemory
  PROVE  Steady'
<1>1. Steady /\ test # Anything /\ ip \in Nat \ {0}
  BY DEF TestsInv, Undisturbed
<1>2. UNCHANGED vars /\ Op.op = "PMread" /\ test' = test
  BY LookChangesNothing DEF LookAtMemory
<1>3. /\ Programmed(test) \/ test = Once
      /\ ip \in 1 .. Len(test.ops) /\ Op = test.ops[ip]
  BY OpTyped DEF TestsInv, LookAtMemory, Op
<1>4. test = Once
  BY <1>2, <1>3 DEF Programmed, ReadsBack, Expected
<1>5. ip # 1 /\ WrittenOnce[Op.addr] = Op.value
  BY <1>2, <1>3, <1>4, OnceOp
<1>6. ram = WrittenOnce
  BY <1>1, <1>4, <1>5 DEF Steady, OnceRam
<1>7. failed' = failed /\ ip' = ip + 1
  BY <1>5, <1>6 DEF LookAtMemory, Judge, Unless
<1>8. OnceRam' /\ Remembered'
  <2>1. ip' # 1 /\ ram' = ram
    BY <1>1, <1>2, <1>7 DEF vars
  <2> QED
    BY <1>2, <1>4, <1>6, <2>1, OnceLooks DEF OnceRam, Remembered
<1>9. WellFormed' = WellFormed /\ call' = call /\ RootNotZero' = RootNotZero
  BY <1>2, ImageHeld DEF vars, RootNotZero
<1> QED
  BY <1>1, <1>2, <1>7, <1>8, <1>9 DEF Steady

LEMMA SteadyStep ==
  ASSUME PagesFit, ~TEST_CONSTANTS, TestsInv, [TestsNext]_allVars, Undisturbed'
  PROVE  Steady'
<1>1. IInv'
  BY TestsType
<1>2. CASE BeginTest
  BY <1>1, <1>2, BeginSteady DEF Undisturbed
<1>3. CASE Work
  <2>1. test' = test /\ ~evicted' /\ Undisturbed
    BY <1>3 DEF Work, Undisturbed
  <2> QED
    BY <1>1, <1>3, <2>1, WorkSteady
<1>4. CASE Return
  <2>1. Undisturbed
    BY <1>4 DEF Return, Undisturbed
  <2>2. Programmed(test) \/ test = Once
    BY <1>4, OpTyped DEF TestsInv, Return
  <2> QED
    BY <1>4, <2>1, <2>2, ReturnsExpected, ReturnsOnce
<1>5. CASE LookAtMemory
  <2>1. Undisturbed
    BY <1>5 DEF LookAtMemory, Undisturbed
  <2> QED
    BY <1>5, <2>1, LooksSteady
<1>6. CASE CallNext \/ UNCHANGED allVars
  <2>1. /\ UNCHANGED << ram, swapFile, test, ip, evicted, failed >>
        /\ call' = call \/ call'.op \in { "read", "write" }
    BY <1>6 DEF CallNext, allVars, vars, testVars
  <2>2. Steady
    BY <2>1 DEF TestsInv, Undisturbed
  <2>3. Image' = Image /\ WellFormed' = WellFormed /\ RootNotZero' = RootNotZero
    BY <2>1, ImageHeld DEF RootNotZero
  <2>4. call' # Abort
    BY <2>1, <2>2 DEF Steady, Abort
  <2> QED
    BY <2>1, <2>2, <2>3, <2>4 DEF Steady, Remembered, OnceRam
<1>7. CASE AnythingNext
  BY <1>7 DEF AnythingNext, testVars, Undisturbed
<1> QED
  BY <1>2, <1>3, <1>4, <1>5, <1>6, <1>7 DEF TestsNext, TestStep

LEMMA TestsBegin ==
  ASSUME PagesFit, ~TEST_CONSTANTS, TestsInit
  PROVE  TestsInv
<1>1. IInv
  BY TypeInit DEF TestsInit
<1>2. /\ call = NoCall /\ ip = 1 /\ failed = {} /\ test \in {NoTest, Anything}
  BY DEF TestsInit, Init
<1>3. call # Abort
  BY <1>2 DEF NoCall, Abort
<1>4. ASSUME test # Anything PROVE Steady
  <2>1. test = NoTest /\ test.method = AsItIs
    BY <1>2, <1>4, Methods DEF NoTest
  <2>2. test # Once
    BY <2>1, OnceLooks
  <2>3. WellFormed
    BY <1>1, InitIsFlat DEF TestsInit
  <2>4. ~RootNotZero
    BY <2>1 DEF RootNotZero
  <2> QED
    BY <1>2, <1>3, <2>1, <2>2, <2>3, <2>4 DEF Steady, Remembered, OnceRam
<1> QED
  BY <1>1, <1>2, <1>4 DEF TestsInv, CallIsOp, Undisturbed

\* The tests of the virtual memory (kb_tests.cpp and SimpleTest.cpp), as long as no
\* page has been evicted, with written words of any value: each address reads as
\* the test wrote it last, the tables are in the frames that the test looks for,
\* addresses above the memory fail, and no assertion of PhysicalMemory.cpp ends the
\* process, whatever earlier tests left in the swap file, and in the RAM, with which
\* ErrorChecks goes on.  One assertion fails (Common.h:163), and exactly where the
\* root table does not fill its frame and the RAM was not zero: that the first frame
\* is all zero after VMinitialize.
THEOREM MemoryTestsPass ==
  ASSUME PagesFit, ~TEST_CONSTANTS
  PROVE  TestsSpec => []PassesUnlessEvicted
<1>1. TestsInit => TestsInv
  BY TestsBegin
<1>2. TestsInv /\ [TestsNext]_allVars => TestsInv'
  <2> SUFFICES ASSUME TestsInv, [TestsNext]_allVars PROVE TestsInv'
    OBVIOUS
  <2> QED
    BY TestsType, CallIsOpStep, SteadyStep DEF TestsInv
<1>3. TestsInv => PassesUnlessEvicted
  BY DEF TestsInv, Undisturbed, Steady, PassesUnlessEvicted
<1> QED
  BY <1>1, <1>2, <1>3, PTL DEF TestsSpec
=============================================================================
