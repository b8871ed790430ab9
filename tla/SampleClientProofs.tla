------------------------- MODULE SampleClientProofs -------------------------
(***************************************************************************)
(* Proofs about the clients of the map-reduce framework, for all strings   *)
(* and any number of threads, and for every program of SampleClient.       *)
(*                                                                         *)
(* A count is a fold over a set of pairs: it is shown to be the number of  *)
(* the positions at which the letter is, by induction over the number of   *)
(* the pairs, whichever of them the fold takes first.                      *)
(***************************************************************************)
EXTENDS SampleClient, MapReduceProofs, NaturalLemmas
-----------------------------------------------------------------------------
(***************************************************************************)
(* What reduce counts is what the test expects                             *)
(***************************************************************************)
\* The longest string bounds the positions that Occurrences looks at.
Longest == Max({ Len(Content[i]) : i \in Items })

\* The positions of the letter k in the strings of the pairs S.
Cells(k, S) ==
  { q \in Items \X (1 .. Longest) :
      /\ << k, q[1] >> \in S
      /\ q[2] <= Len(Content[q[1]])
      /\ Content[q[1]][q[2]] = k }

\* A function that has a largest value, and the set of its values.
LEMMA LargestValue ==
  ASSUME NEW I, NEW f, NEW L, \A x : x \in L <=> \E i \in I : x = f[i],
         \A i \in I : f[i] \in Nat,
         NEW m \in I, \A i \in I : f[i] <= f[m]
  PROVE  /\ \E x \in L : \A y \in L : x >= y
         /\ \A x \in L : (\A y \in L : x >= y) => x \in Nat /\ \A i \in I : f[i] <= x
<1>1. \A x \in L : x \in Nat
  OBVIOUS
<1>2. \A i \in I : f[i] \in L
  OBVIOUS
<1>3. \A y \in L : f[m] >= y
  OBVIOUS
<1> QED
  BY <1>1, <1>2, <1>3

\* There is a longest string where there are strings.
LEMMA LongestIsLongest ==
  ASSUME Items # {}
  PROVE  Longest \in Nat /\ \A i \in Items : Len(Content[i]) <= Longest
<1>1. NumItems \in Nat \ {0} /\ 1 \in Items
  BY MapReduceAssumption DEF Items
<1>2. \A i \in Items : Len(Content[i]) \in Nat
  BY SampleAssumption
<1> DEFINE S == { n \in Nat : n < NumItems =>
                    \E m \in 1 .. n + 1 : \A i \in 1 .. n + 1 :
                      Len(Content[i]) <= Len(Content[m]) }
<1>3. 0 \in S
  BY <1>1, <1>2
<1>4. ASSUME NEW n \in S
      PROVE  n + 1 \in S
  <2> SUFFICES ASSUME n + 1 < NumItems
               PROVE  \E m \in 1 .. (n + 1) + 1 : \A i \in 1 .. (n + 1) + 1 :
                        Len(Content[i]) <= Len(Content[m])
    OBVIOUS
  <2>1. n < NumItems /\ n \in Nat
    BY <1>1
  <2>2. PICK m \in 1 .. n + 1 : \A i \in 1 .. n + 1 : Len(Content[i]) <= Len(Content[m])
    BY <2>1
  <2> DEFINE c == (n + 1) + 1
  <2>3. c \in Items /\ m \in Items /\ \A i \in 1 .. c : i \in 1 .. n + 1 \/ i = c
    BY <1>1, <2>1 DEF Items
  <2>4. \A i \in 1 .. c : i \in Items
    BY <1>1, <2>1 DEF Items
  <2>5. m \in 1 .. c /\ c \in 1 .. c
    BY <2>1
  <2> HIDE DEF c
  <2>6. CASE Len(Content[c]) <= Len(Content[m])
    BY <2>2, <2>3, <2>5, <2>6 DEF c
  <2>7. CASE ~ Len(Content[c]) <= Len(Content[m])
    <3>1. \A i \in 1 .. c : Len(Content[i]) <= Len(Content[c])
      BY <1>2, <2>2, <2>3, <2>4, <2>7
    <3> QED
      BY <2>5, <3>1 DEF c
  <2> QED
    BY <2>6, <2>7
<1>5. S = Nat
  <2> HIDE DEF S
  <2> QED
    BY <1>3, <1>4, SetInduction DEF S
<1>6. PICK m \in Items : \A i \in Items : Len(Content[i]) <= Len(Content[m])
  <2>1. NumItems - 1 \in S
    <3> HIDE DEF S
    <3> QED
      BY <1>1, <1>5
  <2>2. (NumItems - 1) + 1 = NumItems /\ NumItems - 1 < NumItems
    BY <1>1
  <2> QED
    BY <2>1, <2>2 DEF Items
<1> DEFINE L == { Len(Content[i]) : i \in Items }
           f == [ i \in Items |-> Len(Content[i]) ]
<1>7. \A i \in Items : f[i] = Len(Content[i])
  OBVIOUS
<1>8. \A x : x \in L <=> \E i \in Items : x = f[i]
  BY <1>7, Zenon
<1>9. \A i \in Items : f[i] \in Nat
  BY <1>2, <1>7, Zenon
<1>10. \A i \in Items : f[i] <= f[m]
  BY <1>6, <1>7, Zenon
<1> HIDE DEF f
<1>11. /\ \E x \in L : \A y \in L : x >= y
       /\ \A x \in L : (\A y \in L : x >= y) => x \in Nat /\ \A i \in Items : f[i] <= x
  <2> HIDE DEF L
  <2> QED
    BY <1>8, <1>9, <1>10, LargestValue
<1>12. Longest \in L /\ \A y \in L : Longest >= y
  <2>1. Longest = CHOOSE x \in L : \A y \in L : x >= y
    BY Zenon DEF Longest, Max
  <2> HIDE DEF L
  <2> QED
    BY <1>11, <2>1, Zenon
<1>13. Longest \in Nat /\ \A i \in Items : f[i] <= Longest
  <2> HIDE DEF L
  <2> QED
    BY <1>11, <1>12
<1> QED
  BY <1>7, <1>13, Zenon

\* The positions are finitely many.
LEMMA CellsFinite ==
  ASSUME NEW k, NEW S, Items # {}
  PROVE  IsFiniteSet(Cells(k, S)) /\ Cardinality(Cells(k, S)) \in Nat
<1>1. IsFiniteSet(Items) /\ IsFiniteSet(1 .. Longest)
  BY MapReduceAssumption, LongestIsLongest, FS_Interval DEF Items
<1>2. IsFiniteSet(Items \X (1 .. Longest))
  BY <1>1, FS_Product
<1>3. Cells(k, S) \in SUBSET (Items \X (1 .. Longest))
  BY DEF Cells
<1> QED
  BY <1>2, <1>3, FS_Subset, FS_CardinalityType

\* One more pair has as many positions more as map counted.
LEMMA CellsAdd ==
  ASSUME NEW k \in Keys, NEW S \in SUBSET { << k, i >> : i \in Items }, NEW x \in S
  PROVE  /\ Cardinality(Cells(k, S)) = Counts(x[2], x[1]) + Cardinality(Cells(k, S \ {x}))
         /\ Counts(x[2], x[1]) \in Nat
<1>1. PICK i \in Items : x = << k, i >>
  OBVIOUS
<1> DEFINE J == { j \in DOMAIN Content[i] : Content[i][j] = k }
           A == Cells(k, S \ {x})
           B == Cells(k, {x})
           f == [ j \in J |-> << i, j >> ]
<1>2. /\ Longest \in Nat /\ Len(Content[i]) \in Nat /\ Len(Content[i]) <= Longest
      /\ DOMAIN Content[i] = 1 .. Len(Content[i])
  BY SampleAssumption, LongestIsLongest
<1>3. IsFiniteSet(J)
  <2>1. IsFiniteSet(1 .. Len(Content[i]))
    BY <1>2, FS_Interval
  <2> QED
    BY <1>2, <2>1, FS_Subset
<1>4. B = { << i, j >> : j \in J }
  BY <1>1, <1>2 DEF Cells
<1>5. f \in Bijection(J, B)
  <2>1. f \in [ J -> B ]
    BY <1>4
  <2>2. \A j \in J : f[j] = << i, j >>
    OBVIOUS
  <2>3. \A b \in B : \E j \in J : f[j] = b
    BY <1>4
  <2> HIDE DEF f, J, B
  <2>4. \A j, l \in J : f[j] = f[l] => j = l
    BY <2>2
  <2> QED
    BY <2>1, <2>3, <2>4 DEF Bijection, Injection, Surjection, IsInjective
<1>6. Cardinality(B) = Cardinality(J)
  <2> HIDE DEF f, J, B
  <2> QED
    BY <1>3, <1>5, FS_Bijection DEF ExistsBijection
<1>7. Cells(k, S) = A \cup B /\ A \cap B = {}
  BY DEF Cells
<1>8. IsFiniteSet(A) /\ IsFiniteSet(B) /\ Cardinality(A) \in Nat /\ Cardinality(B) \in Nat
  BY CellsFinite
<1>9. Cardinality(A \cup B) = Cardinality(A) + Cardinality(B)
  <2> HIDE DEF A, B
  <2>1. Cardinality(A \cap B) = 0
    BY <1>7, FS_EmptySet
  <2>2. Cardinality(A \cup B) = Cardinality(A) + Cardinality(B) - Cardinality(A \cap B)
    BY <1>8, FS_Union
  <2> QED
    BY <1>8, <2>1, <2>2
<1>10. Counts(x[2], x[1]) = Cardinality(J)
  BY <1>1 DEF Counts
<1> HIDE DEF A, B, J
<1> QED
  BY <1>6, <1>7, <1>8, <1>9, <1>10 DEF A

\* reduce adds up what map counted, in whichever order it takes the pairs.
LEMMA ReduceCountsCells ==
  ASSUME NEW k \in Keys, NEW S \in SUBSET { << k, i >> : i \in Items }, Items # {}
  PROVE  ReduceCount(S) = Cardinality(Cells(k, S))
<1> DEFINE c(s) == CHOOSE p \in s : TRUE
           sums(g) == g = [ s \in SUBSET S |->
                             IF s = {} THEN 0 ELSE Counts(c(s)[2], c(s)[1]) + g[s \ {c(s)}] ]
           h == [ s \in SUBSET S |-> Cardinality(Cells(k, s)) ]
           sum == CHOOSE g : sums(g)
<1>1. ReduceCount(S) = sum[S]
  BY Zenon DEF ReduceCount, MapThenFoldSet
<1>2. \A s \in SUBSET S : s # {} =>
        /\ c(s) \in s /\ s \ {c(s)} \in SUBSET S
        /\ Counts(c(s)[2], c(s)[1]) \in Nat
        /\ Cardinality(Cells(k, s)) =
             Counts(c(s)[2], c(s)[1]) + Cardinality(Cells(k, s \ {c(s)}))
  <2> SUFFICES ASSUME NEW s \in SUBSET S, s # {}
               PROVE  /\ c(s) \in s /\ s \ {c(s)} \in SUBSET S
                      /\ Counts(c(s)[2], c(s)[1]) \in Nat
                      /\ Cardinality(Cells(k, s)) =
                           Counts(c(s)[2], c(s)[1]) + Cardinality(Cells(k, s \ {c(s)}))
    OBVIOUS
  <2>1. c(s) \in s
    OBVIOUS
  <2>2. s \in SUBSET { << k, i >> : i \in Items }
    OBVIOUS
  <2> HIDE DEF c
  <2>3. ASSUME NEW x \in s
        PROVE  /\ Counts(x[2], x[1]) \in Nat
               /\ Cardinality(Cells(k, s)) =
                    Counts(x[2], x[1]) + Cardinality(Cells(k, s \ {x}))
    BY <2>2, CellsAdd
  <2> QED
    BY <2>1, <2>3
<1> HIDE DEF c
<1>3. Cardinality(Cells(k, {})) = 0
  <2>1. Cells(k, {}) = {}
    BY DEF Cells
  <2> QED
    BY <2>1, FS_EmptySet
<1>4. sums(h)
  <2>1. \A s \in SUBSET S : h[s] = IF s = {} THEN 0 ELSE Counts(c(s)[2], c(s)[1]) + h[s \ {c(s)}]
    BY <1>2, <1>3
  <2>2. h = [ s \in SUBSET S |-> h[s] ]
    OBVIOUS
  <2> HIDE DEF h
  <2> QED
    BY <2>1, <2>2
<1>5. sums(sum)
  <2> HIDE DEF sums, h
  <2> QED
    BY <1>4
<1> HIDE DEF sum, h
<1>6. \A s \in SUBSET S : sum[s] = IF s = {} THEN 0 ELSE Counts(c(s)[2], c(s)[1]) + sum[s \ {c(s)}]
  BY <1>5
<1> HIDE DEF sums
<1>7. IsFiniteSet(S)
  <2>1. IsFiniteSet(Items)
    BY MapReduceAssumption, FS_Interval DEF Items
  <2>3. IsFiniteSet({k})
    BY FS_Singleton
  <2>2. S \in SUBSET ({k} \X Items)
    OBVIOUS
  <2> QED
    BY <2>1, <2>2, <2>3, FS_Product, FS_Subset
<1> DEFINE N == { n \in Nat : \A s \in SUBSET S :
                    Cardinality(s) = n => sum[s] = Cardinality(Cells(k, s)) }
<1>8. \A s \in SUBSET S : IsFiniteSet(s) /\ Cardinality(s) \in Nat
  BY <1>7, FS_Subset, FS_CardinalityType
<1>9. 0 \in N
  BY <1>3, <1>6, <1>8, FS_EmptySet
<1>10. ASSUME NEW n \in N
       PROVE  n + 1 \in N
  <2> SUFFICES ASSUME NEW s \in SUBSET S, Cardinality(s) = n + 1
               PROVE  sum[s] = Cardinality(Cells(k, s))
    OBVIOUS
  <2>1. s # {}
    BY FS_EmptySet
  <2>2. c(s) \in s /\ s \ {c(s)} \in SUBSET S
    BY <1>2, <2>1
  <2>3. Cardinality(s \ {c(s)}) = n
    BY <1>8, <2>2, FS_RemoveElement
  <2>4. sum[s \ {c(s)}] = Cardinality(Cells(k, s \ {c(s)}))
    BY <2>2, <2>3
  <2> QED
    BY <1>2, <1>6, <2>1, <2>4
<1> QED
  <2> HIDE DEF N
  <2>1. N = Nat
    BY <1>9, <1>10, SetInduction DEF N
  <2>2. sum[S] = Cardinality(Cells(k, S))
    BY <1>8, <2>1 DEF N
  <2> QED
    BY <1>1, <2>2

\* The group of a letter counts all its occurrences.
LEMMA GroupCounts ==
  ASSUME NEW k \in Keys, Want(k) # {}
  PROVE  /\ ReduceCount(Want(k)) = Occurrences(k)
         /\ Occurrences(k) \in Nat \ {0}
<1>1. Want(k) \in SUBSET { << k, i >> : i \in Items } /\ Items # {}
  BY DEF Want, Job!Sources
<1>2. \A i \in Items : k \in Emits[i] <=> Counts(i, k) # 0
  BY SampleAssumption DEF MapEmits
<1>3. \A i \in Items, j \in 1 .. Longest :
        j <= Len(Content[i]) /\ Content[i][j] = k => << k, i >> \in Want(k)
  <2> SUFFICES ASSUME NEW i \in Items, NEW j \in 1 .. Longest,
                      j <= Len(Content[i]), Content[i][j] = k
               PROVE  << k, i >> \in Want(k)
    OBVIOUS
  <2> DEFINE J == { p \in DOMAIN Content[i] : Content[i][p] = k }
  <2>1. Len(Content[i]) \in Nat /\ DOMAIN Content[i] = 1 .. Len(Content[i]) /\ j \in J
    BY SampleAssumption
  <2>2. IsFiniteSet(J)
    <3>1. IsFiniteSet(1 .. Len(Content[i]))
      BY <2>1, FS_Interval
    <3> QED
      BY <2>1, <3>1, FS_Subset
  <2>3. Cardinality(J) # 0
    <3> HIDE DEF J
    <3> QED
      BY <2>1, <2>2, FS_EmptySet
  <2>4. k \in Emits[i]
    BY <1>2, <2>3 DEF Counts
  <2> QED
    BY <2>4 DEF Want, Job!Sources
<1>4. Cells(k, Want(k)) = { p \in Items \X (1 .. Longest) :
                              p[2] <= Len(Content[p[1]]) /\ Content[p[1]][p[2]] = k }
  BY <1>3 DEF Cells
<1>5. Occurrences(k) = Cardinality(Cells(k, Want(k)))
  BY <1>4 DEF Occurrences, Longest
<1>6. ReduceCount(Want(k)) = Cardinality(Cells(k, Want(k)))
  BY <1>1, ReduceCountsCells
<1>7. PICK x : x \in Want(k)
  OBVIOUS
<1>8. PICK i \in Items : x = << k, i >> /\ k \in Emits[i]
  BY <1>7 DEF Want, Job!Sources
<1>9. Counts(i, k) \in Nat \ {0}
  <2>1. x[1] = k /\ x[2] = i
    BY <1>8
  <2> QED
    BY <1>1, <1>2, <1>7, <1>8, <2>1, CellsAdd
<1>10. Cardinality(Cells(k, Want(k))) \in Nat \ {0}
  <2>1. Cardinality(Cells(k, Want(k))) = Counts(i, k) + Cardinality(Cells(k, Want(k) \ {x}))
    <3>1. x[1] = k /\ x[2] = i
      BY <1>8
    <3> QED
      BY <1>1, <1>7, <3>1, CellsAdd
  <2>2. Cardinality(Cells(k, Want(k) \ {x})) \in Nat
    BY <1>1, CellsFinite
  <2> QED
    BY <1>9, <2>1, <2>2
<1> QED
  BY <1>5, <1>6, <1>10

-----------------------------------------------------------------------------
(***************************************************************************)
(* The output and the percentage of a job                                  *)
(***************************************************************************)
\* Nothing is reduced before a thread has passed the second barrier.
NotReducedEarly ==
  (\A t \in Threads : pc[t] \notin AfterSecond) => \A k \in Keys : given[k] = << >>

\* A key in the output was reduced and is there once; one that a thread is about
\* to put there was reduced, is not there, and no other thread is about to.
EmitsKey(t, k) == pc[t] = "emit3" /\ group[t] = Want(k) /\ Want(k) # {}
OutputDistinct ==
  /\ \A j \in DOMAIN output : output[j] # Garbage => given[output[j]] # << >>
  /\ \A i, j \in DOMAIN output :
       output[i] = output[j] /\ output[i] # Garbage => i = j
  /\ \A t \in Threads, k \in Keys : EmitsKey(t, k) =>
       /\ given[k] # << >>
       /\ \A j \in DOMAIN output : output[j] # k
       /\ \A u \in Threads : EmitsKey(u, k) => u = t

\* The total that a percentage is of is not 0.
CountsSomething == size # 0 /\ percent # NaN

\* A thread that reduces a key is the first to, and goes on to put it into the
\* output.
LEMMA ReduceOutput ==
  ASSUME JobInv, OutputDistinct, NEW t \in Threads, Reduce(t)
  PROVE  OutputDistinct'
<1>a. /\ JobTypeOK /\ BarrierInv /\ Control /\ MapMerged /\ GroupsReduced
      /\ pc \in [ Threads -> Labels ] /\ given \in [ Keys -> Seq(SUBSET Pairs) ]
      /\ output \in Seq(Keys \cup {Garbage})
  BY DEF JobInv, JobTypeOK
<1>1. PICK k \in Keys :
        /\ Want(k) # {}
        /\ Holds(t, k)
        /\ given[k] = << >>
        /\ given' = [ given EXCEPT ![k] = << Want(k) >> ]
  BY <1>a, ReduceFirstTime
<1>2. /\ output' = output /\ group' = group
      /\ pc' = [ pc EXCEPT ![t] = "emit3" ] /\ pc[t] = "reduce" /\ group[t] = Want(k)
  BY <1>1 DEF Reduce, data, Goto, Holds
<1>3. << Want(k) >> # << >>
  OBVIOUS
<1>4. /\ given'[k] # << >>
      /\ \A j \in Keys : given[j] # << >> => given'[j] # << >> /\ j # k
  BY <1>a, <1>1, <1>3
<1>5. \A j \in DOMAIN output : output[j] # Garbage => output[j] \in Keys
  BY <1>a
<1>6. \A u \in Threads, j \in Keys :
        EmitsKey(u, j)' => EmitsKey(u, j) \/ (u = t /\ j = k)
  BY <1>a, <1>1, <1>2, WantInjective DEF EmitsKey
<1>7. \A u \in Threads : ~EmitsKey(u, k)
  BY <1>1 DEF OutputDistinct
<1>8. \A j \in DOMAIN output : output[j] # k
  <2> SUFFICES ASSUME NEW j \in DOMAIN output, output[j] = k
               PROVE  FALSE
    OBVIOUS
  <2>1. k # Garbage
    BY DEF Keys, Garbage
  <2> QED
    BY <1>1, <2>1 DEF OutputDistinct
<1>9. \A j \in DOMAIN output' : output'[j] # Garbage => given'[output'[j]] # << >>
  BY <1>2, <1>4, <1>5 DEF OutputDistinct
<1>10. \A u \in Threads, j \in Keys : EmitsKey(u, j)' =>
         /\ given'[j] # << >>
         /\ \A i \in DOMAIN output' : output'[i] # j
         /\ \A v \in Threads : EmitsKey(v, j)' => v = u
  BY <1>2, <1>4, <1>6, <1>7, <1>8 DEF OutputDistinct
<1> QED
  BY <1>2, <1>9, <1>10 DEF OutputDistinct

\* What it puts there was not there, though another thread may move the end of
\* the output at the same time.
LEMMA EmitOutput ==
  ASSUME JobInv, OutputDistinct, NEW t \in Threads, Emit3(t)
  PROVE  OutputDistinct'
<1>a. /\ GroupsReduced
      /\ pc \in [ Threads -> Labels ] /\ given \in [ Keys -> Seq(SUBSET Pairs) ]
      /\ output \in Seq(Keys \cup {Garbage})
      /\ slot \in [ Threads -> Nat ] /\ group \in [ Threads -> SUBSET Pairs ]
  BY DEF JobInv, JobTypeOK
<1>1. /\ pc[t] = "emit3" /\ pc' = [ pc EXCEPT ![t] = "reduce_lock" ] /\ given' = given
      /\ group' = [ group EXCEPT ![t] = {} ]
  BY DEF Emit3, Goto, calls
<1>2. PICK k \in Keys : Want(k) # {} /\ group[t] = Want(k)
  BY <1>a, <1>1 DEF GroupsReduced
<1>3. PICK l \in KeysOf(group[t]), n \in { slot[t] + 1, Len(output) + 1 } :
        output' = [ j \in 1 .. n |-> IF j = slot[t] + 1 THEN l
                                     ELSE IF j <= Len(output) THEN output[j]
                                     ELSE Garbage ]
  BY DEF Emit3
<1>4. l = k
  BY <1>2, <1>3, WantIsPairs
<1>5. EmitsKey(t, k)
  BY <1>1, <1>2 DEF EmitsKey
<1>6. given[k] # << >> /\ \A j \in DOMAIN output : output[j] # k
  BY <1>5 DEF OutputDistinct
<1>7. k # Garbage /\ Len(output) \in Nat /\ DOMAIN output = 1 .. Len(output) /\ n \in Nat
  BY <1>a, <1>3 DEF Keys, Garbage
<1>8. \A j \in DOMAIN output' : output'[j] # Garbage =>
        \/ j = slot[t] + 1 /\ output'[j] = k
        \/ j # slot[t] + 1 /\ j \in DOMAIN output /\ output'[j] = output[j]
  BY <1>3, <1>4, <1>7
<1>9. \A u \in Threads, j \in Keys : EmitsKey(u, j)' => EmitsKey(u, j) /\ u # t
  BY <1>a, <1>1 DEF EmitsKey
<1>10. \A j \in DOMAIN output' : output'[j] # Garbage => given'[output'[j]] # << >>
  BY <1>1, <1>6, <1>8 DEF OutputDistinct
<1>11. \A i, j \in DOMAIN output' :
         output'[i] = output'[j] /\ output'[i] # Garbage => i = j
  BY <1>6, <1>8 DEF OutputDistinct
<1>12. \A u \in Threads, j \in Keys : EmitsKey(u, j)' =>
         /\ given'[j] # << >>
         /\ \A i \in DOMAIN output' : output'[i] # j
         /\ \A v \in Threads : EmitsKey(v, j)' => v = u
  <2> SUFFICES ASSUME NEW u \in Threads, NEW j \in Keys, EmitsKey(u, j)'
               PROVE  /\ given'[j] # << >>
                      /\ \A i \in DOMAIN output' : output'[i] # j
                      /\ \A v \in Threads : EmitsKey(v, j)' => v = u
    OBVIOUS
  <2>1. EmitsKey(u, j) /\ u # t
    BY <1>9
  <2>2. j # k
    BY <1>5, <2>1 DEF OutputDistinct
  <2>3. j # Garbage
    BY DEF Keys, Garbage
  <2> QED
    BY <1>1, <1>8, <1>9, <2>1, <2>2, <2>3 DEF OutputDistinct
<1> QED
  BY <1>10, <1>11, <1>12 DEF OutputDistinct

\* All other steps leave the output alone.
LEMMA SameOutput ==
  ASSUME JobInv, OutputDistinct, UNCHANGED << output, given >>,
         \A t \in Threads : pc'[t] = "emit3" => pc[t] = "emit3" /\ group'[t] = group[t]
  PROVE  OutputDistinct'
<1>1. \A t \in Threads, k \in Keys : EmitsKey(t, k)' => EmitsKey(t, k)
  BY DEF EmitsKey
<1> QED
  BY <1>1 DEF OutputDistinct

\* The output keeps its order under every step of a thread.
LEMMA OutputWork ==
  ASSUME JobInv, OutputDistinct, NEW t \in Threads, Work(t)
  PROVE  OutputDistinct'
<1>a. pc \in [ Threads -> Labels ] /\ group \in [ Threads -> SUBSET Pairs ]
  BY DEF JobInv, JobTypeOK
<1>1. CASE Reduce(t)
  BY <1>1, ReduceOutput
<1>2. CASE Emit3(t)
  BY <1>2, EmitOutput
<1>3. CASE ReducePop(t)
  <2>1. UNCHANGED << output, given >>
    BY <1>3 DEF ReducePop, results, calls
  <2>2. \A u \in Threads : pc'[u] = "emit3" => pc[u] = "emit3" /\ group'[u] = group[u]
    BY <1>a, <1>3 DEF ReducePop, Goto
  <2> QED
    BY <2>1, <2>2, SameOutput
<1>4. CASE Start(t) \/ MapLock(t) \/ MapPop(t) \/ Map(t) \/ InBarrier(t) \/ LeaveBarrier(t)
           \/ ShuffleStage(t) \/ Shuffle(t) \/ ReduceStage(t) \/ ReduceLock(t)
  <2>1. UNCHANGED << output, given, group >>
    BY <1>4 DEF Start, MapLock, MapPop, Map, InBarrier, LeaveBarrier, ShuffleStage, Shuffle,
                ReduceStage, ReduceLock, jobVars, data, results, calls
  <2>2. \A u \in Threads : pc'[u] = "emit3" => pc[u] = "emit3"
    BY <1>a, <1>4 DEF Start, MapLock, MapPop, Map, InBarrier, LeaveBarrier, ShuffleStage,
                Shuffle, ReduceStage, ReduceLock, jobVars, Goto
  <2> QED
    BY <2>1, <2>2, SameOutput
<1> QED
  BY <1>1, <1>2, <1>3, <1>4 DEF Work

\* Nor is a key reduced before the second barrier.
LEMMA EarlyWork ==
  ASSUME JobInv, NotReducedEarly, NEW t \in Threads, Work(t)
  PROVE  NotReducedEarly'
<1>a. pc \in [ Threads -> Labels ]
  BY DEF JobInv, JobTypeOK
<1>1. \A u \in Threads : pc[u] \in AfterSecond => pc'[u] \in AfterSecond
  BY <1>a DEF Work, Start, MapLock, MapPop, Map, InBarrier, LeaveBarrier, ShuffleStage,
              Shuffle, ReduceStage, ReduceLock, ReducePop, Reduce, Emit3, jobVars, Goto,
              AfterSecond, AtBarrier
<1>2. given' = given \/ pc[t] \in AfterSecond
  BY DEF Work, Start, MapLock, MapPop, Map, InBarrier, LeaveBarrier, ShuffleStage,
         Shuffle, ReduceStage, ReduceLock, ReducePop, Reduce, Emit3, jobVars, calls, AfterSecond
<1> QED
  BY <1>1, <1>2 DEF NotReducedEarly

\* What map emits makes the size of the map more than nothing.
LEMMA ShuffledSize ==
  ASSUME JobInv, NotReducedEarly, pc[0] = "shuffle", merged = MtLevel,
         \E i \in Items : Emits[i] # {}
  PROVE  Cardinality(KeysOf(map)) # 0
<1>1. \A t \in Threads : pc[t] \notin AfterSecond
  <2> SUFFICES ASSUME NEW t \in Threads, pc[t] \in AfterSecond
               PROVE  FALSE
    OBVIOUS
  <2>1. pc[0] \in { "barrier2" } \cup AfterSecond
    BY ReducesAfterShuffle DEF JobInv
  <2> QED
    BY <2>1 DEF AfterSecond
<1>2. PICK i \in Items : Emits[i] # {}
  OBVIOUS
<1>3. PICK k \in Keys : k \in Emits[i]
  BY <1>2, MapReduceAssumption
<1>4. << k, i >> \in Want(k)
  BY <1>3 DEF Want, Job!Sources
<1>5. given[k] = << >>
  BY <1>1 DEF NotReducedEarly
<1>6. \A t \in Threads : ~Holds(t, k)
  BY <1>1 DEF Holds, AfterSecond
<1>7. GroupOf(map, k) = Want(k)
  BY <1>4, <1>5, <1>6 DEF JobInv, GroupsReduced
<1>8. k \in KeysOf(map)
  BY <1>4, <1>7 DEF GroupOf, KeysOf
<1>9. map \in SUBSET Pairs
  BY DEF JobInv, JobTypeOK
<1> QED
  BY <1>8, <1>9, KeysFinite, FS_EmptySet

\* A share of something is a number.
LEMMA PercentIsOne ==
  ASSUME NEW a \in Nat, NEW b \in Nat, a <= b, b # 0
  PROVE  PercentLeft(a, b) # NaN
<1> DEFINE c == 100 * (b - a)
           q == c \div b
<1>1. c \in Nat /\ b \in Nat \ {0}
  OBVIOUS
<1> HIDE DEF c
<1>2. q \in Nat
  BY <1>1, Division
<1> QED
  BY <1>2 DEF PercentLeft, NaN, c

\* The percentage of a job that has something to count.
LEMMA ProgressIsOne ==
  ASSUME JobInv, size # 0
  PROVE  Progress # NaN
<1> USE DEF UNDEFINED_STAGE, MAP_STAGE, SHUFFLE_STAGE, REDUCE_STAGE
<1>1. stage \in { 0, 1, 2, 3 } /\ size \in Nat /\ inputVec \in Nat /\ inputVec <= size
  BY DEF JobInv, JobTypeOK, CountsBounded
<1>2. PercentLeft(inputVec, size) # NaN
  BY <1>1, PercentIsOne
<1>3. stage = 3 => PercentLeft(Cardinality(KeysOf(map)), size) # NaN
  <2> SUFFICES ASSUME stage = 3
               PROVE  PercentLeft(Cardinality(KeysOf(map)), size) # NaN
    OBVIOUS
  <2>1. pc[0] \in { "barrier2" } \cup AfterSecond
    BY ThreadZero, NobodyBefore DEF JobInv, StageReached
  <2>2. Cardinality(KeysOf(map)) <= size /\ Cardinality(KeysOf(map)) \in Nat
    BY <2>1, KeysFinite DEF JobInv, JobTypeOK, CountsBounded
  <2> QED
    BY <1>1, <2>2, PercentIsOne
<1> QED
  BY <1>1, <1>2, <1>3 DEF Progress, NaN

\* The total is the number of items, and from the shuffle on that of the keys.
LEMMA SizeWork ==
  ASSUME JobInv, NotReducedEarly, CountsSomething, NEW t \in Threads, Work(t),
         \E i \in Items : Emits[i] # {}
  PROVE  CountsSomething'
<1>1. CASE Shuffle(t)
  <2>1. t = 0 /\ pc[t] = "shuffle"
    BY <1>1 DEF Shuffle, JobInv, Control
  <2>2. size' = size \/ (merged = MtLevel /\ size' = Cardinality(KeysOf(map)))
    BY <1>1 DEF Shuffle, AllContexts
  <2>3. percent' = percent
    BY <1>1 DEF Shuffle, polled
  <2> QED
    BY <2>1, <2>2, <2>3, ShuffledSize DEF CountsSomething
<1>2. CASE ~Shuffle(t)
  BY <1>2 DEF Work, Start, MapLock, MapPop, Map, InBarrier, LeaveBarrier, ShuffleStage,
         ReduceStage, ReduceLock, ReducePop, Reduce, Emit3, jobVars, polled, data,
         CountsSomething
<1> QED
  BY <1>1, <1>2

-----------------------------------------------------------------------------
(***************************************************************************)
(* The invariant of the tests                                              *)
(***************************************************************************)
\* A thread that could not be created runs nothing.
MissingNone == \A t \in missing : t \in Threads /\ pc[t] = "none"

\* The state a test remembers is not ahead of the one reported last.
LastReported == last.stage \in Nat /\ last.stage <= report.stage

\* The inductive invariant of the tests: that of the job, the order of its
\* output, and what the tests know of it.
TestsInv ==
  /\ JobInv
  /\ NotReducedEarly
  /\ OutputDistinct
  /\ MissingNone
  /\ LastReported

\* The client creates a thread that did not exist.
Created == \E t \in Threads : pc[t] = "none" /\ Goto(t, "start")

\* A step of the client, which creates a thread or none, keeps the invariant of
\* the job if it keeps the types and reports no stage that is ahead.
LEMMA JobInvClient ==
  ASSUME JobInv, JobTypeOK', report'.stage <= stage, pc' = pc \/ Created,
         UNCHANGED << barrierVars, stage, data, results, calls >>
  PROVE  JobInv'
<1> USE DEF data, results, calls, barrierVars
<1>a. pc \in [ Threads -> Labels ] /\ 0 \in Threads
  BY ThreadZero DEF JobInv, JobTypeOK
<1>b. \A u \in Threads : pc'[u] = pc[u] \/ (pc[u] = "none" /\ pc'[u] = "start")
  BY <1>a DEF Created, Goto
<1>1. BarrierInv'
  BY BarrierStutterInv DEF JobInv
<1>2. Control'
  BY <1>a, <1>b DEF JobInv, Control, AtBarrier, BeforeFirst, Mapping
<1>3. StageReached'
  BY DEF JobInv, StageReached
<1>4. \A u \in Threads :
        /\ pc[u] = "map" <=> pc'[u] = "map"
        /\ pc[u] \in Mapping <=> pc'[u] \in Mapping
        /\ pc[u] \in BeforeFirst <=> pc'[u] \in BeforeFirst
        /\ pc[u] = "shuffle_stage" <=> pc'[u] = "shuffle_stage"
        /\ pc[u] = "barrier2" <=> pc'[u] = "barrier2"
        /\ pc[u] \in AfterSecond <=> pc'[u] \in AfterSecond
        /\ pc[u] = "reduce" <=> pc'[u] = "reduce"
        /\ pc[u] = "emit3" <=> pc'[u] = "emit3"
        /\ pc[u] = "done" <=> pc'[u] = "done"
  BY <1>b DEF Mapping, BeforeFirst, AfterSecond
<1> HIDE DEF Mapping, BeforeFirst, AfterSecond
<1>5. ItemsMapped'
  BY <1>4 DEF JobInv, ItemsMapped, Maps
<1>6. PairsEmitted'
  BY DEF JobInv, PairsEmitted
<1>7. MapMerged' /\ CountsBounded'
  BY <1>a, <1>4 DEF JobInv, MapMerged, CountsBounded
<1>8. GroupsReduced'
  <2>1. \A u \in Threads, k \in Keys : Holds(u, k)' <=> Holds(u, k)
    BY <1>4 DEF Holds
  <2> QED
    BY <1>4, <2>1 DEF JobInv, GroupsReduced, GroupOf
<1> QED
  BY <1>1, <1>2, <1>3, <1>5, <1>6, <1>7, <1>8 DEF JobInv

\* A thread that works was created, and its step moves no other thread.
LEMMA WorkMoves ==
  ASSUME JobTypeOK, NEW t \in Threads, Work(t)
  PROVE  /\ pc[t] # "none"
         /\ \A u \in Threads \ {t} : pc'[u] = pc[u]
         /\ UNCHANGED polled
<1>a. pc \in [ Threads -> Labels ]
  BY DEF JobTypeOK
<1> QED
  BY <1>a DEF Work, Start, MapLock, MapPop, Map, InBarrier, LeaveBarrier, ShuffleStage,
         Shuffle, ReduceStage, ReduceLock, ReducePop, Reduce, Emit3, AtBarrier, jobVars, Goto

\* A step of a thread of the job.
LEMMA WorkKeeps ==
  ASSUME TestsInv, NEW t \in Threads, WorkStep(t)
  PROVE  TestsInv'
<1>1. Work(t) /\ UNCHANGED testVars
  BY DEF WorkStep
<1>2. JobInv'
  BY <1>1, JobInvNext DEF TestsInv, Next
<1>3. NotReducedEarly' /\ OutputDistinct'
  BY <1>1, EarlyWork, OutputWork DEF TestsInv
<1>4. MissingNone' /\ LastReported'
  BY <1>1, WorkMoves DEF TestsInv, JobInv, MissingNone, LastReported, testVars, polled
<1> QED
  BY <1>2, <1>3, <1>4 DEF TestsInv

\* A poll locks the mutex, or computes the percentage.
LEMMA PollKeeps ==
  ASSUME TestsInv, GetJobState
  PROVE  TestsInv'
<1>1. (PollLock \/ ReadProgress) /\ UNCHANGED testVars
  BY DEF GetJobState
<1>2. JobInv'
  BY <1>1, JobInvNext DEF TestsInv, Next, ClientStep, Poll
<1>3. UNCHANGED << pc, data, results, calls, report, missing, last >>
  BY <1>1 DEF PollLock, ReadProgress, testVars, polled
<1>4. NotReducedEarly' /\ OutputDistinct' /\ MissingNone' /\ LastReported'
  BY <1>3 DEF TestsInv, NotReducedEarly, OutputDistinct, EmitsKey, MissingNone, LastReported,
              data, results, calls
<1> QED
  BY <1>2, <1>4 DEF TestsInv

\* A thread is created, or fails to be.
LEMMA StartKeeps ==
  ASSUME TestsInv, StartJob
  PROVE  TestsInv'
<1>a. JobTypeOK /\ pc \in [ Threads -> Labels ] /\ StageReached
  BY DEF TestsInv, JobInv, JobTypeOK
<1>1. PICK t \in Threads :
        /\ FirstUncreated(t)
        /\ \/ Goto(t, "start") /\ UNCHANGED missing
           \/ missing' = missing \cup {t} /\ UNCHANGED pc
        /\ cpc' = "poll" \/ cpc' = cpc
  BY DEF StartJob
<1>2. pc[t] = "none" /\ t \notin missing
  BY <1>1 DEF FirstUncreated, Exists
<1>3. UNCHANGED << barrierVars, owner, stage, data, results, polled, calls, last >>
  BY DEF StartJob
<1>4. pc' = pc \/ Created
  BY <1>1, <1>2 DEF Created
<1>5. JobTypeOK'
  <2>1. pc' \in [ Threads -> Labels ]
    BY <1>a, <1>1, GotoType DEF Labels
  <2>2. cpc' \in ClientLabels
    BY <1>a, <1>1 DEF JobTypeOK, ClientLabels
  <2> QED
    BY <1>a, <1>3, <2>1, <2>2 DEF JobTypeOK, data, results, polled, calls
<1>6. JobInv'
  <2>1. report'.stage <= stage
    BY <1>a, <1>3 DEF StageReached, polled
  <2> QED
    BY <1>3, <1>4, <1>5, <2>1, JobInvClient DEF TestsInv
<1>7. MissingNone' /\ LastReported'
  BY <1>a, <1>1, <1>2, <1>3 DEF TestsInv, MissingNone, LastReported, Goto, polled
<1>8. \A u \in Threads : pc'[u] = pc[u] \/ (pc[u] = "none" /\ pc'[u] = "start")
  BY <1>a, <1>1, <1>2 DEF Goto
<1>9. NotReducedEarly' /\ OutputDistinct'
  BY <1>3, <1>8 DEF TestsInv, NotReducedEarly, OutputDistinct, EmitsKey, AfterSecond, data,
                    results, calls
<1> QED
  BY <1>6, <1>7, <1>9 DEF TestsInv

\* What getJobState returns is judged or not, and remembered or not.
LEMMA ReturnedCases ==
  ASSUME GetJobStateReturns
  PROVE  /\ last' \in { last, report' }
         /\ fails' \in { fails, fails \cup Failures(report') }
<1>1. Op \in Polls /\ Returned
  BY DEF GetJobStateReturns
<1>2. CASE Op = "getJobState"
  BY <1>1, <1>2 DEF Returned, Judge
<1>3. CASE Op = "pollUntilReduced"
  BY <1>1, <1>3 DEF Returned, Judge
<1>4. CASE Op = "pollAndCheck"
  BY <1>1, <1>4 DEF Returned, Judge
<1>5. CASE Op = "pollAndCheckLast"
  BY <1>1, <1>5 DEF Returned, Judge
<1>6. CASE Op = "pollAgain"
  BY <1>1, <1>6 DEF Returned, Judge
<1> QED
  BY <1>1, <1>2, <1>3, <1>4, <1>5, <1>6 DEF Polls

\* The state is returned.
LEMMA ReturnKeeps ==
  ASSUME TestsInv, GetJobStateReturns
  PROVE  TestsInv'
<1>a. JobTypeOK /\ StageReached /\ JobInv
  BY DEF TestsInv, JobInv
<1>1. /\ report' = [ stage |-> stage, percent |-> percent ]
      /\ owner' = Free /\ percent' = 0 /\ cpc' = "poll"
      /\ UNCHANGED << barrierVars, pc, stage, data, results, calls, missing >>
  BY DEF GetJobStateReturns
<1>2. JobTypeOK'
  BY <1>a, <1>1 DEF JobTypeOK, ClientLabels, data, results, calls
<1>3. stage \in Nat /\ report'.stage = stage
  BY <1>a, <1>1 DEF JobTypeOK, UNDEFINED_STAGE, REDUCE_STAGE
<1>4. JobInv'
  BY <1>a, <1>1, <1>2, <1>3, JobInvClient
<1>5. LastReported'
  <2>1. last.stage \in Nat /\ last.stage <= report.stage /\ report.stage <= stage
        /\ report.stage \in Nat
    BY <1>a DEF TestsInv, LastReported, StageReached, JobTypeOK, UNDEFINED_STAGE, REDUCE_STAGE
  <2>2. last' \in { last, report' }
    BY ReturnedCases
  <2> QED
    BY <1>3, <2>1, <2>2 DEF LastReported
<1>6. NotReducedEarly' /\ OutputDistinct' /\ MissingNone'
  BY <1>1 DEF TestsInv, NotReducedEarly, OutputDistinct, EmitsKey, MissingNone, data,
              results, calls
<1> QED
  BY <1>4, <1>5, <1>6 DEF TestsInv

\* All other operations of a test leave the job alone.
LEMMA SameKeeps ==
  ASSUME TestsInv, UNCHANGED << vars, last, missing >>
  PROVE  TestsInv'
<1>1. JobInv'
  BY JobInvStutter DEF TestsInv
<1>2. NotReducedEarly' /\ OutputDistinct' /\ MissingNone' /\ LastReported'
  BY DEF TestsInv, NotReducedEarly, OutputDistinct, EmitsKey, MissingNone, LastReported,
         vars, jobVars, data, results, polled, calls
<1> QED
  BY <1>1, <1>2 DEF TestsInv

\* What a test does other than to start the job and to poll.
Others == Returns \/ CheckOutput \/ CheckOther \/ StartThread \/ Join \/ AssertExit \/ WaiterRuns

\* What a step of a test is.
LEMMA TestsCases ==
  ASSUME TestsNext
  PROVE  \/ \E t \in Threads : WorkStep(t)
         \/ GetJobState \/ StartJob \/ GetJobStateReturns \/ Others
BY DEF TestsNext, TestStep, Others

\* They change nothing of the job, and fail as the output says.
LEMMA OthersSame ==
  ASSUME Others
  PROVE  /\ UNCHANGED << vars, last, missing >>
         /\ fails' \in { fails, fails \cup OutputFailures, fails \cup {"ASSERT_EXIT"} }
<1>1. CASE Returns \/ CheckOther \/ StartThread \/ Join
  BY <1>1 DEF Returns, CheckOther, StartThread, Join
<1>2. CASE CheckOutput
  BY <1>2 DEF CheckOutput, Judge
<1>3. CASE AssertExit
  BY <1>3 DEF AssertExit, Judge
<1>4. CASE WaiterRuns
  BY <1>4 DEF WaiterRuns
<1> QED
  BY <1>1, <1>2, <1>3, <1>4 DEF Others

\* The invariant holds when a test starts.
LEMMA TestsInvInit == TestsInit => TestsInv
<1> SUFFICES ASSUME TestsInit PROVE TestsInv
  OBVIOUS
<1>1. Init /\ last.stage = 0 /\ missing = {}
  BY DEF TestsInit, UNDEFINED_STAGE
<1>2. JobInv
  BY <1>1, JobInvInit
<1>3. NotReducedEarly /\ OutputDistinct /\ MissingNone /\ LastReported
  BY <1>1 DEF Init, NotReducedEarly, OutputDistinct, EmitsKey, MissingNone, LastReported,
              UNDEFINED_STAGE
<1> QED
  BY <1>2, <1>3 DEF TestsInv

\* Every step keeps it.
LEMMA TestsInvNext ==
  ASSUME TestsInv, [TestsNext]_allVars
  PROVE  TestsInv'
<1>1. CASE UNCHANGED allVars
  BY <1>1, SameKeeps DEF allVars, testVars
<1>2. CASE TestsNext
  BY <1>2, TestsCases, WorkKeeps, PollKeeps, StartKeeps, ReturnKeeps, OthersSame, SameKeeps
<1> QED
  BY <1>1, <1>2

-----------------------------------------------------------------------------
(***************************************************************************)
(* What follows for every test                                             *)
(***************************************************************************)
\* The invariant holds at every moment of every test.
THEOREM TestsInvariant == TestsSpec => []TestsInv
BY TestsInvInit, TestsInvNext, PTL DEF TestsSpec

\* A job that lacks a thread does not come to the shuffle, whichever thread that
\* is and however many there are: the others wait at the first barrier.
THEOREM NothingWithoutAll == TestsSpec => []NothingReducedWithoutAll
<1>1. TestsInv => NothingReducedWithoutAll
  <2> SUFFICES ASSUME TestsInv, missing # {}
               PROVE  /\ \A t \in Threads : passed[t] = 0
                      /\ report.stage \in { UNDEFINED_STAGE, MAP_STAGE }
    BY DEF NothingReducedWithoutAll
  <2>1. PICK u \in Threads : pc[u] \in Mapping
    BY DEF TestsInv, MissingNone, Mapping
  <2>2. \A t \in Threads : ~(passed[t] >= 1)
    BY <2>1, NobodyBefore DEF TestsInv, JobInv
  <2>3. \A t \in Threads : passed[t] \in Nat
    BY DEF TestsInv, JobInv, BarrierInv, BarrierTypeOK
  <2>4. stage \in 0 .. 3 /\ report.stage \in 0 .. 3 /\ report.stage <= stage
        /\ ~(stage >= 2)
    BY <2>2 DEF TestsInv, JobInv, JobTypeOK, StageReached, UNDEFINED_STAGE, SHUFFLE_STAGE,
                REDUCE_STAGE
  <2> QED
    BY <2>2, <2>3, <2>4 DEF UNDEFINED_STAGE, MAP_STAGE
<1> QED
  BY TestsInvariant, <1>1, PTL

\* Under the tests too a job reduces every key once with its whole group: what a
\* test does with a job, and when, makes no difference.
THEOREM TestsResult == TestsSpec => []ResultComplete
<1>1. TestsInv => ResultComplete
  <2> SUFFICES ASSUME TestsInv, \A t \in Threads : pc[t] = "done", NEW k \in Keys
               PROVE  given[k] = IF Want(k) = {} THEN << >> ELSE << Want(k) >>
    BY DEF ResultComplete
  <2>1. map = {} /\ merged = MtLevel
    BY ThreadZero DEF TestsInv, JobInv, GroupsReduced, MapMerged, AfterSecond
  <2>2. GroupOf(map, k) = {} /\ ~ \E t \in Threads : Holds(t, k)
    BY <2>1 DEF GroupOf, Holds
  <2> QED
    BY <2>1, <2>2 DEF TestsInv, JobInv, GroupsReduced
<1> QED
  BY TestsInvariant, <1>1, PTL

-----------------------------------------------------------------------------
(***************************************************************************)
(* No test fails                                                           *)
(***************************************************************************)
\* Some string is not empty: a job that emits nothing has 0 / 0 for percentage.
SomethingToCount == \E i \in Items : Content[i] # << >>

\* A string that is not empty has a letter, which map emits.
LEMMA SomethingEmitted ==
  ASSUME SomethingToCount
  PROVE  \E i \in Items : Emits[i] # {}
<1>1. PICK i \in Items : Content[i] # << >>
  BY DEF SomethingToCount
<1> DEFINE k == Content[i][1]
           J == { p \in DOMAIN Content[i] : Content[i][p] = k }
<1>2. Content[i] \in Seq(Keys) /\ Len(Content[i]) \in Nat /\ Len(Content[i]) # 0
      /\ DOMAIN Content[i] = 1 .. Len(Content[i])
  BY <1>1, SampleAssumption
<1>3. k \in Keys /\ 1 \in J
  BY <1>2
<1>4. IsFiniteSet(J)
  <2>1. IsFiniteSet(1 .. Len(Content[i]))
    BY <1>2, FS_Interval
  <2> QED
    BY <1>2, <2>1, FS_Subset
<1>5. Cardinality(J) # 0
  <2> HIDE DEF J
  <2> QED
    BY <1>3, <1>4, FS_EmptySet
<1>6. Counts(i, k) # 0
  BY <1>5 DEF Counts
<1> HIDE DEF k
<1>7. k \in Emits[i]
  BY <1>3, <1>6, SampleAssumption DEF MapEmits
<1> QED
  BY <1>7

\* A state that the job reports is none a test would reject.
LEMMA StateAccepted ==
  ASSUME TestsInv, CountsSomething, GetJobStateReturns
  PROVE  Failures(report') \cap { "percentage", "stage" } = {}
<1>1. report' = [ stage |-> stage, percent |-> percent ]
  BY DEF GetJobStateReturns
<1>2. percent \in 0 .. 100
  BY DEF TestsInv, JobInv, JobTypeOK, CountsSomething
<1>3. ~(last.stage > stage)
  BY DEF TestsInv, LastReported, JobInv, StageReached, JobTypeOK, UNDEFINED_STAGE, REDUCE_STAGE
<1>4. "percentage" \notin Failures(report')
  BY <1>1, <1>2 DEF Failures
<1>5. "stage" \notin Failures(report')
  BY <1>1, <1>3 DEF Failures
<1> QED
  BY <1>4, <1>5

\* The output has no pair that a test does not expect.
LEMMA OutputAccepted ==
  ASSUME TestsInv
  PROVE  "unexpected" \notin OutputFailures
<1>a. /\ given \in [ Keys -> Seq(SUBSET Pairs) ] /\ output \in Seq(Keys \cup {Garbage})
      /\ GroupsReduced
  BY DEF TestsInv, JobInv, JobTypeOK
<1>1. SUFFICES ASSUME NEW k \in Range(output) \ {Garbage}
               PROVE  Expected(k) /\ ~(Cardinality(Places(k)) > 1)
  BY DEF OutputFailures
<1>2. PICK j \in DOMAIN output : output[j] = k
  BY DEF Range
<1>3. k \in Keys /\ given[k] # << >>
  BY <1>a, <1>2 DEF TestsInv, OutputDistinct
<1>4. given[k] = << Want(k) >> /\ Want(k) # {}
  BY <1>a, <1>3 DEF GroupsReduced
<1>5. Range(given[k]) = {Want(k)}
  BY <1>4 DEF Range
<1>6. Expected(k)
  BY <1>3, <1>4, <1>5, GroupCounts DEF Expected
<1>7. Places(k) = {j}
  BY <1>2 DEF Places, TestsInv, OutputDistinct
<1>8. Cardinality(Places(k)) = 1
  BY <1>7, FS_Singleton
<1> QED
  BY <1>6, <1>8

\* The percentage stays a number.
LEMMA CountsSomethingNext ==
  ASSUME TestsInv, CountsSomething, SomethingToCount, [TestsNext]_allVars
  PROVE  CountsSomething'
<1>1. ASSUME NEW t \in Threads, WorkStep(t)
      PROVE  CountsSomething'
  BY <1>1, SomethingEmitted, SizeWork DEF WorkStep, TestsInv
<1>2. CASE GetJobState
  BY <1>2, ProgressIsOne
  DEF GetJobState, PollLock, ReadProgress, CountsSomething, TestsInv, data, polled
<1>3. CASE StartJob
  BY <1>3 DEF StartJob, CountsSomething, data, polled
<1>4. CASE GetJobStateReturns
  BY <1>4 DEF GetJobStateReturns, CountsSomething, data, NaN
<1>5. CASE UNCHANGED vars
  BY <1>5 DEF vars, jobVars, CountsSomething, data, polled
<1> QED
  BY <1>1, <1>2, <1>3, <1>4, <1>5, TestsCases, OthersSame DEF allVars

\* No step fails a test.
LEMMA NeverFailsNext ==
  ASSUME TestsInv, CountsSomething, NeverFails, [TestsNext]_allVars
  PROVE  NeverFails'
<1>1. CASE GetJobStateReturns
  BY <1>1, ReturnedCases, StateAccepted DEF NeverFails, Failures
<1>2. CASE Others
  BY <1>2, OthersSame, OutputAccepted DEF NeverFails, OutputFailures
<1>3. CASE fails' = fails
  BY <1>3 DEF NeverFails
<1> QED
  BY <1>1, <1>2, <1>3, TestsCases
  DEF WorkStep, GetJobState, StartJob, allVars, testVars

\* No test rejects a state that getJobState reports or a pair of the output, for
\* all strings of which one is not empty, and any number of threads.
THEOREM TestsNeverFail ==
  ASSUME SomethingToCount
  PROVE  TestsSpec => []NeverFails
<1>1. TestsInit => CountsSomething /\ NeverFails
  <2> SUFFICES ASSUME TestsInit PROVE CountsSomething /\ NeverFails
    OBVIOUS
  <2>1. Init /\ fails = {}
    BY DEF TestsInit
  <2>2. NumItems # 0
    BY DEF SomethingToCount, Items
  <2> QED
    BY <2>1, <2>2, MapReduceAssumption DEF Init, CountsSomething, NaN, NeverFails
<1>2. TestsInv /\ CountsSomething /\ NeverFails /\ [TestsNext]_allVars
        => CountsSomething' /\ NeverFails'
  BY CountsSomethingNext, NeverFailsNext
<1>3. TestsSpec => [](CountsSomething /\ NeverFails)
  BY TestsInvariant, <1>1, <1>2, PTL DEF TestsSpec
<1> QED
  BY <1>3, PTL
=============================================================================
