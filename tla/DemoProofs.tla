---------------------------- MODULE DemoProofs ----------------------------
(***************************************************************************)
(* Proofs about the demonstration programs.  First the counters of         *)
(* atomicdemo.cpp, for every number of threads and iterations.             *)
(***************************************************************************)
EXTENDS AtomicCounter, FiniteSetTheorems, NaturalLemmas, TLAPS

CounterAssumption ==
  /\ MtLevel \in Nat \ {0}
  /\ Iterations \in Nat \ {0, 1}

AllSteps == Threads \X (0 .. Iterations - 1)

\* The steps of the loops whose plain increment has been stored, and those
\* whose atomic increment has been made.
Stored == { s \in AllSteps : s[2] < i[s[1]] }
Counted ==
  { s \in AllSteps :
      \/ s[2] < i[s[1]]
      \/ s[2] = i[s[1]] /\ pc[s[1]] \in { "load", "store" } }

CounterTypeOK ==
  /\ atomic_counter \in Nat
  /\ bad_counter \in Nat
  /\ pc \in [ Threads -> { "none", "loop", "load", "store", "done" } ]
  /\ i \in [ Threads -> 0 .. Iterations ]
  /\ loaded \in [ Threads -> Nat ]
  /\ main \in 0 .. 2 * MtLevel

\* A thread between its two increments has steps left; one that has returned
\* has none.
InLoop ==
  \A t \in Threads :
    /\ pc[t] \in { "load", "store" } => i[t] < Iterations
    /\ pc[t] = "done" => i[t] = Iterations

\* The threads that are not yet created have not begun, and those that were
\* joined have returned.
Joined ==
  \A t \in Threads :
    /\ t >= main => pc[t] = "none"
    /\ t < main - MtLevel => pc[t] = "done"

\* No load or store is ahead of the stores that were made.
NeverTooMany ==
  /\ bad_counter <= Cardinality(Stored)
  /\ \A t \in Threads : pc[t] = "store" => loaded[t] <= Cardinality(Stored)

\* After a thread's first store no value is 0, and after the last store of all
\* it is not 1.
NeverLost ==
  /\ \A t \in Threads :
       i[t] > 0 => /\ bad_counter >= 1
                   /\ pc[t] = "store" => loaded[t] >= 1
  /\ (\A t \in Threads : i[t] = Iterations) => bad_counter >= 2

CounterInv ==
  /\ CounterTypeOK
  /\ InLoop
  /\ Joined
  /\ atomic_counter = Cardinality(Counted)
  /\ NeverTooMany
  /\ NeverLost
-----------------------------------------------------------------------------
\* There are MtLevel * Iterations steps, and every set of them is finite.
LEMMA StepsFinite ==
  ASSUME CounterAssumption
  PROVE  /\ IsFiniteSet(AllSteps)
         /\ Cardinality(AllSteps) = MtLevel * Iterations
         /\ \A S \in SUBSET AllSteps :
              IsFiniteSet(S) /\ Cardinality(S) \in Nat
<1>1. /\ IsFiniteSet(Threads)
      /\ Cardinality(Threads) = MtLevel
  BY FS_Interval DEF Threads, CounterAssumption
<1>2. /\ IsFiniteSet(0 .. Iterations - 1)
      /\ Cardinality(0 .. Iterations - 1) = Iterations
  BY FS_Interval DEF CounterAssumption
<1>3. /\ IsFiniteSet(AllSteps)
      /\ Cardinality(AllSteps) = MtLevel * Iterations
  BY <1>1, <1>2, FS_Product DEF AllSteps
<1>4. ASSUME NEW S \in SUBSET AllSteps
      PROVE  IsFiniteSet(S) /\ Cardinality(S) \in Nat
  BY <1>3, FS_Subset, FS_CardinalityType
<1> QED
  BY <1>3, <1>4

\* A new step counts for one.
LEMMA OneMore ==
  ASSUME CounterAssumption, NEW S \in SUBSET AllSteps,
         NEW s \in AllSteps, s \notin S
  PROVE  Cardinality(S \cup {s}) = Cardinality(S) + 1
BY StepsFinite, FS_AddElement

LEMMA CounterInit == ASSUME CounterAssumption, Init PROVE CounterInv
<1>1. Stored = {} /\ Counted = {}
  BY DEF Init, Stored, Counted, AllSteps, CounterAssumption
<1>2. Cardinality(Stored) = 0 /\ Cardinality(Counted) = 0
  BY <1>1, FS_EmptySet
<1>3. CounterTypeOK /\ InLoop
  BY DEF Init, CounterTypeOK, InLoop, CounterAssumption
<1>4. Joined
  BY DEF Init, Joined, Threads, CounterAssumption
<1>5. NeverTooMany
  BY <1>2 DEF Init, NeverTooMany
<1>6. NeverLost
  BY DEF Init, NeverLost, Threads, CounterAssumption
<1> QED
  BY <1>2, <1>3, <1>4, <1>5, <1>6 DEF CounterInv, Init

\* The steps of main change no loop.
LEMMA CreateInv ==
  ASSUME CounterAssumption, CounterInv, Create
  PROVE  CounterInv'
<1> USE DEF CounterAssumption, CounterInv, CounterTypeOK, Create, Threads
<1>1. main \in Threads /\ pc[main] = "none"
  BY DEF Joined
<1>2. Stored' = Stored /\ Counted' = Counted
  BY <1>1 DEF Stored, Counted, AllSteps
<1>3. CounterTypeOK' /\ InLoop' /\ Joined'
  BY <1>1 DEF InLoop, Joined
<1>4. NeverTooMany' /\ NeverLost'
  BY <1>1, <1>2 DEF NeverTooMany, NeverLost
<1> QED
  BY <1>2, <1>3, <1>4

LEMMA JoinInv ==
  ASSUME CounterAssumption, CounterInv, Join
  PROVE  CounterInv'
<1> USE DEF CounterAssumption, CounterInv, CounterTypeOK, Join, Threads
<1>1. Stored' = Stored /\ Counted' = Counted
  BY DEF Stored, Counted, AllSteps
<1>2. CounterTypeOK' /\ InLoop'
  BY DEF InLoop
<1>3. ASSUME NEW t \in Threads
      PROVE  /\ t >= main' => pc'[t] = "none"
             /\ t < main' - MtLevel => pc'[t] = "done"
  <2>1. CASE t = main - MtLevel
    BY <2>1
  <2>2. CASE t # main - MtLevel
    BY <2>2 DEF Joined
  <2> QED
    BY <2>1, <2>2
<1>4. Joined'
  BY <1>3 DEF Joined
<1>5. NeverTooMany' /\ NeverLost'
  BY <1>1 DEF NeverTooMany, NeverLost
<1> QED
  BY <1>1, <1>2, <1>4, <1>5

LEMMA IncrementAtomicInv ==
  ASSUME CounterAssumption, CounterInv, NEW t \in Threads, IncrementAtomic(t)
  PROVE  CounterInv'
<1> DEFINE s == << t, i[t] >>
<1>1. s \in AllSteps /\ s \notin Counted
  BY DEF AllSteps, Counted, CounterInv, CounterTypeOK, IncrementAtomic,
         CounterAssumption
<1>2. Stored' = Stored
  BY DEF Stored, AllSteps, IncrementAtomic
<1>3. Counted' = Counted \cup {s}
  BY DEF AllSteps, Counted, CounterInv, CounterTypeOK, IncrementAtomic,
         CounterAssumption
<1>4. Cardinality(Counted)' = Cardinality(Counted) + 1
  BY <1>1, <1>3, OneMore DEF Counted
<1>5. CounterTypeOK'
  BY DEF CounterInv, CounterTypeOK, IncrementAtomic
<1>6. InLoop'
  BY DEF CounterInv, CounterTypeOK, InLoop, IncrementAtomic
<1>7. Joined'
  BY DEF CounterInv, CounterTypeOK, Joined, IncrementAtomic
<1>8. NeverTooMany' /\ NeverLost'
  BY <1>2 DEF NeverTooMany, NeverLost, CounterInv, CounterTypeOK,
              IncrementAtomic
<1> QED
  BY <1>4, <1>5, <1>6, <1>7, <1>8 DEF CounterInv, IncrementAtomic

LEMMA LoadBadInv ==
  ASSUME CounterAssumption, CounterInv, NEW t \in Threads, LoadBad(t)
  PROVE  CounterInv'
<1>1. Stored' = Stored /\ Counted' = Counted
  BY DEF Stored, Counted, AllSteps, LoadBad, CounterInv, CounterTypeOK
<1>2. CounterTypeOK' /\ InLoop' /\ Joined'
  BY DEF CounterInv, CounterTypeOK, InLoop, Joined, LoadBad, Threads,
         CounterAssumption
<1>3. NeverTooMany' /\ NeverLost'
  BY <1>1 DEF NeverTooMany, NeverLost, CounterInv, CounterTypeOK, LoadBad
<1> QED
  BY <1>1, <1>2, <1>3 DEF CounterInv, LoadBad

\* Where the bound of two comes from: the store that ends the last loop adds
\* one to a value that is not 0.
LEMMA StoreBadInv ==
  ASSUME CounterAssumption, CounterInv, NEW t \in Threads, StoreBad(t)
  PROVE  CounterInv'
<1> DEFINE s == << t, i[t] >>
<1>1. i[t] \in 0 .. Iterations - 1 /\ pc[t] = "store"
  BY DEF CounterInv, CounterTypeOK, InLoop, StoreBad, CounterAssumption
<1>2. s \in AllSteps /\ s \notin Stored
  BY <1>1 DEF AllSteps, Stored
<1>3. Stored' = Stored \cup {s}
  BY <1>1 DEF AllSteps, Stored, CounterInv, CounterTypeOK, StoreBad,
              CounterAssumption
<1>4. Counted' = Counted
  BY <1>1 DEF AllSteps, Counted, CounterInv, CounterTypeOK, StoreBad,
              CounterAssumption
<1>5. /\ Cardinality(Stored)' = Cardinality(Stored) + 1
      /\ Cardinality(Stored) \in Nat
  BY <1>2, <1>3, OneMore, StepsFinite DEF Stored
<1>6. CounterTypeOK'
  BY <1>1 DEF CounterInv, CounterTypeOK, StoreBad, CounterAssumption
<1>7. InLoop' /\ Joined'
  BY <1>1 DEF CounterInv, CounterTypeOK, InLoop, Joined, StoreBad, Threads,
              CounterAssumption
<1>8. NeverTooMany'
  BY <1>1, <1>5 DEF NeverTooMany, CounterInv, CounterTypeOK, StoreBad
<1>9. NeverLost'
  <2>1. (\A u \in Threads : i'[u] = Iterations) => bad_counter' >= 2
    <3>1. SUFFICES ASSUME i'[t] = Iterations PROVE bad_counter' >= 2
      OBVIOUS
    <3>2. i[t] > 0
      BY <1>1, <3>1 DEF CounterInv, CounterTypeOK, StoreBad, CounterAssumption
    <3>3. loaded[t] >= 1
      BY <1>1, <3>2 DEF CounterInv, NeverLost
    <3> QED
      BY <3>3 DEF StoreBad, CounterInv, CounterTypeOK
  <2>2. ASSUME NEW u \in Threads, i'[u] > 0
        PROVE  bad_counter' >= 1 /\ (pc'[u] = "store" => loaded'[u] >= 1)
    BY <1>1, <2>2 DEF CounterInv, CounterTypeOK, NeverLost, StoreBad
  <2> QED
    BY <2>1, <2>2 DEF NeverLost
<1> QED
  BY <1>4, <1>6, <1>7, <1>8, <1>9 DEF CounterInv, StoreBad

LEMMA ReturnInv ==
  ASSUME CounterAssumption, CounterInv, NEW t \in Threads, Return(t)
  PROVE  CounterInv'
<1>1. Stored' = Stored /\ Counted' = Counted
  BY DEF Stored, Counted, AllSteps, Return, CounterInv, CounterTypeOK
<1>2. CounterTypeOK' /\ InLoop' /\ Joined'
  BY DEF CounterInv, CounterTypeOK, InLoop, Joined, Return, Threads,
         CounterAssumption
<1>3. NeverTooMany' /\ NeverLost'
  BY <1>1 DEF NeverTooMany, NeverLost, CounterInv, CounterTypeOK, Return
<1> QED
  BY <1>1, <1>2, <1>3 DEF CounterInv, Return

LEMMA CounterStep ==
  ASSUME CounterAssumption, CounterInv, [Next]_vars
  PROVE  CounterInv'
<1>1. CASE Create
  BY <1>1, CreateInv
<1>2. CASE Join
  BY <1>2, JoinInv
<1>3. ASSUME NEW t \in Threads, foo(t)
      PROVE  CounterInv'
  BY <1>3, IncrementAtomicInv, LoadBadInv, StoreBadInv, ReturnInv DEF foo
<1>4. CASE UNCHANGED vars
  BY <1>4 DEF vars, CounterInv, CounterTypeOK, InLoop, Joined, NeverTooMany,
              NeverLost, Stored, Counted
<1> QED
  BY <1>1, <1>2, <1>3, <1>4 DEF Next

\* When main prints, every step of every loop has been made.
LEMMA CounterEnd ==
  ASSUME CounterAssumption, CounterInv
  PROVE  PrintedCounters
<1> SUFFICES ASSUME Printed
             PROVE  /\ atomic_counter = MtLevel * Iterations
                    /\ bad_counter \in 2 .. MtLevel * Iterations
  BY DEF PrintedCounters
<1>1. \A t \in Threads : i[t] = Iterations
  BY DEF Printed, CounterInv, Joined, InLoop, Threads, CounterAssumption
<1>2. Stored = AllSteps /\ Counted = AllSteps
  BY <1>1 DEF Stored, Counted, AllSteps, CounterAssumption
<1>3. bad_counter >= 2
  BY <1>1 DEF CounterInv, NeverLost
<1>4. /\ atomic_counter = Cardinality(AllSteps)
      /\ bad_counter \in Nat
      /\ bad_counter <= Cardinality(AllSteps)
  BY <1>2 DEF CounterInv, CounterTypeOK, NeverTooMany
<1>5. MtLevel * Iterations \in Nat
  BY DEF CounterAssumption
<1> QED
  BY <1>3, <1>4, <1>5, StepsFinite

\* The demonstration prints MtLevel * Iterations for the atomic counter, and
\* for the plain one no more than that, and no less than 2.
THEOREM CountersCorrect ==
  ASSUME CounterAssumption
  PROVE  Spec => []PrintedCounters
<1>1. Init => CounterInv
  BY CounterInit
<1>2. CounterInv /\ [Next]_vars => CounterInv'
  BY CounterStep
<1>3. CounterInv => PrintedCounters
  BY CounterEnd
<1> QED
  BY <1>1, <1>2, <1>3, PTL DEF Spec
-----------------------------------------------------------------------------
(***************************************************************************)
(* The word with three counters of atomicdemo_multivar.cpp, whose main and *)
(* threads have the variables of the same names.                           *)
(***************************************************************************)
CONSTANTS LowSize, MiddleSize

Fields == INSTANCE AtomicFields

\* Each counter is less than its field has room for.
FieldsFit ==
  /\ MtLevel \in Nat
  /\ Iterations \in Nat
  /\ LowSize \in Nat \ {0}
  /\ MiddleSize \in Nat \ {0}
  /\ MtLevel * Fields!Tens < LowSize
  /\ MtLevel * Fields!Hundreds < MiddleSize
  /\ Fields!OddThreads < 4

\* The additions that are to be made to each field: of a thread for its n-th
\* multiple of 10 or of 100, and of the n-th thread with an odd number.
LowAdditions == Threads \X (0 .. Fields!Tens - 1)
MiddleAdditions == Threads \X (0 .. Fields!Hundreds - 1)
HighAdditions == 0 .. Fields!OddThreads - 1

\* Those that were made.
LowMade ==
  { s \in LowAdditions :
      \/ 10 * s[2] < i[s[1]]
      \/ 10 * s[2] = i[s[1]] /\ pc[s[1]] = "hundreds" }
MiddleMade == { s \in MiddleAdditions : 100 * s[2] < i[s[1]] }
HighMade == { n \in HighAdditions : pc[2 * n + 1] = "done" }

FieldsTypeOK ==
  /\ pc \in [ Threads -> { "none", "ones", "hundreds", "done" } ]
  /\ i \in [ Threads -> 0 .. Iterations ]
  /\ main \in 0 .. 2 * MtLevel

FieldsLoop ==
  \A t \in Threads :
    /\ pc[t] = "hundreds" => i[t] < Iterations
    /\ pc[t] = "done" => i[t] = Iterations

FieldsAdded ==
  atomic_counter =
    Cardinality(LowMade) + Cardinality(MiddleMade) * LowSize
      + Cardinality(HighMade) * Fields!High

FieldsInv == FieldsTypeOK /\ FieldsLoop /\ Joined /\ FieldsAdded
-----------------------------------------------------------------------------
\* There are as many additions as main expects, and the sets of them are
\* finite.
LEMMA LowFinite ==
  ASSUME FieldsFit
  PROVE  /\ IsFiniteSet(LowAdditions)
         /\ Cardinality(LowAdditions) = MtLevel * Fields!Tens
         /\ \A S \in SUBSET LowAdditions :
              IsFiniteSet(S) /\ Cardinality(S) \in 0 .. LowSize - 1
<1>1. Fields!Tens \in Nat
  BY DEF FieldsFit, Fields!Tens
<1>2. IsFiniteSet(Threads) /\ Cardinality(Threads) = MtLevel
  <2>1. MtLevel \in Nat
    BY DEF FieldsFit
  <2> QED
    BY <2>1, FS_Interval DEF Threads
<1>3. /\ IsFiniteSet(0 .. Fields!Tens - 1)
      /\ Cardinality(0 .. Fields!Tens - 1) = Fields!Tens
  BY <1>1, FS_Interval
<1>4. /\ IsFiniteSet(LowAdditions)
      /\ Cardinality(LowAdditions) = MtLevel * Fields!Tens
  BY <1>2, <1>3, FS_Product DEF LowAdditions
<1>5. ASSUME NEW S \in SUBSET LowAdditions
      PROVE  IsFiniteSet(S) /\ Cardinality(S) \in 0 .. LowSize - 1
  <2>1. /\ IsFiniteSet(S)
        /\ Cardinality(S) \in Nat
        /\ Cardinality(S) <= MtLevel * Fields!Tens
    BY <1>4, FS_Subset, FS_CardinalityType
  <2>2. MtLevel * Fields!Tens \in Nat
    BY <1>1 DEF FieldsFit
  <2> QED
    BY <2>1, <2>2 DEF FieldsFit
<1> QED
  BY <1>4, <1>5

LEMMA MiddleFinite ==
  ASSUME FieldsFit
  PROVE  /\ IsFiniteSet(MiddleAdditions)
         /\ Cardinality(MiddleAdditions) = MtLevel * Fields!Hundreds
         /\ \A S \in SUBSET MiddleAdditions :
              IsFiniteSet(S) /\ Cardinality(S) \in 0 .. MiddleSize - 1
<1>1. Fields!Hundreds \in Nat
  BY DEF FieldsFit, Fields!Hundreds
<1>2. IsFiniteSet(Threads) /\ Cardinality(Threads) = MtLevel
  <2>1. MtLevel \in Nat
    BY DEF FieldsFit
  <2> QED
    BY <2>1, FS_Interval DEF Threads
<1>3. /\ IsFiniteSet(0 .. Fields!Hundreds - 1)
      /\ Cardinality(0 .. Fields!Hundreds - 1) = Fields!Hundreds
  BY <1>1, FS_Interval
<1>4. /\ IsFiniteSet(MiddleAdditions)
      /\ Cardinality(MiddleAdditions) = MtLevel * Fields!Hundreds
  BY <1>2, <1>3, FS_Product DEF MiddleAdditions
<1>5. ASSUME NEW S \in SUBSET MiddleAdditions
      PROVE  IsFiniteSet(S) /\ Cardinality(S) \in 0 .. MiddleSize - 1
  <2>1. /\ IsFiniteSet(S)
        /\ Cardinality(S) \in Nat
        /\ Cardinality(S) <= MtLevel * Fields!Hundreds
    BY <1>4, FS_Subset, FS_CardinalityType
  <2>2. MtLevel * Fields!Hundreds \in Nat
    BY <1>1 DEF FieldsFit
  <2> QED
    BY <2>1, <2>2 DEF FieldsFit
<1> QED
  BY <1>4, <1>5

LEMMA HighFinite ==
  ASSUME FieldsFit
  PROVE  /\ Fields!OddThreads \in 0 .. 3
         /\ Cardinality(HighAdditions) = Fields!OddThreads
         /\ \A S \in SUBSET HighAdditions :
              IsFiniteSet(S) /\ Cardinality(S) \in 0 .. 3
<1>1. Fields!OddThreads \in 0 .. 3
  BY DEF FieldsFit, Fields!OddThreads
<1>2. /\ IsFiniteSet(HighAdditions)
      /\ Cardinality(HighAdditions) = Fields!OddThreads
  BY <1>1, FS_Interval DEF HighAdditions
<1>3. ASSUME NEW S \in SUBSET HighAdditions
      PROVE  IsFiniteSet(S) /\ Cardinality(S) \in 0 .. 3
  BY <1>1, <1>2, FS_Subset, FS_CardinalityType
<1> QED
  BY <1>1, <1>2, <1>3

\* Three counters with room in their fields fit the word.
LEMMA NoCarry ==
  ASSUME FieldsFit, NEW L \in 0 .. LowSize - 1,
         NEW M \in 0 .. MiddleSize - 1, NEW H \in 0 .. 3
  PROVE  /\ Fields!High \in Nat \ {0}
         /\ M * LowSize + L \in 0 .. Fields!High - 1
         /\ L + M * LowSize + H * Fields!High \in 0 .. Fields!WordSize - 1
<1>1. Fields!High \in Nat \ {0}
  BY DEF FieldsFit, Fields!High
<1>2. M * LowSize + L \in 0 .. Fields!High - 1
  <2>1. M * LowSize + L \in 0 .. MiddleSize * LowSize - 1
    BY Bounds DEF FieldsFit
  <2> QED
    BY <2>1 DEF FieldsFit, Fields!High
<1>3. L + M * LowSize = M * LowSize + L
  BY DEF FieldsFit
<1>4. H * Fields!High + (M * LowSize + L) \in 0 .. 4 * Fields!High - 1
  BY <1>1, <1>2
<1> QED
  BY <1>1, <1>2, <1>3, <1>4 DEF Fields!WordSize, FieldsFit

\* How much was added to each field, and that the word is a number.
LEMMA Ranges ==
  ASSUME FieldsFit, FieldsInv
  PROVE  /\ Cardinality(LowMade) \in 0 .. LowSize - 1
         /\ Cardinality(MiddleMade) \in 0 .. MiddleSize - 1
         /\ Cardinality(HighMade) \in 0 .. 3
         /\ atomic_counter \in Int
<1>1. /\ Cardinality(LowMade) \in 0 .. LowSize - 1
      /\ Cardinality(MiddleMade) \in 0 .. MiddleSize - 1
      /\ Cardinality(HighMade) \in 0 .. 3
  BY LowFinite, MiddleFinite, HighFinite DEF LowMade, MiddleMade, HighMade
<1> QED
  BY <1>1, NoCarry DEF FieldsInv, FieldsAdded

\* What the word is after an addition.
LEMMA AddToFields ==
  ASSUME FieldsFit, FieldsInv, NEW n \in Nat, Fields!Add(n),
         Cardinality(LowMade') + Cardinality(MiddleMade') * LowSize
             + Cardinality(HighMade') * Fields!High
           = Cardinality(LowMade) + Cardinality(MiddleMade) * LowSize
             + Cardinality(HighMade) * Fields!High + n
  PROVE  FieldsAdded'
<1>1. /\ Cardinality(LowMade') \in 0 .. LowSize - 1
      /\ Cardinality(MiddleMade') \in 0 .. MiddleSize - 1
      /\ Cardinality(HighMade') \in 0 .. 3
  <2>1. /\ LowMade' \in SUBSET LowAdditions
        /\ MiddleMade' \in SUBSET MiddleAdditions
        /\ HighMade' \in SUBSET HighAdditions
    BY DEF LowMade, MiddleMade, HighMade
  <2> QED
    BY <2>1, LowFinite, MiddleFinite, HighFinite
<1> DEFINE sum == Cardinality(LowMade') + Cardinality(MiddleMade') * LowSize
                    + Cardinality(HighMade') * Fields!High
<1>2. sum \in 0 .. Fields!WordSize - 1
  BY <1>1, NoCarry
<1>3. atomic_counter + n = sum
  BY DEF FieldsInv, FieldsAdded
<1>4. Fields!WordSize \in Nat \ {0}
  BY <1>1, NoCarry DEF Fields!WordSize
<1>5. atomic_counter' = sum
  <2> HIDE DEF sum
  <2> QED BY <1>2, <1>3, <1>4 DEF Fields!Add
<1> QED
  BY <1>5 DEF FieldsAdded

LEMMA FieldsInit == ASSUME FieldsFit, Fields!Init PROVE FieldsInv
<1> USE DEF FieldsFit, Fields!Init, Threads, Fields!Threads
<1>1. LowMade = {} /\ MiddleMade = {} /\ HighMade = {}
  <2>1. LowMade = {} /\ MiddleMade = {}
    BY DEF LowMade, MiddleMade, LowAdditions, MiddleAdditions,
           Fields!Tens, Fields!Hundreds
  <2>2. ASSUME NEW n \in HighAdditions PROVE pc[2 * n + 1] = "none"
    <3>1. 2 * n + 1 \in Threads
      BY DEF HighAdditions, Fields!OddThreads
    <3> QED BY <3>1
  <2> QED
    BY <2>1, <2>2 DEF HighMade
<1>2. FieldsTypeOK /\ FieldsLoop /\ Joined
  BY DEF FieldsTypeOK, FieldsLoop, Joined
<1>3. FieldsAdded
  <2>1. 0 * Fields!High = 0 /\ 0 * LowSize = 0
    BY DEF Fields!High
  <2> QED
    BY <1>1, <2>1, FS_EmptySet DEF FieldsAdded
<1> QED
  BY <1>2, <1>3 DEF FieldsInv

LEMMA FieldsMain ==
  ASSUME FieldsFit, FieldsInv, Fields!Create \/ Fields!Join
  PROVE  FieldsInv'
<1> USE DEF FieldsFit, FieldsInv, FieldsTypeOK, Threads
<1>1. CASE Fields!Create
  <2>1. main \in Threads /\ pc[main] = "none"
    BY <1>1 DEF Fields!Create, Joined
  <2>2. LowMade' = LowMade /\ MiddleMade' = MiddleMade
    BY <1>1, <2>1 DEF Fields!Create, LowMade, MiddleMade, LowAdditions,
                      MiddleAdditions
  <2>3. HighMade' = HighMade
    <3>1. \A n \in HighAdditions : 2 * n + 1 \in Threads
      BY DEF HighAdditions, Fields!OddThreads
    <3> QED
      BY <1>1, <2>1, <3>1 DEF Fields!Create, HighMade
  <2>4. FieldsTypeOK' /\ FieldsLoop' /\ Joined'
    BY <1>1, <2>1 DEF Fields!Create, FieldsLoop, Joined
  <2> QED
    BY <1>1, <2>2, <2>3, <2>4 DEF FieldsAdded, Fields!Create
<1>2. CASE Fields!Join
  <2>1. LowMade' = LowMade /\ MiddleMade' = MiddleMade /\ HighMade' = HighMade
    BY <1>2 DEF Fields!Join, LowMade, MiddleMade, HighMade
  <2>2. FieldsTypeOK' /\ FieldsLoop'
    BY <1>2 DEF Fields!Join, FieldsLoop
  <2>3. ASSUME NEW t \in Threads
        PROVE  /\ t >= main' => pc'[t] = "none"
               /\ t < main' - MtLevel => pc'[t] = "done"
    <3>1. CASE t = main - MtLevel
      BY <1>2, <3>1 DEF Fields!Join
    <3>2. CASE t # main - MtLevel
      BY <1>2, <3>2 DEF Joined, Fields!Join
    <3> QED
      BY <3>1, <3>2
  <2>4. Joined'
    BY <2>3 DEF Joined
  <2> QED
    BY <1>2, <2>1, <2>2, <2>4 DEF FieldsAdded, Fields!Join
<1> QED
  BY <1>1, <1>2

LEMMA AddOneInv ==
  ASSUME FieldsFit, FieldsInv, NEW t \in Threads, Fields!AddOne(t)
  PROVE  FieldsInv'
<1> USE DEF FieldsFit, FieldsInv, FieldsTypeOK
<1> DEFINE s == << t, i[t] \div 10 >>
<1>1. i[t] \in 0 .. Iterations - 1 /\ pc[t] = "ones"
  BY DEF Fields!AddOne
<1>2. MiddleMade' = MiddleMade
  BY DEF Fields!AddOne, MiddleMade
<1>3. HighMade' = HighMade
  BY DEF Fields!AddOne, HighMade
<1>4. FieldsTypeOK' /\ FieldsLoop' /\ Joined'
  BY <1>1 DEF Fields!AddOne, FieldsLoop, Joined, Threads
<1>5. FieldsAdded'
  <2>1. CASE i[t] % 10 = 0
    <3>1. i[t] = 10 * (i[t] \div 10)
      BY <1>1, <2>1
    <3>2. s \in LowAdditions
      BY <1>1, <3>1 DEF LowAdditions, Fields!Tens
    <3>3. s \notin LowMade
      BY <1>1, <3>1 DEF LowMade
    <3>4. LowMade' = LowMade \cup {s}
      <4>1. ASSUME NEW x \in LowAdditions
            PROVE  x \in LowMade' <=> x \in LowMade \/ x = s
        <5>1. CASE x[1] = t
          BY <1>1, <3>1, <5>1 DEF LowMade, LowAdditions, Fields!AddOne
        <5>2. CASE x[1] # t
          BY <5>2 DEF LowMade, LowAdditions, Fields!AddOne
        <5> QED
          BY <5>1, <5>2
      <4> QED
        BY <3>2, <4>1 DEF LowMade
    <3>5. /\ Cardinality(LowMade') = Cardinality(LowMade) + 1
          /\ Cardinality(LowMade) \in Nat
      <4>1. IsFiniteSet(LowMade)
        BY LowFinite DEF LowMade
      <4> QED
        BY <3>3, <3>4, <4>1, FS_AddElement, FS_CardinalityType
    <3>6. Fields!Add(1)
      BY <2>1 DEF Fields!AddOne
    <3> DEFINE m == Cardinality(MiddleMade) * LowSize
               h == Cardinality(HighMade) * Fields!High
    <3>7. m \in Int /\ h \in Int
      BY Ranges, NoCarry
    <3>8. Cardinality(LowMade') + m + h = Cardinality(LowMade) + m + h + 1
      <4> HIDE DEF m, h
      <4> QED BY <3>5, <3>7
    <3> QED
      BY <1>2, <1>3, <3>6, <3>8, AddToFields
  <2>2. CASE i[t] % 10 # 0
    <3>1. LowMade' = LowMade
      <4>1. ASSUME NEW x \in LowAdditions
            PROVE  x \in LowMade' <=> x \in LowMade
        <5>1. CASE x[1] = t
          BY <1>1, <2>2, <5>1 DEF LowMade, LowAdditions, Fields!AddOne
        <5>2. CASE x[1] # t
          BY <5>2 DEF LowMade, LowAdditions, Fields!AddOne
        <5> QED
          BY <5>1, <5>2
      <4> QED
        BY <4>1 DEF LowMade
    <3>2. Fields!Add(0)
      BY <2>2 DEF Fields!AddOne
    <3> QED
      BY <1>2, <1>3, <3>1, <3>2, Ranges, AddToFields DEF FieldsAdded
  <2> QED
    BY <2>1, <2>2
<1> QED
  BY <1>4, <1>5

LEMMA AddMiddleInv ==
  ASSUME FieldsFit, FieldsInv, NEW t \in Threads, Fields!AddMiddle(t)
  PROVE  FieldsInv'
<1> USE DEF FieldsFit, FieldsInv, FieldsTypeOK
<1> DEFINE s == << t, i[t] \div 100 >>
<1>1. i[t] \in 0 .. Iterations - 1 /\ pc[t] = "hundreds"
  BY DEF Fields!AddMiddle, FieldsLoop
<1>2. LowMade' = LowMade
  <2>1. ASSUME NEW x \in LowAdditions
        PROVE  x \in LowMade' <=> x \in LowMade
    <3>1. CASE x[1] = t
      BY <1>1, <3>1 DEF LowMade, LowAdditions, Fields!AddMiddle
    <3>2. CASE x[1] # t
      BY <3>2 DEF LowMade, LowAdditions, Fields!AddMiddle
    <3> QED
      BY <3>1, <3>2
  <2> QED
    BY <2>1 DEF LowMade
<1>3. HighMade' = HighMade
  BY DEF Fields!AddMiddle, HighMade
<1>4. FieldsTypeOK' /\ FieldsLoop' /\ Joined'
  <2>1. i[t] + 1 \in 0 .. Iterations
    BY <1>1
  <2>2. FieldsTypeOK'
    BY <2>1 DEF Fields!AddMiddle
  <2>3. FieldsLoop'
    BY <1>1 DEF Fields!AddMiddle, FieldsLoop
  <2>4. Joined'
    BY <1>1 DEF Fields!AddMiddle, Joined, Threads
  <2> QED
    BY <2>2, <2>3, <2>4
<1>5. FieldsAdded'
  <2>1. CASE i[t] % 100 = 0
    <3>1. i[t] = 100 * (i[t] \div 100)
      BY <1>1, <2>1
    <3>2. s \in MiddleAdditions
      BY <1>1, <3>1 DEF MiddleAdditions, Fields!Hundreds
    <3>3. s \notin MiddleMade
      BY <1>1, <3>1 DEF MiddleMade
    <3>4. MiddleMade' = MiddleMade \cup {s}
      <4>1. ASSUME NEW x \in MiddleAdditions
            PROVE  x \in MiddleMade' <=> x \in MiddleMade \/ x = s
        <5>1. CASE x[1] = t
          BY <1>1, <3>1, <5>1 DEF MiddleMade, MiddleAdditions, Fields!AddMiddle
        <5>2. CASE x[1] # t
          BY <5>2 DEF MiddleMade, MiddleAdditions, Fields!AddMiddle
        <5> QED
          BY <5>1, <5>2
      <4> QED
        BY <3>2, <4>1 DEF MiddleMade
    <3>5. /\ Cardinality(MiddleMade') = Cardinality(MiddleMade) + 1
          /\ Cardinality(MiddleMade) \in Nat
      <4>1. IsFiniteSet(MiddleMade)
        BY MiddleFinite DEF MiddleMade
      <4> QED
        BY <3>3, <3>4, <4>1, FS_AddElement, FS_CardinalityType
    <3>6. Fields!Add(LowSize)
      BY <2>1 DEF Fields!AddMiddle
    <3>7. (Cardinality(MiddleMade) + 1) * LowSize
            = Cardinality(MiddleMade) * LowSize + LowSize
      BY <3>5
    <3> DEFINE l == Cardinality(LowMade)
               m == Cardinality(MiddleMade) * LowSize
               h == Cardinality(HighMade) * Fields!High
    <3>8. l \in Int /\ m \in Int /\ h \in Int
      <4>1. Fields!High \in Int
        BY DEF Fields!High
      <4> QED
        BY <4>1, Ranges
    <3>9. l + (m + LowSize) + h = l + m + h + LowSize
      <4> HIDE DEF l, m, h
      <4> QED BY <3>8
    <3> QED
      BY <1>2, <1>3, <3>5, <3>6, <3>7, <3>9, AddToFields
  <2>2. CASE i[t] % 100 # 0
    <3>1. MiddleMade' = MiddleMade
      <4>1. ASSUME NEW x \in MiddleAdditions
            PROVE  x \in MiddleMade' <=> x \in MiddleMade
        <5>1. CASE x[1] = t
          BY <1>1, <2>2, <5>1 DEF MiddleMade, MiddleAdditions, Fields!AddMiddle
        <5>2. CASE x[1] # t
          BY <5>2 DEF MiddleMade, MiddleAdditions, Fields!AddMiddle
        <5> QED
          BY <5>1, <5>2
      <4> QED
        BY <4>1 DEF MiddleMade
    <3>2. Fields!Add(0)
      BY <2>2 DEF Fields!AddMiddle
    <3> QED
      BY <1>2, <1>3, <3>1, <3>2, Ranges, AddToFields DEF FieldsAdded
  <2> QED
    BY <2>1, <2>2
<1> QED
  BY <1>4, <1>5

LEMMA AddHighInv ==
  ASSUME FieldsFit, FieldsInv, NEW t \in Threads, Fields!AddHigh(t)
  PROVE  FieldsInv'
<1> USE DEF FieldsFit, FieldsInv, FieldsTypeOK
<1>1. pc[t] = "ones" /\ i[t] = Iterations /\ t \in Nat
  BY DEF Fields!AddHigh, Threads
<1>2. LowMade' = LowMade /\ MiddleMade' = MiddleMade
  BY <1>1 DEF Fields!AddHigh, LowMade, MiddleMade, LowAdditions
<1>3. FieldsTypeOK' /\ FieldsLoop' /\ Joined'
  BY <1>1 DEF Fields!AddHigh, FieldsLoop, Joined, Threads
<1>4. \A n \in HighAdditions : 2 * n + 1 \in Threads
  BY DEF HighAdditions, Fields!OddThreads, Threads
<1>5. FieldsAdded'
  <2>1. CASE t % 2 = 1
    <3> DEFINE m == t \div 2
    <3>1. m \in HighAdditions /\ t = 2 * m + 1
      BY <1>1, <2>1 DEF HighAdditions, Fields!OddThreads, Threads
    <3>2. m \notin HighMade
      BY <1>1, <3>1 DEF HighMade
    <3>3. HighMade' = HighMade \cup {m}
      <4>1. ASSUME NEW n \in HighAdditions
            PROVE  n \in HighMade' <=> n \in HighMade \/ n = m
        <5>1. n \in Int
          BY DEF HighAdditions
        <5>2. 2 * n + 1 \in Threads
          BY <1>4
        <5>3. 2 * n + 1 = t <=> n = m
          <6> HIDE DEF m
          <6> QED BY <3>1, <5>1 DEF HighAdditions
        <5> QED
          BY <5>2, <5>3 DEF HighMade, Fields!AddHigh
      <4> QED
        BY <3>1, <4>1 DEF HighMade
    <3>4. /\ Cardinality(HighMade') = Cardinality(HighMade) + 1
          /\ Cardinality(HighMade) \in Nat
      <4>1. IsFiniteSet(HighMade)
        BY HighFinite DEF HighMade
      <4> QED
        BY <3>2, <3>3, <4>1, FS_AddElement, FS_CardinalityType
    <3>5. Fields!High \in Nat
      BY DEF Fields!High
    <3>6. Fields!Add(Fields!High)
      <4>1. 1 * Fields!High = Fields!High
        BY <3>5
      <4> QED
        BY <2>1, <4>1 DEF Fields!AddHigh
    <3>7. (Cardinality(HighMade) + 1) * Fields!High
            = Cardinality(HighMade) * Fields!High + Fields!High
      BY <3>4, <3>5
    <3> DEFINE l == Cardinality(LowMade) + Cardinality(MiddleMade) * LowSize
               h == Cardinality(HighMade) * Fields!High
               H == Fields!High
    <3>8. l \in Int /\ h \in Int /\ H \in Int
      BY Ranges, <3>5
    <3>9. l + (h + H) = l + h + H
      <4> HIDE DEF l, h, H
      <4> QED BY <3>8
    <3> QED
      BY <1>2, <3>4, <3>5, <3>6, <3>7, <3>9, AddToFields
  <2>2. CASE t % 2 # 1
    <3>1. HighMade' = HighMade
      <4>1. \A n \in HighAdditions : 2 * n + 1 # t
        BY <1>1, <2>2 DEF HighAdditions, Fields!OddThreads
      <4> QED
        BY <1>4, <4>1 DEF HighMade, Fields!AddHigh
    <3>2. Fields!Add(0)
      <4>1. t % 2 = 0 /\ 0 * Fields!High = 0
        BY <1>1, <2>2 DEF Fields!High
      <4> QED
        BY <4>1 DEF Fields!AddHigh
    <3> QED
      BY <1>2, <3>1, <3>2, Ranges, AddToFields DEF FieldsAdded
  <2> QED
    BY <2>1, <2>2
<1> QED
  BY <1>3, <1>5

LEMMA FieldsStep ==
  ASSUME FieldsFit, FieldsInv, [Fields!Next]_(Fields!vars)
  PROVE  FieldsInv'
<1>1. CASE Fields!Create \/ Fields!Join
  BY <1>1, FieldsMain
<1>2. ASSUME NEW t \in Fields!Threads, Fields!count(t)
      PROVE  FieldsInv'
  BY <1>2, AddOneInv, AddMiddleInv, AddHighInv
     DEF Fields!count, Fields!Threads, Threads
<1>3. CASE UNCHANGED Fields!vars
  BY <1>3 DEF Fields!vars, FieldsInv, FieldsTypeOK, FieldsLoop, Joined,
              FieldsAdded, LowMade, MiddleMade, HighMade
<1> QED
  BY <1>1, <1>2, <1>3 DEF Fields!Next

\* When main prints, all additions were made, and the masks find them again.
LEMMA FieldsEnd ==
  ASSUME FieldsFit, FieldsInv
  PROVE  Fields!PrintedFields
<1> DEFINE L == MtLevel * Fields!Tens
           M == MtLevel * Fields!Hundreds
           H == Fields!OddThreads
<1>1. SUFFICES ASSUME Fields!Printed
               PROVE  /\ Fields!FirstLine = L
                      /\ Fields!SecondLine = M + (H % 2) * MiddleSize
                      /\ Fields!ThirdLine = H
  BY DEF Fields!PrintedFields
<1>2. \A t \in Threads : pc[t] = "done" /\ i[t] = Iterations
  BY <1>1 DEF Fields!Printed, FieldsInv, Joined, FieldsLoop, Threads, FieldsFit
<1>3. LowMade = LowAdditions
  BY <1>2 DEF LowMade, LowAdditions, Fields!Tens, FieldsFit
<1>4. MiddleMade = MiddleAdditions
  BY <1>2 DEF MiddleMade, MiddleAdditions, Fields!Hundreds, FieldsFit
<1>5. HighMade = HighAdditions
  <2>1. \A n \in HighAdditions : 2 * n + 1 \in Threads
    BY DEF HighAdditions, Fields!OddThreads, Threads, FieldsFit
  <2> QED
    BY <1>2, <2>1 DEF HighMade
<1>6. /\ L \in 0 .. LowSize - 1
      /\ M \in 0 .. MiddleSize - 1
      /\ H \in 0 .. 3
  BY <1>3, <1>4, <1>5, Ranges, LowFinite, MiddleFinite, HighFinite
<1>7. atomic_counter = L + M * LowSize + H * Fields!High
  BY <1>3, <1>4, <1>5, LowFinite, MiddleFinite, HighFinite
     DEF FieldsInv, FieldsAdded
<1> DEFINE Q == H * MiddleSize + M
<1> HIDE DEF L, M, H
<1>8. /\ LowSize \in Nat \ {0}
      /\ MiddleSize \in Nat \ {0}
  BY DEF FieldsFit
<1>9. Q \in Nat /\ atomic_counter = Q * LowSize + L
  BY <1>6, <1>7, <1>8 DEF Fields!High
<1>10. Fields!FirstLine = L /\ atomic_counter \div LowSize = Q
  <2> HIDE DEF Q
  <2> QED BY <1>6, <1>8, <1>9, DivisionOfSum DEF Fields!FirstLine
<1>11. Fields!SecondLine = M + (H % 2) * MiddleSize
  <2>1. H \div 2 \in Nat /\ H % 2 \in 0 .. 1 /\ H = 2 * (H \div 2) + (H % 2)
    BY <1>6
  <2> DEFINE q == H \div 2
             r == H % 2
  <2>2. Q = q * (2 * MiddleSize) + (r * MiddleSize + M)
    <3>1. H * MiddleSize = (2 * q + r) * MiddleSize
      BY <2>1
    <3>2. q \in Nat /\ r \in Nat
      BY <2>1
    <3> HIDE DEF q, r
    <3>3. (2 * q + r) * MiddleSize = q * (2 * MiddleSize) + r * MiddleSize
      BY <1>8, <3>2
    <3>4. q * (2 * MiddleSize) \in Int /\ r * MiddleSize \in Int
      BY <1>8, <3>2
    <3> QED
      BY <1>6, <3>1, <3>3, <3>4
  <2>3. r * MiddleSize + M \in 0 .. 2 * MiddleSize - 1
    <3>1. r = 0 \/ r = 1
      BY <2>1
    <3> HIDE DEF r
    <3>2. r * MiddleSize \in { 0, MiddleSize }
      BY <3>1, <1>8
    <3> QED
      BY <1>6, <1>8, <3>2
  <2>4. 2 * MiddleSize \in Nat \ {0}
    BY <1>8
  <2>5. Q % (2 * MiddleSize) = r * MiddleSize + M
    <3> DEFINE W == 2 * MiddleSize
               R == r * MiddleSize + M
    <3>1. q \in Nat /\ R \in 0 .. W - 1 /\ W \in Nat \ {0} /\ Q = q * W + R
      BY <2>1, <2>2, <2>3, <2>4
    <3> HIDE DEF Q, W, R, q
    <3>2. (q * W + R) % W = R
      BY <3>1, DivisionOfSum
    <3> QED
      BY <3>1, <3>2 DEF W, R
  <2>6. r * MiddleSize + M = M + r * MiddleSize
    <3>1. r * MiddleSize \in Int
      BY <1>8, <2>1
    <3> HIDE DEF r
    <3> QED BY <1>6, <3>1
  <2> QED
    BY <1>10, <2>5, <2>6 DEF Fields!SecondLine
<1>12. Fields!ThirdLine = H
  <2>1. /\ Fields!High \in Nat \ {0}
        /\ M * LowSize + L \in 0 .. Fields!High - 1
    BY <1>6, NoCarry
  <2>2. atomic_counter = H * Fields!High + (M * LowSize + L)
    BY <1>6, <1>7, <1>8, <2>1
  <2> DEFINE R == M * LowSize + L
  <2> HIDE DEF R
  <2>3. R \in 0 .. Fields!High - 1 /\ atomic_counter = H * Fields!High + R
    BY <2>1, <2>2 DEF R
  <2> DEFINE B == Fields!High
  <2>4. H \in Nat /\ B \in Nat \ {0} /\ R \in 0 .. B - 1 /\ atomic_counter = H * B + R
    BY <1>6, <2>1, <2>3
  <2> HIDE DEF B
  <2>5. (H * B + R) \div B = H
    BY <2>4, DivisionOfSum
  <2> QED
    BY <2>4, <2>5 DEF Fields!ThirdLine, B
<1> QED
  BY <1>10, <1>11, <1>12

\* No interleaving loses an addition or lets one field run over into the next,
\* for any number of threads and iterations whose counts the fields have room
\* for, as for the 4 threads and 1000 iterations of the program.
THEOREM FieldsCorrect ==
  ASSUME FieldsFit
  PROVE  Fields!Spec => []Fields!PrintedFields
<1>1. Fields!Init => FieldsInv
  BY FieldsInit
<1>2. FieldsInv /\ [Fields!Next]_(Fields!vars) => FieldsInv'
  BY FieldsStep
<1>3. FieldsInv => Fields!PrintedFields
  BY FieldsEnd
<1> QED
  BY <1>1, <1>2, <1>3, PTL DEF Fields!Spec
-----------------------------------------------------------------------------
(***************************************************************************)
(* demo_jmp.c: the functions take turns.                                   *)
(***************************************************************************)
VARIABLES currentThread, env, stack, place, lines

Jumps == INSTANCE JumpDemo WITH pc <- place, i <- lines

JumpsTypeOK ==
  /\ currentThread \in 0 .. 1
  /\ lines \in [ 0 .. 1 -> Nat ]
  /\ env \in [ 0 .. 1 -> [ stack : 0 .. 2, pc : { "none", "start", "return" } ] ]
  /\ place \in { "setup", "jump", "start", "loop", "switch", "return" }

\* The buffers lead nowhere until setup has filled them, which is done once.
\* After that each leads back into switchThreads on its own stack, or to the
\* beginning of its function, which then runs or has printed nothing.
Buffers ==
  IF place = "setup"
    THEN currentThread = 0 /\ lines[0] = 0 /\ lines[1] = 0
    ELSE \A c \in 0 .. 1 :
           /\ env[c].stack = c
           /\ env[c].pc \in { "start", "return" }
           /\ env[c].pc = "start" /\ (c # stack \/ place = "jump") =>
                lines[c] = 0

Running ==
  /\ place \notin { "setup", "jump" } => stack = currentThread
  /\ place = "start" => lines[currentThread] = 0

\* f is ahead of g by a turn from its own third line to the fifth line of g;
\* who does not run has printed all lines of its turn.
Turns ==
  LET ahead == (lines[0] \div 3) - (lines[1] \div 5)
      f == lines[0] % 3
      g == lines[1] % 5
  IN IF place = "switch"
       THEN f = 0 /\ g = 0 /\ ahead = 1 - currentThread
       ELSE /\ ahead = currentThread
            /\ place \in { "setup", "jump" } \/ currentThread = 1 => f = 0
            /\ place \in { "setup", "jump" } \/ currentThread = 0 => g = 0

JumpsInv == JumpsTypeOK /\ Buffers /\ Running /\ Turns

LEMMA JumpsInit == ASSUME Jumps!Init PROVE JumpsInv
BY DEF Jumps!Init, Jumps!Contexts, JumpsInv, JumpsTypeOK, Buffers, Running, Turns

LEMMA JumpsStep ==
  ASSUME JumpsInv, [Jumps!Next]_(Jumps!vars)
  PROVE  JumpsInv'
<1> USE DEF JumpsInv, JumpsTypeOK
<1>1. CASE Jumps!setup
  BY <1>1 DEF Jumps!setup, Jumps!Contexts, Buffers, Running, Turns
<1>2. CASE Jumps!Start
  <2>1. lines' = lines
    BY <1>2 DEF Jumps!Start, Running
  <2> QED
    BY <1>2, <2>1 DEF Jumps!Start, Buffers, Running, Turns
<1>3. CASE Jumps!PrintLine
  <2>1. stack = currentThread /\ stack \in 0 .. 1
    BY <1>3 DEF Jumps!PrintLine, Running
  <2>2. /\ lines' = [ lines EXCEPT ![stack] = lines[stack] + 1 ]
        /\ place' \in { "loop", "switch" }
        /\ place' = "switch" <=> lines'[stack] % Jumps!Lines(stack) = 0
        /\ UNCHANGED << currentThread, env, stack >>
    BY <1>3 DEF Jumps!PrintLine
  <2>3. JumpsTypeOK' /\ Running' /\ Buffers'
    BY <1>3, <2>1, <2>2 DEF Jumps!PrintLine, Buffers, Running
  <2>4. Turns'
    <3>1. CASE stack = 0
      BY <1>3, <2>1, <2>2, <3>1 DEF Jumps!PrintLine, Jumps!Lines, Turns
    <3>2. CASE stack = 1
      BY <1>3, <2>1, <2>2, <3>2 DEF Jumps!PrintLine, Jumps!Lines, Turns
    <3> QED
      BY <2>1, <3>1, <3>2
  <2> QED
    BY <2>3, <2>4
<1>4. CASE Jumps!SetJump
  <2>1. JumpsTypeOK' /\ Running' /\ Buffers'
    BY <1>4 DEF Jumps!SetJump, Buffers, Running
  <2>2. Turns'
    BY <1>4 DEF Jumps!SetJump, Turns
  <2> QED
    BY <2>1, <2>2
<1>5. CASE Jumps!LongJump
  <2>1. JumpsTypeOK' /\ Running' /\ Buffers'
    BY <1>5 DEF Jumps!LongJump, Buffers, Running
  <2>2. Turns'
    BY <1>5 DEF Jumps!LongJump, Turns, Buffers
  <2> QED
    BY <2>1, <2>2
<1>6. CASE Jumps!Return
  BY <1>6 DEF Jumps!Return, Buffers, Running, Turns
<1>7. CASE UNCHANGED Jumps!vars
  BY <1>7 DEF Jumps!vars, Buffers, Running, Turns
<1> QED
  BY <1>1, <1>2, <1>3, <1>4, <1>5, <1>6, <1>7 DEF Jumps!Next

\* A jump goes back to where its function left off, with the variables of its
\* own stack: f and g alternate, three lines and five.
THEOREM JumpsCorrect == Jumps!Spec => []Jumps!TakesTurns
<1>1. Jumps!Init => JumpsInv
  BY JumpsInit
<1>2. JumpsInv /\ [Jumps!Next]_(Jumps!vars) => JumpsInv'
  BY JumpsStep
<1>3. JumpsInv => Jumps!TakesTurns
  BY DEF JumpsInv, JumpsTypeOK, Buffers, Running, Turns, Jumps!TakesTurns
<1> QED
  BY <1>1, <1>2, <1>3, PTL DEF Jumps!Spec
-----------------------------------------------------------------------------
(***************************************************************************)
(* demo_itimer.c: no expiration is printed twice.                          *)
(***************************************************************************)
VARIABLES gotit, loop, expired, got

Timer == INSTANCE IntervalTimer WITH pc <- loop

\* A flag that is set, or was when it was tested, has an expiration that was
\* not printed.
TimerInv ==
  /\ gotit \in 0 .. 1
  /\ expired \in Nat
  /\ got \in Nat
  /\ got <= expired
  /\ gotit = 1 /\ loop # "reset" => got < expired
  /\ loop = "print" => got < expired

\* A "Got it!" stands for an expiration of its own, wherever the handler
\* interrupts the loop.
THEOREM TimerCorrect == Timer!Spec => []Timer!GotEachOnce
<1>1. Timer!Init => TimerInv
  BY DEF Timer!Init, TimerInv
<1>2. TimerInv /\ [Timer!Next]_(Timer!vars) => TimerInv'
  <2> SUFFICES ASSUME TimerInv, [Timer!Next]_(Timer!vars) PROVE TimerInv'
    OBVIOUS
  <2>1. CASE Timer!InstallHandler \/ Timer!StartTimer
    BY <2>1 DEF Timer!InstallHandler, Timer!StartTimer, TimerInv
  <2>2. CASE Timer!timer_handler
    BY <2>2 DEF Timer!timer_handler, TimerInv
  <2>3. CASE Timer!Test \/ Timer!PrintGotIt \/ Timer!Reset
    BY <2>3 DEF Timer!Test, Timer!PrintGotIt, Timer!Reset, TimerInv
  <2>4. CASE UNCHANGED Timer!vars
    BY <2>4 DEF Timer!vars, TimerInv
  <2> QED
    BY <2>1, <2>2, <2>3, <2>4 DEF Timer!Next
<1>3. TimerInv => Timer!GotEachOnce
  BY DEF TimerInv, Timer!GotEachOnce
<1> QED
  BY <1>1, <1>2, <1>3, PTL DEF Timer!Spec
-----------------------------------------------------------------------------
(***************************************************************************)
(* osm.cpp: what the time measurements return.                             *)
(***************************************************************************)
VARIABLES now, t1, t2, iteration, phase, result

Measure == INSTANCE TimeMeasurement
             WITH Iterations <- Iterations, i <- iteration, pc <- phase

\* The two looks at the clock, in this order.
MeasureInv ==
  /\ now \in Nat
  /\ t1 \in [ tv_sec : Nat, tv_usec : Nat ]
  /\ t2 \in [ tv_sec : Nat, tv_usec : Nat ]
  /\ Measure!Microseconds(t1) <= now
  /\ phase = "return" \/ phase = "call" =>
       /\ Measure!Microseconds(t1) <= Measure!Microseconds(t2)
       /\ Measure!Microseconds(t2) <= now
  /\ phase = "call" /\ result # 0 =>
       result = Measure!Second
                  + (Measure!Microseconds(t2) - Measure!Microseconds(t1))

\* A struct timeval has the whole time.
LEMMA TimevalExact ==
  ASSUME NEW time \in Nat
  PROVE  /\ Measure!Timeval(time) \in [ tv_sec : Nat, tv_usec : Nat ]
         /\ Measure!Microseconds(Measure!Timeval(time)) = time
BY DEF Measure!Timeval, Measure!Microseconds, Measure!Second

\* Each measurement comes out a second too long, however long the loop takes.
THEOREM MeasurementsCorrect == Measure!Spec => []Measure!SecondTooMuch
<1> USE DEF MeasureInv
<1>1. Measure!Init => MeasureInv
  <2> SUFFICES ASSUME Measure!Init PROVE MeasureInv
    OBVIOUS
  <2> QED
    BY TimevalExact DEF Measure!Init
<1>2. MeasureInv /\ [Measure!Next]_(Measure!vars) => MeasureInv'
  <2> SUFFICES ASSUME MeasureInv, [Measure!Next]_(Measure!vars)
               PROVE  MeasureInv'
    OBVIOUS
  <2>1. CASE Measure!Passes
    BY <2>1 DEF Measure!Passes, Measure!Microseconds, Measure!Second
  <2>2. CASE Measure!Begin
    BY <2>2, TimevalExact DEF Measure!Begin
  <2>3. CASE Measure!Code
    BY <2>3 DEF Measure!Code, Measure!Microseconds
  <2>4. CASE Measure!End
    BY <2>4, TimevalExact DEF Measure!End
  <2>5. CASE Measure!Return
    BY <2>5 DEF Measure!Return, Measure!elapsedTime, Measure!Microseconds,
                Measure!Second
  <2>6. CASE UNCHANGED Measure!vars
    BY <2>6 DEF Measure!vars, Measure!Microseconds
  <2> QED
    BY <2>1, <2>2, <2>3, <2>4, <2>5, <2>6 DEF Measure!Next
<1>3. MeasureInv => Measure!SecondTooMuch
  BY DEF Measure!SecondTooMuch
<1> QED
  BY <1>1, <1>2, <1>3, PTL DEF Measure!Spec
=============================================================================
