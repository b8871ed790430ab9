---------------------------- MODULE BarrierProofs ----------------------------
(***************************************************************************)
(* Proofs about the barrier, for every number of threads.                  *)
(***************************************************************************)
EXTENDS Barrier, FiniteSetTheorems, TLAPS

Waiting == { t \in Threads : at[t] = "wait" }

\* The mutex is held by the thread that is between taking and releasing it.
HolderInside ==
  \A t \in Threads : at[t] \in { "count", "unlock" } <=> holder = t

\* The counter is the number of threads that wait for the current round.
CountsWaiting == count = Cardinality(Waiting)

\* Where a thread is when the barrier has been released r times: those that
\* were woken have yet to finish call r, the others have made r calls.
AtRound(r) ==
  \A t \in Threads :
    passed[t] = IF at[t] \in { "woken", "unlock" } THEN r - 1 ELSE r

BarrierInv ==
  /\ BarrierTypeOK
  /\ HolderInside
  /\ CountsWaiting
  /\ \E r \in Nat : AtRound(r)
-----------------------------------------------------------------------------
LEMMA ThreadsFinite ==
  /\ IsFiniteSet(Threads)
  /\ Cardinality(Threads) = MtLevel
  /\ Free \notin Threads
BY BarrierAssumption, FS_Interval DEF Threads, Free

LEMMA WaitingFinite == IsFiniteSet(Waiting) /\ Cardinality(Waiting) \in Nat
<1>1. Waiting \in SUBSET Threads
  BY DEF Waiting
<1>2. IsFiniteSet(Waiting)
  BY <1>1, ThreadsFinite, FS_Subset
<1> QED
  BY <1>2, FS_CardinalityType

\* The last caller finds all the others waiting.
LEMMA LastFindsOthersWaiting ==
  ASSUME BarrierInv, NEW t \in Threads, at[t] = "count", IsLast
  PROVE  \A u \in Threads \ {t} : at[u] = "wait"
<1> DEFINE Others == Threads \ {t}
<1>1. IsFiniteSet(Others) /\ Cardinality(Others) = MtLevel - 1
  BY ThreadsFinite, FS_RemoveElement
<1>2. Waiting \in SUBSET Others
  BY DEF Waiting
<1>3. Cardinality(Waiting) >= MtLevel - 1
  BY BarrierAssumption, WaitingFinite DEF BarrierInv, CountsWaiting, IsLast
<1>4. Cardinality(Waiting) <= Cardinality(Others)
  BY <1>1, <1>2, FS_Subset
<1>5. Cardinality(Others) = Cardinality(Waiting)
  BY <1>1, <1>3, <1>4, WaitingFinite, BarrierAssumption
<1>6. Others = Waiting
  BY <1>1, <1>2, <1>5, FS_Subset
<1> QED
  BY <1>6 DEF Waiting

LEMMA InitBarrierInv == BarrierInit => BarrierInv
<1> SUFFICES ASSUME BarrierInit PROVE BarrierInv
  OBVIOUS
<1>1. BarrierTypeOK /\ HolderInside
  BY BarrierAssumption, ThreadsFinite
  DEF BarrierInit, BarrierTypeOK, HolderInside, Points
<1>2. Waiting = {}
  BY DEF BarrierInit, Waiting
<1>3. CountsWaiting
  BY <1>2, FS_EmptySet DEF BarrierInit, CountsWaiting
<1>4. AtRound(0)
  BY DEF BarrierInit, AtRound
<1> QED
  BY <1>1, <1>3, <1>4 DEF BarrierInv

\* A thread that is not the last and waits adds one to the waiting threads.
LEMMA ArriveCounts ==
  ASSUME BarrierInv, NEW t \in Threads, Arrive(t)
  PROVE  CountsWaiting'
<1>1. Waiting' = Waiting \cup {t} /\ t \notin Waiting
  BY DEF Arrive, Waiting, BarrierInv, BarrierTypeOK
<1>2. Cardinality(Waiting') = Cardinality(Waiting) + 1
  BY <1>1, WaitingFinite, FS_AddElement
<1> QED
  BY <1>2 DEF Arrive, CountsWaiting, BarrierInv

\* Every step of the code of the barrier preserves the invariant.
LEMMA BarrierStepInv ==
  ASSUME BarrierInv, NEW t \in Threads, BarrierStep(t)
  PROVE  BarrierInv'
<1> USE ThreadsFinite
<1>a. BarrierTypeOK /\ HolderInside /\ CountsWaiting
  BY DEF BarrierInv
<1>r. PICK r \in Nat : AtRound(r)
  BY DEF BarrierInv
<1>1. CASE Enter(t)
  <2>1. BarrierTypeOK' /\ HolderInside'
    BY <1>a, <1>1 DEF Enter, BarrierTypeOK, HolderInside, Points
  <2>2. Waiting' = Waiting
    BY <1>a, <1>1 DEF Enter, Waiting, BarrierTypeOK
  <2>3. AtRound(r)'
    BY <1>a, <1>r, <1>1 DEF Enter, AtRound, BarrierTypeOK
  <2> QED
    BY <1>a, <1>1, <2>1, <2>2, <2>3 DEF Enter, BarrierInv, CountsWaiting
<1>2. CASE Acquire(t)
  <2>1. BarrierTypeOK' /\ HolderInside'
    BY <1>a, <1>2 DEF Acquire, BarrierTypeOK, HolderInside, Points
  <2>2. Waiting' = Waiting
    BY <1>a, <1>2 DEF Acquire, Waiting, BarrierTypeOK
  <2>3. AtRound(r)'
    BY <1>a, <1>r, <1>2 DEF Acquire, AtRound, BarrierTypeOK
  <2> QED
    BY <1>a, <1>2, <2>1, <2>2, <2>3 DEF Acquire, BarrierInv, CountsWaiting
<1>3. CASE Arrive(t)
  <2>1. BarrierTypeOK' /\ HolderInside'
    BY <1>a, <1>3, BarrierAssumption
    DEF Arrive, IsLast, BarrierTypeOK, HolderInside, Points
  <2>2. CountsWaiting'
    BY <1>3, ArriveCounts
  <2>3. AtRound(r)'
    BY <1>a, <1>r, <1>3 DEF Arrive, AtRound, BarrierTypeOK
  <2> QED
    BY <2>1, <2>2, <2>3 DEF BarrierInv
<1>4. CASE Release(t)
  <2>1. \A u \in Threads : at[u] = IF u = t THEN "count" ELSE "wait"
    BY <1>4, LastFindsOthersWaiting DEF Release
  <2>2. at' = [ u \in Threads |-> IF u = t THEN "unlock" ELSE "woken" ]
    BY <1>4, <2>1 DEF Release, Broadcast
  <2>3. BarrierTypeOK' /\ HolderInside'
    BY <1>a, <1>4, <2>1, <2>2, BarrierAssumption
    DEF Release, CountReset, BarrierTypeOK, HolderInside, Points
  <2>4. Waiting' = {}
    BY <2>2 DEF Waiting
  <2>5. CountsWaiting'
    BY <1>4, <2>4, FS_EmptySet DEF Release, CountReset, CountsWaiting
  <2>6. AtRound(r + 1)'
    BY <1>r, <1>4, <2>1, <2>2 DEF Release, AtRound
  <2> QED
    BY <2>3, <2>5, <2>6 DEF BarrierInv
<1>5. CASE Reacquire(t)
  <2>1. BarrierTypeOK' /\ HolderInside'
    BY <1>a, <1>5 DEF Reacquire, BarrierTypeOK, HolderInside, Points
  <2>2. Waiting' = Waiting
    BY <1>a, <1>5 DEF Reacquire, Waiting, BarrierTypeOK
  <2>3. AtRound(r)'
    BY <1>a, <1>r, <1>5 DEF Reacquire, AtRound, BarrierTypeOK
  <2> QED
    BY <1>a, <1>5, <2>1, <2>2, <2>3 DEF Reacquire, BarrierInv, CountsWaiting
<1>6. CASE Leave(t)
  <2>1. BarrierTypeOK' /\ HolderInside'
    BY <1>a, <1>6 DEF Leave, BarrierTypeOK, HolderInside, Points
  <2>2. Waiting' = Waiting
    BY <1>a, <1>6 DEF Leave, Waiting, BarrierTypeOK
  <2>3. AtRound(r)'
    BY <1>a, <1>r, <1>6 DEF Leave, AtRound, BarrierTypeOK
  <2> QED
    BY <1>a, <1>6, <2>1, <2>2, <2>3 DEF Leave, BarrierInv, CountsWaiting
<1> QED
  BY <1>1, <1>2, <1>3, <1>4, <1>5, <1>6 DEF BarrierStep, Inside

LEMMA BarrierStutterInv ==
  ASSUME BarrierInv, UNCHANGED barrierVars
  PROVE  BarrierInv'
BY DEF BarrierInv, barrierVars, BarrierTypeOK, HolderInside, CountsWaiting,
       Waiting, AtRound

LEMMA RoundsApartInv == BarrierInv => RoundsApart
<1> SUFFICES ASSUME BarrierInv, NEW t \in Threads, NEW u \in Threads
             PROVE  passed[t] <= Entered[u]
  BY DEF RoundsApart
<1>1. PICK r \in Nat : AtRound(r)
  BY DEF BarrierInv
<1>2. passed[t] <= r /\ r <= Entered[u]
  BY <1>1 DEF BarrierInv, BarrierTypeOK, AtRound, Entered
<1> QED
  BY <1>1, <1>2 DEF BarrierInv, BarrierTypeOK, Entered

LEMMA RoundsApartNext == BarrierInv' => RoundsApart'
BY RoundsApartInv, PTL

\* A step of the barrier is a step of the abstract barrier, or none.
LEMMA RoundsStep ==
  ASSUME BarrierInv, NEW t \in Threads, BarrierStep(t)
  PROVE  [ Rounds!Next ]_<< Entered, passed >>
<1>a. BarrierTypeOK /\ RoundsApart
  BY RoundsApartInv DEF BarrierInv
<1>1. CASE Enter(t)
  <2>1. passed[t] = Entered[t]
    BY <1>a, <1>1 DEF Enter, Entered, BarrierTypeOK
  <2>2. \A u \in Threads :
          Entered'[u] = IF u = t THEN Entered[t] + 1 ELSE Entered[u]
    BY <1>a, <1>1 DEF Enter, Entered, BarrierTypeOK
  <2>3. Entered' = [ Entered EXCEPT ![t] = @ + 1 ]
    BY <2>2 DEF Entered
  <2> QED
    BY <1>1, <2>1, <2>3 DEF Enter, Rounds!Next, Rounds!Enter
<1>2. CASE Inside(t)
  <2>1. passed' = passed /\ \A u \in Threads : at[u] = "out" <=> at'[u] = "out"
    BY <1>a, <1>2
    DEF Inside, Acquire, Arrive, Release, Reacquire, Broadcast, BarrierTypeOK
  <2> QED
    BY <2>1 DEF Entered
<1>3. CASE Leave(t)
  <2>1. Entered' = Entered /\ passed[t] < Entered[t]
    BY <1>a, <1>3 DEF Leave, Entered, BarrierTypeOK
  <2>2. Entered[t] = passed'[t] /\ passed' = [ passed EXCEPT ![t] = @ + 1 ]
    BY <1>a, <1>3 DEF Leave, Entered, BarrierTypeOK
  <2>3. RoundsApart'
    BY BarrierStepInv, RoundsApartNext
  <2>4. \A u \in Threads : Entered[t] <= Entered[u]
    BY <2>1, <2>2, <2>3 DEF RoundsApart
  <2> QED
    BY <2>1, <2>2, <2>4 DEF Rounds!Next, Rounds!Leave
<1> QED
  BY <1>1, <1>2, <1>3 DEF BarrierStep
-----------------------------------------------------------------------------
\* The mutex, the counter and the rounds agree at every moment.
THEOREM BarrierCorrect == BarrierSpec => []BarrierInv
<1>1. BarrierInv /\ [BarrierNext]_barrierVars => BarrierInv'
  BY BarrierStepInv, BarrierStutterInv DEF BarrierNext
<1> QED
  BY InitBarrierInv, <1>1, PTL DEF BarrierSpec

\* No call of barrier() returns before every thread has made as many calls,
\* for any number of threads and of rounds.
THEOREM RoundsNeverMix == BarrierSpec => []RoundsApart
BY BarrierCorrect, RoundsApartInv, PTL

\* The barrier implements the abstract barrier.
THEOREM BarrierImplements == BarrierSpec => RoundsImplemented
<1>1. BarrierInit => Rounds!Init
  BY DEF BarrierInit, Rounds!Init, Entered
<1>2. BarrierInv /\ [BarrierNext]_barrierVars => [Rounds!Next]_<< Entered, passed >>
  <2>1. UNCHANGED barrierVars => UNCHANGED << Entered, passed >>
    BY DEF barrierVars, Entered
  <2> QED
    BY <2>1, RoundsStep DEF BarrierNext
<1> QED
  BY BarrierCorrect, <1>1, <1>2, PTL
  DEF BarrierSpec, RoundsImplemented, Rounds!Spec, Rounds!vars
=============================================================================
