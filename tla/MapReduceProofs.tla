--------------------------- MODULE MapReduceProofs ---------------------------
(***************************************************************************)
(* Proofs about the map-reduce framework, for every number of threads,     *)
(* items and keys and everything the client's map may emit.                *)
(***************************************************************************)
EXTENDS MapReduce, BarrierProofs

Mapping == { "none", "start", "map_lock", "map_pop", "map" }
BeforeFirst == Mapping \cup { "barrier1" }
Between == { "shuffle_stage", "shuffle", "barrier2" }
AfterSecond == { "reduce_stage", "reduce_lock", "reduce_pop", "reduce",
                 "emit3", "done" }

\* A thread has passed as many barriers as its place in map_reduce_call says,
\* is in the code of the barrier only when it calls it, and only thread 0
\* shuffles.
Control ==
  \A t \in Threads :
    /\ passed[t] = IF pc[t] \in BeforeFirst THEN 0
                   ELSE IF pc[t] \in Between THEN 1 ELSE 2
    /\ at[t] # "out" => AtBarrier(t)
    /\ pc[t] = "shuffle" => t = 0

\* The stage is not ahead of the threads, nor the client's report of it.
StageReached ==
  /\ stage >= SHUFFLE_STAGE => \E t \in Threads : passed[t] >= 1
  /\ stage = REDUCE_STAGE => \E t \in Threads : passed[t] >= 2
  /\ report.stage <= stage

\* An item is left, mapped by one thread, or mapped.
Maps(t, i) == pc[t] = "map" /\ item[t] = i
ItemsMapped ==
  /\ \A t \in Threads : pc[t] = "map" => item[t] \in Items /\ item[t] > inputVec
  /\ \A i \in Items : \A t, u \in Threads : Maps(t, i) /\ Maps(u, i) => t = u
  /\ \A i \in Items :
       mapped[i] = IF i <= inputVec \/ \E t \in Threads : Maps(t, i) THEN 0
                                                                     ELSE 1
  /\ \A t \in Threads : pc[t] \notin Mapping => inputVec = 0

\* The pairs of the items that are mapped are in the threads' vectors.
PairsEmitted ==
  \A p \in Pairs :
    (\E t \in Threads : p \in interVec[t]) <=>
      p[1] \in Emits[p[2]] /\ mapped[p[2]] = 1

\* The map holds the vectors that are merged; nothing is reduced before all
\* of them are.
MapMerged ==
  /\ pc[0] \in BeforeFirst \cup { "shuffle_stage" } => merged = 0
  /\ pc[0] \in { "barrier2" } \cup AfterSecond => merged = MtLevel
  /\ merged < MtLevel =>
       /\ map = { p \in Pairs : \E t \in 0 .. merged - 1 : p \in interVec[t] }
       /\ \A k \in Keys : given[k] = << >>

\* When they are, the group of a key is in the map, with one thread that is
\* about to reduce it, or reduced.
Holds(t, k) == pc[t] = "reduce" /\ group[t] = Want(k)
GroupsReduced ==
  /\ \A t \in Threads : pc[t] \in { "reduce", "emit3" } =>
       \E k \in Keys : Want(k) # {} /\ group[t] = Want(k)
  /\ \A k \in Keys :
       \/ given[k] = << >>
       \/ given[k] = << Want(k) >> /\ Want(k) # {}
  /\ merged = MtLevel =>
       \A k \in Keys :
         /\ GroupOf(map, k) \in { {}, Want(k) }
         /\ Want(k) # {} =>
              ( given[k] = << >> <=>
                  GroupOf(map, k) = Want(k) \/ \E t \in Threads : Holds(t, k) )
  /\ \A k \in Keys : Want(k) # {} =>
       \A t, u \in Threads : Holds(t, k) =>
         GroupOf(map, k) = {} /\ (Holds(u, k) => t = u)
  /\ \A t \in Threads : pc[t] = "done" => map = {}

\* No count exceeds the total it is a part of.
CountsBounded ==
  /\ inputVec <= size
  /\ pc[0] \in { "barrier2" } \cup AfterSecond =>
       Cardinality(KeysOf(map)) <= size

JobInv ==
  /\ JobTypeOK
  /\ BarrierInv
  /\ Control
  /\ StageReached
  /\ ItemsMapped
  /\ PairsEmitted
  /\ MapMerged
  /\ GroupsReduced
  /\ CountsBounded
-----------------------------------------------------------------------------
(***************************************************************************)
(* Facts about the operators                                               *)
(***************************************************************************)
LEMMA KeysFinite ==
  ASSUME NEW S \in SUBSET Pairs
  PROVE  /\ IsFiniteSet(KeysOf(S))
         /\ Cardinality(KeysOf(S)) \in Nat
         /\ \A T \in SUBSET S : Cardinality(KeysOf(T)) <= Cardinality(KeysOf(S))
<1>1. IsFiniteSet(Keys)
  BY MapReduceAssumption, FS_Interval DEF Keys
<1>2. KeysOf(S) \in SUBSET Keys
  BY DEF KeysOf, Pairs
<1>3. IsFiniteSet(KeysOf(S))
  BY <1>1, <1>2, FS_Subset
<1>4. ASSUME NEW T \in SUBSET S
      PROVE  Cardinality(KeysOf(T)) <= Cardinality(KeysOf(S))
  <2>1. KeysOf(T) \in SUBSET KeysOf(S)
    BY DEF KeysOf
  <2> QED
    BY <1>3, <2>1, FS_Subset
<1> QED
  BY <1>3, <1>4, FS_CardinalityType

\* The share of a part in a whole, in percent.
LEMMA PercentInRange ==
  ASSUME NEW a \in Nat, NEW b \in Nat, a <= b
  PROVE  PercentLeft(a, b) \in {NaN} \cup 0 .. 100
<1>1. CASE b = 0
  BY <1>1 DEF PercentLeft
<1>2. CASE b > 0
  <2> DEFINE c == b - a
             q == (100 * c) \div b
  <2>1. c \in 0 .. b
    OBVIOUS
  <2>2. q \in Int /\ q * b <= 100 * c /\ 100 * c < (q + 1) * b
    BY <1>2, <2>1
  <2>3. q >= 0
    <3>1. ASSUME q + 1 <= 0 PROVE FALSE
      <4>1. (q + 1) * b <= 0
        BY <1>2, <2>2, <3>1
      <4> QED
        BY <2>1, <2>2, <4>1
    <3> QED
      BY <2>2, <3>1
  <2>4. q <= 100
    <3>1. ASSUME q >= 101 PROVE FALSE
      <4>1. q * b >= 101 * b
        BY <1>2, <2>2, <3>1
      <4> QED
        BY <1>2, <2>1, <2>2, <4>1
    <3> QED
      BY <2>2, <3>1
  <2> QED
    BY <1>2, <2>2, <2>3, <2>4 DEF PercentLeft
<1> QED
  BY <1>1, <1>2

LEMMA ThreadZero == 0 \in Threads
BY BarrierAssumption DEF Threads

\* The group of a key that somebody emits is no other key's group.
LEMMA WantInjective ==
  ASSUME NEW j \in Keys, NEW k \in Keys, Want(j) # {}, Want(j) = Want(k)
  PROVE  j = k
BY DEF Want

LEMMA WantIsPairs ==
  ASSUME NEW k \in Keys
  PROVE  /\ Want(k) = { p \in Pairs : p[1] = k /\ p[1] \in Emits[p[2]] }
         /\ KeysOf(Want(k)) \subseteq {k}
         /\ Want(k) # {} => KeysOf(Want(k)) = {k}
<1>1. Want(k) = { p \in Pairs : p[1] = k /\ p[1] \in Emits[p[2]] }
  BY DEF Want, Job!Sources, Pairs
<1> QED
  BY <1>1 DEF KeysOf
-----------------------------------------------------------------------------
(***************************************************************************)
(* Type correctness                                                        *)
(***************************************************************************)
LEMMA TypeInit == Init => JobTypeOK
BY MapReduceAssumption, BarrierAssumption
DEF Init, JobTypeOK, Labels, ClientLabels, Threads, Free, Client, Pairs, NaN,
    UNDEFINED_STAGE, REDUCE_STAGE

\* A thread's place changes to another place.
LEMMA GotoType ==
  ASSUME JobTypeOK, NEW t \in Threads, NEW l \in Labels, Goto(t, l)
  PROVE  pc' \in [ Threads -> Labels ]
BY DEF JobTypeOK, Goto

LEMMA TypeWork ==
  ASSUME JobTypeOK, BarrierInv, ItemsMapped, NEW t \in Threads, Work(t)
  PROVE  JobTypeOK'
<1> USE DEF data, results, polled, calls
<1>0. t \in Threads \cup { Free, Client } /\ Free \in Threads \cup { Free, Client }
  OBVIOUS
<1>1. CASE Start(t)
  BY <1>0, <1>1
  DEF Start, JobTypeOK, Goto, Labels, UNDEFINED_STAGE, MAP_STAGE, REDUCE_STAGE
<1>2. CASE MapLock(t)
  BY <1>0, <1>2
  DEF MapLock, JobTypeOK, Goto, Labels
<1>3. CASE MapPop(t)
  <2>1. inputVec' \in 0 .. NumItems
    BY <1>3, MapReduceAssumption DEF MapPop, HasInput, JobTypeOK
  <2>2. item' \in [ Threads -> 0 .. NumItems ]
    BY <1>3 DEF MapPop, JobTypeOK
  <2>3. pc' \in [ Threads -> Labels ]
    BY <1>3, GotoType DEF MapPop, Labels
  <2> QED
    BY <1>0, <1>3, <2>1, <2>2, <2>3 DEF MapPop, JobTypeOK
<1>4. CASE LeaveBarrier(t)
  BY <1>0, <1>4
  DEF LeaveBarrier, JobTypeOK, Goto, Labels
<1>5. CASE ShuffleStage(t)
  BY <1>0, <1>5
  DEF ShuffleStage, JobTypeOK, Goto, Labels, UNDEFINED_STAGE, SHUFFLE_STAGE, REDUCE_STAGE
<1>6. CASE ReduceStage(t)
  BY <1>0, <1>6
  DEF ReduceStage, JobTypeOK, Goto, Labels, UNDEFINED_STAGE, REDUCE_STAGE
<1>7. CASE ReduceLock(t)
  BY <1>0, <1>7
  DEF ReduceLock, JobTypeOK, Goto, Labels
<1>8. CASE InBarrier(t)
  BY <1>8 DEF InBarrier, jobVars, JobTypeOK
<1>9. CASE Map(t)
  <2>1. item[t] \in Items
    BY <1>9 DEF Map, ItemsMapped
  <2>2. { << k, item[t] >> : k \in Emits[item[t]] } \in SUBSET Pairs
    BY <2>1, MapReduceAssumption DEF Pairs
  <2>3. interVec' \in [ Threads -> SUBSET Pairs ]
    BY <1>9, <2>2 DEF Map, JobTypeOK
  <2>4. mapped' \in [ Items -> Nat ]
    BY <1>9, <2>1 DEF Map, JobTypeOK
  <2>5. item' \in [ Threads -> 0 .. NumItems ]
    BY <1>9, MapReduceAssumption DEF Map, JobTypeOK
  <2> QED
    BY <1>9, <2>3, <2>4, <2>5 DEF Map, JobTypeOK, Goto, Labels
<1>10. CASE Shuffle(t)
  <2>1. CASE merged < AllContexts /\ map' = map \cup interVec[merged]
             /\ merged' = merged + 1 /\ UNCHANGED << pc, size >>
    <3>1. merged \in Threads
      BY <2>1, BarrierAssumption DEF AllContexts, JobTypeOK, Threads
    <3>2. map' \in SUBSET Pairs
      BY <2>1, <3>1 DEF JobTypeOK
    <3>3. merged' \in 0 .. MtLevel
      BY <2>1, BarrierAssumption DEF AllContexts, JobTypeOK
    <3> QED
      BY <1>10, <2>1, <3>2, <3>3 DEF Shuffle, JobTypeOK
  <2>2. CASE size' = Cardinality(KeysOf(map)) /\ Goto(t, "barrier2")
             /\ UNCHANGED << map, merged >>
    <3>1. size' \in Nat
      BY <2>2, KeysFinite DEF JobTypeOK
    <3> QED
      BY <1>10, <2>2, <3>1 DEF Shuffle, JobTypeOK, Goto, Labels
  <2> QED
    BY <1>10, <2>1, <2>2 DEF Shuffle
<1>11. CASE ReducePop(t)
  <2>1. group' \in [ Threads -> SUBSET Pairs ]
    BY <1>11 DEF ReducePop, GroupOf, JobTypeOK
  <2>2. map' \in SUBSET Pairs
    BY <1>11 DEF ReducePop, Erase, GroupOf, JobTypeOK
  <2>3. pc' \in [ Threads -> Labels ]
    BY <1>11, GotoType DEF ReducePop, Labels
  <2> QED
    BY <1>0, <1>11, <2>1, <2>2, <2>3 DEF ReducePop, JobTypeOK
<1>12. CASE Reduce(t)
  <2>1. \A k \in Keys : Append(given[k], group[t]) \in Seq(SUBSET Pairs)
    BY DEF JobTypeOK
  <2>2. KeysOf(group[t]) \subseteq Keys
    BY DEF JobTypeOK, KeysOf, Pairs
  <2>3. given' \in [ Keys -> Seq(SUBSET Pairs) ]
    BY <1>12, <2>1, <2>2 DEF Reduce, JobTypeOK
  <2>4. slot' \in [ Threads -> Nat ]
    BY <1>12 DEF Reduce, JobTypeOK
  <2> QED
    BY <1>12, <2>3, <2>4 DEF Reduce, JobTypeOK, Goto, Labels
<1>13. CASE Emit3(t)
  <2>1. PICK k \in KeysOf(group[t]), n \in { slot[t] + 1, Len(output) + 1 } :
          output' = [ j \in 1 .. n |-> IF j = slot[t] + 1 THEN k
                                       ELSE IF j <= Len(output) THEN output[j]
                                       ELSE Garbage ]
    BY <1>13 DEF Emit3
  <2>2. k \in Keys
    BY DEF JobTypeOK, KeysOf, Pairs
  <2>3. n \in Nat
    BY DEF JobTypeOK
  <2>4. \A j \in 1 .. Len(output) : output[j] \in Keys \cup {Garbage}
    BY DEF JobTypeOK
  <2>5. output' \in [ 1 .. n -> Keys \cup {Garbage} ]
    BY <2>1, <2>2, <2>3, <2>4 DEF JobTypeOK
  <2>6. output' \in Seq(Keys \cup {Garbage})
    BY <2>3, <2>5
  <2>7. group' \in [ Threads -> SUBSET Pairs ] /\ slot' \in [ Threads -> Nat ]
    BY <1>13 DEF Emit3, JobTypeOK
  <2> QED
    BY <1>13, <2>6, <2>7 DEF Emit3, JobTypeOK, Goto, Labels
<1> QED
  BY <1>1, <1>2, <1>3, <1>4, <1>5, <1>6, <1>7, <1>8, <1>9, <1>10, <1>11,
     <1>12, <1>13 DEF Work
LEMMA ProgressInRange ==
  ASSUME JobTypeOK, BarrierInv, Control, StageReached, MapMerged, CountsBounded,
         stage = REDUCE_STAGE => pc[0] \in { "barrier2" } \cup AfterSecond
  PROVE  Progress \in {NaN} \cup 0 .. 100
<1> USE DEF UNDEFINED_STAGE, MAP_STAGE, SHUFFLE_STAGE, REDUCE_STAGE
<1>1. stage \in { 0, 1, 2, 3 } /\ size \in Nat /\ inputVec \in Nat
  BY DEF JobTypeOK
<1>2. PercentLeft(inputVec, size) \in {NaN} \cup 0 .. 100
  BY <1>1, PercentInRange DEF CountsBounded
<1>3. stage = 3 =>
        PercentLeft(Cardinality(KeysOf(map)), size) \in {NaN} \cup 0 .. 100
  BY <1>1, PercentInRange, KeysFinite DEF CountsBounded, JobTypeOK
<1> QED
  BY <1>1, <1>2, <1>3 DEF Progress

LEMMA TypeClient ==
  ASSUME JobTypeOK, ClientStep,
         ReadProgress => Progress \in {NaN} \cup 0 .. 100
  PROVE  JobTypeOK'
<1> USE DEF data, results, polled, calls
<1>0. { Free, Client } \subseteq Threads \cup { Free, Client }
  OBVIOUS
<1>1. CASE Create
  BY <1>1, GotoType DEF Create, JobTypeOK, Labels, ClientLabels
<1>2. CASE PollLock
  BY <1>0, <1>2 DEF PollLock, JobTypeOK, ClientLabels
<1>3. CASE ReadProgress
  BY <1>3 DEF ReadProgress, JobTypeOK, ClientLabels
<1>4. CASE Report
  BY <1>0, <1>4 DEF Report, JobTypeOK, ClientLabels
<1>5. CASE Wait
  BY <1>5 DEF Wait, JobTypeOK, ClientLabels
<1>6. CASE Close
  BY <1>6 DEF Close, JobTypeOK, ClientLabels
<1> QED
  BY <1>1, <1>2, <1>3, <1>4, <1>5, <1>6 DEF ClientStep, Poll
-----------------------------------------------------------------------------
(***************************************************************************)
(* The barriers separate the phases                                        *)
(***************************************************************************)
\* Every step of the job is a step of the barrier or none.
LEMMA BarrierInJob ==
  ASSUME Next
  PROVE  UNCHANGED barrierVars \/ \E t \in Threads : BarrierStep(t)
BY DEF Next, Work, ClientStep, Poll, Start, MapLock, MapPop, Map, InBarrier,
       LeaveBarrier, ShuffleStage, Shuffle, ReduceStage, ReduceLock, ReducePop,
       Reduce, Emit3, Create, PollLock, ReadProgress, Report, Wait, Close,
       BarrierStep

\* Once a thread is past the first barrier, nobody is before it; once one is
\* past the second, nobody is before that.
LEMMA NobodyBefore ==
  ASSUME JobTypeOK, BarrierInv, Control
  PROVE  /\ (\E t \in Threads : passed[t] >= 1) =>
              \A u \in Threads : pc[u] \notin Mapping
         /\ (\E t \in Threads : passed[t] >= 2) =>
              \A u \in Threads : pc[u] \in { "barrier2" } \cup AfterSecond
<1>1. RoundsApart /\ BarrierTypeOK
  BY RoundsApartInv DEF BarrierInv
<1>2. \A u \in Threads : pc[u] \in Mapping => Entered[u] = 0
  BY <1>1 DEF Control, Mapping, BeforeFirst, AtBarrier, Entered
<1>3. \A u \in Threads :
        pc[u] \notin { "barrier2" } \cup AfterSecond => Entered[u] <= 1
  <2> SUFFICES ASSUME NEW u \in Threads,
                      pc[u] \notin { "barrier2" } \cup AfterSecond
               PROVE  Entered[u] <= 1
    OBVIOUS
  <2>1. CASE pc[u] \in BeforeFirst
    BY <1>1, <2>1 DEF Control, Entered
  <2>2. CASE pc[u] \in { "shuffle_stage", "shuffle" }
    BY <1>1, <2>2
    DEF Control, BeforeFirst, Mapping, Between, AtBarrier, Entered
  <2> QED
    BY <2>1, <2>2 DEF JobTypeOK, Labels, BeforeFirst, Mapping, AfterSecond
<1>4. \A t, u \in Threads : passed[t] <= Entered[u]
  BY <1>1 DEF RoundsApart
<1>5. \A t \in Threads : passed[t] \in Nat /\ Entered[t] \in Nat
  BY <1>1 DEF BarrierTypeOK, Entered
<1> QED
  BY <1>2, <1>3, <1>4, <1>5

LEMMA PassedByPlace ==
  ASSUME Control, JobTypeOK, NEW t \in Threads
  PROVE  /\ pc[t] \in Between => passed[t] = 1
         /\ pc[t] \in AfterSecond => passed[t] = 2
         /\ passed[t] \in 0 .. 2
BY DEF Control, JobTypeOK, Labels, BeforeFirst, Mapping, Between, AfterSecond

LEMMA ControlWork ==
  ASSUME JobTypeOK, BarrierInv, Control, NEW t \in Threads, Work(t)
  PROVE  Control'
<1> USE DEF BeforeFirst, Mapping, Between, AfterSecond, AtBarrier
<1>a. at \in [ Threads -> Points ] /\ passed \in [ Threads -> Nat ]
      /\ pc \in [ Threads -> Labels ]
  BY DEF BarrierInv, BarrierTypeOK, JobTypeOK
<1>1. CASE InBarrier(t)
  <2>1. CASE Enter(t)
    BY <1>a, <1>1, <2>1 DEF InBarrier, jobVars, Enter, Control
  <2>2. CASE Inside(t)
    <3>1. passed' = passed /\ \A u \in Threads : at[u] = "out" => at'[u] = "out" \/ u = t
      BY <1>a, <2>2
      DEF Inside, Acquire, Arrive, Release, Reacquire, Broadcast
    <3> QED
      BY <1>a, <1>1, <3>1 DEF InBarrier, jobVars, Control
  <2> QED
    BY <1>1, <2>1, <2>2 DEF InBarrier
<1>2. CASE LeaveBarrier(t)
  BY <1>a, <1>2 DEF LeaveBarrier, Leave, Goto, Control
<1>3. CASE Start(t) \/ MapLock(t) \/ MapPop(t) \/ Map(t)
  BY <1>a, <1>3
  DEF Start, MapLock, MapPop, Map, Goto, barrierVars, Control
<1>4. CASE ShuffleStage(t) \/ Shuffle(t)
  BY <1>a, <1>4
  DEF ShuffleStage, Shuffle, Goto, barrierVars, Control
<1>5. CASE ReduceStage(t) \/ ReduceLock(t) \/ ReducePop(t) \/ Reduce(t) \/ Emit3(t)
  BY <1>a, <1>5
  DEF ReduceStage, ReduceLock, ReducePop, Reduce, Emit3, Goto, barrierVars,
      Control
<1> QED
  BY <1>1, <1>2, <1>3, <1>4, <1>5 DEF Work

LEMMA ControlClient ==
  ASSUME JobTypeOK, BarrierInv, Control, ClientStep
  PROVE  Control'
<1>a. pc \in [ Threads -> Labels ]
  BY DEF JobTypeOK
<1>1. CASE Create
  BY <1>a, <1>1
  DEF Create, Goto, barrierVars, Control, BeforeFirst, Mapping, AtBarrier
<1>2. CASE UNCHANGED << pc, at, passed >>
  BY <1>2 DEF Control, AtBarrier
<1> QED
  BY <1>1, <1>2 DEF ClientStep, Poll, PollLock, ReadProgress, Report, Wait,
                    Close, barrierVars
-----------------------------------------------------------------------------
(***************************************************************************)
(* The stage                                                               *)
(***************************************************************************)
\* The three places that write the stage write one that is not behind.
LEMMA StageForward ==
  ASSUME JobTypeOK, BarrierInv, Control, StageReached, NEW t \in Threads
  PROVE  /\ pc[t] = "start" => stage <= MAP_STAGE
         /\ pc[t] = "shuffle_stage" => stage <= SHUFFLE_STAGE /\ passed[t] = 1
         /\ pc[t] = "reduce_stage" => stage <= REDUCE_STAGE /\ passed[t] = 2
<1> USE DEF UNDEFINED_STAGE, MAP_STAGE, SHUFFLE_STAGE, REDUCE_STAGE
<1>1. stage \in 0 .. 3
  BY DEF JobTypeOK
<1>2. pc[t] = "start" => ~ \E u \in Threads : passed[u] >= 1
  BY NobodyBefore DEF Mapping
<1>3. pc[t] = "shuffle_stage" => ~ \E u \in Threads : passed[u] >= 2
  BY NobodyBefore DEF AfterSecond
<1> QED
  BY <1>1, <1>2, <1>3, PassedByPlace DEF StageReached, Between, AfterSecond

LEMMA StageStep ==
  ASSUME JobTypeOK, BarrierInv, Control, StageReached, Next
  PROVE  StageReached' /\ stage' >= stage /\ report'.stage >= report.stage
<1> USE DEF UNDEFINED_STAGE, MAP_STAGE, SHUFFLE_STAGE, REDUCE_STAGE
<1>a. stage \in 0 .. 3 /\ report.stage \in 0 .. 3 /\ passed \in [ Threads -> Nat ]
  BY DEF JobTypeOK, BarrierInv, BarrierTypeOK
<1>1. ASSUME NEW t \in Threads, Start(t)
      PROVE  StageReached' /\ stage' >= stage /\ report' = report
  BY <1>a, <1>1, StageForward DEF Start, polled, StageReached
<1>2. ASSUME NEW t \in Threads, ShuffleStage(t)
      PROVE  StageReached' /\ stage' >= stage /\ report' = report
  BY <1>a, <1>2, StageForward
  DEF ShuffleStage, polled, barrierVars, StageReached
<1>3. ASSUME NEW t \in Threads, ReduceStage(t)
      PROVE  StageReached' /\ stage' >= stage /\ report' = report
  BY <1>a, <1>3, StageForward
  DEF ReduceStage, polled, barrierVars, StageReached
<1>4. ASSUME NEW t \in Threads, LeaveBarrier(t)
      PROVE  StageReached' /\ stage' = stage /\ report' = report
  BY <1>a, <1>4 DEF LeaveBarrier, Leave, polled, StageReached
<1>5. ASSUME NEW t \in Threads, InBarrier(t)
      PROVE  StageReached' /\ stage' = stage /\ report' = report
  BY <1>a, <1>5
  DEF InBarrier, jobVars, polled, Enter, Inside, Acquire, Arrive, Release,
      Reacquire, StageReached
<1>6. CASE Report
  BY <1>a, <1>6 DEF Report, barrierVars, StageReached
<1>7. CASE UNCHANGED << passed, stage, report >>
  BY <1>a, <1>7 DEF StageReached
<1> QED
  BY <1>a, <1>1, <1>2, <1>3, <1>4, <1>5, <1>6, <1>7
  DEF Next, Work, ClientStep, Poll, MapLock, MapPop, Map, Shuffle, ReduceLock,
      ReducePop, Reduce, Emit3, Create, PollLock, ReadProgress, Wait, Close,
      barrierVars, polled
-----------------------------------------------------------------------------
(***************************************************************************)
(* The map phase                                                           *)
(***************************************************************************)
LEMMA ItemsStep ==
  ASSUME JobTypeOK, ItemsMapped, Next
  PROVE  ItemsMapped'
<1> USE DEF Mapping
<1>a. /\ pc \in [ Threads -> Labels ]
      /\ item \in [ Threads -> 0 .. NumItems ]
      /\ mapped \in [ Items -> Nat ]
      /\ inputVec \in 0 .. NumItems
      /\ NumItems \in Nat
  BY MapReduceAssumption DEF JobTypeOK
<1>1. ASSUME NEW t \in Threads, MapPop(t), HasInput
      PROVE  ItemsMapped'
  <2>1. /\ item' = [ item EXCEPT ![t] = inputVec ]
        /\ inputVec' = inputVec - 1
        /\ pc' = [ pc EXCEPT ![t] = "map" ]
        /\ pc[t] = "map_pop"
        /\ mapped' = mapped
        /\ inputVec \in Items
    BY <1>a, <1>1 DEF MapPop, HasInput, Goto, calls, Items
  <2>2. \A i \in Items : \A u \in Threads :
          Maps(u, i)' <=> IF u = t THEN i = inputVec ELSE Maps(u, i)
    BY <1>a, <2>1 DEF Maps
  <2>3. \A u \in Threads : ~ Maps(u, inputVec)
    BY <2>1, <1>a DEF ItemsMapped, Maps
  <2>4. \A u \in Threads : pc'[u] = "map" => item'[u] \in Items /\ item'[u] > inputVec'
    BY <1>a, <2>1 DEF ItemsMapped, Items
  <2>5. \A i \in Items : \A u, v \in Threads : Maps(u, i)' /\ Maps(v, i)' => u = v
    BY <2>2, <2>3 DEF ItemsMapped
  <2>6. \A i \in Items :
          mapped'[i] = IF i <= inputVec' \/ \E u \in Threads : Maps(u, i)' THEN 0
                                                                        ELSE 1
    <3> SUFFICES ASSUME NEW i \in Items
                 PROVE  mapped'[i] = IF i <= inputVec' \/ \E u \in Threads : Maps(u, i)'
                                     THEN 0 ELSE 1
      OBVIOUS
    <3>1. i <= inputVec' <=> i <= inputVec /\ i # inputVec
      BY <1>a, <2>1 DEF Items
    <3>2. (\E u \in Threads : Maps(u, i)') <=>
            i = inputVec \/ \E u \in Threads : Maps(u, i)
      BY <2>2, <2>1, <2>3 DEF Maps
    <3>3. i = inputVec => i <= inputVec
      BY <1>a
    <3> QED
      BY <2>1, <3>1, <3>2, <3>3 DEF ItemsMapped
  <2>7. \A u \in Threads : pc'[u] \notin Mapping => inputVec' = 0
    <3>1. \A u \in Threads : pc[u] \in Mapping
      BY <2>1, <1>a DEF ItemsMapped, Items
    <3> QED
      BY <1>a, <2>1, <3>1
  <2> QED
    BY <2>4, <2>5, <2>6, <2>7 DEF ItemsMapped
<1>2. ASSUME NEW t \in Threads, MapPop(t), ~HasInput
      PROVE  ItemsMapped'
  <2>1. /\ pc' = [ pc EXCEPT ![t] = "barrier1" ] /\ pc[t] = "map_pop"
        /\ inputVec = 0
        /\ UNCHANGED << item, inputVec, mapped >>
    BY <1>a, <1>2 DEF MapPop, HasInput, Goto, calls
  <2>2. \A i \in Items : \A u \in Threads : Maps(u, i)' <=> Maps(u, i)
    BY <1>a, <2>1 DEF Maps
  <2> QED
    BY <1>a, <2>1, <2>2 DEF ItemsMapped
<1>3. ASSUME NEW t \in Threads, Map(t)
      PROVE  ItemsMapped'
  <2>1. /\ pc[t] = "map"
        /\ pc' = [ pc EXCEPT ![t] = "map_lock" ]
        /\ item' = [ item EXCEPT ![t] = 0 ]
        /\ mapped' = [ mapped EXCEPT ![item[t]] = @ + 1 ]
        /\ inputVec' = inputVec
        /\ item[t] \in Items /\ item[t] > inputVec
    BY <1>a, <1>3 DEF Map, Goto, ItemsMapped
  <2>2. \A i \in Items : \A u \in Threads :
          Maps(u, i)' <=> u # t /\ Maps(u, i)
    BY <1>a, <2>1 DEF Maps
  <2>3. Maps(t, item[t])
    BY <2>1 DEF Maps
  <2>4. \A i \in Items :
          mapped'[i] = IF i <= inputVec' \/ \E u \in Threads : Maps(u, i)' THEN 0
                                                                        ELSE 1
    <3> SUFFICES ASSUME NEW i \in Items
                 PROVE  mapped'[i] = IF i <= inputVec' \/ \E u \in Threads : Maps(u, i)'
                                     THEN 0 ELSE 1
      OBVIOUS
    <3>1. CASE i = item[t]
      <4>1. ~ \E u \in Threads : Maps(u, i)'
        BY <2>2, <2>3, <3>1 DEF ItemsMapped
      <4>2. mapped[i] = 0 /\ ~(i <= inputVec)
        BY <1>a, <2>1, <2>3, <3>1 DEF ItemsMapped, Items
      <4> QED
        BY <1>a, <2>1, <3>1, <4>1, <4>2
    <3>2. CASE i # item[t]
      <4>1. (\E u \in Threads : Maps(u, i)') <=> \E u \in Threads : Maps(u, i)
        BY <2>2, <3>2 DEF Maps
      <4> QED
        BY <1>a, <2>1, <3>2, <4>1 DEF ItemsMapped
    <3> QED
      BY <3>1, <3>2
  <2>5. \A u \in Threads : pc'[u] = "map" => item'[u] \in Items /\ item'[u] > inputVec'
    BY <1>a, <2>1 DEF ItemsMapped
  <2>6. \A u \in Threads : pc'[u] \notin Mapping => inputVec' = 0
    BY <1>a, <2>1 DEF ItemsMapped
  <2>7. \A i \in Items : \A u, v \in Threads : Maps(u, i)' /\ Maps(v, i)' => u = v
    BY <2>2 DEF ItemsMapped
  <2> QED
    BY <2>4, <2>5, <2>6, <2>7 DEF ItemsMapped
<1>4. ASSUME UNCHANGED << item, inputVec, mapped >>,
             NEW t \in Threads, NEW l \in Labels, Goto(t, l),
             pc[t] \notin { "map_pop", "map" }, l # "map",
             l \notin Mapping => pc[t] \notin Mapping
      PROVE  ItemsMapped'
  <2>1. \A i \in Items : \A u \in Threads : Maps(u, i)' <=> Maps(u, i)
    BY <1>a, <1>4 DEF Maps, Goto
  <2>2. \A u \in Threads : pc'[u] = "map" <=> pc[u] = "map"
    BY <1>a, <1>4 DEF Goto
  <2>3. \A u \in Threads : pc'[u] \notin Mapping => inputVec' = 0
    BY <1>a, <1>4 DEF Goto, ItemsMapped
  <2> QED
    BY <1>4, <2>1, <2>2, <2>3 DEF ItemsMapped
<1>5. CASE UNCHANGED << item, inputVec, mapped, pc >>
  BY <1>5 DEF ItemsMapped, Maps
<1>6. ASSUME NEW t \in Threads, Work(t)
      PROVE  ItemsMapped'
  <2>1. CASE Start(t) \/ MapLock(t)
    BY <1>4, <2>1 DEF Start, MapLock, data, calls, Labels
  <2>2. CASE LeaveBarrier(t) \/ ShuffleStage(t) \/ ReduceStage(t) \/ ReduceLock(t)
    BY <1>4, <2>2
    DEF LeaveBarrier, AtBarrier, ShuffleStage, ReduceStage, ReduceLock, data,
        calls, Labels
  <2>3. CASE Shuffle(t) \/ ReducePop(t) \/ Reduce(t) \/ Emit3(t)
    BY <1>4, <1>5, <2>3
    DEF Shuffle, ReducePop, Reduce, Emit3, data, calls, Labels
  <2>4. CASE InBarrier(t)
    BY <1>5, <2>4 DEF InBarrier, jobVars, data, calls
  <2> QED
    BY <1>1, <1>2, <1>3, <1>6, <2>1, <2>2, <2>3, <2>4 DEF Work
<1>7. CASE ClientStep
  BY <1>4, <1>5, <1>7
  DEF ClientStep, Poll, Create, PollLock, ReadProgress, Report, Wait, Close,
      data, calls, Labels
<1> QED
  BY <1>6, <1>7 DEF Next
LEMMA PairsStep ==
  ASSUME JobTypeOK, ItemsMapped, PairsEmitted, Next
  PROVE  PairsEmitted'
<1>1. ASSUME NEW t \in Threads, Map(t), NEW p \in Pairs
      PROVE  (\E u \in Threads : p \in interVec'[u]) <=>
               p[1] \in Emits[p[2]] /\ mapped'[p[2]] = 1
  <2> DEFINE i == item[t]
  <2>1. i \in Items /\ mapped[i] = 0
    BY <1>1 DEF Map, ItemsMapped, Maps
  <2>2. \A j \in Items : mapped'[j] = IF j = i THEN 1 ELSE mapped[j]
    BY <1>1, <2>1 DEF Map, JobTypeOK
  <2>3. p[1] \in Keys /\ p[2] \in Items /\ p = << p[1], p[2] >>
    BY DEF Pairs
  <2>4. p \in { << k, i >> : k \in Emits[i] } <=> p[2] = i /\ p[1] \in Emits[i]
    BY <2>3
  <2>5. \A u \in Threads :
          p \in interVec'[u] <=>
            p \in interVec[u] \/ (u = t /\ p[2] = i /\ p[1] \in Emits[i])
    BY <1>1, <2>4 DEF Map, JobTypeOK
  <2>6. (\E u \in Threads : p \in interVec[u]) <=>
          p[1] \in Emits[p[2]] /\ mapped[p[2]] = 1
    BY DEF PairsEmitted
  <2> QED
    BY <2>1, <2>2, <2>3, <2>5, <2>6
<1>2. CASE UNCHANGED << interVec, mapped >>
  BY <1>2 DEF PairsEmitted
<1>3. ASSUME NEW t \in Threads, Work(t), ~Map(t)
      PROVE  UNCHANGED << interVec, mapped >>
  BY <1>3
  DEF Work, Start, MapLock, MapPop, InBarrier, LeaveBarrier, ShuffleStage,
      Shuffle, ReduceStage, ReduceLock, ReducePop, Reduce, Emit3, jobVars,
      data, calls
<1>4. ClientStep => UNCHANGED << interVec, mapped >>
  BY DEF ClientStep, Poll, Create, PollLock, ReadProgress, Report, Wait, Close,
         data, calls
<1> QED
  BY <1>1, <1>2, <1>3, <1>4 DEF Next, PairsEmitted
-----------------------------------------------------------------------------
(***************************************************************************)
(* The shuffle                                                             *)
(***************************************************************************)
\* A thread that reduces comes after a shuffle that is complete.
LEMMA ReducesAfterShuffle ==
  ASSUME JobTypeOK, BarrierInv, Control, MapMerged, NEW t \in Threads,
         pc[t] \in AfterSecond
  PROVE  merged = MtLevel /\ pc[0] \in { "barrier2" } \cup AfterSecond
BY ThreadZero, NobodyBefore, PassedByPlace DEF MapMerged

LEMMA MergedStep ==
  ASSUME JobTypeOK, BarrierInv, Control, MapMerged, Next
  PROVE  MapMerged'
<1> USE ThreadZero DEF BeforeFirst, Mapping, AfterSecond
<1>a. /\ pc \in [ Threads -> Labels ] /\ merged \in 0 .. MtLevel
      /\ MtLevel \in Nat \ {0} /\ interVec \in [ Threads -> SUBSET Pairs ]
  BY BarrierAssumption DEF JobTypeOK
<1>1. ASSUME NEW t \in Threads, Map(t)
      PROVE  MapMerged'
  <2>1. merged = 0
    <3>1. ~ \E u \in Threads : passed[u] >= 1
      BY <1>1, NobodyBefore DEF Map
    <3>2. pc[0] \in BeforeFirst
      BY <3>1 DEF Control
    <3> QED
      BY <3>2 DEF MapMerged
  <2>2. /\ pc'[0] \in BeforeFirst <=> pc[0] \in BeforeFirst
        /\ pc'[0] # pc[0] => pc'[0] \in BeforeFirst /\ pc[0] \in BeforeFirst
    BY <1>a, <1>1 DEF Map, Goto
  <2>3. UNCHANGED << merged, map, given >>
    BY <1>1 DEF Map
  <2>4. map = {} /\ (\A k \in Keys : given[k] = << >>)
    BY <1>a, <2>1 DEF MapMerged
  <2>5. { p \in Pairs : \E u \in 0 .. merged' - 1 : p \in interVec'[u] } = {}
    BY <2>1, <2>3
  <2> QED
    BY <1>a, <2>1, <2>2, <2>3, <2>4, <2>5 DEF MapMerged
<1>2. ASSUME NEW t \in Threads, Shuffle(t)
      PROVE  MapMerged'
  <2>1. t = 0 /\ pc[0] = "shuffle" /\ interVec' = interVec /\ given' = given
    BY <1>2 DEF Shuffle, Control, calls
  <2>2. CASE merged < AllContexts /\ map' = map \cup interVec[merged]
             /\ merged' = merged + 1 /\ UNCHANGED << pc, size >>
    <3>1. merged \in Threads /\ merged < MtLevel
      BY <1>a, <2>2 DEF AllContexts, Threads
    <3>2. \A p \in Pairs :
            (\E u \in 0 .. merged' - 1 : p \in interVec'[u]) <=>
              p \in interVec[merged] \/ \E u \in 0 .. merged - 1 : p \in interVec[u]
      BY <1>a, <2>1, <2>2
    <3>3. map' = { p \in Pairs : \E u \in 0 .. merged' - 1 : p \in interVec'[u] }
      BY <1>a, <2>2, <3>1, <3>2 DEF MapMerged
    <3> QED
      BY <2>1, <2>2, <3>1, <3>3 DEF MapMerged
  <2>3. CASE merged = AllContexts /\ Goto(t, "barrier2") /\ UNCHANGED << map, merged >>
    BY <1>a, <2>1, <2>3 DEF MapMerged, AllContexts, Goto
  <2> QED
    BY <1>2, <2>2, <2>3 DEF Shuffle
<1>3. ASSUME NEW t \in Threads, pc[t] \in AfterSecond, merged' = merged,
             NEW l \in Labels, Goto(t, l), l \in AfterSecond
      PROVE  MapMerged'
  <2>1. merged = MtLevel
    BY <1>3, ReducesAfterShuffle
  <2>2. pc'[0] \notin BeforeFirst \cup { "shuffle_stage" }
    <3>1. pc[0] \in { "barrier2" } \cup AfterSecond
      BY <1>3, ReducesAfterShuffle
    <3> QED
      BY <1>a, <1>3, <3>1 DEF Goto
  <2> QED
    BY <1>a, <1>3, <2>1, <2>2 DEF MapMerged
<1>4. ASSUME UNCHANGED << merged, map, given, interVec >>,
             NEW t \in Threads, NEW l \in Labels, Goto(t, l),
             l \in BeforeFirst \cup { "shuffle_stage" } =>
               pc[t] \in BeforeFirst \cup { "shuffle_stage" },
             l \in { "barrier2" } \cup AfterSecond =>
               t # 0 \/ pc[t] \in { "barrier2" } \cup AfterSecond
      PROVE  MapMerged'
  BY <1>a, <1>4 DEF MapMerged, Goto
<1>5. CASE UNCHANGED << merged, map, given, interVec, pc >>
  BY <1>5 DEF MapMerged
<1>6. ASSUME NEW t \in Threads, Work(t)
      PROVE  MapMerged'
  <2>1. CASE Start(t) \/ MapLock(t) \/ MapPop(t)
    BY <1>4, <2>1 DEF Start, MapLock, MapPop, data, calls, Labels
  <2>2. CASE LeaveBarrier(t) \/ ShuffleStage(t) \/ ReduceStage(t) \/ ReduceLock(t)
    BY <1>4, <2>2
    DEF LeaveBarrier, AtBarrier, ShuffleStage, ReduceStage, ReduceLock, data,
        calls, Labels
  <2>3. CASE ReducePop(t) \/ Reduce(t) \/ Emit3(t)
    BY <1>3, <2>3
    DEF ReducePop, Reduce, Emit3, data, calls, Labels
  <2>4. CASE InBarrier(t)
    BY <1>5, <2>4 DEF InBarrier, jobVars, data, calls
  <2> QED
    BY <1>1, <1>2, <1>6, <2>1, <2>2, <2>3, <2>4 DEF Work
<1>7. CASE ClientStep
  BY <1>4, <1>5, <1>7
  DEF ClientStep, Poll, Create, PollLock, ReadProgress, Report, Wait, Close,
      data, calls, Labels
<1> QED
  BY <1>6, <1>7 DEF Next

\* When the last context is merged, the map holds every pair that map emits.
LEMMA AllMerged ==
  ASSUME JobTypeOK, BarrierInv, Control, ItemsMapped, PairsEmitted, MapMerged,
         NEW t \in Threads, Shuffle(t), merged = MtLevel - 1, merged' = MtLevel
  PROVE  map' = { p \in Pairs : p[1] \in Emits[p[2]] }
<1>a. MtLevel \in Nat \ {0}
  BY BarrierAssumption
<1>1. pc[t] = "shuffle" /\ merged < AllContexts /\ map' = map \cup interVec[merged]
  BY <1>a DEF Shuffle, AllContexts
<1>2. \A u \in Threads : pc[u] \notin Mapping
  <2>1. passed[t] >= 1
    BY <1>1, PassedByPlace DEF Between
  <2> QED
    BY <2>1, NobodyBefore
<1>3. \A i \in Items : mapped[i] = 1
  <2>1. inputVec = 0
    BY <1>2 DEF ItemsMapped
  <2>2. \A i \in Items : ~(i <= inputVec) /\ ~ \E u \in Threads : Maps(u, i)
    BY <1>2, <2>1 DEF Maps, Mapping, Items
  <2> QED
    BY <2>2 DEF ItemsMapped
<1>4. \A p \in Pairs :
        p \in map' <=> \E u \in Threads : p \in interVec[u]
  <2>1. Threads = (0 .. merged - 1) \cup {merged}
    BY <1>a DEF Threads
  <2>2. map = { p \in Pairs : \E u \in 0 .. merged - 1 : p \in interVec[u] }
    BY <1>a DEF MapMerged
  <2> QED
    BY <1>1, <2>1, <2>2
<1>5. map' \subseteq Pairs
  <2>1. merged \in Threads
    BY <1>a DEF Threads
  <2> QED
    BY <1>1, <2>1 DEF JobTypeOK
<1>6. \A p \in Pairs : p[2] \in Items
  BY DEF Pairs
<1> QED
  BY <1>3, <1>4, <1>5, <1>6 DEF PairsEmitted
LEMMA CountsStep ==
  ASSUME JobTypeOK, Control, ItemsMapped, CountsBounded, Next
  PROVE  CountsBounded'
<1> USE ThreadZero DEF AfterSecond
<1>a. /\ pc \in [ Threads -> Labels ] /\ size \in Nat /\ NumItems \in Nat
      /\ inputVec \in 0 .. NumItems
      /\ map \in SUBSET Pairs /\ Cardinality(KeysOf(map)) \in Nat
  BY MapReduceAssumption, KeysFinite DEF JobTypeOK
<1>1. ASSUME NEW t \in Threads, Shuffle(t)
      PROVE  CountsBounded'
  <2>1. t = 0 /\ pc[0] = "shuffle" /\ inputVec' = inputVec
    BY <1>1 DEF Shuffle, Control
  <2>2. inputVec = 0
    BY <2>1 DEF ItemsMapped, Mapping
  <2>3. CASE UNCHANGED << pc, size >>
    BY <1>a, <2>1, <2>2, <2>3 DEF CountsBounded
  <2>4. CASE size' = Cardinality(KeysOf(map)) /\ map' = map
    BY <1>a, <2>1, <2>2, <2>4 DEF CountsBounded
  <2> QED
    BY <1>1, <2>3, <2>4 DEF Shuffle
<1>2. ASSUME NEW t \in Threads, ReducePop(t)
      PROVE  CountsBounded'
  <2>1. map' \in SUBSET map
    BY <1>2 DEF ReducePop, Erase
  <2>2. Cardinality(KeysOf(map')) <= Cardinality(KeysOf(map))
        /\ Cardinality(KeysOf(map')) \in Nat
    <3>1. map' \in SUBSET Pairs
      BY <1>a, <2>1
    <3> QED
      BY <1>a, <2>1, <3>1, KeysFinite
  <2>3. pc'[0] \in AfterSecond => pc[0] \in AfterSecond
    BY <1>a, <1>2 DEF ReducePop, Goto
  <2>4. pc'[0] = "barrier2" => pc[0] = "barrier2"
    BY <1>a, <1>2 DEF ReducePop, Goto
  <2>5. UNCHANGED << inputVec, size >>
    BY <1>2 DEF ReducePop
  <2> QED
    BY <1>a, <2>2, <2>3, <2>4, <2>5 DEF CountsBounded
<1>3. ASSUME NEW t \in Threads, MapPop(t)
      PROVE  CountsBounded'
  <2>1. inputVec' <= inputVec /\ UNCHANGED << size, map >>
    BY <1>a, <1>3 DEF MapPop
  <2>2. pc'[0] \in { "barrier2" } \cup AfterSecond => pc'[0] = pc[0]
    BY <1>a, <1>3 DEF MapPop, Goto
  <2>3. inputVec' \in Int
    BY <1>a, <1>3 DEF MapPop
  <2> QED
    BY <1>a, <2>1, <2>2, <2>3 DEF CountsBounded
<1>4. ASSUME UNCHANGED << inputVec, size, map >>,
             NEW t \in Threads, NEW l \in Labels, Goto(t, l),
             l \in { "barrier2" } \cup AfterSecond =>
               t # 0 \/ pc[t] \in { "barrier2" } \cup AfterSecond
      PROVE  CountsBounded'
  BY <1>a, <1>4 DEF CountsBounded, Goto
<1>5. CASE UNCHANGED << inputVec, size, map, pc >>
  BY <1>5 DEF CountsBounded
<1>6. ASSUME NEW t \in Threads, Work(t)
      PROVE  CountsBounded'
  <2>1. CASE Start(t) \/ MapLock(t) \/ Map(t)
    BY <1>4, <2>1 DEF Start, MapLock, Map, data, Labels
  <2>2. CASE LeaveBarrier(t) \/ ShuffleStage(t) \/ ReduceStage(t) \/ ReduceLock(t)
    BY <1>4, <2>2
    DEF LeaveBarrier, AtBarrier, ShuffleStage, ReduceStage, ReduceLock, data,
        Labels
  <2>3. CASE Reduce(t) \/ Emit3(t)
    BY <1>4, <2>3 DEF Reduce, Emit3, data, Labels
  <2>4. CASE InBarrier(t)
    BY <1>5, <2>4 DEF InBarrier, jobVars, data
  <2> QED
    BY <1>1, <1>2, <1>3, <1>6, <2>1, <2>2, <2>3, <2>4 DEF Work
<1>7. CASE ClientStep
  BY <1>4, <1>5, <1>7
  DEF ClientStep, Poll, Create, PollLock, ReadProgress, Report, Wait, Close,
      data, Labels
<1> QED
  BY <1>6, <1>7 DEF Next
-----------------------------------------------------------------------------
(***************************************************************************)
(* The reduce phase                                                        *)
(***************************************************************************)
LEMMA GroupsShuffle ==
  ASSUME JobTypeOK, BarrierInv, Control, ItemsMapped, PairsEmitted, MapMerged,
         GroupsReduced, NEW t \in Threads, Shuffle(t)
  PROVE  GroupsReduced'
<1>a. /\ pc \in [ Threads -> Labels ] /\ merged \in 0 .. MtLevel
      /\ MtLevel \in Nat \ {0}
  BY BarrierAssumption DEF JobTypeOK
<1>1. pc[t] = "shuffle" /\ group' = group /\ given' = given
  BY DEF Shuffle, calls
<1>2. \A u \in Threads : pc[u] \notin AfterSecond
  <2>1. passed[t] = 1 /\ pc[t] \notin { "barrier2" } \cup AfterSecond
    BY <1>1, PassedByPlace DEF Between, AfterSecond
  <2>2. ~ \E u \in Threads : passed[u] >= 2
    BY <2>1, NobodyBefore
  <2> QED
    BY <2>2, PassedByPlace
<1>3. \A u \in Threads : pc'[u] \notin AfterSecond
  BY <1>a, <1>2 DEF Shuffle, Goto, AfterSecond
<1>4. \A u \in Threads : \A k \in Keys : ~Holds(u, k)'
  BY <1>3 DEF Holds, AfterSecond
<1>5. CASE merged = MtLevel
  <2>1. map' = map /\ merged' = merged
    BY <1>5, <1>a DEF Shuffle, AllContexts
  <2>2. \A u \in Threads : \A k \in Keys : ~Holds(u, k)
    BY <1>2 DEF Holds, AfterSecond
  <2>3. \A k \in Keys : GroupOf(map, k)' = GroupOf(map, k)
    BY <2>1 DEF GroupOf
  <2> QED
    BY <1>1, <1>3, <1>4, <2>1, <2>2, <2>3 DEF GroupsReduced, AfterSecond
<1>6. CASE merged < MtLevel
  <2>1. \A k \in Keys : given'[k] = << >>
    BY <1>1, <1>6 DEF MapMerged
  <2>2. ASSUME merged' = MtLevel, NEW k \in Keys
        PROVE  GroupOf(map, k)' = Want(k)
    <3>1. merged = MtLevel - 1
      BY <1>a, <1>6, <2>2 DEF Shuffle, AllContexts
    <3>2. map' = { p \in Pairs : p[1] \in Emits[p[2]] }
      BY <2>2, <3>1, AllMerged
    <3> QED
      BY <3>2, WantIsPairs DEF GroupOf
  <2> QED
    BY <1>3, <1>4, <2>1, <2>2 DEF GroupsReduced, AfterSecond
<1> QED
  BY <1>a, <1>5, <1>6

LEMMA GroupsPop ==
  ASSUME JobTypeOK, BarrierInv, Control, MapMerged, GroupsReduced,
         NEW t \in Threads, ReducePop(t)
  PROVE  GroupsReduced'
<1>a. /\ pc \in [ Threads -> Labels ]
      /\ group \in [ Threads -> SUBSET Pairs ]
  BY DEF JobTypeOK
<1>1. pc[t] = "reduce_pop" /\ merged = MtLevel /\ merged' = merged /\ given' = given
  BY ReducesAfterShuffle DEF ReducePop, AfterSecond, calls
<1>2. CASE map = {} /\ Goto(t, "done") /\ UNCHANGED << group, map >>
  <2>1. \A u \in Threads : \A k \in Keys : Holds(u, k)' <=> Holds(u, k)
    BY <1>a, <1>1, <1>2 DEF Holds, Goto
  <2>2. \A u \in Threads : pc'[u] \in { "reduce", "emit3" } <=>
                            pc[u] \in { "reduce", "emit3" }
    BY <1>a, <1>1, <1>2 DEF Goto
  <2>3. \A k \in Keys : GroupOf(map, k)' = GroupOf(map, k)
    BY <1>2 DEF GroupOf
  <2> QED
    BY <1>1, <1>2, <2>1, <2>2, <2>3 DEF GroupsReduced
<1>3. ASSUME NEW k \in Keys, IsFirst(k),
             group' = [ group EXCEPT ![t] = GroupOf(map, k) ],
             map' = Erase(k), Goto(t, "reduce")
      PROVE  GroupsReduced'
  <2>1. GroupOf(map, k) = Want(k) /\ Want(k) # {}
    <3>1. GroupOf(map, k) # {}
      BY <1>3 DEF IsFirst, KeysOf, GroupOf
    <3> QED
      BY <1>1, <3>1 DEF GroupsReduced
  <2>2. \A j \in Keys : GroupOf(map, j)' = IF j = k THEN {} ELSE GroupOf(map, j)
    BY <1>3 DEF GroupOf, Erase
  <2>3. \A u \in Threads : \A j \in Keys : Want(j) # {} =>
          (Holds(u, j)' <=> Holds(u, j) \/ (u = t /\ j = k))
    BY <1>a, <1>1, <1>3, <2>1, WantInjective DEF Holds, Goto
  <2>4. \A u \in Threads : ~Holds(u, k)
    BY <2>1 DEF GroupsReduced
  <2>5. given[k] = << >>
    BY <1>1, <2>1 DEF GroupsReduced
  <2>6. \A u \in Threads : pc'[u] \in { "reduce", "emit3" } =>
          \E j \in Keys : Want(j) # {} /\ group'[u] = Want(j)
    BY <1>a, <1>3, <2>1 DEF GroupsReduced, Goto
  <2>7. \A j \in Keys :
          /\ GroupOf(map, j)' \in { {}, Want(j) }
          /\ Want(j) # {} =>
               ( given[j] = << >> <=>
                   GroupOf(map, j)' = Want(j) \/ \E u \in Threads : Holds(u, j)' )
    BY <1>1, <2>2, <2>3, <2>5 DEF GroupsReduced
  <2>8. \A j \in Keys : Want(j) # {} =>
          \A u, v \in Threads : Holds(u, j)' =>
            GroupOf(map, j)' = {} /\ (Holds(v, j)' => u = v)
    BY <2>2, <2>3, <2>4 DEF GroupsReduced
  <2>9. \A u \in Threads : pc'[u] = "done" => map' = {}
    BY <1>a, <1>3 DEF GroupsReduced, Goto, Erase
  <2> QED
    BY <1>1, <2>6, <2>7, <2>8, <2>9 DEF GroupsReduced
<1> QED
  BY <1>2, <1>3 DEF ReducePop

\* The group that a thread reduces is whole, and its key was not reduced.
LEMMA ReduceFirstTime ==
  ASSUME JobTypeOK, BarrierInv, Control, MapMerged, GroupsReduced,
         NEW t \in Threads, Reduce(t)
  PROVE  \E k \in Keys :
           /\ Want(k) # {}
           /\ Holds(t, k)
           /\ given[k] = << >>
           /\ given' = [ given EXCEPT ![k] = << Want(k) >> ]
<1>1. pc[t] = "reduce" /\ merged = MtLevel
  BY ReducesAfterShuffle DEF Reduce, AfterSecond
<1>2. PICK k \in Keys : Want(k) # {} /\ group[t] = Want(k)
  BY <1>1 DEF GroupsReduced
<1>3. Holds(t, k) /\ given[k] = << >>
  BY <1>1, <1>2 DEF GroupsReduced, Holds
<1>4. PICK j \in KeysOf(group[t]) : given' = [ given EXCEPT ![j] = Append(@, group[t]) ]
  BY DEF Reduce
<1>5. j = k
  BY <1>2, <1>4, WantIsPairs
<1>6. Append(given[k], group[t]) = << Want(k) >>
  BY <1>2, <1>3
<1>7. given' = [ given EXCEPT ![k] = << Want(k) >> ]
  BY <1>4, <1>5, <1>6
<1> QED
  BY <1>2, <1>3, <1>7

LEMMA GroupsReduce ==
  ASSUME JobTypeOK, BarrierInv, Control, MapMerged, GroupsReduced,
         NEW t \in Threads, Reduce(t)
  PROVE  GroupsReduced'
<1>a. pc \in [ Threads -> Labels ] /\ given \in [ Keys -> Seq(SUBSET Pairs) ]
  BY DEF JobTypeOK
<1>1. PICK k \in Keys :
        /\ Want(k) # {}
        /\ Holds(t, k)
        /\ given[k] = << >>
        /\ given' = [ given EXCEPT ![k] = << Want(k) >> ]
  BY ReduceFirstTime
<1>2. /\ merged' = merged /\ map' = map /\ group' = group
      /\ pc' = [ pc EXCEPT ![t] = "emit3" ] /\ pc[t] = "reduce"
  BY DEF Reduce, data, Goto
<1>3. \A j \in Keys : GroupOf(map, j)' = GroupOf(map, j)
  BY <1>2 DEF GroupOf
<1>4. \A u \in Threads : \A j \in Keys :
        Holds(u, j)' <=> u # t /\ Holds(u, j)
  BY <1>a, <1>2 DEF Holds
<1>5. \A u \in Threads : \A j \in Keys :
        j # k /\ Want(j) # {} /\ Holds(u, j) => u # t
  BY <1>1, WantInjective DEF Holds
<1>6. GroupOf(map, k) = {} /\ \A u \in Threads : ~Holds(u, k)'
  BY <1>1, <1>4 DEF GroupsReduced
<1>7. \A j \in Keys : given'[j] = IF j = k THEN << Want(k) >> ELSE given[j]
  BY <1>a, <1>1
<1>8. << Want(k) >> # << >>
  OBVIOUS
<1>9. \A u \in Threads :
        /\ pc'[u] \in { "reduce", "emit3" } => pc[u] \in { "reduce", "emit3" }
        /\ pc'[u] = "done" => pc[u] = "done"
  BY <1>a, <1>2
<1>10. merged' = MtLevel =>
       \A j \in Keys :
         /\ GroupOf(map, j)' \in { {}, Want(j) }
         /\ Want(j) # {} =>
              ( given'[j] = << >> <=>
                  GroupOf(map, j)' = Want(j) \/ \E u \in Threads : Holds(u, j)' )
  <2> SUFFICES ASSUME merged = MtLevel, NEW j \in Keys
               PROVE  /\ GroupOf(map, j) \in { {}, Want(j) }
                      /\ Want(j) # {} =>
                           ( given'[j] = << >> <=>
                               \/ GroupOf(map, j) = Want(j)
                               \/ \E u \in Threads : Holds(u, j)' )
    BY <1>2, <1>3
  <2>1. CASE j = k
    BY <1>1, <1>6, <1>7, <1>8, <2>1
  <2>2. CASE j # k
    BY <1>4, <1>5, <1>7, <2>2 DEF GroupsReduced
  <2> QED
    BY <2>1, <2>2
<1> QED
  BY <1>1, <1>2, <1>3, <1>4, <1>7, <1>9, <1>10 DEF GroupsReduced

LEMMA GroupsStep ==
  ASSUME JobInv, Next
  PROVE  GroupsReduced'
<1>a. JobTypeOK /\ BarrierInv /\ Control /\ ItemsMapped /\ PairsEmitted
      /\ MapMerged /\ GroupsReduced /\ pc \in [ Threads -> Labels ]
  BY DEF JobInv, JobTypeOK
<1>1. ASSUME NEW t \in Threads, Emit3(t)
      PROVE  GroupsReduced'
  <2>1. /\ UNCHANGED << merged, map, given >> /\ pc[t] = "emit3"
        /\ pc' = [ pc EXCEPT ![t] = "reduce_lock" ]
        /\ group' = [ group EXCEPT ![t] = {} ]
        /\ group \in [ Threads -> SUBSET Pairs ]
    BY <1>a, <1>1 DEF Emit3, Goto, calls, JobTypeOK
  <2>2. \A u \in Threads : \A k \in Keys : Holds(u, k)' <=> Holds(u, k)
    BY <1>a, <2>1 DEF Holds
  <2>3. \A u \in Threads :
          /\ pc'[u] \in { "reduce", "emit3" } =>
               pc[u] \in { "reduce", "emit3" } /\ group'[u] = group[u]
          /\ pc'[u] = "done" => pc[u] = "done"
    BY <1>a, <2>1
  <2>4. \A k \in Keys : GroupOf(map, k)' = GroupOf(map, k)
    BY <2>1 DEF GroupOf
  <2> QED
    BY <1>a, <2>1, <2>2, <2>3, <2>4 DEF GroupsReduced
<1>2. ASSUME UNCHANGED << merged, map, given, group >>,
             NEW t \in Threads, NEW l \in Labels, Goto(t, l),
             { pc[t], l } \cap { "reduce", "emit3", "done" } = {}
      PROVE  GroupsReduced'
  <2>1. \A u \in Threads : \A k \in Keys : Holds(u, k)' <=> Holds(u, k)
    BY <1>a, <1>2 DEF Holds, Goto
  <2>2. \A u \in Threads :
          /\ pc'[u] \in { "reduce", "emit3" } => pc[u] \in { "reduce", "emit3" }
          /\ pc'[u] = "done" => pc[u] = "done"
    BY <1>a, <1>2 DEF Goto
  <2>3. \A k \in Keys : GroupOf(map, k)' = GroupOf(map, k)
    BY <1>2 DEF GroupOf
  <2> QED
    BY <1>a, <1>2, <2>1, <2>2, <2>3 DEF GroupsReduced
<1>3. CASE UNCHANGED << merged, map, given, group, pc >>
  BY <1>a, <1>3 DEF GroupsReduced, Holds, GroupOf
<1>4. ASSUME NEW t \in Threads, Work(t)
      PROVE  GroupsReduced'
  <2>1. CASE Start(t) \/ MapLock(t) \/ MapPop(t) \/ Map(t)
    BY <1>2, <2>1 DEF Start, MapLock, MapPop, Map, data, calls, Labels
  <2>2. CASE LeaveBarrier(t) \/ ShuffleStage(t) \/ ReduceStage(t) \/ ReduceLock(t)
    BY <1>2, <2>2
    DEF LeaveBarrier, AtBarrier, ShuffleStage, ReduceStage, ReduceLock, data,
        calls, Labels
  <2>3. CASE InBarrier(t)
    BY <1>3, <2>3 DEF InBarrier, jobVars, data, calls
  <2>4. CASE Shuffle(t)
    BY <1>a, <2>4, GroupsShuffle
  <2>5. CASE ReducePop(t)
    BY <1>a, <2>5, GroupsPop
  <2>6. CASE Reduce(t)
    BY <1>a, <2>6, GroupsReduce
  <2> QED
    BY <1>1, <1>4, <2>1, <2>2, <2>3, <2>4, <2>5, <2>6 DEF Work
<1>5. CASE ClientStep
  BY <1>2, <1>3, <1>5
  DEF ClientStep, Poll, Create, PollLock, ReadProgress, Report, Wait, Close,
      data, calls, Labels
<1> QED
  BY <1>4, <1>5 DEF Next
-----------------------------------------------------------------------------
(***************************************************************************)
(* The inductive invariant                                                 *)
(***************************************************************************)
LEMMA JobInvInit == Init => JobInv
<1> SUFFICES ASSUME Init PROVE JobInv
  OBVIOUS
<1> USE ThreadZero, BarrierAssumption, MapReduceAssumption
        DEF Init, UNDEFINED_STAGE, SHUFFLE_STAGE, REDUCE_STAGE
<1>1. JobTypeOK /\ BarrierInv
  BY TypeInit, InitBarrierInv
<1>2. Control
  BY DEF BarrierInit, Control, BeforeFirst, Mapping
<1>3. StageReached
  BY DEF StageReached
<1>4. ItemsMapped
  BY DEF ItemsMapped, Maps, Items, Mapping
<1>5. PairsEmitted
  BY DEF PairsEmitted, Pairs
<1>6. MapMerged
  BY DEF MapMerged, BeforeFirst, Mapping, AfterSecond
<1>7. GroupsReduced
  <2>1. \A t \in Threads : \A k \in Keys : ~Holds(t, k)
    BY DEF Holds
  <2> QED
    BY <2>1 DEF GroupsReduced
<1>8. CountsBounded
  BY DEF CountsBounded, AfterSecond
<1> QED
  BY <1>1, <1>2, <1>3, <1>4, <1>5, <1>6, <1>7, <1>8 DEF JobInv

LEMMA JobInvNext ==
  ASSUME JobInv, Next
  PROVE  JobInv'
<1>a. JobTypeOK /\ BarrierInv /\ Control /\ StageReached /\ ItemsMapped
      /\ PairsEmitted /\ MapMerged /\ GroupsReduced /\ CountsBounded
  BY DEF JobInv
<1>1. stage = REDUCE_STAGE => pc[0] \in { "barrier2" } \cup AfterSecond
  BY <1>a, ThreadZero, NobodyBefore DEF StageReached
<1>2. JobTypeOK'
  BY <1>a, <1>1, ProgressInRange, TypeWork, TypeClient DEF Next
<1>3. BarrierInv'
  BY <1>a, BarrierInJob, BarrierStepInv, BarrierStutterInv
<1>4. Control'
  BY <1>a, ControlWork, ControlClient DEF Next
<1>5. StageReached'
  BY <1>a, StageStep
<1>6. ItemsMapped' /\ PairsEmitted'
  BY <1>a, ItemsStep, PairsStep
<1>7. MapMerged'
  BY <1>a, MergedStep
<1>8. GroupsReduced'
  BY GroupsStep
<1>9. CountsBounded'
  BY <1>a, CountsStep
<1> QED
  BY <1>2, <1>3, <1>4, <1>5, <1>6, <1>7, <1>8, <1>9 DEF JobInv

LEMMA JobInvStutter ==
  ASSUME JobInv, UNCHANGED vars
  PROVE  JobInv'
<1> USE DEF vars, jobVars, data, results, polled, calls
<1>1. JobTypeOK'
  BY DEF JobInv, JobTypeOK
<1>2. BarrierInv'
  BY BarrierStutterInv DEF JobInv
<1>3. Control' /\ StageReached'
  BY DEF JobInv, barrierVars, Control, AtBarrier, StageReached
<1>4. ItemsMapped' /\ PairsEmitted'
  BY DEF JobInv, ItemsMapped, Maps, PairsEmitted
<1>5. MapMerged' /\ CountsBounded'
  BY DEF JobInv, MapMerged, CountsBounded
<1>6. GroupsReduced'
  BY DEF JobInv, GroupsReduced, Holds, GroupOf
<1> QED
  BY <1>1, <1>2, <1>3, <1>4, <1>5, <1>6 DEF JobInv

\* The invariant holds at every moment of every job.
THEOREM JobInvariant == Spec => []JobInv
<1>1. JobInv /\ [Next]_vars => JobInv'
  BY JobInvNext, JobInvStutter
<1> QED
  BY JobInvInit, <1>1, PTL DEF Spec

\* Type correctness, the range of the reported percentage included.
THEOREM JobTypeCorrect == Spec => []TypeOK
<1>1. JobInv => TypeOK
  BY DEF JobInv, BarrierInv, TypeOK
<1> QED
  BY JobInvariant, <1>1, PTL

\* The stage never goes back, for any number of threads that write it.
THEOREM StageCorrect == Spec => StageAdvances
<1>1. JobInv /\ [Next]_vars => [ stage' >= stage ]_vars
  BY StageStep DEF JobInv
<1> QED
  BY JobInvariant, <1>1, PTL DEF Spec, StageAdvances

\* Nor does the stage that getJobState reports.
THEOREM ReportsCorrect == Spec => ReportsAdvance
<1>1. JobInv /\ [Next]_vars => [ report'.stage >= report.stage ]_vars
  BY StageStep DEF JobInv
<1> QED
  BY JobInvariant, <1>1, PTL DEF Spec, ReportsAdvance

\* While threads reduce, the map holds whole groups.
THEOREM GroupsWhole == Spec => []ReducesWholeGroups
<1>1. JobInv => ReducesWholeGroups
  <2> SUFFICES ASSUME JobInv, stage = REDUCE_STAGE, NEW k \in KeysOf(map)
               PROVE  GroupOf(map, k) = Want(k)
    BY DEF ReducesWholeGroups
  <2>1. PICK t \in Threads : passed[t] >= 2
    BY DEF JobInv, StageReached
  <2>2. pc[0] \in { "barrier2" } \cup AfterSecond
    BY <2>1, ThreadZero, NobodyBefore DEF JobInv
  <2>3. merged = MtLevel
    BY <2>2 DEF JobInv, MapMerged
  <2>4. k \in Keys /\ GroupOf(map, k) # {}
    BY DEF JobInv, JobTypeOK, KeysOf, GroupOf, Pairs
  <2> QED
    BY <2>3, <2>4 DEF JobInv, GroupsReduced
<1> QED
  BY JobInvariant, <1>1, PTL

\* When all threads are done, every key was reduced once, with its whole
\* group, for any number of threads, items and keys.
THEOREM ResultCorrect == Spec => []ResultComplete
<1>1. JobInv => ResultComplete
  <2> SUFFICES ASSUME JobInv, \A t \in Threads : pc[t] = "done", NEW k \in Keys
               PROVE  given[k] = IF Want(k) = {} THEN << >> ELSE << Want(k) >>
    BY DEF ResultComplete
  <2>1. map = {} /\ merged = MtLevel
    BY ThreadZero DEF JobInv, GroupsReduced, MapMerged, AfterSecond
  <2>2. GroupOf(map, k) = {} /\ ~ \E t \in Threads : Holds(t, k)
    BY <2>1 DEF GroupOf, Holds
  <2> QED
    BY <2>1, <2>2 DEF JobInv, GroupsReduced
<1> QED
  BY JobInvariant, <1>1, PTL

\* The calls of the barrier in a job are rounds of the abstract barrier.
THEOREM RoundsCorrect == Spec => RoundsImplemented
<1>1. Init => Rounds!Init
  BY DEF Init, BarrierInit, Rounds!Init, Entered
<1>2. JobInv /\ [Next]_vars => [Rounds!Next]_<< Entered, passed >>
  <2> SUFFICES ASSUME JobInv, [Next]_vars
               PROVE  [Rounds!Next]_<< Entered, passed >>
    OBVIOUS
  <2>1. CASE UNCHANGED barrierVars
    BY <2>1 DEF barrierVars, Entered
  <2>2. CASE \E t \in Threads : BarrierStep(t)
    BY <2>2, RoundsStep DEF JobInv
  <2> QED
    BY <2>1, <2>2, BarrierInJob DEF vars
<1> QED
  BY JobInvariant, <1>1, <1>2, PTL
  DEF Spec, RoundsImplemented, Rounds!Spec, Rounds!vars

\* The framework implements the abstract job: map once per item, then reduce
\* once per key with its whole group.
THEOREM JobCorrect == Spec => JobImplemented
<1>1. Init => Job!Init
  BY DEF Init, Job!Init
<1>2. JobInv /\ [Next]_vars => [Job!Next]_<< mapped, given >>
  <2> SUFFICES ASSUME JobInv, Next
               PROVE  [Job!Next]_<< mapped, given >>
    BY DEF vars, jobVars, calls
  <2>a. JobTypeOK /\ BarrierInv /\ Control /\ ItemsMapped /\ MapMerged
        /\ GroupsReduced
    BY DEF JobInv
  <2>1. ASSUME NEW t \in Threads, Map(t)
        PROVE  Job!Next
    <3>1. item[t] \in Items /\ mapped[item[t]] = 0
      BY <2>a, <2>1 DEF Map, ItemsMapped, Maps
    <3>2. Job!Map(item[t])
      BY <2>1, <3>1 DEF Map, Job!Map
    <3> QED
      BY <3>1, <3>2 DEF Job!Next
  <2>2. ASSUME NEW t \in Threads, Reduce(t)
        PROVE  Job!Next
    <3>1. PICK k \in Keys :
            /\ Want(k) # {}
            /\ given[k] = << >>
            /\ given' = [ given EXCEPT ![k] = << Want(k) >> ]
      BY <2>a, <2>2, ReduceFirstTime
    <3>2. \A u \in Threads : pc[u] \notin Mapping
      <4>1. passed[t] >= 1
        BY <2>a, <2>2, PassedByPlace DEF Reduce, AfterSecond
      <4> QED
        BY <2>a, <4>1, NobodyBefore
    <3>3. \A i \in Items : mapped[i] = 1
      <4>1. inputVec = 0
        BY <2>a, <3>2, ThreadZero DEF ItemsMapped
      <4> QED
        BY <2>a, <3>2, <4>1 DEF ItemsMapped, Maps, Mapping, Items
    <3>4. Job!Reduce(k)
      BY <2>2, <3>1, <3>3 DEF Reduce, Job!Reduce, Job!Group, Want
    <3> QED
      BY <3>4 DEF Job!Next
  <2>3. ASSUME NEW t \in Threads, Work(t), ~Map(t), ~Reduce(t)
        PROVE  UNCHANGED << mapped, given >>
    BY <2>3
    DEF Work, Start, MapLock, MapPop, InBarrier, LeaveBarrier, ShuffleStage,
        Shuffle, ReduceStage, ReduceLock, ReducePop, Emit3, jobVars, calls
  <2>4. ClientStep => UNCHANGED << mapped, given >>
    BY DEF ClientStep, Poll, Create, PollLock, ReadProgress, Report, Wait,
           Close, calls
  <2> QED
    BY <2>1, <2>2, <2>3, <2>4 DEF Next
<1> QED
  BY JobInvariant, <1>1, <1>2, PTL
  DEF Spec, JobImplemented, Job!Spec, Job!vars
=============================================================================
