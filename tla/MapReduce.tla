------------------------------ MODULE MapReduce ------------------------------
(***************************************************************************)
(* The map-reduce framework of exercise 3 (ex3/MapReduceFramework.cpp).    *)
(* MtLevel threads run map_reduce_call: they map the input items, meet at  *)
(* the barrier, thread 0 shuffles, they meet again and reduce the groups.  *)
(* The client program starts the job, asks for its state until it reads    *)
(* that all is reduced, or just waits, and then reads the output.          *)
(*                                                                         *)
(* An intermediate pair is << key, item >>: map is called once per item    *)
(* and emits a key at most once.  Keys are numbered in their order.        *)
(***************************************************************************)
EXTENDS Barrier, Sequences

CONSTANTS
  NumItems,
  NumKeys,
  Emits       \* Emits[i], the keys that client.map emits for the item

Items == 1 .. NumItems
Keys == 1 .. NumKeys
Pairs == Keys \X Items

ASSUME MapReduceAssumption ==
  /\ NumItems \in Nat
  /\ NumKeys \in Nat
  /\ Emits \in [ Items -> SUBSET Keys ]
  /\ MaxRounds > 1

UNDEFINED_STAGE == 0
MAP_STAGE == 1
SHUFFLE_STAGE == 2
REDUCE_STAGE == 3

\* Whoever holds the mutex of the job is a thread, the client or nobody.
Client == MtLevel + 1

\* Points of map_reduce_call, named for what the thread is about to do.
Labels == { "none", "start", "map_lock", "map_pop", "map", "barrier1",
            "shuffle_stage", "shuffle", "barrier2", "reduce_stage",
            "reduce_lock", "reduce_pop", "reduce", "emit3", "done" }
ClientLabels == { "create", "poll", "read", "report", "close", "collect" }

VARIABLES
  pc,         \* pc[t]
  cpc,        \* where the client program is
  owner,      \* the mutex of the job
  stage,
  inputVec,   \* the items 1 .. inputVec are left: pop_back takes the last
  interVec,   \* interVec[t], the pairs that t emitted
  merged,     \* how many contexts are shuffled
  map,        \* the pairs in the map; a key is in it with its whole group
  size,       \* _size
  item,       \* item[t], the input item that t maps, 0 if none
  group,      \* group[t], the pairs that t reduces
  slot,       \* slot[t], the end of the output that its push_back read
  output,     \* the keys of outputVec
  percent,    \* the percentage that getJobState computed
  report,     \* the JobState it returned last
  mapped,     \* auxiliary: mapped[i], how often map was called for i
  given       \* auxiliary: given[k], the arguments reduce was called with

data == << inputVec, interVec, merged, map, size, item, group >>
results == << slot, output >>
polled == << percent, report >>
calls == << mapped, given >>
jobVars == << pc, cpc, owner, stage, data, results, polled, calls >>
vars == << barrierVars, jobVars >>

KeysOf(S) == { p[1] : p \in S }
GroupOf(S, k) == { p \in S : p[1] = k }
Garbage == 0                            \* a slot of outputVec never written
NaN == -1                               \* 0 / 0: differs from every number

Job == INSTANCE MapReduceJob
Goto(t, l) == pc' = [ pc EXCEPT ![t] = l ]
-----------------------------------------------------------------------------
Init ==
  /\ BarrierInit
  /\ pc = [ t \in Threads |-> "none" ]
  /\ cpc = "create"
  /\ owner = Free
  /\ stage = UNDEFINED_STAGE
  /\ inputVec = NumItems
  /\ interVec = [ t \in Threads |-> {} ]
  /\ merged = 0
  /\ map = {}
  /\ size = NumItems
  /\ item = [ t \in Threads |-> 0 ]
  /\ group = [ t \in Threads |-> {} ]
  /\ slot = [ t \in Threads |-> 0 ]
  /\ output = << >>
  /\ percent = 0
  /\ report = [ stage |-> UNDEFINED_STAGE, percent |-> 0 ]
  /\ mapped = [ i \in Items |-> 0 ]
  /\ given = [ k \in Keys |-> << >> ]
-----------------------------------------------------------------------------
(***************************************************************************)
(* The map phase.  stage is written without the mutex.                     *)
(***************************************************************************)
Start(t) ==
  /\ pc[t] = "start"
  /\ stage' = MAP_STAGE
  /\ Goto(t, "map_lock")
  /\ UNCHANGED << barrierVars, cpc, owner, data, results, polled, calls >>

MapLock(t) ==
  /\ pc[t] = "map_lock"
  /\ owner = Free
  /\ owner' = t
  /\ Goto(t, "map_pop")
  /\ UNCHANGED << barrierVars, cpc, stage, data, results, polled, calls >>

\* Mutants: an empty input is not noticed; the last item is left in it.
HasInputAlways == inputVec >= 0
HasNextInput == inputVec > 1
HasInput == inputVec > 0

MapPop(t) ==
  /\ pc[t] = "map_pop"
  /\ owner' = Free
  /\ IF HasInput
       THEN /\ item' = [ item EXCEPT ![t] = inputVec ]
            /\ inputVec' = inputVec - 1
            /\ Goto(t, "map")
       ELSE Goto(t, "barrier1") /\ UNCHANGED << item, inputVec >>
  /\ UNCHANGED << barrierVars, cpc, stage, interVec, merged, map, size, group,
                  results, polled, calls >>

\* client.map and its calls of emit2, which fill the thread's own vector.
Map(t) ==
  /\ pc[t] = "map"
  /\ interVec' = [ interVec EXCEPT ![t] =
                     @ \cup { << k, item[t] >> : k \in Emits[item[t]] } ]
  /\ mapped' = [ mapped EXCEPT ![item[t]] = @ + 1 ]
  /\ item' = [ item EXCEPT ![t] = 0 ]
  /\ Goto(t, "map_lock")
  /\ UNCHANGED << barrierVars, cpc, owner, stage, inputVec, merged, map, size,
                  group, results, polled, given >>
-----------------------------------------------------------------------------
(***************************************************************************)
(* The barriers, and between them the shuffle.                             *)
(***************************************************************************)
AtBarrier(t) == pc[t] \in { "barrier1", "barrier2" }

InBarrier(t) ==
  /\ AtBarrier(t)
  /\ Enter(t) \/ Inside(t)
  /\ UNCHANGED jobVars

LeaveBarrier(t) ==
  /\ AtBarrier(t)
  /\ Leave(t)
  /\ Goto(t, IF pc[t] = "barrier1" THEN "shuffle_stage" ELSE "reduce_stage")
  /\ UNCHANGED << cpc, owner, stage, data, results, polled, calls >>

ShuffleStage(t) ==
  /\ pc[t] = "shuffle_stage"
  /\ stage' = SHUFFLE_STAGE
  /\ Goto(t, IF t = 0 THEN "shuffle" ELSE "barrier2")
  /\ UNCHANGED << barrierVars, cpc, owner, data, results, polled, calls >>

\* Mutant: the vector of the last thread is left out.
AllButLast == MtLevel - 1
AllContexts == MtLevel

\* One context at a time goes into the map; then _size becomes its size.
Shuffle(t) ==
  /\ pc[t] = "shuffle"
  /\ \/ /\ merged < AllContexts
        /\ map' = map \cup interVec[merged]
        /\ merged' = merged + 1
        /\ UNCHANGED << pc, size >>
     \/ /\ merged = AllContexts
        /\ size' = Cardinality(KeysOf(map))
        /\ Goto(t, "barrier2")
        /\ UNCHANGED << map, merged >>
  /\ UNCHANGED << barrierVars, cpc, owner, stage, inputVec, interVec, item,
                  group, results, polled, calls >>
-----------------------------------------------------------------------------
(***************************************************************************)
(* The reduce phase.                                                       *)
(***************************************************************************)
ReduceStage(t) ==
  /\ pc[t] = "reduce_stage"
  /\ stage' = REDUCE_STAGE
  /\ Goto(t, "reduce_lock")
  /\ UNCHANGED << barrierVars, cpc, owner, data, results, polled, calls >>

ReduceLock(t) ==
  /\ pc[t] = "reduce_lock"
  /\ owner = Free
  /\ owner' = t
  /\ Goto(t, "reduce_pop")
  /\ UNCHANGED << barrierVars, cpc, stage, data, results, polled, calls >>

IsFirst(k) ==
  /\ k \in KeysOf(map)
  /\ \A j \in KeysOf(map) : k <= j

\* Mutant: the group stays in the map.
Keep(k) == map
Erase(k) == map \ GroupOf(map, k)

ReducePop(t) ==
  /\ pc[t] = "reduce_pop"
  /\ owner' = Free
  /\ \/ \E k \in Keys :
          /\ IsFirst(k)
          /\ group' = [ group EXCEPT ![t] = GroupOf(map, k) ]
          /\ map' = Erase(k)
          /\ Goto(t, "reduce")
     \/ map = {} /\ Goto(t, "done") /\ UNCHANGED << group, map >>
  /\ UNCHANGED << barrierVars, cpc, stage, inputVec, interVec, merged, size,
                  item, results, polled, calls >>

\* client.reduce, as far as its call of emit3 has read the end of outputVec.
Reduce(t) ==
  /\ pc[t] = "reduce"
  /\ \E k \in KeysOf(group[t]) :
       given' = [ given EXCEPT ![k] = Append(@, group[t]) ]
  /\ slot' = [ slot EXCEPT ![t] = Len(output) ]
  /\ Goto(t, "emit3")
  /\ UNCHANGED << barrierVars, cpc, owner, stage, data, output, polled,
                  mapped >>

\* push_back without a mutex: the pair goes where the end was when it was
\* read, and the end that is stored follows it, or the end as it is now.
Emit3(t) ==
  /\ pc[t] = "emit3"
  /\ \E k \in KeysOf(group[t]), n \in { slot[t] + 1, Len(output) + 1 } :
       output' = [ j \in 1 .. n |-> IF j = slot[t] + 1 THEN k
                                    ELSE IF j <= Len(output) THEN output[j]
                                    ELSE Garbage ]
  /\ group' = [ group EXCEPT ![t] = {} ]
  /\ slot' = [ slot EXCEPT ![t] = 0 ]
  /\ Goto(t, "reduce_lock")
  /\ UNCHANGED << barrierVars, cpc, owner, stage, inputVec, interVec, merged,
                  map, size, item, polled, calls >>
-----------------------------------------------------------------------------
(***************************************************************************)
(* The client program.  startMapReduceJob creates the threads one by one,  *)
(* each of which starts at once.                                           *)
(***************************************************************************)
Create ==
  /\ cpc = "create"
  /\ \E t \in Threads :
       /\ pc[t] = "none"
       /\ \A u \in 0 .. t - 1 : pc[u] # "none"
       /\ Goto(t, "start")
       /\ cpc' = IF t = MtLevel - 1 THEN "poll" ELSE "create"
  /\ UNCHANGED << barrierVars, owner, stage, data, results, polled, calls >>

\* getJobState locks the mutex, computes the percentage of the stage, and
\* reads the stage again.
PollLock ==
  /\ cpc = "poll"
  /\ owner = Free
  /\ owner' = Client
  /\ cpc' = "read"
  /\ UNCHANGED << barrierVars, pc, stage, data, results, polled, calls >>

PercentLeft(a, b) == IF b = 0 THEN NaN ELSE (100 * (b - a)) \div b
Progress ==
  CASE stage = UNDEFINED_STAGE -> 100
    [] stage = MAP_STAGE -> PercentLeft(inputVec, size)
    [] stage = SHUFFLE_STAGE -> 50
    [] stage = REDUCE_STAGE -> PercentLeft(Cardinality(KeysOf(map)), size)

ReadProgress ==
  /\ cpc = "read"
  /\ percent' = Progress
  /\ cpc' = "report"
  /\ UNCHANGED << barrierVars, pc, owner, stage, data, results, report,
                  calls >>

AllReduced == [ stage |-> REDUCE_STAGE, percent |-> 100 ]

\* The client asks again until the job is reduced, or loses interest in it.
Report ==
  /\ cpc = "report"
  /\ report' = [ stage |-> stage, percent |-> percent ]
  /\ owner' = Free
  /\ percent' = 0
  /\ cpc' = IF report' = AllReduced THEN "close" ELSE "poll"
  /\ UNCHANGED << barrierVars, pc, stage, data, results, calls >>

\* waitForJob without a poll.
Wait ==
  /\ cpc = "poll"
  /\ cpc' = "close"
  /\ UNCHANGED << barrierVars, pc, owner, stage, data, results, polled,
                  calls >>

\* closeJobHandle and waitForJob: pthread_tryjoin_np returns at once, whether
\* the thread has ended or not.
Close ==
  /\ cpc = "close"
  /\ cpc' = "collect"
  /\ UNCHANGED << barrierVars, pc, owner, stage, data, results, polled,
                  calls >>
-----------------------------------------------------------------------------
Work(t) ==
  \/ Start(t) \/ MapLock(t) \/ MapPop(t) \/ Map(t)
  \/ InBarrier(t) \/ LeaveBarrier(t)
  \/ ShuffleStage(t) \/ Shuffle(t)
  \/ ReduceStage(t) \/ ReduceLock(t) \/ ReducePop(t) \/ Reduce(t) \/ Emit3(t)
Locks(t) == MapLock(t) \/ ReduceLock(t)
Poll == Create \/ PollLock \/ ReadProgress \/ Report \/ Close
ClientStep == Poll \/ Wait

Next == (\E t \in Threads : Work(t)) \/ ClientStep

Spec == Init /\ [][Next]_vars

\* Threads are scheduled, and one that waits for a mutex that is free again
\* and again gets it some time: the client locks it in a loop.
FairSpec ==
  /\ Spec
  /\ WF_vars(Poll)
  /\ \A t \in Threads : WF_vars(Work(t)) /\ SF_vars(Locks(t))
-----------------------------------------------------------------------------
(***************************************************************************)
(* What the framework promises.                                            *)
(***************************************************************************)
\* The types of the variables; in particular the percentage that getJobState
\* returns is 0 to 100, whatever stage it is computed for.
JobTypeOK ==
  /\ pc \in [ Threads -> Labels ]
  /\ cpc \in ClientLabels
  /\ owner \in Threads \cup {Free, Client}
  /\ stage \in UNDEFINED_STAGE .. REDUCE_STAGE
  /\ inputVec \in 0 .. NumItems
  /\ interVec \in [ Threads -> SUBSET Pairs ]
  /\ merged \in 0 .. MtLevel
  /\ map \in SUBSET Pairs
  /\ size \in Nat
  /\ item \in [ Threads -> 0 .. NumItems ]
  /\ group \in [ Threads -> SUBSET Pairs ]
  /\ slot \in [ Threads -> Nat ]
  /\ output \in Seq(Keys \cup {Garbage})
  /\ percent \in {NaN} \cup 0 .. 100
  /\ report \in [ stage : UNDEFINED_STAGE .. REDUCE_STAGE,
                  percent : {NaN} \cup 0 .. 100 ]
  /\ mapped \in [ Items -> Nat ]
  /\ given \in [ Keys -> Seq(SUBSET Pairs) ]
TypeOK == BarrierTypeOK /\ JobTypeOK

\* The stage never goes back, though each thread writes it when it gets there.
StageAdvances == [][ stage' >= stage ]_vars

\* While the stage says that the threads reduce, the map holds whole groups:
\* every pair that was emitted for a key of the map is there.
Want(k) == { << k, i >> : i \in Job!Sources(k) }
ReducesWholeGroups ==
  stage = REDUCE_STAGE => \A k \in KeysOf(map) : GroupOf(map, k) = Want(k)

\* When the threads are done, reduce was called once for every key that was
\* emitted, with all its pairs, whichever threads emitted them and when.
ResultComplete ==
  (\A t \in Threads : pc[t] = "done") =>
    \A k \in Keys :
      given[k] = IF Want(k) = {} THEN << >> ELSE << Want(k) >>

\* Two calls of getJobState do not report the stages in the wrong order.
ReportsAdvance == [][ report'.stage >= report.stage ]_vars

\* Within one stage the reported percentage does not go down.
PercentAdvances ==
  [][ report'.stage = report.stage => report'.percent >= report.percent ]_vars

\* The job does what the abstract job does.
JobImplemented == Job!Spec

\* All threads come to their end, past both barriers, and a client that polls
\* learns of it.
JobEnds == <>((\A t \in Threads : pc[t] = "done") /\ cpc = "collect")
=============================================================================
