------------------------------- MODULE Barrier -------------------------------
(***************************************************************************)
(* The multiple use barrier of exercise 3 (ex3/Barrier/Barrier.cpp): a     *)
(* mutex, a condition variable and a counter.  barrier() locks the mutex   *)
(* and counts; a caller that is not the last waits on the condition        *)
(* variable, the last one resets the counter and wakes the others.         *)
(***************************************************************************)
EXTENDS Integers, FiniteSets

CONSTANTS
  MtLevel,      \* numThreads of the barrier, multiThreadLevel of the job
  MaxRounds     \* bound: calls of barrier() by one thread

ASSUME BarrierAssumption ==
  /\ MtLevel \in Nat \ {0}
  /\ MaxRounds \in Nat

Threads == 0 .. MtLevel - 1
Free == MtLevel                 \* the holder of a mutex nobody holds

VARIABLES
  at,         \* at[t], where t is in barrier()
  holder,     \* the thread that holds the mutex
  count,      \* count
  passed      \* auxiliary: passed[t], the calls of t that have returned

barrierVars == << at, holder, count, passed >>

\* Waiting on the condition variable is "wait"; a thread that was woken needs
\* the mutex to go on.
Points == { "out", "lock", "count", "wait", "woken", "unlock" }

BarrierInit ==
  /\ at = [ t \in Threads |-> "out" ]
  /\ holder = Free
  /\ count = 0
  /\ passed = [ t \in Threads |-> 0 ]
-----------------------------------------------------------------------------
Enter(t) ==
  /\ at[t] = "out"
  /\ passed[t] < MaxRounds               \* bound
  /\ at' = [ at EXCEPT ![t] = "lock" ]
  /\ UNCHANGED << holder, count, passed >>

Acquire(t) ==
  /\ at[t] = "lock"
  /\ holder = Free
  /\ holder' = t
  /\ at' = [ at EXCEPT ![t] = "count" ]
  /\ UNCHANGED << count, passed >>

\* Mutant: the last but one caller does not wait.
IsLastButOne == count + 2 >= MtLevel
IsLast == count + 1 >= MtLevel

\* Not the last: pthread_cond_wait releases the mutex and waits.  Only a
\* broadcast ends the wait; the code would not notice a spurious wake-up.
Arrive(t) ==
  /\ at[t] = "count"
  /\ ~IsLast
  /\ count' = count + 1
  /\ holder' = Free
  /\ at' = [ at EXCEPT ![t] = "wait" ]
  /\ UNCHANGED passed

\* Mutant: the counter is not reset.
CountKept == count + 1
CountReset == 0
\* Mutants: no thread is woken; pthread_cond_signal, which wakes one of the
\* waiting threads.
NoBroadcast(u) == FALSE
SignalOne(u) == at[u] = "wait" /\ \A v \in 0 .. u - 1 : at[v] # "wait"
Broadcast(u) == at[u] = "wait"

Release(t) ==
  /\ at[t] = "count"
  /\ IsLast
  /\ count' = CountReset
  /\ at' = [ u \in Threads |-> IF u = t THEN "unlock"
                               ELSE IF Broadcast(u) THEN "woken"
                               ELSE at[u] ]
  /\ UNCHANGED << holder, passed >>

Reacquire(t) ==
  /\ at[t] = "woken"
  /\ holder = Free
  /\ holder' = t
  /\ at' = [ at EXCEPT ![t] = "unlock" ]
  /\ UNCHANGED << count, passed >>

Leave(t) ==
  /\ at[t] = "unlock"
  /\ holder' = Free
  /\ at' = [ at EXCEPT ![t] = "out" ]
  /\ passed' = [ passed EXCEPT ![t] = @ + 1 ]
  /\ UNCHANGED count

Inside(t) == Acquire(t) \/ Arrive(t) \/ Release(t) \/ Reacquire(t)
BarrierStep(t) == Enter(t) \/ Inside(t) \/ Leave(t)

BarrierNext == \E t \in Threads : BarrierStep(t)
BarrierSpec == BarrierInit /\ [][BarrierNext]_barrierVars
-----------------------------------------------------------------------------
\* The types of the variables.
BarrierTypeOK ==
  /\ at \in [ Threads -> Points ]
  /\ holder \in Threads \cup {Free}
  /\ count \in 0 .. MtLevel - 1
  /\ passed \in [ Threads -> Nat ]

Entered == [ t \in Threads |-> passed[t] + (IF at[t] = "out" THEN 0 ELSE 1) ]

\* No call of barrier() returns before every thread has made as many: two
\* rounds never mix, however fast a thread comes back to the barrier.
RoundsApart == \A t, u \in Threads : passed[t] <= Entered[u]

\* The barrier implements the abstract one.
Rounds == INSTANCE BarrierRounds WITH entered <- Entered, left <- passed
RoundsImplemented == Rounds!Spec
=============================================================================
