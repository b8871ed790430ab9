--------------------------- MODULE AtomicCounter ---------------------------
(***************************************************************************)
(* The demonstration of an atomic variable (ex3/Atomic/atomicdemo.cpp):    *)
(* MT_LEVEL threads add one to an atomic and to a plain counter, 1000      *)
(* times each.  The plain increment is a load and a store, as the build    *)
(* without optimisation has it; 5 * 1000 is far from an overflow.          *)
(***************************************************************************)
EXTENDS Integers

CONSTANTS
  MtLevel,     \* MT_LEVEL, the number of threads
  Iterations   \* the increments of each

VARIABLES
  atomic_counter, bad_counter,
  pc,      \* pc[t], where thread t is in foo
  i,       \* i[t], the loop variable of foo
  loaded,  \* loaded[t], the value of bad_counter that thread t loaded
  main     \* the pthread_create and pthread_join calls that main has made

vars == << atomic_counter, bad_counter, pc, i, loaded, main >>

Threads == 0 .. MtLevel - 1

Init ==
  /\ atomic_counter = 0
  /\ bad_counter = 0
  /\ pc = [ t \in Threads |-> "none" ]
  /\ i = [ t \in Threads |-> 0 ]
  /\ loaded = [ t \in Threads |-> 0 ]
  /\ main = 0
-----------------------------------------------------------------------------
(***************************************************************************)
(* main creates the threads, joins them in the same order, and prints the  *)
(* counters.                                                               *)
(***************************************************************************)
Create ==
  /\ main < MtLevel
  /\ pc' = [ pc EXCEPT ![main] = "loop" ]
  /\ main' = main + 1
  /\ UNCHANGED << atomic_counter, bad_counter, i, loaded >>

Join ==
  /\ main \in MtLevel .. 2 * MtLevel - 1
  /\ pc[main - MtLevel] = "done"
  /\ main' = main + 1
  /\ UNCHANGED << atomic_counter, bad_counter, pc, i, loaded >>

Printed == main = 2 * MtLevel
-----------------------------------------------------------------------------
(***************************************************************************)
(* foo.                                                                    *)
(***************************************************************************)
IncrementAtomic(t) ==
  /\ pc[t] = "loop"
  /\ i[t] < Iterations
  /\ atomic_counter' = atomic_counter + 1
  /\ pc' = [ pc EXCEPT ![t] = "load" ]
  /\ UNCHANGED << bad_counter, i, loaded, main >>

LoadBad(t) ==
  /\ pc[t] = "load"
  /\ loaded' = [ loaded EXCEPT ![t] = bad_counter ]
  /\ pc' = [ pc EXCEPT ![t] = "store" ]
  /\ UNCHANGED << atomic_counter, bad_counter, i, main >>

StoreBad(t) ==
  /\ pc[t] = "store"
  /\ bad_counter' = loaded[t] + 1
  /\ i' = [ i EXCEPT ![t] = @ + 1 ]
  /\ pc' = [ pc EXCEPT ![t] = "loop" ]
  /\ UNCHANGED << atomic_counter, loaded, main >>

Return(t) ==
  /\ pc[t] = "loop"
  /\ i[t] = Iterations
  /\ pc' = [ pc EXCEPT ![t] = "done" ]
  /\ UNCHANGED << atomic_counter, bad_counter, i, loaded, main >>

foo(t) == IncrementAtomic(t) \/ LoadBad(t) \/ StoreBad(t) \/ Return(t)

Next == Create \/ Join \/ \E t \in Threads : foo(t)

Spec == Init /\ [][Next]_vars
-----------------------------------------------------------------------------
\* What main prints: the atomic counter has every increment; the plain one may
\* have lost all of them but two, and never has one too many.  Two are left
\* because the last store of all is not the first one of its thread, which has
\* loaded what it had stored before, or what another thread stored since.
PrintedCounters ==
  Printed => /\ atomic_counter = MtLevel * Iterations
             /\ bad_counter \in 2 .. MtLevel * Iterations
=============================================================================
