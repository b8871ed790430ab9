---------------------------- MODULE AtomicFields ----------------------------
(***************************************************************************)
(* The demonstration of one atomic word with three counters                *)
(* (ex3/Atomic/atomicdemo_multivar.cpp): MT_LEVEL threads each count the   *)
(* multiples of 10 and of 100 in its lower fields, and those with an odd   *)
(* number themselves in the highest.                                       *)
(***************************************************************************)
EXTENDS Integers

CONSTANTS
  MtLevel,      \* MT_LEVEL, 4
  Iterations,   \* n, 1000
  LowSize,      \* 1 << 16, the values of the first field
  MiddleSize    \* 1 << 14, those of the next; the last two bits are the third

VARIABLES
  atomic_counter,
  pc,      \* pc[t], where thread t is in count
  i,       \* i[t], the loop variable of count
  main     \* the pthread_create and pthread_join calls that main has made

vars == << atomic_counter, pc, i, main >>

Threads == 0 .. MtLevel - 1
High == LowSize * MiddleSize
WordSize == 4 * High

Init ==
  /\ atomic_counter = 0
  /\ pc = [ t \in Threads |-> "none" ]
  /\ i = [ t \in Threads |-> 0 ]
  /\ main = 0
-----------------------------------------------------------------------------
Create ==
  /\ main < MtLevel
  /\ pc' = [ pc EXCEPT ![main] = "ones" ]
  /\ main' = main + 1
  /\ UNCHANGED << atomic_counter, i >>

Join ==
  /\ main \in MtLevel .. 2 * MtLevel - 1
  /\ pc[main - MtLevel] = "done"
  /\ main' = main + 1
  /\ UNCHANGED << atomic_counter, pc, i >>

Printed == main = 2 * MtLevel
-----------------------------------------------------------------------------
(***************************************************************************)
(* count: two additions, each of them atomic, in the loop, and one after   *)
(* it.  The word is unsigned.                                              *)
(***************************************************************************)
Add(n) == atomic_counter' = (atomic_counter + n) % WordSize

AddOne(t) ==
  /\ pc[t] = "ones"
  /\ i[t] < Iterations
  /\ Add(IF i[t] % 10 = 0 THEN 1 ELSE 0)
  /\ pc' = [ pc EXCEPT ![t] = "hundreds" ]
  /\ UNCHANGED << i, main >>

AddMiddle(t) ==
  /\ pc[t] = "hundreds"
  /\ Add(IF i[t] % 100 = 0 THEN LowSize ELSE 0)
  /\ i' = [ i EXCEPT ![t] = @ + 1 ]
  /\ pc' = [ pc EXCEPT ![t] = "ones" ]
  /\ UNCHANGED main

AddHigh(t) ==
  /\ pc[t] = "ones"
  /\ i[t] = Iterations
  /\ Add((t % 2) * High)
  /\ pc' = [ pc EXCEPT ![t] = "done" ]
  /\ UNCHANGED << i, main >>

count(t) == AddOne(t) \/ AddMiddle(t) \/ AddHigh(t)

Next == Create \/ Join \/ \E t \in Threads : count(t)

Spec == Init /\ [][Next]_vars
-----------------------------------------------------------------------------
\* What main prints: the mask of the second line is one bit too long, and has
\* the lower bit of the third field.
FirstLine == atomic_counter % LowSize
SecondLine == (atomic_counter \div LowSize) % (2 * MiddleSize)
ThirdLine == atomic_counter \div High

Tens == (Iterations + 9) \div 10
Hundreds == (Iterations + 99) \div 100
OddThreads == MtLevel \div 2

\* No addition is lost and none runs over into the next field.  The second line
\* is right where the number of threads with an odd number is even, as with the
\* four of the program, and too large by MiddleSize elsewhere.
PrintedFields ==
  Printed =>
    /\ FirstLine = MtLevel * Tens
    /\ SecondLine = MtLevel * Hundreds + (OddThreads % 2) * MiddleSize
    /\ ThirdLine = OddThreads
=============================================================================
