-------------------------- MODULE TimeMeasurement --------------------------
(***************************************************************************)
(* The time measurements of exercise 1 (ex1/osm.cpp): each function reads  *)
(* the clock, runs a loop, and reads the clock again.  They differ in what *)
(* the loop does, which takes any time.                                    *)
(***************************************************************************)
EXTENDS Integers

CONSTANT Iterations   \* the argument iterations of a call

Second == 1000000

VARIABLES
  now,        \* the time of gettimeofday in microseconds
  t1, t2,     \* struct timeval
  i,          \* the loop variable
  pc,         \* the place in the function
  result      \* what the division by iterations is applied to, in microseconds

vars == << now, t1, t2, i, pc, result >>

Timeval(time) ==
  [ tv_sec |-> time \div Second, tv_usec |-> time % Second ]

Init ==
  /\ now \in Nat
  /\ t1 = Timeval(0)
  /\ t2 = Timeval(0)
  /\ i = 0
  /\ pc = "call"
  /\ result = 0

\* The clock of the system, which is not set back.
Passes ==
  /\ \E time \in Nat : now' = now + time
  /\ UNCHANGED << t1, t2, i, pc, result >>

Begin ==
  /\ pc = "call"
  /\ t1' = Timeval(now)
  /\ i' = 0
  /\ pc' = "loop"
  /\ UNCHANGED << now, t2, result >>

Code ==
  /\ pc = "loop"
  /\ i < Iterations
  /\ i' = i + 1
  /\ UNCHANGED << now, t1, t2, pc, result >>

End ==
  /\ pc = "loop"
  /\ i >= Iterations
  /\ t2' = Timeval(now)
  /\ pc' = "return"
  /\ UNCHANGED << now, t1, i, result >>

elapsedTime == (t2.tv_sec - t1.tv_sec) * Second

Return ==
  /\ pc = "return"
  /\ result' = elapsedTime + (t2.tv_usec + Second - t1.tv_usec)
  /\ pc' = "call"
  /\ UNCHANGED << now, t1, t2, i >>

Next == Passes \/ Begin \/ Code \/ End \/ Return

Spec == Init /\ [][Next]_vars
-----------------------------------------------------------------------------
Microseconds(t) == t.tv_sec * Second + t.tv_usec

\* What a function returns is not the time between its two looks at the clock
\* but a second more, divided by iterations: ten iterations of anything take
\* 100000 microseconds each, as ex1/time.py has it.
SecondTooMuch ==
  pc = "call" /\ result # 0 =>
    /\ result = Second + (Microseconds(t2) - Microseconds(t1))
    /\ Microseconds(t1) <= Microseconds(t2)
    /\ Microseconds(t2) <= now
=============================================================================
