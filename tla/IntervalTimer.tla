--------------------------- MODULE IntervalTimer ---------------------------
(***************************************************************************)
(* The demonstration of setitimer (ex2/demos/demo_itimer.c): the handler   *)
(* of the timer sets a flag, between any two steps of the loop that tests  *)
(* it and resets it.                                                       *)
(***************************************************************************)
EXTENDS Naturals

VARIABLES
  gotit,
  pc,         \* the place in main
  expired,    \* the lines "Timer expired"
  got         \* the lines "Got it!"

vars == << gotit, pc, expired, got >>

Init ==
  /\ gotit = 0
  /\ pc = "sigaction"
  /\ expired = 0
  /\ got = 0

\* The handler and then the timer are installed; calls that fail are ignored.
InstallHandler ==
  /\ pc = "sigaction"
  /\ pc' = "setitimer"
  /\ UNCHANGED << gotit, expired, got >>

StartTimer ==
  /\ pc = "setitimer"
  /\ pc' = "test"
  /\ UNCHANGED << gotit, expired, got >>

timer_handler ==
  /\ pc \in { "test", "print", "reset" }
  /\ gotit' = 1
  /\ expired' = expired + 1
  /\ UNCHANGED << pc, got >>

Test ==
  /\ pc = "test"
  /\ gotit = 1
  /\ pc' = "print"
  /\ UNCHANGED << gotit, expired, got >>

PrintGotIt ==
  /\ pc = "print"
  /\ got' = got + 1
  /\ pc' = "reset"
  /\ UNCHANGED << gotit, expired >>

Reset ==
  /\ pc = "reset"
  /\ gotit' = 0
  /\ pc' = "test"
  /\ UNCHANGED << expired, got >>

Next ==
  \/ InstallHandler \/ StartTimer \/ timer_handler
  \/ Test \/ PrintGotIt \/ Reset

Spec == Init /\ [][Next]_vars
-----------------------------------------------------------------------------
\* No expiration is printed twice, in whichever order the flag is written.  One
\* may be lost: the loop resets the flag that a second expiration has set.
GotEachOnce == got <= expired
=============================================================================
