---------------------------- MODULE BarrierRounds ----------------------------
(***************************************************************************)
(* What a multiple use barrier promises (ex3/Barrier/Barrier.h): nobody    *)
(* gets out of a round that somebody has not yet come to.                  *)
(***************************************************************************)
EXTENDS Naturals

CONSTANT Threads

VARIABLES
  entered,    \* entered[t], the calls of barrier() that t has made
  left        \* left[t], those of them that have returned

vars == << entered, left >>

Init ==
  /\ entered = [ t \in Threads |-> 0 ]
  /\ left = [ t \in Threads |-> 0 ]

Enter(t) ==
  /\ entered[t] = left[t]
  /\ entered' = [ entered EXCEPT ![t] = @ + 1 ]
  /\ UNCHANGED left

Leave(t) ==
  /\ left[t] < entered[t]
  /\ \A u \in Threads : entered[t] <= entered[u]
  /\ left' = [ left EXCEPT ![t] = @ + 1 ]
  /\ UNCHANGED entered

Next == \E t \in Threads : Enter(t) \/ Leave(t)

Spec == Init /\ [][Next]_vars
=============================================================================
