------------------------------- MODULE Memory -------------------------------
(***************************************************************************)
(* What the virtual memory of exercise 4 promises (ex4/VirtualMemory.h):   *)
(* an array of words.  A call makes every word zero, reads or writes one    *)
(* word, or fails when the address is none of the memory's.                *)
(***************************************************************************)
EXTENDS Naturals

CONSTANTS
  Size,       \* the memory has the addresses below
  Addrs,      \* the addresses that calls name
  Words

VARIABLES
  mem,        \* mem[a], the word at the address a
  call,       \* the call in progress
  answer      \* what the last call returned

vars == << mem, call, answer >>

Legal == { a \in Addrs : a < Size }

NoCall == [ op |-> "none", addr |-> 0, value |-> 0 ]
Reads == [ op : {"read"}, addr : Addrs, value : {0} ]
Writes == [ op : {"write"}, addr : Addrs, value : Words ]

Success(w) == [ ok |-> TRUE, value |-> w ]
Failure == [ ok |-> FALSE, value |-> 0 ]

Zeros == [ a \in Legal |-> 0 ]

Init ==
  /\ mem = Zeros
  /\ call = NoCall
  /\ answer = Failure

\* Every word is made zero.
Initialize ==
  /\ call = NoCall
  /\ mem' = Zeros
  /\ UNCHANGED << call, answer >>

Call ==
  /\ call = NoCall
  /\ call' \in Reads \cup Writes
  /\ UNCHANGED << mem, answer >>

Read ==
  /\ call.op = "read"
  /\ call.addr \in Legal
  /\ answer' = Success(mem[call.addr])
  /\ UNCHANGED mem

Write ==
  /\ call.op = "write"
  /\ call.addr \in Legal
  /\ mem' = [ mem EXCEPT ![call.addr] = call.value ]
  /\ answer' = Success(0)

Fail ==
  /\ call # NoCall
  /\ call.addr \notin Legal
  /\ answer' = Failure
  /\ UNCHANGED mem

Return == (Read \/ Write \/ Fail) /\ call' = NoCall

Next == Initialize \/ Call \/ Return

Spec == Init /\ [][Next]_vars
=============================================================================
