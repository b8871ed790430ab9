----------------------------- MODULE MCMapReduce -----------------------------
(***************************************************************************)
(* Instances of the map-reduce framework for TLC.                          *)
(***************************************************************************)
EXTENDS MapReduce

\* Item 1 has both keys, the other items have key 1: the groups overlap in an
\* item, and a key has pairs of several threads.
MCEmits == [ i \in Items |-> IF i = 1 THEN 1 .. NumKeys ELSE {1} ]
=============================================================================
