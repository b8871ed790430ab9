--------------------------- MODULE MCUthreadsTests ---------------------------
(***************************************************************************)
(* The tests of the threads library for TLC.                               *)
(***************************************************************************)
EXTENDS UthreadsTests

M == INSTANCE MCUthreads

Counters == IF Tests[test].quantum = LONG
              THEN << total, retired, [ o \in Live |-> quanta[o] ] >>
              ELSE << >>
\* Like LiveView, and the quanta only of the tests that read them.
TestsView ==
  << queue, lists, mutex, cur, pc, armed, claims,
     [ o \in Reachable |-> << tidOf[o], state[o] >> ],
     [ o \in M!Saved |-> ctx[o] ], Counters,
     test, statics, failed,
     [ t \in { u \in Tid : Contain(u) \/ pc.tid = u } |->
         << code[t], ip[t], local[t] >> ] >>
=============================================================================
