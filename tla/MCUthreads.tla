----------------------------- MODULE MCUthreads -----------------------------
EXTENDS Uthreads

\* The saved contexts that will be read before they are written again: those
\* of the live threads, but not of the one that runs in its own context.
Saved == IF pc.at \in SchedLabels \cup {"jump"} THEN Live ELSE Live \ {Self}

\* Two states are the same when they differ only in what is never read: the
\* contents of objects that no pointer reaches and the other contexts.
LiveView ==
  << queue, lists, mutex, cur, total, retired, pc, armed, claims,
     [ o \in Reachable |-> << tidOf[o], state[o] >> ],
     [ o \in Live |-> quanta[o] ], [ o \in Saved |-> ctx[o] ] >>
=============================================================================
