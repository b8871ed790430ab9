----------------------------- MODULE Scheduler -----------------------------
(***************************************************************************)
(* What the library of user-level threads does when a call is a single     *)
(* step: which thread may be run, by what a thread becomes ready again,    *)
(* and what becomes of the mutex and of those who wait for it.  Where the  *)
(* code and the promises of ex2/uthreads.h part, this is the code:         *)
(*   - an unlock readies all who wait, also one that uthread_block was     *)
(*     called for (uthreads.h:88 readies one);                             *)
(*   - uthread_resume readies one that waits for the mutex (uthreads.h:66  *)
(*     excludes who is "synced");                                          *)
(*   - a blocked thread may be run when another one ended a thread with    *)
(*     its ID before (uthreads.h:53 has it run after a resume).            *)
(***************************************************************************)
EXTENDS Integers

CONSTANTS
  MaxThreadNum,
  EndsOthers    \* TRUE iff threads end each other

VARIABLES
  status,       \* status[t], of each thread ID
  holder,       \* the thread ID that holds the mutex, or NoTid
  waiters,      \* the threads that found the mutex taken and were not woken
  stale         \* the IDs of ended threads that the library may yet run by
                \* mistake: it runs the thread that has the ID by then

client == << status, holder, waiters >>
vars == << client, stale >>
mutex == << holder, waiters >>

Tid == 0 .. MaxThreadNum - 1
NoTid == -1

Used(t) == status[t] # "none"
Runs(t) == status[t] = "running"
Become(t, s) == status' = [ status EXCEPT ![t] = s ]

Init ==
  /\ status = [ t \in Tid |-> IF t = 0 THEN "ready" ELSE "none" ]
  /\ holder = NoTid
  /\ waiters = {}
  /\ stale = {}

\* A thread r that runs creates, ends, blocks or resumes a thread t.
Spawn(r, t) ==
  /\ Runs(r)
  /\ ~Used(t)
  /\ \A u \in 0 .. t - 1 : Used(u)
  /\ Become(t, "ready")
  /\ UNCHANGED mutex

\* Who ends itself has given back the mutex.
End(r, t) ==
  /\ Runs(r)
  /\ t # 0
  /\ IF t = r THEN holder # t ELSE EndsOthers
  /\ Become(t, "none")
  /\ waiters' = waiters \ {t}
  /\ UNCHANGED holder

Block(r, t) ==
  /\ Runs(r)
  /\ t # 0
  /\ Used(t)
  /\ Become(t, "blocked")
  /\ UNCHANGED mutex

Resume(r, t) ==
  /\ Runs(r)
  /\ t # r
  /\ Used(t)
  /\ Become(t, "ready")
  /\ UNCHANGED mutex

\* A quantum ends, and another begins, of a ready thread or by mistake.
Preempt(t) ==
  /\ Runs(t)
  /\ Become(t, "ready")
  /\ UNCHANGED mutex

Run(t) ==
  /\ \A u \in Tid : ~Runs(u)
  /\ status[t] = "ready" \/ (t \in stale /\ status[t] = "blocked")
  /\ Become(t, "running")
  /\ UNCHANGED mutex

\* The mutex.  Who finds it taken waits; who gives it back wakes all who wait.
Acquire(t) ==
  /\ Runs(t)
  /\ holder = NoTid
  /\ waiters = {}
  /\ holder' = t
  /\ UNCHANGED << status, waiters >>

Wait(t) ==
  /\ Runs(t)
  /\ holder \notin { NoTid, t }
  /\ Become(t, "blocked")
  /\ waiters' = waiters \cup {t}
  /\ UNCHANGED holder

Release(t) ==
  /\ Runs(t)
  /\ holder = t
  /\ t \notin waiters
  /\ holder' = NoTid
  /\ waiters' = {}
  /\ status' = [ u \in Tid |-> IF u \in waiters THEN "ready" ELSE status[u] ]

\* Nobody can be run, because main waits: the fault is handled by the thread
\* that ran last, which is ended by it.
Fault(t) ==
  /\ \A u \in Tid : status[u] \in { "none", "blocked" }
  /\ 0 \in waiters
  /\ holder \notin { NoTid, 0 }
  /\ Used(t)
  /\ Become(t, "running")
  /\ UNCHANGED mutex

Step ==
  \/ \E r, t \in Tid : Spawn(r, t) \/ End(r, t) \/ Block(r, t) \/ Resume(r, t)
  \/ \E t \in Tid :
       Preempt(t) \/ Run(t) \/ Acquire(t) \/ Wait(t) \/ Release(t) \/ Fault(t)

\* Where threads end each other, one that is ended leaves its ID behind when
\* another one ends it, or when it still waits.  What is left may be forgotten
\* in any step.
LeavesBehind(t) ==
  /\ EndsOthers
  /\ Used(t) /\ status'[t] = "none"
  /\ ~Runs(t) \/ t \in waiters

Next ==
  /\ Step \/ UNCHANGED client
  /\ \A t \in stale' \ stale : LeavesBehind(t)

Spec == Init /\ [][Next]_vars
-----------------------------------------------------------------------------
\* What holds in every state: one thread runs, main is there, and who waits for
\* the mutex waits for another thread, which can give it back.  Unless threads
\* end each other, that thread is there, and nobody is run by mistake.
Consistent ==
  /\ status \in [ Tid -> { "none", "ready", "running", "blocked" } ]
  /\ \A r, t \in Tid : Runs(r) /\ Runs(t) => r = t
  /\ Used(0)
  /\ waiters # {} => holder # NoTid
  /\ \A t \in waiters : Used(t) /\ holder # t
  /\ ~EndsOthers => (holder # NoTid => Used(holder)) /\ stale = {}
=============================================================================
