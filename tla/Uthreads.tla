------------------------------ MODULE Uthreads ------------------------------
(***************************************************************************)
(* The user-level threads library of exercise 2 (ex2/uthreads.cpp,         *)
(* ex2/Threads.cpp): one kernel thread, a FIFO of ready Thread objects, a  *)
(* mutex, and a scheduler that is the handler of two signals: SIGVTALRM,   *)
(* when the quantum of the running thread is used up, and SIGINT, which a  *)
(* thread that blocks raises itself.                                       *)
(*                                                                         *)
(* A Thread object is a member of Obj: the code never frees one, and       *)
(* "queue" (one slot per thread ID), the ready FIFO and the list of mutex  *)
(* waiters hold pointers to them, so an object can outlive its ID.  The    *)
(* registers and stack of a thread are a continuation, the point of the    *)
(* code at which it goes on: pc is the continuation the processor runs,    *)
(* ctx[o] the one saved in o->env by sigsetjmp.                            *)
(***************************************************************************)
EXTENDS Integers, SequencesExt

CONSTANTS
  MaxThreadNum,     \* MAX_THREAD_NUM
  NumObj,           \* bound: Thread objects in use at one time
  MaxEntries,       \* bound: entries of the two lists when a call adds some
  QuantaWrap,       \* bound: quantum counters count modulo this number
  PreemptibleCalls, \* TRUE iff a quantum may end inside a library call
  Ops               \* the library functions the client program calls

ASSUME UthreadsAssumption ==
  /\ MaxThreadNum \in Nat \ {0}
  /\ NumObj \in Nat \ {0}
  /\ MaxEntries \in Nat
  /\ QuantaWrap \in Nat \ {0}
  /\ PreemptibleCalls \in BOOLEAN
  /\ Ops \subseteq
       { "spawn", "terminate", "return", "block", "resume", "lock", "unlock" }

Tid == 0 .. MaxThreadNum - 1
NoTid == -1
Obj == 1 .. NumObj
NoObj == 0                      \* nullptr

READY == 1
RUNNING == 2
BLOCKED == 3

\* Points of the code at which a thread can be: in the client program
\* ("user"), inside a library call (named for what is about to happen), and
\* with no code left to run ("spin", the loop of SIGSEGVHandler).
CallLabels ==
  { "spawn_new", "spawn_push", "term", "term_test", "term_clear",
    "block_set", "block_raise", "resume_set", "resume_push",
    "lock_test", "lock_push", "lock_block", "lock_push2", "lock_raise",
    "lock_take", "unlock_free", "unlock_wake", "unlock_clear",
    "segv", "jump" }
ClientLabels == { "user", "spin" }
SchedLabels == { "sched_int", "sched_vtalrm" }

\* Of these, the ones that name the thread ID the call is about.
TidLabels ==
  { "spawn_new", "spawn_push", "term", "term_test", "term_clear",
    "block_set", "block_raise", "resume_set", "resume_push" }

Continuation ==
  [ at : TidLabels, tid : Tid ] \cup
  [ at : (CallLabels \cup ClientLabels \cup SchedLabels \cup {"exit"})
         \ TidLabels,
    tid : Tid \cup {NoTid} ]
At(l, t) == [ at |-> l, tid |-> t ]
User == At("user", NoTid)

VARIABLES
  queue,          \* queue[tid], the live Thread object of each ID
  fifo,           \* g_fifoQueue
  blockedMutex,   \* g_blockedMutexQueue
  mutex,          \* g_mutex
  cur,            \* g_currenttid
  total,          \* g_total_quantums
  tidOf,          \* o->tid
  state,          \* o->state
  quanta,         \* o->total_quantums
  ctx,            \* o->env
  pc,             \* the continuation the processor executes
  armed,          \* the virtual timer is set
  critical,       \* auxiliary: objects whose client holds the mutex: its
                  \* uthread_mutex_lock returned 0 and no unlock since
  suspended,      \* auxiliary: objects that uthread_block was called for
                  \* and uthread_resume was not called for since
  retired         \* auxiliary: quanta of the threads that are gone

vars == << queue, fifo, blockedMutex, mutex, cur, total, tidOf, state,
           quanta, ctx, pc, armed, critical, suspended, retired >>
lists == << fifo, blockedMutex >>
counters == << total, quanta, retired >>
thread == << tidOf, state, ctx >>
claims == << critical, suspended >>
-----------------------------------------------------------------------------
(***************************************************************************)
(* Helpers                                                                 *)
(***************************************************************************)
Contain(t) == queue[t] # NoObj
Self == queue[cur]
Live == { queue[t] : t \in Tid } \ {NoObj}
Reachable == (Live \cup Range(fifo) \cup Range(blockedMutex)) \ {NoObj}
Entries == Len(fifo) + Len(blockedMutex)
\* Mutant: the quantum is counted twice.
IncrTwice(n) == (n + 2) % QuantaWrap
Incr(n) == IF n = QuantaWrap - 1 THEN 0 ELSE n + 1

SIGINT == 2
SIGVTALRM == 26

\* The signals that MACRO_BLOCK_SIG blocks.  The initialiser of the sigset_t
\* stores the number SIGVTALRM in the first word of the set, where signal s is
\* bit s - 1 (SIGINT goes to the second word, which holds signals above 64).
CriticalSet == { s \in 1 .. 31 : (SIGVTALRM \div 2^(s - 1)) % 2 = 1 }

\* Where the processor is, and where it goes on.  A client program calls any
\* function of Ops, from any thread, with the ID of any thread.
InClient == pc.at = "user" /\ queue[cur] # NoObj
Calls(op) == InClient /\ op \in Ops
Goto(l, t) == pc' = At(l, t)
Return == pc' = User
-----------------------------------------------------------------------------
(***************************************************************************)
(* The state uthread_init leaves to SchedulerMain(0): thread 0 is ready.   *)
(***************************************************************************)
Init ==
  /\ queue = [ t \in Tid |-> IF t = 0 THEN 1 ELSE NoObj ]
  /\ fifo = << 1 >>
  /\ blockedMutex = << >>
  /\ mutex = NoTid
  /\ cur = 0
  /\ total = 0
  /\ tidOf = [ o \in Obj |-> 0 ]
  /\ state = [ o \in Obj |-> READY ]
  /\ quanta = [ o \in Obj |-> 0 ]
  /\ ctx = [ o \in Obj |-> User ]
  /\ pc = At("sched_int", NoTid)
  /\ armed = FALSE
  /\ critical = {}
  /\ suspended = {}
  /\ retired = 0
-----------------------------------------------------------------------------
(***************************************************************************)
(* uthread_spawn: the least free ID, a new object, its entry of the FIFO.  *)
(***************************************************************************)
FreeTid(t) == queue[t] = NoObj /\ \A u \in 1 .. t - 1 : queue[u] # NoObj

Spawn ==
  /\ Calls("spawn")
  /\ Obj \ Reachable # {}                \* bound
  /\ Entries < MaxEntries                \* bound
  /\ \E t \in Tid \ {0} : FreeTid(t) /\ Goto("spawn_new", t)
  /\ UNCHANGED << queue, lists, mutex, cur, counters, thread, armed, claims >>

SpawnNew ==
  /\ pc.at = "spawn_new"
  /\ \E o \in Obj \ Reachable :
       /\ \A p \in 1 .. o - 1 : p \in Reachable
       /\ queue' = [ queue EXCEPT ![pc.tid] = o ]
       /\ tidOf' = [ tidOf EXCEPT ![o] = pc.tid ]
       /\ state' = [ state EXCEPT ![o] = READY ]
       /\ quanta' = [ quanta EXCEPT ![o] = 0 ]
       /\ ctx' = [ ctx EXCEPT ![o] = User ]
  /\ Goto("spawn_push", pc.tid)
  /\ UNCHANGED << lists, mutex, cur, total, retired, armed, claims >>

SpawnPush ==
  /\ pc.at = "spawn_push"
  /\ fifo' = Append(fifo, queue[pc.tid])
  /\ Return
  /\ UNCHANGED << queue, blockedMutex, mutex, cur, counters, thread, armed,
                  claims >>
-----------------------------------------------------------------------------
(***************************************************************************)
(* uthread_terminate.  Ending thread 0 ends the process.  A thread that    *)
(* ends itself returns to its own code, whose last act the call is: the    *)
(* code runs out and faults, and SIGSEGVHandler, finding it gone, loops.   *)
(***************************************************************************)
Terminate ==
  /\ Calls("terminate")
  /\ \E t \in Tid : Contain(t) /\ Goto("term", t)
  /\ UNCHANGED << queue, lists, mutex, cur, counters, thread, armed, claims >>

TermStart ==
  /\ pc.at = "term"
  /\ IF pc.tid = 0 THEN Goto("exit", NoTid) ELSE Goto("term_test", pc.tid)
  /\ UNCHANGED << queue, lists, mutex, cur, counters, thread, armed, claims >>

\* Mutant: also a holder that ends itself keeps the mutex.
TermKeeps ==
  /\ pc.at = "term_test"
  /\ Goto("term_clear", pc.tid)
  /\ UNCHANGED << queue, lists, mutex, cur, counters, thread, armed, claims >>

\* A holder that is ended unlocks the mutex, but uthread_mutex_unlock
\* refuses a caller that is not the holder itself.
TermTest ==
  /\ pc.at = "term_test"
  /\ IF mutex = pc.tid /\ mutex = cur
       THEN Goto("unlock_free", pc.tid)
       ELSE Goto("term_clear", pc.tid)
  /\ UNCHANGED << queue, lists, mutex, cur, counters, thread, armed, claims >>

TermClear ==
  /\ pc.at = "term_clear"
  /\ queue' = [ queue EXCEPT ![pc.tid] = NoObj ]
  /\ critical' = critical \ { queue[pc.tid] }
  /\ suspended' = suspended \ { queue[pc.tid] }
  /\ retired' = IF queue[pc.tid] = NoObj THEN retired
                ELSE (retired + quanta[queue[pc.tid]]) % QuantaWrap
  /\ IF pc.tid = cur THEN Goto("spin", NoTid) ELSE Return
  /\ UNCHANGED << lists, mutex, cur, total, quanta, thread, armed >>

\* The function of a thread returns into nothing and faults; main returns
\* from the process.
ThreadEnds ==
  /\ Calls("return")
  /\ IF cur = 0 THEN Goto("exit", NoTid) ELSE Goto("segv", NoTid)
  /\ UNCHANGED << queue, lists, mutex, cur, counters, thread, armed, claims >>

\* SIGSEGVHandler: end the current thread if it is still there, then loop.
Segv ==
  /\ pc.at = "segv"
  /\ IF Contain(cur) THEN Goto("term", cur) ELSE Goto("spin", NoTid)
  /\ UNCHANGED << queue, lists, mutex, cur, counters, thread, armed, claims >>
-----------------------------------------------------------------------------
(***************************************************************************)
(* SchedulerMain.  On entry it stops the timer and saves the continuation  *)
(* of the current thread, unless that thread is gone; a thread whose       *)
(* quantum ended goes back to the end of the FIFO, one that raised SIGINT  *)
(* does not.                                                               *)
(***************************************************************************)
\* Mutant: a thread that used up its quantum goes to the head of the FIFO.
RequeueAtHead(sig) == IF sig = SIGVTALRM THEN << Self >> \o fifo ELSE fifo
Requeue(sig) == IF sig = SIGVTALRM THEN Append(fifo, Self) ELSE fifo

\* Mutant: the state is not taken from the running thread.
StillRunning(o) == state[o]
Stopped(o) == IF state[o] = RUNNING THEN READY ELSE state[o]

EnterScheduler(sig, k) ==
  /\ armed' = FALSE
  /\ IF Contain(cur)
       THEN /\ fifo' = Requeue(sig)
            /\ ctx' = [ ctx EXCEPT ![Self] = k ]
            /\ state' = [ state EXCEPT ![Self] = Stopped(Self) ]
       ELSE UNCHANGED << fifo, ctx, state >>
  /\ IF sig = SIGVTALRM THEN Goto("sched_vtalrm", NoTid)
                        ELSE Goto("sched_int", NoTid)
  /\ UNCHANGED << queue, blockedMutex, mutex, cur, counters, tidOf, claims >>

\* The quantum ends.  The library blocks CriticalSet while it works, and the
\* timer of a signal that is not in it may go off inside a call.
Timer ==
  /\ armed
  /\ \/ pc.at \in ClientLabels
     \/ /\ pc.at \in CallLabels
        /\ PreemptibleCalls
        /\ SIGVTALRM \notin CriticalSet
  /\ EnterScheduler(SIGVTALRM, pc)

InScheduler == pc.at \in SchedLabels
Gone(o) == queue[tidOf[o]] = NoObj
HasNull == \E i \in DOMAIN fifo : fifo[i] = NoObj
HasGone == \E i \in DOMAIN fifo : Gone(fifo[i])

\* deleteDeadThreads: erase the entries whose thread ID is not in use.
PurgeDead ==
  /\ InScheduler
  /\ ~HasNull
  /\ \E i \in DOMAIN fifo :
       /\ Gone(fifo[i])
       /\ \A j \in 1 .. i - 1 : ~Gone(fifo[j])
       /\ fifo' = RemoveAt(fifo, i)
  /\ UNCHANGED << queue, blockedMutex, mutex, cur, counters, thread, pc, armed,
                  claims >>

\* Erase the blocked entries in front of the first ready one.
DropBlocked ==
  /\ InScheduler
  /\ ~HasNull
  /\ ~HasGone
  /\ \E i \in DOMAIN fifo :
       /\ state[fifo[i]] = BLOCKED
       /\ \A j \in 1 .. i - 1 : state[fifo[j]] = RUNNING
       /\ fifo' = RemoveAt(fifo, i)
  /\ UNCHANGED << queue, blockedMutex, mutex, cur, counters, thread, pc, armed,
                  claims >>

\* Mutant: a blocked entry is chosen like a ready one.
IsNextNotRunning(i) ==
  /\ state[fifo[i]] # RUNNING
  /\ \A j \in 1 .. i - 1 : state[fifo[j]] = RUNNING
IsNext(i) ==
  /\ state[fifo[i]] = READY
  /\ \A j \in 1 .. i - 1 : state[fifo[j]] = RUNNING

\* Mutant: the quantum is charged to the thread that stops.
ChargeFormer(o) == [ quanta EXCEPT ![queue[cur]] = Incr(quanta[queue[cur]]) ]
Charge(o) == [ quanta EXCEPT ![o] = Incr(quanta[o]) ]

\* Run the thread ID of the first ready entry.  Under SIGVTALRM the signal
\* stays blocked until the jump, otherwise the new quantum may end before it.
Dispatch ==
  /\ InScheduler
  /\ ~HasNull
  /\ ~HasGone
  /\ \E i \in DOMAIN fifo :
       /\ IsNext(i)
       /\ fifo' = RemoveAt(fifo, i)
       /\ cur' = tidOf[fifo[i]]
  /\ LET o == queue[cur'] IN
       /\ state' = [ state EXCEPT ![o] = RUNNING ]
       /\ total' = Incr(total)
       /\ quanta' = Charge(o)
       /\ pc' = IF pc.at = "sched_vtalrm" THEN ctx[o] ELSE At("jump", NoTid)
  /\ armed' = TRUE
  /\ UNCHANGED << queue, blockedMutex, mutex, tidOf, ctx, claims, retired >>

Jump ==
  /\ pc.at = "jump"
  /\ pc' = ctx[Self]
  /\ UNCHANGED << queue, lists, mutex, cur, counters, thread, armed, claims >>

\* The scheduler follows a null entry, or the end of a FIFO without a ready
\* entry: a fault, with the timer stopped.
SchedulerFault ==
  /\ InScheduler
  /\ \/ HasNull
     \/ ~HasNull /\ ~HasGone /\ \A i \in DOMAIN fifo : state[fifo[i]] = RUNNING
  /\ Goto("segv", NoTid)
  /\ UNCHANGED << queue, lists, mutex, cur, counters, thread, armed, claims >>
-----------------------------------------------------------------------------
(***************************************************************************)
(* uthread_block and uthread_resume: a check that the thread exists, then  *)
(* a use of its slot.                                                      *)
(***************************************************************************)
\* Mutant: the main thread is not refused.
BlockableAll == Tid
Blockable == Tid \ {0}

Block ==
  /\ Calls("block")
  /\ \E t \in Blockable : Contain(t) /\ Goto("block_set", t)
  /\ UNCHANGED << queue, lists, mutex, cur, counters, thread, armed, claims >>

BlockSet ==
  /\ pc.at = "block_set"
  /\ IF Contain(pc.tid)
       THEN /\ state' = [ state EXCEPT ![queue[pc.tid]] = BLOCKED ]
            /\ suspended' = suspended \cup {queue[pc.tid]}
            /\ IF pc.tid = cur THEN Goto("block_raise", cur) ELSE Return
       ELSE Goto("segv", NoTid) /\ UNCHANGED << state, suspended >>
  /\ UNCHANGED << queue, lists, mutex, cur, counters, tidOf, ctx, armed,
                  critical >>

BlockRaise ==
  /\ pc.at = "block_raise"
  /\ EnterScheduler(SIGINT, User)

Resume ==
  /\ Calls("resume")
  /\ Entries < MaxEntries                \* bound
  /\ \E t \in Tid : Contain(t) /\ Goto("resume_set", t)
  /\ UNCHANGED << queue, lists, mutex, cur, counters, thread, armed, claims >>

ResumeSet ==
  /\ pc.at = "resume_set"
  /\ IF Contain(pc.tid)
       THEN /\ state' = [ state EXCEPT ![queue[pc.tid]] = READY ]
            /\ suspended' = suspended \ {queue[pc.tid]}
            /\ Goto("resume_push", pc.tid)
       ELSE Goto("segv", NoTid) /\ UNCHANGED << state, suspended >>
  /\ UNCHANGED << queue, lists, mutex, cur, counters, tidOf, ctx, armed,
                  critical >>

ResumePush ==
  /\ pc.at = "resume_push"
  /\ fifo' = Append(fifo, queue[pc.tid])
  /\ Return
  /\ UNCHANGED << queue, blockedMutex, mutex, cur, counters, thread, armed,
                  claims >>
-----------------------------------------------------------------------------
(***************************************************************************)
(* uthread_mutex_lock: while another thread holds the mutex, enter the     *)
(* list of waiters (twice), block, and test again when scheduled.          *)
(***************************************************************************)
Lock ==
  /\ Calls("lock")
  /\ Entries < MaxEntries + 2             \* bound: a waiter adds two
  /\ mutex # cur
  /\ Goto("lock_test", NoTid)
  /\ UNCHANGED << queue, lists, mutex, cur, counters, thread, armed, claims >>

LockTest ==
  /\ pc.at = "lock_test"
  /\ \/ mutex = NoTid /\ Goto("lock_take", NoTid)
     \/ mutex # NoTid /\ state[Self] # BLOCKED /\ Goto("lock_push", NoTid)
  /\ UNCHANGED << queue, lists, mutex, cur, counters, thread, armed, claims >>

LockPush ==
  /\ pc.at \in {"lock_push", "lock_push2"}
  /\ blockedMutex' = Append(blockedMutex, Self)
  /\ IF pc.at = "lock_push" THEN Goto("lock_block", NoTid)
                            ELSE Goto("lock_raise", NoTid)
  /\ UNCHANGED << queue, fifo, mutex, cur, counters, thread, armed, claims >>

LockBlock ==
  /\ pc.at = "lock_block"
  /\ state' = [ state EXCEPT ![Self] = BLOCKED ]
  /\ Goto("lock_push2", NoTid)
  /\ UNCHANGED << queue, lists, mutex, cur, counters, tidOf, ctx, armed,
                  claims >>

\* Mutant: a thread that is scheduled again takes the mutex without a test.
RetryTakes == At("lock_take", NoTid)
Retry == At("lock_test", NoTid)

LockRaise ==
  /\ pc.at = "lock_raise"
  /\ EnterScheduler(SIGINT, Retry)

LockTake ==
  /\ pc.at = "lock_take"
  /\ mutex' = cur
  /\ critical' = critical \cup {Self}
  /\ Return
  /\ UNCHANGED << queue, lists, cur, counters, thread, armed, suspended >>
-----------------------------------------------------------------------------
(***************************************************************************)
(* uthread_mutex_unlock, called by the client (pc.tid = NoTid) or by       *)
(* uthread_terminate: free the mutex, make every waiter ready, once for    *)
(* each of its entries, and empty the list.                                *)
(***************************************************************************)
Unlock ==
  /\ Calls("unlock")
  /\ mutex = cur
  /\ Goto("unlock_free", NoTid)
  /\ UNCHANGED << queue, lists, mutex, cur, counters, thread, armed, claims >>

UnlockFree ==
  /\ pc.at = "unlock_free"
  /\ mutex' = NoTid
  /\ critical' = critical \ {Self}
  /\ Goto("unlock_wake", pc.tid)
  /\ UNCHANGED << queue, lists, cur, counters, thread, armed, suspended >>

\* Mutant: nobody is woken.
WokenNone == {}
Woken == Range(blockedMutex)

\* Mutant: the woken threads do not get into the FIFO.
WokenEntriesNone == << >>
WokenEntries == blockedMutex

UnlockWake ==
  /\ pc.at = "unlock_wake"
  /\ state' = [ o \in Obj |-> IF o \in Woken THEN READY ELSE state[o] ]
  /\ fifo' = fifo \o WokenEntries
  /\ Goto("unlock_clear", pc.tid)
  /\ UNCHANGED << queue, blockedMutex, mutex, cur, counters, tidOf, ctx, armed,
                  claims >>

\* Mutant: every unlock goes on in uthread_terminate.
ReturnToTerminate == At("term_clear", pc.tid)
UnlockReturn == IF pc.tid = NoTid THEN User ELSE At("term_clear", pc.tid)

UnlockClear ==
  /\ pc.at = "unlock_clear"
  /\ blockedMutex' = << >>
  /\ pc' = UnlockReturn
  /\ UNCHANGED << queue, fifo, mutex, cur, counters, thread, armed, claims >>
-----------------------------------------------------------------------------
Library ==
  \/ SpawnNew \/ SpawnPush
  \/ TermStart \/ TermTest \/ TermClear \/ Segv
  \/ PurgeDead \/ DropBlocked \/ Dispatch \/ Jump \/ SchedulerFault
  \/ BlockSet \/ BlockRaise \/ ResumeSet \/ ResumePush
  \/ LockTest \/ LockPush \/ LockBlock \/ LockRaise \/ LockTake
  \/ UnlockFree \/ UnlockWake \/ UnlockClear

Client ==
  \/ Spawn \/ Terminate \/ ThreadEnds \/ Block \/ Resume \/ Lock \/ Unlock

Next == Library \/ Client \/ Timer

Spec == Init /\ [][Next]_vars

\* The processor goes on with the code of the library.  The virtual timer
\* counts the time the process uses, so a quantum ends; SF because a client may
\* make one call after the other, and a timer that may not go off inside the
\* calls goes off between two of them.
FairSpec == Spec /\ WF_vars(Library) /\ SF_vars(Timer)
-----------------------------------------------------------------------------
(***************************************************************************)
(* What the library promises.  Between two calls of the client (pc at      *)
(* "user") the bookkeeping of the library is complete.                     *)
(***************************************************************************)
\* The types of the variables; in particular a call that is about a thread
\* keeps the ID of one.
TypeOK ==
  /\ queue \in [ Tid -> Obj \cup {NoObj} ]
  /\ fifo \in Seq(Obj \cup {NoObj})
  /\ blockedMutex \in Seq(Obj \cup {NoObj})
  /\ mutex \in Tid \cup {NoTid}
  /\ cur \in Tid
  /\ total \in 0 .. QuantaWrap - 1
  /\ tidOf \in [ Obj -> Tid ]
  /\ state \in [ Obj -> {READY, RUNNING, BLOCKED} ]
  /\ quanta \in [ Obj -> 0 .. QuantaWrap - 1 ]
  /\ ctx \in [ Obj -> Continuation ]
  /\ pc \in Continuation
  /\ armed \in BOOLEAN
  /\ critical \subseteq Obj
  /\ suspended \subseteq Obj
  /\ retired \in 0 .. QuantaWrap - 1

\* At most one thread is between a successful uthread_mutex_lock and the
\* uthread_mutex_unlock that follows, and g_mutex names that thread.
MutualExclusion ==
  /\ \A o, p \in critical : o = p
  /\ \A o \in critical : o \in Live /\ mutex = tidOf[o]

\* No thread but the current one is in state RUNNING, whatever was interrupted
\* where: the scheduler takes the state away before it gives it to another.
OneRunning == \A o \in Live : state[o] = RUNNING => o = Self

\* A thread in state READY that does not run has an entry in the FIFO: no
\* thread is forgotten by a call that changes its state or by the scheduler.
ReadyIsQueued ==
  pc.at = "user" =>
    \A o \in Live \ {Self} : state[o] = READY => o \in Range(fifo)

\* A thread that blocked in uthread_mutex_lock stays in the list of waiters as
\* long as the mutex is taken, so that the unlock finds it.
Waiting(o) ==
  /\ o \in Live \ {Self}
  /\ o \notin suspended
  /\ ctx[o].at = "lock_test"
  /\ state[o] = BLOCKED
WaiterIsListed ==
  pc.at = "user" =>
    \A o \in Obj : Waiting(o) => o \in Range(blockedMutex) /\ mutex # NoTid

\* A thread that uthread_block was called for stays blocked until
\* uthread_resume is called for it.
SuspendedIsBlocked == \A o \in suspended : state[o] = BLOCKED

\* The scheduler runs off the FIFO only when the main thread, which nobody can
\* block, waits for the mutex.
FaultOnlyIfMainWaits ==
  [][ SchedulerFault => /\ ctx[queue[0]].at = "lock_test"
                        /\ state[queue[0]] = BLOCKED ]_vars

\* uthread_get_total_quantums is the sum of what uthread_get_quantums returned
\* for the threads that are gone and returns for the live ones.
QuantaAccounted ==
  total = FoldSet(LAMBDA o, n : (quanta[o] + n) % QuantaWrap, retired, Live)

\* A thread whose ID holds the mutex has locked it: the mutex is not left to
\* an ID whose thread has been ended, or to the next thread with that ID.
HolderIsLive ==
  pc.at = "user" => ( mutex # NoTid => \E o \in critical : tidOf[o] = mutex )

\* A ready thread in the FIFO runs, or is blocked or ended, or the process
\* comes to an end.
Hangs == pc.at = "spin" /\ ~armed
Ended == pc.at = "exit" \/ Hangs
ReadyRuns ==
  \A o \in Obj :
    (o \in Live /\ state[o] = READY /\ pc.at = "user") ~>
      (o \notin Live \/ state[o] # READY \/ Ended)
-----------------------------------------------------------------------------
(***************************************************************************)
(* The threads as the client knows them, to whom a call is one step.  Who  *)
(* takes part in a call has its new status from the step on that settles   *)
(* it: a waiter is listed, then blocked; the mutex is free when the        *)
(* waiters are ready, and these are forgotten later.                       *)
(***************************************************************************)
Stopping == SchedLabels \cup { "block_raise", "lock_block", "lock_push2", "lock_raise" }

StatusOf(t) ==
  LET o == queue[t] IN
  CASE o = NoObj -> "none"
    [] o # NoObj /\ t = cur /\ pc.at \notin Stopping -> "running"
    [] o # NoObj /\ t = cur /\ pc.at = "lock_block" -> "blocked"
    [] OTHER -> IF state[o] = BLOCKED THEN "blocked" ELSE "ready"
Statuses == [ t \in Tid |-> StatusOf(t) ]
Holder == IF pc.at = "unlock_wake" THEN cur ELSE mutex
Waiters == IF pc.at = "unlock_clear" THEN {}
           ELSE { t \in Tid : Contain(t) /\ queue[t] \in Range(blockedMutex) }
\* The IDs of the entries of threads that are gone.  Those in the FIFO with the
\* ID of a thread that has just ended are erased before anybody is run; and
\* nobody is, when the process hangs in SIGSEGVHandler with the timer stopped.
Dead(list) == Range(list) \ (Live \cup {NoObj})
StaleEntries ==
  Dead(blockedMutex) \cup { o \in Dead(fifo) : tidOf[o] # cur \/ Contain(cur) }
StaleIds == IF Hangs THEN {} ELSE { tidOf[o] : o \in StaleEntries }

Threads == INSTANCE Scheduler
       WITH status <- Statuses, holder <- Holder, waiters <- Waiters,
            stale <- StaleIds, EndsOthers <- "terminate" \in Ops

\* The calls, their steps and the scheduler together do what the scheduler of
\* whole calls does: one thread runs at a time, which was ready, or has the ID
\* of a thread that another one ended and that still had an entry; the mutex
\* goes from a thread that gives it back to one that runs and finds it free;
\* an unlock leaves no waiter behind; nobody is stuck unless main waits.
SchedulerImplemented == Threads!Spec
=============================================================================
