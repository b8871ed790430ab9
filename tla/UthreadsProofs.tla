--------------------------- MODULE UthreadsProofs ---------------------------
(***************************************************************************)
(* Proofs about the threads library, for every number of threads and of    *)
(* objects and every set of functions the client calls: its types, the     *)
(* mutex, the quanta, the FIFO and the list of waiters.                    *)
(***************************************************************************)
EXTENDS Uthreads, FiniteSetTheorems, NaturalLemmas, TLAPS

Labels == CallLabels \cup ClientLabels \cup SchedLabels \cup {"exit"}

\* Whatever code runs, but the scheduler and the loop of SIGSEGVHandler, runs
\* for a live thread: the library never follows queue[g_currenttid] when it is
\* null.
CurrentIsLive ==
  pc.at \notin SchedLabels \cup { "spin", "exit", "segv" } =>
    Self # NoObj /\ tidOf[Self] = cur

\* The slot of an ID holds an object with that ID.
SlotMatches == \A t \in Tid : queue[t] # NoObj => tidOf[queue[t]] = t

\* The loop of SIGSEGVHandler runs only for a thread that is gone, ...
LoopIsGone == pc.at = "spin" => Self = NoObj

\* ... so it is never the saved context of a thread; and no context is saved
\* in the scheduler, or once the process has ended.
ContextsResume ==
  \A o \in Obj : ctx[o].at \notin SchedLabels \cup { "spin", "exit" }

\* While the scheduler works nobody runs, otherwise only the current thread.
RunningIsCurrent ==
  \A t \in Tid : queue[t] # NoObj /\ state[queue[t]] = RUNNING =>
    t = cur /\ pc.at \notin SchedLabels

Inv ==
  /\ TypeOK
  /\ SlotMatches
  /\ CurrentIsLive
  /\ LoopIsGone
  /\ ContextsResume
  /\ RunningIsCurrent

\* A continuation that has the right kind of argument is well typed.
LEMMA AtType ==
  /\ \A l \in TidLabels, t \in Tid : At(l, t) \in Continuation
  /\ \A l \in Labels \ TidLabels, t \in Tid \cup {NoTid} :
       At(l, t) \in Continuation
BY DEF At, Continuation, Labels

LEMMA ContinuationType ==
  ASSUME NEW k \in Continuation
  PROVE  /\ k.at \in Labels
         /\ k.tid \in Tid \cup {NoTid}
         /\ k.at \in TidLabels => k.tid \in Tid
BY DEF Continuation, Labels, TidLabels, CallLabels

\* Erasing an entry of a list leaves a list.
LEMMA RemoveAtType ==
  ASSUME NEW S, NEW s \in Seq(S), NEW i \in DOMAIN s
  PROVE  RemoveAt(s, i) \in Seq(S)
BY DEF RemoveAt

LEMMA InitInv == Init => Inv
<1> SUFFICES ASSUME Init PROVE Inv
  OBVIOUS
<1> USE UthreadsAssumption
<1>1. 0 \in Tid /\ 1 \in Obj
  BY DEF Tid, Obj
<1>2. TypeOK
  <2>1. User \in Continuation /\ At("sched_int", NoTid) \in Continuation
    BY AtType DEF User, Labels, TidLabels, SchedLabels, ClientLabels
  <2>2. << 1 >> \in Seq(Obj \cup {NoObj}) /\ << >> \in Seq(Obj \cup {NoObj})
    BY <1>1
  <2>3. 0 \in 0 .. QuantaWrap - 1
    OBVIOUS
  <2>4. /\ queue \in [ Tid -> Obj \cup {NoObj} ]
        /\ tidOf \in [ Obj -> Tid ]
        /\ state \in [ Obj -> {READY, RUNNING, BLOCKED} ]
        /\ quanta \in [ Obj -> 0 .. QuantaWrap - 1 ]
        /\ ctx \in [ Obj -> Continuation ]
    BY <1>1, <2>1, <2>3 DEF Init
  <2> QED
    BY <1>1, <2>1, <2>2, <2>3, <2>4, Zenon DEF Init, TypeOK
<1>3. SlotMatches /\ CurrentIsLive /\ LoopIsGone /\ ContextsResume
        /\ RunningIsCurrent
  BY <1>1 DEF Init, SlotMatches, CurrentIsLive, LoopIsGone, ContextsResume,
     RunningIsCurrent, User, At, SchedLabels, READY, RUNNING, NoObj, Self, Obj
<1> QED
  BY <1>2, <1>3 DEF Inv
-----------------------------------------------------------------------------
(***************************************************************************)
(* The steps of a call that only move the processor on.                    *)
(***************************************************************************)
OnlyPc == UNCHANGED << queue, lists, mutex, cur, counters, thread, armed, claims >>

LEMMA PcStep ==
  ASSUME Inv, OnlyPc, pc' \in Continuation,
         pc'.at \notin SchedLabels,
         pc'.at = "spin" => Self = NoObj,
         pc'.at \notin { "spin", "exit", "segv" } => Self # NoObj /\ tidOf[Self] = cur
  PROVE  Inv'
<1>1. TypeOK'
  BY DEF Inv, TypeOK, OnlyPc, lists, counters, thread, claims
<1>2. SlotMatches' /\ ContextsResume'
  BY DEF Inv, SlotMatches, ContextsResume, OnlyPc, thread
<1>3. CurrentIsLive' /\ LoopIsGone' /\ RunningIsCurrent'
  BY DEF Inv, CurrentIsLive, LoopIsGone, RunningIsCurrent, OnlyPc, thread, Self
<1> QED
  BY <1>1, <1>2, <1>3 DEF Inv

PcOnly ==
  \/ Spawn \/ Terminate \/ TermStart \/ TermTest \/ ThreadEnds \/ Segv
  \/ Jump \/ SchedulerFault \/ Block \/ Resume \/ Lock \/ LockTest \/ Unlock

LEMMA PcOnlyInv == Inv /\ PcOnly => Inv'
<1> SUFFICES ASSUME Inv, PcOnly PROVE Inv'
  OBVIOUS
<1> DEFINE Runs == Self # NoObj /\ tidOf[Self] = cur
<1>1. OnlyPc
  BY DEF PcOnly, Spawn, Terminate, TermStart, TermTest, ThreadEnds, Segv, Jump,
     SchedulerFault, Block, Resume, Lock, LockTest, Unlock, OnlyPc
<1>2. TypeOK /\ pc.at \in Labels /\ cur \in Tid /\ queue[cur] \in Obj \cup {NoObj}
  BY ContinuationType DEF Inv, TypeOK
<1>3. InClient => Runs
  BY DEF InClient, Inv, CurrentIsLive, SchedLabels
<1>4. ASSUME NEW t \in Tid, NEW l \in TidLabels, Goto(l, t), Runs PROVE Inv'
  <2>1. pc' \in Continuation /\ pc'.at = l
    BY <1>4, AtType DEF Goto, At
  <2> QED
    BY <1>1, <1>4, <2>1, PcStep DEF TidLabels, SchedLabels
<1>5. ASSUME NEW t \in Tid \cup {NoTid},
             NEW l \in { "unlock_free", "lock_test", "lock_take", "lock_push" },
             Goto(l, t), Runs
      PROVE Inv'
  <2>1. pc' \in Continuation /\ pc'.at = l
    BY <1>5, AtType DEF Goto, At, Labels, CallLabels, TidLabels
  <2> QED
    BY <1>1, <1>5, <2>1, PcStep DEF SchedLabels
<1>6. ASSUME Goto("exit", NoTid) \/ Goto("segv", NoTid) PROVE Inv'
  <2>1. pc' \in Continuation /\ pc'.at \in { "exit", "segv" }
    BY <1>6, AtType DEF Goto, At, Labels, CallLabels, TidLabels
  <2> QED
    BY <1>1, <2>1, PcStep DEF SchedLabels
<1>7. ASSUME Goto("spin", NoTid), Self = NoObj PROVE Inv'
  <2>1. pc' \in Continuation /\ pc'.at = "spin"
    BY <1>7, AtType DEF Goto, At, Labels, ClientLabels, TidLabels
  <2> QED
    BY <1>1, <1>7, <2>1, PcStep DEF SchedLabels
<1>8. CASE Spawn
  BY <1>3, <1>4, <1>8 DEF Spawn, Calls, TidLabels
<1>9. CASE Terminate
  BY <1>3, <1>4, <1>9 DEF Terminate, Calls, TidLabels
<1>10. CASE TermStart \/ TermTest
  <2>1. Runs /\ pc.tid \in Tid
    BY <1>2, <1>10, ContinuationType
    DEF TermStart, TermTest, Inv, TypeOK, CurrentIsLive, SchedLabels, TidLabels
  <2> QED
    BY <1>4, <1>5, <1>6, <1>10, <2>1 DEF TermStart, TermTest, TidLabels
<1>11. CASE ThreadEnds
  BY <1>6, <1>11 DEF ThreadEnds
<1>12. CASE Segv
  <2>1. Contain(cur) => Runs
    BY <1>2 DEF Contain, Self, Inv, SlotMatches
  <2> QED
    BY <1>2, <1>4, <1>7, <1>12, <2>1 DEF Segv, Contain, Self, TidLabels
<1>13. CASE Jump
  <2>1. Runs
    BY <1>13 DEF Jump, Inv, CurrentIsLive, SchedLabels
  <2>2. Self \in Obj
    BY <1>2, <2>1 DEF Self
  <2>3. pc' \in Continuation /\ pc'.at \notin SchedLabels \cup { "spin", "exit" }
    BY <1>13, <2>2 DEF Jump, Inv, TypeOK, ContextsResume
  <2> QED
    BY <1>1, <2>1, <2>3, PcStep
<1>14. CASE SchedulerFault
  BY <1>6, <1>14 DEF SchedulerFault
<1>15. CASE Block \/ Resume
  BY <1>3, <1>4, <1>15 DEF Block, Blockable, Resume, Calls, TidLabels
<1>16. CASE Lock \/ Unlock
  BY <1>3, <1>5, <1>16 DEF Lock, Unlock, Calls
<1>17. CASE LockTest
  <2>1. Runs
    BY <1>17 DEF LockTest, Inv, CurrentIsLive, SchedLabels
  <2> QED
    BY <1>5, <1>17, <2>1 DEF LockTest
<1> QED
  BY <1>8, <1>9, <1>10, <1>11, <1>12, <1>13, <1>14, <1>15, <1>16, <1>17
  DEF PcOnly
-----------------------------------------------------------------------------
(***************************************************************************)
(* The scheduler.                                                          *)
(***************************************************************************)
LEMMA EnterSchedulerInv ==
  ASSUME Inv, NEW sig, NEW k \in Continuation,
         Contain(cur) => k.at \notin SchedLabels \cup { "spin", "exit" },
         EnterScheduler(sig, k)
  PROVE  Inv'
<1>1. /\ TypeOK
      /\ cur \in Tid
      /\ Contain(cur) => Self \in Obj
  BY DEF Inv, TypeOK, Contain, Self
<1>2. pc' \in Continuation /\ pc'.at \in SchedLabels
  BY AtType DEF EnterScheduler, Goto, At, Labels, SchedLabels, TidLabels
<1>3. TypeOK'
  <2>1. fifo' \in Seq(Obj \cup {NoObj})
    <3>1. fifo \in Seq(Obj \cup {NoObj})
      BY <1>1 DEF TypeOK
    <3>2. Self \in Obj => Append(fifo, Self) \in Seq(Obj \cup {NoObj})
      BY <3>1
    <3> QED
      BY <1>1, <3>1, <3>2 DEF EnterScheduler, Requeue
  <2>2. ctx' \in [ Obj -> Continuation ]
    BY <1>1 DEF EnterScheduler, TypeOK
  <2>3. state' \in [ Obj -> {READY, RUNNING, BLOCKED} ]
    BY <1>1 DEF EnterScheduler, Stopped, TypeOK
  <2>4. armed' \in BOOLEAN
    BY DEF EnterScheduler
  <2> QED
    BY <1>1, <1>2, <2>1, <2>2, <2>3, <2>4 DEF EnterScheduler, TypeOK, counters, claims
<1>4. SlotMatches' /\ CurrentIsLive' /\ LoopIsGone'
  BY <1>2 DEF Inv, SlotMatches, CurrentIsLive, LoopIsGone, EnterScheduler,
     SchedLabels
<1>5. ContextsResume'
  BY <1>1 DEF Inv, ContextsResume, EnterScheduler, TypeOK
<1>6. RunningIsCurrent'
  <2> SUFFICES ASSUME NEW t \in Tid, queue[t] # NoObj, state'[queue[t]] = RUNNING
               PROVE  FALSE
    BY DEF RunningIsCurrent, EnterScheduler
  <2>1. queue[t] \in Obj
    BY <1>1 DEF TypeOK
  <2>2. CASE Contain(cur)
    <3>1. state' = [ state EXCEPT ![Self] = Stopped(Self) ]
      BY <2>2 DEF EnterScheduler
    <3>2. state'[Self] # RUNNING
      BY <1>1, <2>2, <3>1 DEF Stopped, TypeOK, READY, RUNNING
    <3>3. queue[t] # Self /\ state[queue[t]] = RUNNING
      BY <1>1, <2>1, <3>1, <3>2 DEF TypeOK
    <3> QED
      BY <3>3 DEF Inv, RunningIsCurrent, Self
  <2>3. CASE ~Contain(cur)
    BY <2>3 DEF EnterScheduler, Contain, Inv, RunningIsCurrent
  <2> QED
    BY <2>2, <2>3
<1> QED
  BY <1>3, <1>4, <1>5, <1>6 DEF Inv

LEMMA EnterInv == Inv /\ (Timer \/ BlockRaise \/ LockRaise) => Inv'
<1> SUFFICES ASSUME Inv, Timer \/ BlockRaise \/ LockRaise PROVE Inv'
  OBVIOUS
<1>1. CASE Timer
  <2>1. pc \in Continuation /\ pc.at \notin SchedLabels \cup {"exit"}
    BY <1>1 DEF Timer, Inv, TypeOK, ClientLabels, CallLabels, SchedLabels
  <2>2. Contain(cur) => pc.at # "spin"
    BY DEF Inv, LoopIsGone, Contain, Self
  <2> QED
    BY <1>1, <2>1, <2>2, EnterSchedulerInv DEF Timer
<1>2. CASE BlockRaise
  <2>1. User \in Continuation /\ User.at = "user"
    BY AtType DEF User, At, Labels, ClientLabels, TidLabels
  <2> QED
    BY <1>2, <2>1, EnterSchedulerInv DEF BlockRaise, SchedLabels
<1>3. CASE LockRaise
  <2>1. Retry \in Continuation /\ Retry.at = "lock_test"
    BY AtType DEF Retry, At, Labels, CallLabels, TidLabels
  <2> QED
    BY <1>3, <2>1, EnterSchedulerInv DEF LockRaise, SchedLabels
<1> QED
  BY <1>1, <1>2, <1>3

LEMMA EraseInv == Inv /\ (PurgeDead \/ DropBlocked) => Inv'
<1> SUFFICES ASSUME Inv, PurgeDead \/ DropBlocked PROVE Inv'
  OBVIOUS
<1>1. UNCHANGED << queue, blockedMutex, mutex, cur, counters, thread, pc, armed,
                   claims >>
  BY DEF PurgeDead, DropBlocked
<1>2. PICK i \in DOMAIN fifo : fifo' = RemoveAt(fifo, i)
  BY DEF PurgeDead, DropBlocked
<1>3. fifo' \in Seq(Obj \cup {NoObj})
  BY <1>2, RemoveAtType DEF Inv, TypeOK
<1>4. TypeOK'
  BY <1>1, <1>3 DEF Inv, TypeOK, counters, thread, claims
<1>5. SlotMatches' /\ CurrentIsLive' /\ LoopIsGone' /\ ContextsResume'
        /\ RunningIsCurrent'
  BY <1>1 DEF Inv, SlotMatches, CurrentIsLive, LoopIsGone, ContextsResume,
     RunningIsCurrent, Self, thread
<1> QED
  BY <1>4, <1>5 DEF Inv

LEMMA DispatchInv == Inv /\ Dispatch => Inv'
<1> SUFFICES ASSUME Inv, Dispatch PROVE Inv'
  OBVIOUS
<1>1. PICK i \in DOMAIN fifo :
        fifo' = RemoveAt(fifo, i) /\ cur' = tidOf[fifo[i]]
  BY DEF Dispatch
<1> DEFINE o == queue[cur']
<1>2. fifo[i] \in Obj
  BY DEF Inv, TypeOK, Dispatch, HasNull
<1>3. cur' \in Tid /\ o \in Obj /\ tidOf[o] = cur'
  BY <1>1, <1>2 DEF Inv, TypeOK, Dispatch, HasGone, Gone, SlotMatches
<1>4. /\ state' = [ state EXCEPT ![o] = RUNNING ]
      /\ total' = Incr(total)
      /\ quanta' = [ quanta EXCEPT ![o] = Incr(quanta[o]) ]
      /\ pc' = IF pc.at = "sched_vtalrm" THEN ctx[o] ELSE At("jump", NoTid)
      /\ armed' = TRUE
      /\ UNCHANGED << queue, blockedMutex, mutex, tidOf, ctx, claims, retired >>
  BY DEF Dispatch, Charge
<1>5. pc' \in Continuation /\ pc'.at \notin SchedLabels \cup { "spin", "exit" }
  <2>1. At("jump", NoTid) \in Continuation /\ At("jump", NoTid).at = "jump"
    BY AtType DEF At, Labels, CallLabels, TidLabels
  <2> QED
    BY <1>3, <1>4, <2>1 DEF Inv, TypeOK, ContextsResume, SchedLabels
<1>6. TypeOK'
  <2>1. fifo' \in Seq(Obj \cup {NoObj})
    BY <1>1, RemoveAtType DEF Inv, TypeOK
  <2>2. \A n \in 0 .. QuantaWrap - 1 : Incr(n) \in 0 .. QuantaWrap - 1
    BY UthreadsAssumption DEF Incr
  <2>3. /\ state' \in [ Obj -> {READY, RUNNING, BLOCKED} ]
        /\ total' \in 0 .. QuantaWrap - 1
        /\ quanta' \in [ Obj -> 0 .. QuantaWrap - 1 ]
    BY <1>3, <1>4, <2>2 DEF Inv, TypeOK
  <2>4. armed' \in BOOLEAN
    BY <1>4
  <2> QED
    BY <1>3, <1>4, <1>5, <2>1, <2>3, <2>4 DEF Inv, TypeOK, claims
<1>7. SlotMatches' /\ ContextsResume'
  BY <1>4 DEF Inv, SlotMatches, ContextsResume
<1>8. CurrentIsLive' /\ LoopIsGone'
  BY <1>3, <1>4, <1>5 DEF CurrentIsLive, LoopIsGone, Self, NoObj, Obj
<1>9. RunningIsCurrent'
  <2> SUFFICES ASSUME NEW t \in Tid, queue[t] # NoObj, state'[queue[t]] = RUNNING
               PROVE  t = cur'
    BY <1>4, <1>5 DEF RunningIsCurrent
  <2>1. state[queue[t]] # RUNNING
    BY DEF Inv, RunningIsCurrent, Dispatch, InScheduler
  <2>2. queue[t] = o
    BY <1>3, <1>4, <2>1 DEF Inv, TypeOK
  <2> QED
    BY <1>3, <2>2 DEF Inv, SlotMatches
<1> QED
  BY <1>6, <1>7, <1>8, <1>9 DEF Inv
-----------------------------------------------------------------------------
(***************************************************************************)
(* The steps of the calls that change the bookkeeping.                     *)
(***************************************************************************)
LEMMA SpawnNewInv == Inv /\ SpawnNew => Inv'
<1> SUFFICES ASSUME Inv, SpawnNew PROVE Inv'
  OBVIOUS
<1>1. PICK o \in Obj \ Reachable :
        /\ queue' = [ queue EXCEPT ![pc.tid] = o ]
        /\ tidOf' = [ tidOf EXCEPT ![o] = pc.tid ]
        /\ state' = [ state EXCEPT ![o] = READY ]
        /\ quanta' = [ quanta EXCEPT ![o] = 0 ]
        /\ ctx' = [ ctx EXCEPT ![o] = User ]
  BY DEF SpawnNew
<1>2. /\ pc.tid \in Tid
      /\ pc' = At("spawn_push", pc.tid)
      /\ UNCHANGED << lists, mutex, cur, total, retired, armed, claims >>
  BY ContinuationType DEF SpawnNew, Goto, Inv, TypeOK, TidLabels
<1>3. \A t \in Tid : queue[t] # o
  BY DEF Reachable, Live, Obj, NoObj
<1>4. pc' \in Continuation /\ pc'.at = "spawn_push"
  BY <1>2, AtType DEF At, TidLabels
<1>5. User \in Continuation /\ User.at = "user"
  BY AtType DEF User, At, Labels, ClientLabels, TidLabels
<1>6. TypeOK'
  <2>1. 0 \in 0 .. QuantaWrap - 1
    BY UthreadsAssumption
  <2> QED
    BY <1>1, <1>2, <1>4, <1>5, <2>1 DEF Inv, TypeOK, lists, claims
<1>7. SlotMatches'
  BY <1>1, <1>2, <1>3 DEF Inv, TypeOK, SlotMatches
<1>8. CurrentIsLive' /\ LoopIsGone'
  <2>1. pc.at = "spawn_new"
    BY DEF SpawnNew
  <2>2. queue[cur] # NoObj /\ tidOf[queue[cur]] = cur
    BY <2>1 DEF Inv, CurrentIsLive, SchedLabels, Self
  <2>3. queue'[cur] # NoObj /\ tidOf'[queue'[cur]] = cur
    BY <1>1, <1>2, <1>3, <2>2 DEF Inv, TypeOK, Obj, NoObj
  <2> QED
    BY <1>2, <1>4, <2>3 DEF CurrentIsLive, LoopIsGone, Self
<1>9. ContextsResume'
  BY <1>1, <1>5 DEF Inv, TypeOK, ContextsResume, SchedLabels
<1>10. RunningIsCurrent'
  <2> SUFFICES ASSUME NEW t \in Tid, queue'[t] # NoObj, state'[queue'[t]] = RUNNING
               PROVE  t = cur
    BY <1>2, <1>4 DEF RunningIsCurrent, SchedLabels
  <2>1. queue'[t] # o
    BY <1>1 DEF Inv, TypeOK, READY, RUNNING
  <2>2. queue'[t] = queue[t] /\ state'[queue[t]] = state[queue[t]]
    BY <1>1, <1>2, <2>1 DEF Inv, TypeOK
  <2> QED
    BY <2>2 DEF Inv, RunningIsCurrent
<1> QED
  BY <1>6, <1>7, <1>8, <1>9, <1>10 DEF Inv

LEMMA TermClearInv == Inv /\ TermClear => Inv'
<1> SUFFICES ASSUME Inv, TermClear PROVE Inv'
  OBVIOUS
<1>1. /\ pc.at = "term_clear"
      /\ pc.tid \in Tid
      /\ cur \in Tid
      /\ queue' = [ queue EXCEPT ![pc.tid] = NoObj ]
      /\ pc' = IF pc.tid = cur THEN At("spin", NoTid) ELSE User
      /\ UNCHANGED << lists, mutex, cur, total, quanta, thread, armed >>
  BY ContinuationType DEF TermClear, Goto, Return, Inv, TypeOK, TidLabels
<1>2. /\ User \in Continuation /\ User.at = "user"
      /\ At("spin", NoTid) \in Continuation /\ At("spin", NoTid).at = "spin"
  BY AtType DEF User, At, Labels, ClientLabels, TidLabels
<1>3. retired' \in 0 .. QuantaWrap - 1
  <2>1. \A m, n \in 0 .. QuantaWrap - 1 : (m + n) % QuantaWrap \in 0 .. QuantaWrap - 1
    BY UthreadsAssumption
  <2>2. retired \in 0 .. QuantaWrap - 1
    BY DEF Inv, TypeOK
  <2>3. queue[pc.tid] # NoObj => quanta[queue[pc.tid]] \in 0 .. QuantaWrap - 1
    BY <1>1 DEF Inv, TypeOK
  <2> QED
    BY <2>1, <2>2, <2>3 DEF TermClear
<1>4. TypeOK'
  BY <1>1, <1>2, <1>3 DEF Inv, TypeOK, TermClear, lists, thread
<1>5. SlotMatches' /\ ContextsResume'
  BY <1>1 DEF Inv, TypeOK, SlotMatches, ContextsResume, thread
<1>6. CurrentIsLive' /\ LoopIsGone'
  <2>1. queue[cur] # NoObj /\ tidOf[queue[cur]] = cur
    BY <1>1 DEF Inv, CurrentIsLive, SchedLabels, Self
  <2>2. CASE pc.tid = cur
    BY <1>1, <1>2, <2>2 DEF Inv, TypeOK, CurrentIsLive, LoopIsGone, Self
  <2>3. CASE pc.tid # cur
    BY <1>1, <1>2, <2>1, <2>3
    DEF Inv, TypeOK, CurrentIsLive, LoopIsGone, Self, thread
  <2> QED
    BY <2>2, <2>3
<1>7. RunningIsCurrent'
  BY <1>1, <1>2 DEF Inv, TypeOK, RunningIsCurrent, thread, SchedLabels
<1> QED
  BY <1>4, <1>5, <1>6, <1>7 DEF Inv

\* The other steps of the calls change no slot, and give no thread the state
\* RUNNING.
CallStep ==
  \/ SpawnPush \/ BlockSet \/ ResumeSet \/ ResumePush
  \/ LockPush \/ LockBlock \/ LockTake \/ UnlockFree \/ UnlockWake \/ UnlockClear

LEMMA CallStepInv == Inv /\ CallStep => Inv'
<1> SUFFICES ASSUME Inv, CallStep PROVE Inv'
  OBVIOUS
<1>1. UNCHANGED << queue, cur, counters, tidOf, ctx, armed >>
  BY DEF CallStep, SpawnPush, BlockSet, ResumeSet, ResumePush, LockPush,
     LockBlock, LockTake, UnlockFree, UnlockWake, UnlockClear, thread
<1>2. /\ pc \in Continuation
      /\ pc.at \in TidLabels => pc.tid \in Tid
      /\ pc.tid \in Tid \cup {NoTid}
      /\ cur \in Tid
      /\ Self # NoObj /\ tidOf[Self] = cur /\ Self \in Obj
  BY ContinuationType
  DEF Inv, TypeOK, CurrentIsLive, SchedLabels, Self, CallStep, SpawnPush, BlockSet,
      ResumeSet, ResumePush, LockPush, LockBlock, LockTake, UnlockFree,
      UnlockWake, UnlockClear
<1>3. pc' \in Continuation /\ pc'.at \in CallLabels \cup {"user"}
  <2>1. /\ \A l \in TidLabels, t \in Tid :
             At(l, t) \in Continuation /\ At(l, t).at = l
        /\ \A l \in Labels \ TidLabels, t \in Tid \cup {NoTid} :
             At(l, t) \in Continuation /\ At(l, t).at = l
    BY AtType DEF At
  <2>2. User \in Continuation /\ User.at = "user"
    BY <2>1 DEF User, Labels, ClientLabels, TidLabels
  <2>3. CASE SpawnPush \/ ResumePush
    BY <2>2, <2>3 DEF SpawnPush, ResumePush, Return
  <2>4. CASE BlockSet \/ ResumeSet
    BY <1>2, <2>1, <2>2, <2>4
    DEF BlockSet, ResumeSet, Goto, Return, Labels, CallLabels, TidLabels
  <2>5. CASE LockPush \/ LockBlock \/ UnlockFree \/ UnlockWake
    BY <1>2, <2>1, <2>5
    DEF LockPush, LockBlock, UnlockFree, UnlockWake, Goto, Labels, CallLabels, TidLabels
  <2>6. CASE LockTake
    BY <2>2, <2>6 DEF LockTake, Return
  <2>7. CASE UnlockClear
    BY <1>2, <2>1, <2>2, <2>7
    DEF UnlockClear, UnlockReturn, Labels, CallLabels, TidLabels
  <2> QED
    BY <2>3, <2>4, <2>5, <2>6, <2>7 DEF CallStep
<1>4. /\ state' \in [ Obj -> {READY, RUNNING, BLOCKED} ]
      /\ \A o \in Obj : state'[o] = RUNNING => state[o] = RUNNING
  <2>1. /\ state \in [ Obj -> {READY, RUNNING, BLOCKED} ]
        /\ READY # RUNNING /\ BLOCKED # RUNNING
    BY DEF Inv, TypeOK, READY, RUNNING, BLOCKED
  <2>2. CASE BlockSet \/ ResumeSet \/ LockBlock
    BY <2>1, <2>2 DEF BlockSet, ResumeSet, LockBlock
  <2>3. CASE UnlockWake
    BY <2>1, <2>3 DEF UnlockWake
  <2>4. CASE SpawnPush \/ ResumePush \/ LockPush \/ LockTake \/ UnlockFree \/ UnlockClear
    BY <2>1, <2>4
    DEF SpawnPush, ResumePush, LockPush, LockTake, UnlockFree, UnlockClear, thread
  <2> QED
    BY <2>2, <2>3, <2>4 DEF CallStep
<1>5. /\ fifo' \in Seq(Obj \cup {NoObj})
      /\ blockedMutex' \in Seq(Obj \cup {NoObj})
  <2>1. /\ fifo \in Seq(Obj \cup {NoObj})
        /\ blockedMutex \in Seq(Obj \cup {NoObj})
        /\ queue \in [ Tid -> Obj \cup {NoObj} ]
    BY DEF Inv, TypeOK
  <2>2. CASE SpawnPush \/ ResumePush
    <3>1. queue[pc.tid] \in Obj \cup {NoObj}
      BY <1>2, <2>1, <2>2 DEF SpawnPush, ResumePush, TidLabels
    <3>2. Append(fifo, queue[pc.tid]) \in Seq(Obj \cup {NoObj})
      BY <2>1, <3>1
    <3> QED
      BY <2>1, <2>2, <3>2 DEF SpawnPush, ResumePush
  <2>3. CASE LockPush
    <3>1. Append(blockedMutex, Self) \in Seq(Obj \cup {NoObj})
      BY <1>2, <2>1
    <3> QED
      BY <2>1, <2>3, <3>1 DEF LockPush
  <2>4. CASE UnlockWake
    BY <2>1, <2>4 DEF UnlockWake, WokenEntries
  <2>5. CASE UnlockClear
    BY <2>1, <2>5 DEF UnlockClear
  <2>6. CASE BlockSet \/ ResumeSet \/ LockBlock \/ LockTake \/ UnlockFree
    BY <2>1, <2>6 DEF BlockSet, ResumeSet, LockBlock, LockTake, UnlockFree, lists
  <2> QED
    BY <2>2, <2>3, <2>4, <2>5, <2>6 DEF CallStep
<1>6. mutex' \in Tid \cup {NoTid} /\ critical' \subseteq Obj /\ suspended' \subseteq Obj
  <2>1. /\ mutex \in Tid \cup {NoTid}
        /\ critical \subseteq Obj
        /\ suspended \subseteq Obj
        /\ queue \in [ Tid -> Obj \cup {NoObj} ]
    BY DEF Inv, TypeOK
  <2>2. CASE BlockSet \/ ResumeSet
    BY <1>2, <2>1, <2>2 DEF BlockSet, ResumeSet, Contain, TidLabels
  <2>3. CASE LockTake \/ UnlockFree
    BY <1>2, <2>1, <2>3 DEF LockTake, UnlockFree
  <2>4. CASE SpawnPush \/ ResumePush \/ LockPush \/ LockBlock \/ UnlockWake \/ UnlockClear
    BY <2>1, <2>4
    DEF SpawnPush, ResumePush, LockPush, LockBlock, UnlockWake, UnlockClear, claims
  <2> QED
    BY <2>2, <2>3, <2>4 DEF CallStep
<1>7. TypeOK'
  BY <1>1, <1>3, <1>4, <1>5, <1>6 DEF Inv, TypeOK, counters
<1>8. SlotMatches' /\ ContextsResume'
  BY <1>1 DEF Inv, SlotMatches, ContextsResume
<1>9. CurrentIsLive' /\ LoopIsGone'
  BY <1>1, <1>2, <1>3 DEF CurrentIsLive, LoopIsGone, Self, CallLabels
<1>10. RunningIsCurrent'
  BY <1>1, <1>3, <1>4 DEF Inv, TypeOK, RunningIsCurrent, CallLabels, SchedLabels
<1> QED
  BY <1>7, <1>8, <1>9, <1>10 DEF Inv

LEMMA NextInv == Inv /\ [Next]_vars => Inv'
<1> SUFFICES ASSUME Inv, [Next]_vars PROVE Inv'
  OBVIOUS
<1>1. CASE UNCHANGED vars
  BY <1>1 DEF vars, Inv, TypeOK, SlotMatches, CurrentIsLive, LoopIsGone,
     ContextsResume, RunningIsCurrent, Self
<1>2. CASE Next
  BY <1>2, PcOnlyInv, EnterInv, EraseInv, DispatchInv, SpawnNewInv, TermClearInv,
     CallStepInv DEF Next, Library, Client, PcOnly, CallStep
<1> QED
  BY <1>1, <1>2

LEMMA SpecInv == Spec => []Inv
BY InitInv, NextInv, PTL DEF Spec

\* Every variable keeps its type, whatever the client calls and wherever the
\* timer interrupts it.
THEOREM TypeCorrect == Spec => []TypeOK
BY SpecInv, PTL DEF Inv

\* The library never follows the slot of a current thread that is gone.
THEOREM CurrentLive == Spec => []CurrentIsLive
BY SpecInv, PTL DEF Inv

\* At most one thread is RUNNING, even when calls are interrupted.
THEOREM AtMostOneRunning == Spec => []OneRunning
<1>1. Inv => OneRunning
  BY DEF Inv, RunningIsCurrent, OneRunning, Live, Self
<1> QED
  BY <1>1, SpecInv, PTL
-----------------------------------------------------------------------------
(***************************************************************************)
(* The mutex, when no quantum ends inside a call.  What makes the argument *)
(* inductive: a call that is about to take the mutex found it free, one    *)
(* that is about to free it holds it, one that is about to fill a slot     *)
(* found it empty, and no thread stopped in between.                       *)
(***************************************************************************)
HoldersNamed == \A o \in critical : o \in Live /\ mutex = tidOf[o]

CallsAreTimely ==
  /\ pc.at = "lock_take" => mutex = NoTid
  /\ pc.at = "unlock_free" => mutex = cur
  /\ pc.at = "spawn_new" => queue[pc.tid] = NoObj

StoppedOutside == \A o \in Obj : ctx[o].at \in { "user", "lock_test" }

MInv == HoldersNamed /\ CallsAreTimely /\ StoppedOutside

\* The owner's ID determines its object, so the holders are at most one.
LEMMA MInvExclusive == Inv /\ MInv => MutualExclusion
BY DEF Inv, SlotMatches, MInv, HoldersNamed, MutualExclusion, Live

LEMMA PcOnlyMInv == Inv /\ MInv /\ PcOnly => MInv'
<1> SUFFICES ASSUME Inv, MInv, PcOnly PROVE MInv'
  OBVIOUS
<1>1. UNCHANGED << queue, lists, mutex, cur, counters, thread, armed, claims >>
  BY DEF PcOnly, Spawn, Terminate, TermStart, TermTest, ThreadEnds, Segv, Jump,
     SchedulerFault, Block, Resume, Lock, LockTest, Unlock
<1>2. HoldersNamed' /\ StoppedOutside'
  BY <1>1 DEF MInv, HoldersNamed, StoppedOutside, Live, thread, claims
<1>3. CallsAreTimely'
  <2>1. CASE Jump
    <3>1. Self \in Obj
      BY <2>1 DEF Jump, Inv, TypeOK, CurrentIsLive, SchedLabels, Self
    <3> QED
      BY <2>1, <3>1 DEF Jump, MInv, StoppedOutside, CallsAreTimely
  <2>2. CASE ~Jump
    BY <1>1, <2>2 DEF PcOnly, CallsAreTimely, Spawn, FreeTid, Terminate, TermStart,
       TermTest, ThreadEnds, Segv, SchedulerFault, Block, Resume, Lock,
       LockTest, Unlock, Goto, At
  <2> QED
    BY <2>1, <2>2
<1> QED
  BY <1>2, <1>3 DEF MInv

(***************************************************************************)
(* Calls are whole when no quantum ends inside one.                        *)
(***************************************************************************)
TimerBetween == Timer /\ pc.at \in ClientLabels
WholeNext == Library \/ Client \/ TimerBetween
WholeSpec == Init /\ [][WholeNext]_vars

LEMMA WholeIsNext == [WholeNext]_vars => [Next]_vars
BY DEF WholeNext, Next, TimerBetween

\* The calls are whole when the library's set of critical signals keeps the
\* timer out.
LEMMA CallsAreWhole ==
  ASSUME ~PreemptibleCalls
  PROVE  Spec => WholeSpec
<1>1. [Next]_vars => [WholeNext]_vars
  BY DEF Next, WholeNext, TimerBetween, Timer
<1> QED
  BY <1>1, PTL DEF Spec, WholeSpec

LEMMA EnterMInv ==
  Inv /\ MInv /\ (TimerBetween \/ BlockRaise \/ LockRaise) => MInv'
<1> SUFFICES ASSUME Inv, MInv, TimerBetween \/ BlockRaise \/ LockRaise PROVE MInv'
  OBVIOUS
<1>1. PICK sig, k : /\ EnterScheduler(sig, k)
                    /\ Contain(cur) => k.at \in { "user", "lock_test" }
  <2>1. CASE TimerBetween
    BY <2>1 DEF TimerBetween, Timer, ClientLabels, Inv, LoopIsGone, Contain, Self
  <2>2. CASE BlockRaise
    BY <2>2 DEF BlockRaise, User, At
  <2>3. CASE LockRaise
    BY <2>3 DEF LockRaise, Retry, At
  <2> QED
    BY <2>1, <2>2, <2>3
<1>2. HoldersNamed'
  BY <1>1 DEF EnterScheduler, MInv, HoldersNamed, Live, claims
<1>3. CallsAreTimely'
  BY <1>1 DEF EnterScheduler, Goto, At, CallsAreTimely
<1>4. StoppedOutside'
  BY <1>1 DEF EnterScheduler, MInv, StoppedOutside, Inv, TypeOK
<1> QED
  BY <1>2, <1>3, <1>4 DEF MInv

LEMMA SchedulerMInv ==
  Inv /\ MInv /\ (PurgeDead \/ DropBlocked \/ Dispatch) => MInv'
<1> SUFFICES ASSUME Inv, MInv, PurgeDead \/ DropBlocked \/ Dispatch PROVE MInv'
  OBVIOUS
<1>1. UNCHANGED << queue, mutex, tidOf, ctx, claims >>
  BY DEF PurgeDead, DropBlocked, Dispatch, thread
<1>2. HoldersNamed' /\ StoppedOutside'
  BY <1>1 DEF MInv, HoldersNamed, StoppedOutside, Live, claims
<1>3. CallsAreTimely'
  <2>1. CASE PurgeDead \/ DropBlocked
    BY <2>1 DEF PurgeDead, DropBlocked, MInv, CallsAreTimely
  <2>2. CASE Dispatch
    <3>1. PICK i \in DOMAIN fifo : cur' = tidOf[fifo[i]]
      BY <2>2 DEF Dispatch
    <3>2. queue[cur'] \in Obj
      BY <2>2, <3>1 DEF Dispatch, HasNull, HasGone, Gone, Inv, TypeOK
    <3>3. pc'.at \in { "jump", "user", "lock_test" }
      BY <2>2, <3>2 DEF Dispatch, At, MInv, StoppedOutside
    <3> QED
      BY <3>3 DEF CallsAreTimely
  <2> QED
    BY <2>1, <2>2
<1> QED
  BY <1>2, <1>3 DEF MInv

LEMMA SpawnNewMInv == Inv /\ MInv /\ SpawnNew => MInv'
<1> SUFFICES ASSUME Inv, MInv, SpawnNew PROVE MInv'
  OBVIOUS
<1>1. PICK o \in Obj \ Reachable :
        /\ queue' = [ queue EXCEPT ![pc.tid] = o ]
        /\ tidOf' = [ tidOf EXCEPT ![o] = pc.tid ]
        /\ ctx' = [ ctx EXCEPT ![o] = User ]
  BY DEF SpawnNew
<1>2. pc.tid \in Tid /\ queue[pc.tid] = NoObj /\ UNCHANGED << mutex, critical >>
  BY ContinuationType DEF SpawnNew, Inv, TypeOK, MInv, CallsAreTimely, TidLabels, claims
<1>3. HoldersNamed'
  <2> SUFFICES ASSUME NEW p \in critical PROVE p \in Live' /\ mutex = tidOf'[p]
    BY <1>2 DEF HoldersNamed
  <2>1. p \in Live /\ mutex = tidOf[p]
    BY DEF MInv, HoldersNamed
  <2>2. p # o
    BY <2>1 DEF Reachable, Live
  <2>3. PICK t \in Tid : queue[t] = p /\ p # NoObj
    BY <2>1 DEF Live
  <2>4. queue'[t] = p
    BY <1>1, <1>2, <2>3 DEF Inv, TypeOK
  <2>5. p \in Live'
    BY <2>3, <2>4 DEF Live
  <2>6. tidOf'[p] = tidOf[p]
    BY <1>1, <2>2 DEF Inv, TypeOK
  <2> QED
    BY <2>1, <2>5, <2>6
<1>4. CallsAreTimely' /\ StoppedOutside'
  BY <1>1 DEF SpawnNew, Goto, At, User, CallsAreTimely, MInv, StoppedOutside, Inv,
     TypeOK
<1> QED
  BY <1>3, <1>4 DEF MInv

LEMMA TermClearMInv == Inv /\ MInv /\ TermClear => MInv'
<1> SUFFICES ASSUME Inv, MInv, TermClear PROVE MInv'
  OBVIOUS
<1>1. /\ queue' = [ queue EXCEPT ![pc.tid] = NoObj ]
      /\ critical' = critical \ { queue[pc.tid] }
      /\ UNCHANGED << mutex, cur, thread >>
  BY DEF TermClear
<1>2. HoldersNamed'
  <2> SUFFICES ASSUME NEW p \in critical' PROVE p \in Live' /\ mutex = tidOf[p]
    BY <1>1 DEF HoldersNamed, thread
  <2>1. p \in Live /\ mutex = tidOf[p] /\ p # queue[pc.tid]
    BY <1>1 DEF MInv, HoldersNamed
  <2>2. PICK t \in Tid : queue[t] = p /\ p # NoObj
    BY <2>1 DEF Live
  <2>3. queue'[t] = p
    BY <1>1, <2>1, <2>2 DEF Inv, TypeOK
  <2> QED
    BY <2>1, <2>2, <2>3 DEF Live
<1>3. CallsAreTimely' /\ StoppedOutside'
  BY <1>1 DEF TermClear, Goto, Return, At, User, CallsAreTimely, MInv,
     StoppedOutside, thread
<1> QED
  BY <1>2, <1>3 DEF MInv

LEMMA CallStepMInv == Inv /\ MInv /\ CallStep => MInv'
<1> SUFFICES ASSUME Inv, MInv, CallStep PROVE MInv'
  OBVIOUS
<1>1. UNCHANGED << queue, cur, tidOf, ctx >>
  BY DEF CallStep, SpawnPush, BlockSet, ResumeSet, ResumePush, LockPush,
     LockBlock, LockTake, UnlockFree, UnlockWake, UnlockClear, thread
<1>2. StoppedOutside'
  BY <1>1 DEF MInv, StoppedOutside
<1>3. CallsAreTimely'
  BY DEF CallsAreTimely, CallStep, SpawnPush, BlockSet, ResumeSet, ResumePush,
     LockPush, LockBlock, LockTake, UnlockFree, UnlockWake, UnlockClear,
     UnlockReturn, Goto, Return, At, User
<1>4. HoldersNamed'
  <2>1. CASE LockTake
    <3>1. mutex = NoTid
      BY <2>1 DEF LockTake, MInv, CallsAreTimely
    <3>2. critical = {}
      BY <3>1 DEF MInv, HoldersNamed, Inv, TypeOK, Tid, NoTid
    <3>3. Self \in Live /\ tidOf[Self] = cur
      BY <2>1 DEF LockTake, Inv, TypeOK, CurrentIsLive, SchedLabels, Self, Live
    <3>4. mutex' = cur /\ critical' = { Self }
      BY <2>1, <3>2 DEF LockTake
    <3> QED
      BY <1>1, <3>3, <3>4 DEF HoldersNamed, Live
  <2>2. CASE UnlockFree
    <3>1. mutex = cur
      BY <2>2 DEF UnlockFree, MInv, CallsAreTimely
    <3>2. ASSUME NEW o \in critical PROVE o = Self
      <4>1. PICK t \in Tid : o = queue[t] /\ o # NoObj /\ tidOf[o] = cur
        BY <3>1 DEF MInv, HoldersNamed, Live
      <4> QED
        BY <4>1 DEF Inv, SlotMatches, Self
    <3>3. critical' = {}
      BY <2>2, <3>2 DEF UnlockFree
    <3> QED
      BY <3>3 DEF HoldersNamed
  <2>3. CASE ~LockTake /\ ~UnlockFree
    <3>1. UNCHANGED << mutex, critical >>
      BY <2>3 DEF CallStep, SpawnPush, BlockSet, ResumeSet, ResumePush, LockPush,
         LockBlock, UnlockWake, UnlockClear, claims
    <3> QED
      BY <1>1, <3>1 DEF MInv, HoldersNamed, Live
  <2> QED
    BY <2>1, <2>2, <2>3
<1> QED
  BY <1>2, <1>3, <1>4 DEF MInv

LEMMA InitMInv == Init => MInv
BY DEF Init, MInv, HoldersNamed, CallsAreTimely, StoppedOutside, At, User

LEMMA NextMInv ==
  Inv /\ MInv /\ [WholeNext]_vars => MInv'
<1> SUFFICES ASSUME Inv, MInv, [WholeNext]_vars PROVE MInv'
  OBVIOUS
<1>1. CASE UNCHANGED vars
  BY <1>1 DEF vars, MInv, HoldersNamed, CallsAreTimely, StoppedOutside, Live
<1>2. CASE WholeNext
  BY <1>2, PcOnlyMInv, EnterMInv, SchedulerMInv, SpawnNewMInv, TermClearMInv,
     CallStepMInv DEF WholeNext, Library, Client, PcOnly, CallStep
<1> QED
  BY <1>1, <1>2

LEMMA WholeMInv == WholeSpec => [](Inv /\ MInv)
BY InitInv, NextInv, WholeIsNext, InitMInv, NextMInv, PTL DEF WholeSpec

LEMMA WholeMutex == WholeSpec => []MutualExclusion
BY WholeMInv, MInvExclusive, PTL

\* When no quantum ends inside a call, two threads never hold the mutex at a
\* time, for any number of threads and any calls of the client.
THEOREM MutexCorrect ==
  ASSUME ~PreemptibleCalls
  PROVE  Spec => []MutualExclusion
BY CallsAreWhole, WholeMutex
-----------------------------------------------------------------------------
(***************************************************************************)
(* The quanta: a sum over the threads, for any order in which it is taken. *)
(* The sum of counters is the number of the pairs of a thread and one of   *)
(* its quanta.                                                             *)
(***************************************************************************)
\* The quanta of the threads of S, of which q says how many each has had.
Used(q, S) == { p \in S \X (1 .. QuantaWrap) : p[2] <= q[p[1]] }
\* What the counters of the threads may hold.
Counters == [ Obj -> 0 .. QuantaWrap - 1 ]

\* The quanta are finitely many.
LEMMA UsedFinite ==
  ASSUME NEW q \in Counters, NEW S \in SUBSET Obj
  PROVE  IsFiniteSet(Used(q, S)) /\ Cardinality(Used(q, S)) \in Nat
<1>1. IsFiniteSet(Obj) /\ IsFiniteSet(1 .. QuantaWrap)
  BY UthreadsAssumption, FS_Interval DEF Obj
<1>2. IsFiniteSet(S \X (1 .. QuantaWrap))
  BY <1>1, FS_Subset, FS_Product
<1>3. Used(q, S) \in SUBSET (S \X (1 .. QuantaWrap))
  BY DEF Used
<1> QED
  BY <1>2, <1>3, FS_Subset, FS_CardinalityType

\* The quanta of one thread more.
LEMMA UsedAdd ==
  ASSUME NEW q \in Counters, NEW S \in SUBSET Obj, NEW o \in S
  PROVE  Cardinality(Used(q, S)) = q[o] + Cardinality(Used(q, S \ {o}))
<1> DEFINE N == 1 .. q[o]
           A == Used(q, S \ {o})
           B == Used(q, {o})
           f == [ n \in N |-> << o, n >> ]
<1>1. q[o] \in 0 .. QuantaWrap - 1 /\ QuantaWrap \in Nat
  BY UthreadsAssumption DEF Counters
<1>2. IsFiniteSet(N) /\ Cardinality(N) = q[o]
  BY <1>1, FS_Interval
<1>3. B = { << o, n >> : n \in N }
  BY <1>1 DEF Used
<1>4. f \in Bijection(N, B)
  <2>1. f \in [ N -> B ]
    BY <1>3
  <2>2. \A n \in N : f[n] = << o, n >>
    OBVIOUS
  <2>3. \A b \in B : \E n \in N : f[n] = b
    BY <1>3
  <2> HIDE DEF f, N, B
  <2>4. \A m, n \in N : f[m] = f[n] => m = n
    BY <2>2
  <2> QED
    BY <2>1, <2>3, <2>4 DEF Bijection, Injection, Surjection, IsInjective
<1>5. Cardinality(B) = q[o]
  <2> HIDE DEF f, N, B
  <2> QED
    BY <1>2, <1>4, FS_Bijection DEF ExistsBijection
<1>6. Used(q, S) = A \cup B /\ A \cap B = {}
  BY DEF Used
<1>7. IsFiniteSet(A) /\ IsFiniteSet(B) /\ Cardinality(A) \in Nat /\ Cardinality(B) \in Nat
  BY UsedFinite
<1> HIDE DEF A, B
<1>8. Cardinality(A \cap B) = 0
  BY <1>6, FS_EmptySet
<1>9. Cardinality(A \cup B) = Cardinality(A) + Cardinality(B) - Cardinality(A \cap B)
  BY <1>7, FS_Union
<1> QED
  BY <1>5, <1>6, <1>7, <1>8, <1>9 DEF A

\* Counters wrap: to wrap a part of a sum does not change the wrapped sum.
LEMMA WrapSum ==
  ASSUME NEW w \in Nat \ {0}, NEW a \in Nat, NEW b \in Nat
  PROVE  (a + (b % w)) % w = (a + b) % w /\ (a + b) % w \in 0 .. w - 1
<1>1. PICK q \in Nat, r \in 0 .. w - 1 : b = q * w + r /\ b % w = r
  BY Division
<1>2. a + r \in Nat
  BY <1>1
<1>3. PICK p \in Nat, s \in 0 .. w - 1 : a + r = p * w + s /\ (a + r) % w = s
  BY <1>2, Division
<1>4. PICK t \in Nat : a + b = t * w + s
  <2>1. a + b = (p + q) * w + s /\ p + q \in Nat
    BY <1>1, <1>3
  <2> QED
    BY <2>1
<1>5. (a + b) % w = s
  BY <1>4, DivisionOfSum
<1> QED
  BY <1>1, <1>3, <1>5

\* The sum that QuantaAccounted states, in whichever order it is taken.
LEMMA SumIsUsed ==
  ASSUME NEW q \in Counters, NEW S \in SUBSET Obj, NEW b \in 0 .. QuantaWrap - 1
  PROVE  FoldSet(LAMBDA o, n : (q[o] + n) % QuantaWrap, b, S) =
           (b + Cardinality(Used(q, S))) % QuantaWrap
<1> DEFINE plus(x, n) == (q[x] + n) % QuantaWrap
           all(s) == (b + Cardinality(Used(q, s))) % QuantaWrap
           c(s) == CHOOSE x \in s : TRUE
           sums(g) == g = [ s \in SUBSET S |->
                             IF s = {} THEN b ELSE plus(c(s), g[s \ {c(s)}]) ]
           h == [ s \in SUBSET S |-> all(s) ]
           sum == CHOOSE g : sums(g)
<1>1. FoldSet(LAMBDA o, n : (q[o] + n) % QuantaWrap, b, S) = sum[S]
  BY Zenon DEF FoldSet, MapThenFoldSet
<1>w. QuantaWrap \in Nat \ {0} /\ b \in Nat
  BY UthreadsAssumption
<1>f. \A s \in SUBSET S : IsFiniteSet(s) /\ Cardinality(s) \in Nat
                          /\ Cardinality(Used(q, s)) \in Nat
  <2>1. IsFiniteSet(Obj)
    BY UthreadsAssumption, FS_Interval DEF Obj
  <2>2. \A s \in SUBSET S : s \in SUBSET Obj
    OBVIOUS
  <2>3. \A s \in SUBSET S : Cardinality(Used(q, s)) \in Nat
    BY <2>2, UsedFinite
  <2>4. \A s \in SUBSET S : IsFiniteSet(s)
    BY <2>1, <2>2, FS_Subset
  <2> QED
    BY <2>3, <2>4, FS_CardinalityType
<1>2. \A s \in SUBSET S : s # {} =>
        /\ c(s) \in s /\ s \ {c(s)} \in SUBSET S
        /\ all(s) = plus(c(s), all(s \ {c(s)}))
  <2> SUFFICES ASSUME NEW s \in SUBSET S, s # {}
               PROVE  /\ c(s) \in s /\ s \ {c(s)} \in SUBSET S
                      /\ all(s) = plus(c(s), all(s \ {c(s)}))
    OBVIOUS
  <2>1. c(s) \in s
    OBVIOUS
  <2> HIDE DEF c
  <2>3. ASSUME NEW x \in s
        PROVE  all(s) = plus(x, all(s \ {x}))
    <3>1. Cardinality(Used(q, s)) = q[x] + Cardinality(Used(q, s \ {x}))
      BY UsedAdd
    <3>2. q[x] \in Nat
      BY UthreadsAssumption DEF Counters
    <3>3. PICK u \in Nat : Cardinality(Used(q, s \ {x})) = u
      BY <1>f
    <3>6. b + u \in Nat
      BY <1>w
    <3>4. (q[x] + ((b + u) % QuantaWrap)) % QuantaWrap = (q[x] + (b + u)) % QuantaWrap
      BY <1>w, <3>2, <3>6, WrapSum
    <3>5. q[x] + (b + u) = b + (q[x] + u)
      BY <1>w, <3>2
    <3>7. all(s) = (b + (q[x] + u)) % QuantaWrap
      BY <3>1, <3>3
    <3>8. plus(x, all(s \ {x})) = (q[x] + ((b + u) % QuantaWrap)) % QuantaWrap
      <4>1. all(s \ {x}) = (b + u) % QuantaWrap
        BY <3>3
      <4> HIDE DEF all
      <4> QED
        BY <4>1
    <3> HIDE DEF all, plus
    <3> QED
      BY <3>4, <3>5, <3>7, <3>8
  <2> HIDE DEF all, plus
  <2> QED
    BY <2>1, <2>3
<1> HIDE DEF c
<1>3. all({}) = b
  <2>1. Used(q, {}) = {}
    BY DEF Used
  <2>2. Cardinality(Used(q, {})) = 0
    BY <2>1, FS_EmptySet
  <2>3. b = 0 * QuantaWrap + b /\ b \in 0 .. QuantaWrap - 1
    BY <1>w
  <2>4. b % QuantaWrap = b
    BY <1>w, <2>3, DivisionOfSum
  <2> QED
    BY <1>w, <2>2, <2>4
<1> HIDE DEF plus, all
<1>4. sums(h)
  <2>1. \A s \in SUBSET S : h[s] = IF s = {} THEN b ELSE plus(c(s), h[s \ {c(s)}])
    BY <1>2, <1>3
  <2>2. h = [ s \in SUBSET S |-> h[s] ]
    OBVIOUS
  <2> HIDE DEF h
  <2> QED
    BY <2>1, <2>2
<1>5. sums(sum)
  <2> HIDE DEF sums, h
  <2> QED
    BY <1>4
<1> HIDE DEF sum, h
<1>6. \A s \in SUBSET S : sum[s] = IF s = {} THEN b ELSE plus(c(s), sum[s \ {c(s)}])
  BY <1>5
<1> HIDE DEF sums
<1> DEFINE N == { n \in Nat : \A s \in SUBSET S :
                    Cardinality(s) = n => sum[s] = all(s) }
<1>9. 0 \in N
  BY <1>3, <1>6, <1>f, FS_EmptySet
<1>10. ASSUME NEW n \in N
       PROVE  n + 1 \in N
  <2> SUFFICES ASSUME NEW s \in SUBSET S, Cardinality(s) = n + 1
               PROVE  sum[s] = all(s)
    OBVIOUS
  <2>0. n \in Nat /\ \A r \in SUBSET S :
          Cardinality(r) = n => sum[r] = all(r)
    OBVIOUS
  <2> HIDE DEF N
  <2>1. s # {}
    BY <2>0, FS_EmptySet
  <2>2. c(s) \in s /\ s \ {c(s)} \in SUBSET S
    BY <1>2, <2>1
  <2>3. Cardinality(s \ {c(s)}) = n
    <3>1. ASSUME NEW x \in s
          PROVE  Cardinality(s \ {x}) = n
      <4>1. Cardinality(s \ {x}) = (n + 1) - 1
        BY <1>f, FS_RemoveElement
      <4> QED
        BY <2>0, <4>1
    <3> QED
      BY <2>2, <3>1
  <2>4. sum[s \ {c(s)}] = all(s \ {c(s)})
    BY <2>0, <2>2, <2>3
  <2> QED
    BY <1>2, <1>6, <2>1, <2>4
<1> QED
  <2> HIDE DEF N
  <2>1. N = Nat
    BY <1>9, <1>10, SetInduction DEF N
  <2>2. sum[S] = all(S)
    BY <1>f, <2>1 DEF N
  <2> QED
    BY <1>1, <2>2 DEF all

-----------------------------------------------------------------------------
(***************************************************************************)
(* The quanta are accounted for, when no quantum ends inside a call.       *)
(***************************************************************************)
\* The total is the count of the quanta of the live threads and of those that
\* are gone, modulo the bound.
QInv == total = (retired + Cardinality(Used(quanta, Live))) % QuantaWrap

\* The counters and the live threads have their types.
LEMMA CountersType ==
  ASSUME TypeOK
  PROVE  /\ quanta \in Counters /\ Live \in SUBSET Obj
         /\ retired \in 0 .. QuantaWrap - 1 /\ total \in 0 .. QuantaWrap - 1
BY DEF TypeOK, Counters, Live

\* The count of the quanta is the sum that QuantaAccounted takes.
LEMMA QInvAccounts == TypeOK /\ QInv => QuantaAccounted
<1> SUFFICES ASSUME TypeOK, QInv PROVE QuantaAccounted
  OBVIOUS
<1>1. FoldSet(LAMBDA o, n : (quanta[o] + n) % QuantaWrap, retired, Live) =
        (retired + Cardinality(Used(quanta, Live))) % QuantaWrap
  BY CountersType, SumIsUsed
<1> QED
  BY <1>1, Zenon DEF QInv, QuantaAccounted

\* A counter that is increased: the quanta are one more, modulo the bound.
LEMMA UsedIncr ==
  ASSUME NEW q \in Counters, NEW S \in SUBSET Obj, NEW o \in S, NEW r \in Nat
  PROVE  LET p == [ q EXCEPT ![o] = Incr(q[o]) ] IN
           (r + Cardinality(Used(p, S))) % QuantaWrap =
             Incr((r + Cardinality(Used(q, S))) % QuantaWrap)
<1> DEFINE p == [ q EXCEPT ![o] = Incr(q[o]) ]
<1>w. QuantaWrap \in Nat \ {0}
  BY UthreadsAssumption
<1>1. q[o] \in 0 .. QuantaWrap - 1 /\ p[o] = Incr(q[o])
      /\ Incr(q[o]) \in 0 .. QuantaWrap - 1 /\ p \in Counters
  BY <1>w DEF Counters, Incr
<1>2. Used(p, S \ {o}) = Used(q, S \ {o})
  BY DEF Used, Counters
<1>3. PICK u \in Nat : Cardinality(Used(q, S \ {o})) = u
  BY UsedFinite
<1>4. Cardinality(Used(q, S)) = q[o] + u
  BY <1>3, UsedAdd
<1>5. Cardinality(Used(p, S)) = Incr(q[o]) + u
  <2> HIDE DEF p
  <2>1. Cardinality(Used(p, S)) = p[o] + Cardinality(Used(p, S \ {o}))
    BY <1>1, UsedAdd
  <2> QED
    BY <1>1, <1>2, <1>3, <2>1
<1>6. PICK a \in 0 .. QuantaWrap - 1, n \in 0 .. QuantaWrap - 1 :
        /\ q[o] = a /\ Incr(q[o]) = n
        /\ a # QuantaWrap - 1 => n = a + 1
        /\ a = QuantaWrap - 1 => n = 0
  BY <1>1 DEF Incr
<1>7. PICK d \in Nat, e \in 0 .. QuantaWrap - 1 :
        r + (a + u) = d * QuantaWrap + e /\ (r + (a + u)) % QuantaWrap = e
  <2>1. r + (a + u) \in Nat
    BY <1>6
  <2> QED
    BY <1>w, <2>1, Division
<1>8. \E c \in Nat : r + (n + u) = c * QuantaWrap + Incr(e)
  <2>1. CASE a # QuantaWrap - 1 /\ e # QuantaWrap - 1
    <3>1. r + (n + u) = d * QuantaWrap + (e + 1) /\ Incr(e) = e + 1
      BY <1>w, <1>6, <1>7, <2>1 DEF Incr
    <3> QED
      BY <3>1
  <2>2. CASE a # QuantaWrap - 1 /\ e = QuantaWrap - 1
    <3>1. r + (n + u) = (d + 1) * QuantaWrap + 0 /\ d + 1 \in Nat /\ Incr(e) = 0
      BY <1>w, <1>6, <1>7, <2>2 DEF Incr
    <3> QED
      BY <3>1
  <2>3. CASE a = QuantaWrap - 1 /\ e = QuantaWrap - 1
    <3>1. r + (n + u) = d * QuantaWrap + 0 /\ Incr(e) = 0
      BY <1>w, <1>6, <1>7, <2>3 DEF Incr
    <3> QED
      BY <3>1
  <2>4. CASE a = QuantaWrap - 1 /\ e # QuantaWrap - 1
    <3>1. d # 0
      <4>1. ASSUME d = 0
            PROVE  FALSE
        <5>1. d * QuantaWrap = 0
          BY <1>w, <4>1
        <5> QED
          BY <1>w, <1>6, <1>7, <2>4, <5>1
      <4> QED
        BY <4>1
    <3>2. PICK c \in Nat : d = c + 1
      <4>1. d - 1 \in Nat /\ d = (d - 1) + 1
        BY <3>1
      <4> QED
        BY <4>1
    <3>3. d * QuantaWrap = c * QuantaWrap + QuantaWrap
      BY <1>w, <3>2
    <3>4. c * QuantaWrap \in Nat
      BY <1>w
    <3>5. Incr(e) = e + 1
      BY <2>4 DEF Incr
    <3>6. r + (n + u) = c * QuantaWrap + (e + 1)
      BY <1>w, <1>6, <1>7, <2>4, <3>3, <3>4
    <3> QED
      BY <3>5, <3>6
  <2> QED
    BY <2>1, <2>2, <2>3, <2>4
<1>9. (r + (n + u)) % QuantaWrap = Incr(e)
  <2>1. Incr(e) \in 0 .. QuantaWrap - 1
    BY <1>w DEF Incr
  <2> QED
    BY <1>w, <1>8, <2>1, DivisionOfSum
<1>10. (r + Cardinality(Used(q, S))) % QuantaWrap = e
  BY <1>4, <1>6, <1>7
<1>11. (r + Cardinality(Used(p, S))) % QuantaWrap = Incr(e)
  <2> HIDE DEF p
  <2> QED
    BY <1>5, <1>6, <1>9
<1> QED
  BY <1>10, <1>11

\* The scheduler adds a quantum to a live thread and to the total.
LEMMA DispatchQInv == Inv /\ QInv /\ Dispatch => QInv'
<1> SUFFICES ASSUME Inv, QInv, Dispatch PROVE QInv'
  OBVIOUS
<1>1. PICK i \in DOMAIN fifo : cur' = tidOf[fifo[i]]
  BY DEF Dispatch
<1>2. fifo[i] \in Obj
  BY DEF Inv, TypeOK, Dispatch, HasNull
<1>3. cur' \in Tid /\ queue[cur'] \in Live
  BY <1>1, <1>2 DEF Inv, TypeOK, Dispatch, HasGone, Gone, Live
<1>4. /\ total' = Incr(total) /\ queue' = queue /\ retired' = retired
      /\ quanta' = [ quanta EXCEPT ![queue[cur']] = Incr(quanta[queue[cur']]) ]
  BY DEF Dispatch, Charge
<1>5. Live' = Live
  BY <1>4 DEF Live
<1>6. /\ quanta \in Counters /\ Live \in SUBSET Obj
      /\ retired \in Nat
  BY CountersType DEF Inv
<1>7. (retired + Cardinality(Used(quanta', Live))) % QuantaWrap =
        Incr((retired + Cardinality(Used(quanta, Live))) % QuantaWrap)
  BY <1>3, <1>4, <1>6, UsedIncr
<1> QED
  BY <1>4, <1>5, <1>7 DEF QInv

\* A new thread has none, and takes the place of no other.
LEMMA SpawnNewQInv == Inv /\ MInv /\ QInv /\ SpawnNew => QInv'
<1> SUFFICES ASSUME Inv, MInv, QInv, SpawnNew PROVE QInv'
  OBVIOUS
<1>1. PICK o \in Obj \ Reachable :
        /\ queue' = [ queue EXCEPT ![pc.tid] = o ]
        /\ quanta' = [ quanta EXCEPT ![o] = 0 ]
  BY DEF SpawnNew
<1>2. pc.tid \in Tid /\ queue[pc.tid] = NoObj /\ total' = total /\ retired' = retired
  BY ContinuationType DEF SpawnNew, Inv, TypeOK, MInv, CallsAreTimely, TidLabels
<1>3. o \notin Live /\ o # NoObj
  BY DEF Reachable, Obj, NoObj
<1>4. Live' = Live \cup {o}
  BY <1>1, <1>2, <1>3 DEF Live, Inv, TypeOK
<1>5. Live \in SUBSET Obj /\ quanta \in Counters
  BY CountersType DEF Inv
<1>6. \A p \in Live : quanta'[p] = quanta[p]
  BY <1>1, <1>3, <1>5 DEF Counters
<1>7. quanta'[o] = 0
  BY <1>1, <1>5 DEF Counters
<1>8. Used(quanta', Live') = Used(quanta, Live)
  BY <1>4, <1>6, <1>7 DEF Used
<1> QED
  BY <1>2, <1>8 DEF QInv

\* The quanta of a thread that is ended go to those that are gone.
LEMMA TermClearQInv == Inv /\ QInv /\ TermClear => QInv'
<1> SUFFICES ASSUME Inv, QInv, TermClear PROVE QInv'
  OBVIOUS
<1> DEFINE o == queue[pc.tid]
<1>w. QuantaWrap \in Nat \ {0}
  BY UthreadsAssumption
<1>1. /\ pc.tid \in Tid
      /\ queue' = [ queue EXCEPT ![pc.tid] = NoObj ]
      /\ total' = total /\ quanta' = quanta
      /\ retired' = IF o = NoObj THEN retired ELSE (retired + quanta[o]) % QuantaWrap
  BY ContinuationType DEF TermClear, Inv, TypeOK, TidLabels
<1>2. Live' = Live \ {o}
  BY <1>1 DEF Live, Inv, TypeOK, SlotMatches
<1>3. /\ quanta \in Counters /\ Live \in SUBSET Obj
      /\ retired \in Nat /\ total \in 0 .. QuantaWrap - 1
  BY CountersType DEF Inv
<1>4. CASE o = NoObj
  <2>1. Live' = Live
    BY <1>2, <1>4 DEF Live
  <2> QED
    BY <1>1, <1>4, <2>1 DEF QInv
<1>5. CASE o # NoObj
  <2>1. o \in Live
    BY <1>1, <1>5 DEF Live
  <2> HIDE DEF o
  <2>2. PICK u \in Nat : Cardinality(Used(quanta, Live \ {o})) = u
    BY <1>3, UsedFinite
  <2>3. Cardinality(Used(quanta, Live)) = quanta[o] + u
    BY <1>3, <2>1, <2>2, UsedAdd
  <2>4. PICK a \in Nat : quanta[o] = a
    BY <1>w, <1>3, <2>1 DEF Counters
  <2>5. retired + a \in Nat
    BY <1>3
  <2>6. (u + ((retired + a) % QuantaWrap)) % QuantaWrap = (u + (retired + a)) % QuantaWrap
    BY <1>w, <2>5, WrapSum
  <2>7. u + (retired + a) = retired + (a + u)
    BY <1>3
  <2>8. total = (retired + (a + u)) % QuantaWrap
    BY <2>3, <2>4 DEF QInv
  <2>9. retired' = (retired + a) % QuantaWrap /\ retired' \in Nat
    <3>1. (retired + a) % QuantaWrap \in Nat
      BY <1>w, <2>5, Division
    <3> QED
      BY <1>1, <1>5, <2>4, <3>1
  <2>10. u + retired' = retired' + u
    BY <2>9
  <2>11. total' = (retired' + u) % QuantaWrap
    BY <1>1, <2>6, <2>7, <2>8, <2>9, <2>10
  <2> QED
    BY <1>1, <1>2, <2>2, <2>11 DEF QInv
<1> QED
  BY <1>4, <1>5

\* All other steps leave the counts alone.
LEMMA SameQInv == QInv /\ UNCHANGED << queue, counters >> => QInv'
BY DEF QInv, Live, counters

\* Every step keeps the account.
LEMMA NextQInv == Inv /\ MInv /\ QInv /\ [Next]_vars => QInv'
<1> SUFFICES ASSUME Inv, MInv, QInv, [Next]_vars PROVE QInv'
  OBVIOUS
<1>1. CASE UNCHANGED vars
  BY <1>1, SameQInv DEF vars, counters
<1>2. CASE PcOnly
  BY <1>2, SameQInv
  DEF PcOnly, Spawn, Terminate, TermStart, TermTest, ThreadEnds, Segv, Jump,
     SchedulerFault, Block, Resume, Lock, LockTest, Unlock
<1>3. CASE Timer \/ BlockRaise \/ LockRaise
  BY <1>3, SameQInv DEF Timer, BlockRaise, LockRaise, EnterScheduler
<1>4. CASE PurgeDead \/ DropBlocked \/ CallStep
  BY <1>4, SameQInv
  DEF PurgeDead, DropBlocked, CallStep, SpawnPush, BlockSet, ResumeSet, ResumePush,
      LockPush, LockBlock, LockTake, UnlockFree, UnlockWake, UnlockClear
<1> QED
  BY <1>1, <1>2, <1>3, <1>4, DispatchQInv, SpawnNewQInv, TermClearQInv
  DEF Next, Library, Client, PcOnly, CallStep

\* There are no quanta at first.
LEMMA InitQInv == Init => QInv
<1> SUFFICES ASSUME Init PROVE QInv
  OBVIOUS
<1>1. Used(quanta, Live) = {}
  <2>1. Live \in SUBSET Obj
    BY InitInv, CountersType DEF Inv
  <2>2. \A o \in Obj : quanta[o] = 0
    BY DEF Init
  <2> QED
    BY <2>1, <2>2 DEF Used
<1>2. Cardinality(Used(quanta, Live)) = 0
  BY <1>1, FS_EmptySet
<1>3. (0 * QuantaWrap + 0) % QuantaWrap = 0
  BY UthreadsAssumption, DivisionOfSum
<1> QED
  BY <1>2, <1>3, UthreadsAssumption DEF Init, QInv

LEMMA WholeQuanta == WholeSpec => []QuantaAccounted
<1>1. WholeSpec => []QInv
  BY WholeMInv, WholeIsNext, InitQInv, NextQInv, PTL DEF WholeSpec
<1>2. Inv /\ QInv => QuantaAccounted
  BY QInvAccounts DEF Inv
<1> QED
  BY <1>1, <1>2, WholeMInv, PTL

\* When no quantum ends inside a call, every quantum is in the count of one
\* thread, live or gone, however many counts have wrapped.
THEOREM QuantaCorrect ==
  ASSUME ~PreemptibleCalls
  PROVE  Spec => []QuantaAccounted
BY CallsAreWhole, WholeQuanta
-----------------------------------------------------------------------------
(***************************************************************************)
(* The mutex is not left to a thread that is gone, when no quantum ends    *)
(* inside a call and no thread ends another.                               *)
(***************************************************************************)
\* A thread ends itself only, and only without the mutex, which it frees first.
EndsItself ==
  /\ pc.at \in { "term", "term_test", "term_clear" } => pc.tid = cur
  /\ pc.at = "term_clear" => mutex # cur
  /\ pc.at \in { "unlock_free", "unlock_wake", "unlock_clear" } => pc.tid \in { NoTid, cur }
  /\ pc.at \in { "unlock_wake", "unlock_clear" } => mutex = NoTid
\* Who the mutex names has locked it.
HolderHolds == mutex # NoTid => \E o \in critical : tidOf[o] = mutex
\* The two together are inductive.
HInv == EndsItself /\ HolderHolds

\* A call that is about to end a thread is about the caller itself.
LEMMA PcOnlyHInv ==
  ASSUME "terminate" \notin Ops
  PROVE  Inv /\ MInv /\ HInv /\ PcOnly => HInv'
<1> SUFFICES ASSUME Inv, MInv, HInv, PcOnly PROVE HInv'
  OBVIOUS
<1>1. UNCHANGED << queue, lists, mutex, cur, counters, thread, armed, claims >>
  BY DEF PcOnly, Spawn, Terminate, TermStart, TermTest, ThreadEnds, Segv, Jump,
     SchedulerFault, Block, Resume, Lock, LockTest, Unlock
<1>2. HolderHolds'
  BY <1>1 DEF HInv, HolderHolds, thread, claims
<1>3. EndsItself'
  <2>1. CASE Jump
    <3>1. Self \in Obj
      BY <2>1 DEF Jump, Inv, TypeOK, CurrentIsLive, SchedLabels, Self
    <3> QED
      BY <2>1, <3>1 DEF Jump, MInv, StoppedOutside, EndsItself
  <2>2. CASE Terminate
    BY <2>2 DEF Terminate, Calls
  <2>3. CASE TermStart \/ TermTest
    BY <1>1, <2>3 DEF TermStart, TermTest, HInv, EndsItself, Goto, At
  <2>4. CASE Spawn \/ ThreadEnds \/ Segv \/ SchedulerFault \/ Block \/ Resume \/ Lock
             \/ LockTest \/ Unlock
    BY <1>1, <2>4 DEF EndsItself, Spawn, ThreadEnds, Segv, SchedulerFault, Block, Resume,
       Lock, LockTest, Unlock, Goto, At
  <2> QED
    BY <2>1, <2>2, <2>3, <2>4 DEF PcOnly
<1> QED
  BY <1>2, <1>3 DEF HInv

\* The scheduler goes on with a thread that it stopped outside of these calls.
LEMMA SchedulerHInv ==
  Inv /\ MInv /\ HInv /\ (Timer \/ BlockRaise \/ LockRaise \/ PurgeDead \/ DropBlocked
                          \/ Dispatch) => HInv'
<1> SUFFICES ASSUME Inv, MInv, HInv,
                    Timer \/ BlockRaise \/ LockRaise \/ PurgeDead \/ DropBlocked \/ Dispatch
             PROVE  HInv'
  OBVIOUS
<1>1. UNCHANGED << mutex, tidOf, critical >>
  BY DEF Timer, BlockRaise, LockRaise, EnterScheduler, PurgeDead, DropBlocked, Dispatch,
     thread, claims
<1>2. HolderHolds'
  BY <1>1 DEF HInv, HolderHolds
<1>3. EndsItself'
  <2>1. CASE Timer \/ BlockRaise \/ LockRaise
    BY <2>1 DEF Timer, BlockRaise, LockRaise, EnterScheduler, Goto, At, EndsItself
  <2>2. CASE PurgeDead \/ DropBlocked
    BY <2>2 DEF PurgeDead, DropBlocked, HInv, EndsItself
  <2>3. CASE Dispatch
    <3>1. PICK i \in DOMAIN fifo : cur' = tidOf[fifo[i]]
      BY <2>3 DEF Dispatch
    <3>2. queue[cur'] \in Obj
      BY <2>3, <3>1 DEF Dispatch, HasNull, HasGone, Gone, Inv, TypeOK
    <3>3. pc'.at \in { "jump", "user", "lock_test" }
      BY <2>3, <3>2 DEF Dispatch, At, MInv, StoppedOutside
    <3> QED
      BY <3>3 DEF EndsItself
  <2> QED
    BY <2>1, <2>2, <2>3
<1> QED
  BY <1>2, <1>3 DEF HInv

\* A new thread is not the one that holds the mutex.
LEMMA SpawnNewHInv == Inv /\ MInv /\ HInv /\ SpawnNew => HInv'
<1> SUFFICES ASSUME Inv, MInv, HInv, SpawnNew PROVE HInv'
  OBVIOUS
<1>1. PICK o \in Obj \ Reachable : tidOf' = [ tidOf EXCEPT ![o] = pc.tid ]
  BY DEF SpawnNew
<1>2. UNCHANGED << mutex, critical >> /\ pc'.at = "spawn_push"
  BY DEF SpawnNew, claims, Goto, At
<1>3. \A p \in critical : p # o /\ p \in Obj
  BY DEF MInv, HoldersNamed, Reachable, Live, Inv, TypeOK
<1>4. HolderHolds'
  BY <1>1, <1>2, <1>3 DEF HInv, HolderHolds, Inv, TypeOK
<1> QED
  BY <1>2, <1>4 DEF HInv, EndsItself

\* The thread that is gone did not hold the mutex.
LEMMA TermClearHInv == Inv /\ HInv /\ TermClear => HInv'
<1> SUFFICES ASSUME Inv, HInv, TermClear PROVE HInv'
  OBVIOUS
<1>1. /\ pc.tid = cur /\ mutex # cur /\ cur \in Tid
      /\ critical' = critical \ { queue[cur] }
      /\ pc' = At("spin", NoTid)
      /\ UNCHANGED << mutex, cur, tidOf >>
  BY DEF TermClear, HInv, EndsItself, Goto, thread, Inv, TypeOK
<1>2. queue[cur] # NoObj => tidOf[queue[cur]] = cur
  BY <1>1 DEF Inv, SlotMatches
<1>3. HolderHolds'
  BY <1>1, <1>2 DEF HInv, HolderHolds, Inv, TypeOK, Obj, NoObj
<1> QED
  BY <1>1, <1>3 DEF HInv, EndsItself, At

\* Who takes the mutex becomes its holder; who frees it was it.
LEMMA CallStepHInv == Inv /\ MInv /\ HInv /\ CallStep => HInv'
<1> SUFFICES ASSUME Inv, MInv, HInv, CallStep PROVE HInv'
  OBVIOUS
<1>1. UNCHANGED << cur, tidOf >> /\ cur \in Tid /\ cur # NoTid
  BY DEF CallStep, SpawnPush, BlockSet, ResumeSet, ResumePush, LockPush,
     LockBlock, LockTake, UnlockFree, UnlockWake, UnlockClear, thread, Inv, TypeOK, Tid, NoTid
<1>2. CASE LockTake
  <2>1. tidOf[Self] = cur
    BY <1>2 DEF LockTake, Inv, CurrentIsLive, SchedLabels
  <2> QED
    BY <1>1, <1>2, <2>1 DEF LockTake, HInv, EndsItself, HolderHolds, Return, User, At
<1>3. CASE UnlockFree
  BY <1>1, <1>3 DEF UnlockFree, HInv, EndsItself, HolderHolds, Goto, At
<1>4. CASE UnlockWake \/ UnlockClear
  BY <1>1, <1>4 DEF UnlockWake, UnlockClear, UnlockReturn, HInv, EndsItself, HolderHolds,
                    Goto, User, At, claims
<1>5. CASE SpawnPush \/ BlockSet \/ ResumeSet \/ ResumePush \/ LockPush \/ LockBlock
  BY <1>1, <1>5 DEF SpawnPush, BlockSet, ResumeSet, ResumePush, LockPush, LockBlock, HInv,
                    EndsItself, HolderHolds, Goto, Return, User, At, claims
<1> QED
  BY <1>2, <1>3, <1>4, <1>5 DEF CallStep

LEMMA InitHInv == Init => HInv
BY DEF Init, HInv, EndsItself, HolderHolds, At

LEMMA NextHInv ==
  ASSUME "terminate" \notin Ops
  PROVE  Inv /\ MInv /\ HInv /\ [Next]_vars => HInv'
<1> SUFFICES ASSUME Inv, MInv, HInv, [Next]_vars PROVE HInv'
  OBVIOUS
<1>1. CASE UNCHANGED vars
  BY <1>1 DEF vars, HInv, EndsItself, HolderHolds
<1>2. CASE Next
  BY <1>2, PcOnlyHInv, SchedulerHInv, SpawnNewHInv, TermClearHInv, CallStepHInv
  DEF Next, Library, Client, PcOnly, CallStep
<1> QED
  BY <1>1, <1>2

\* When no quantum ends inside a call and no thread ends another, an ID that
\* the mutex names is that of a thread that locked it: a thread that ends, by
\* its return or by a fault, frees the mutex first.
THEOREM HolderCorrect ==
  ASSUME ~PreemptibleCalls, "terminate" \notin Ops
  PROVE  Spec => []HolderIsLive
<1>1. WholeSpec => []HInv
  BY WholeMInv, WholeIsNext, InitHInv, NextHInv, PTL DEF WholeSpec
<1>2. HInv => HolderIsLive
  BY DEF HInv, HolderHolds, HolderIsLive
<1> QED
  BY <1>1, <1>2, CallsAreWhole, PTL
-----------------------------------------------------------------------------
(***************************************************************************)
(* The FIFO and the list of waiters, when no quantum ends inside a call:   *)
(* no ready thread and no waiter is forgotten, the scheduler runs off the  *)
(* FIFO only when main waits for the mutex, and, for clients of some of    *)
(* the functions, who is blocked stays blocked.                            *)
(***************************************************************************)
\* No list holds a null pointer.
NoNull == NoObj \notin Range(fifo) \cup Range(blockedMutex)

\* A ready thread has an entry of the FIFO, but between the two steps of the
\* call that makes it ready.
InTransit(o) ==
  pc.at \in { "spawn_push", "resume_push" } /\ o = queue[pc.tid]
ReadyListed ==
  \A o \in Live : state[o] = READY /\ ~InTransit(o) => o \in Range(fifo)

\* Who waits for the mutex is in its list, and the mutex is taken, but inside
\* the unlock: there it is free before the waiters are woken, and nobody waits
\* any more when the list is emptied.
BlockedByLock(o) ==
  /\ ctx[o].at = "lock_test"
  /\ state[o] = BLOCKED
  /\ o \notin suspended
  /\ o # Self \/ pc.at \in SchedLabels
WaitersFound ==
  \A o \in Live : BlockedByLock(o) =>
    /\ o \in Range(blockedMutex)
    /\ mutex # NoTid \/ pc.at = "unlock_wake"
    /\ pc.at # "unlock_clear"

\* What a call in progress has done or tested still holds.
StepsAreTimely ==
  /\ pc.at \in { "lock_push", "lock_block", "lock_push2", "lock_raise" } =>
       mutex # NoTid
  /\ pc.at \in { "lock_block", "lock_push2", "lock_raise" } =>
       Self \in Range(blockedMutex)
  /\ pc.at \in { "block_raise", "lock_push2", "lock_raise" } =>
       state[Self] = BLOCKED
  /\ pc.at \in { "spawn_push", "resume_push" } => Contain(pc.tid)

\* Nobody ends or blocks the main thread without ending the process.
MainStays ==
  /\ Contain(0)
  /\ pc.at \in { "term_test", "term_clear", "block_set",
                 "unlock_free", "unlock_wake", "unlock_clear" } => pc.tid # 0

\* The main thread is blocked only by the mutex, and does not run while it is.
MainBlocks ==
  state[queue[0]] = BLOCKED =>
    /\ \/ ctx[queue[0]].at = "lock_test"
       \/ cur = 0 /\ pc.at \in { "lock_push2", "lock_raise" }
    /\ cur = 0 =>
         \/ pc.at \in SchedLabels \cup { "lock_push2", "lock_raise", "segv", "exit" }
         \/ pc.at = "term" /\ pc.tid = 0

LInv ==
  /\ NoNull
  /\ ReadyListed
  /\ WaitersFound
  /\ StepsAreTimely
  /\ MainStays
  /\ MainBlocks
-----------------------------------------------------------------------------
(***************************************************************************)
(* The entries of lists.                                                   *)
(***************************************************************************)
LEMMA RangeAppend ==
  ASSUME NEW S, NEW s \in Seq(S), NEW x \in S
  PROVE  Range(Append(s, x)) = Range(s) \cup {x}
<1>1. /\ DOMAIN Append(s, x) = 1 .. Len(s) + 1
      /\ DOMAIN s = 1 .. Len(s) /\ Len(s) \in Nat
      /\ \A i \in 1 .. Len(s) : Append(s, x)[i] = s[i]
      /\ Append(s, x)[Len(s) + 1] = x
  OBVIOUS
<1>2. \A i \in 1 .. Len(s) + 1 : i \in 1 .. Len(s) \/ i = Len(s) + 1
  BY <1>1
<1>3. 1 .. Len(s) \subseteq 1 .. Len(s) + 1 /\ Len(s) + 1 \in 1 .. Len(s) + 1
  BY <1>1
<1> QED
  BY <1>1, <1>2, <1>3 DEF Range

LEMMA RangeConcat ==
  ASSUME NEW S, NEW s \in Seq(S), NEW t \in Seq(S)
  PROVE  Range(s \o t) = Range(s) \cup Range(t)
<1>1. /\ DOMAIN (s \o t) = 1 .. Len(s) + Len(t)
      /\ DOMAIN s = 1 .. Len(s) /\ Len(s) \in Nat
      /\ DOMAIN t = 1 .. Len(t) /\ Len(t) \in Nat
      /\ \A i \in 1 .. Len(s) : (s \o t)[i] = s[i]
      /\ \A i \in 1 .. Len(t) : (s \o t)[Len(s) + i] = t[i]
  OBVIOUS
<1>2. \A i \in 1 .. Len(s) + Len(t) :
        i \in 1 .. Len(s) \/ (i - Len(s) \in 1 .. Len(t) /\ i = Len(s) + (i - Len(s)))
  BY <1>1
<1>3. /\ \A i \in 1 .. Len(s) : i \in 1 .. Len(s) + Len(t)
      /\ \A i \in 1 .. Len(t) : Len(s) + i \in 1 .. Len(s) + Len(t)
  BY <1>1
<1>4. Range(s \o t) \subseteq Range(s) \cup Range(t)
  <2> SUFFICES ASSUME NEW i \in 1 .. Len(s) + Len(t)
               PROVE  (s \o t)[i] \in Range(s) \cup Range(t)
    BY <1>1 DEF Range
  <2>1. CASE i \in 1 .. Len(s)
    BY <1>1, <2>1 DEF Range
  <2>2. CASE i - Len(s) \in 1 .. Len(t)
    BY <1>1, <1>2, <2>2 DEF Range
  <2> QED
    BY <1>2, <2>1, <2>2
<1>5. Range(s) \subseteq Range(s \o t)
  BY <1>1, <1>3 DEF Range
<1>6. Range(t) \subseteq Range(s \o t)
  BY <1>1, <1>3 DEF Range
<1> QED
  BY <1>4, <1>5, <1>6

LEMMA RangeRemoveAt ==
  ASSUME NEW S, NEW s \in Seq(S), NEW i \in DOMAIN s
  PROVE  /\ Range(RemoveAt(s, i)) \subseteq Range(s)
         /\ \A y \in Range(s) : y # s[i] => y \in Range(RemoveAt(s, i))
<1> DEFINE a == SubSeq(s, 1, i - 1)
           b == SubSeq(s, i + 1, Len(s))
<1>1. i \in 1 .. Len(s) /\ Len(s) \in Nat /\ DOMAIN s = 1 .. Len(s)
  OBVIOUS
<1>2. a \in Seq(S) /\ b \in Seq(S)
  OBVIOUS
<1>3. /\ DOMAIN a = 1 .. i - 1
      /\ \A j \in 1 .. i - 1 : a[j] = s[j]
  BY <1>1
<1>4. /\ DOMAIN b = 1 .. Len(s) - i
      /\ \A j \in 1 .. Len(s) - i : b[j] = s[i + j]
  BY <1>1
<1>5. Range(RemoveAt(s, i)) = Range(a) \cup Range(b)
  BY <1>2, RangeConcat DEF RemoveAt
<1>6. Range(a) \subseteq Range(s)
  BY <1>1, <1>3 DEF Range
<1>7. Range(b) \subseteq Range(s)
  <2>1. \A j \in 1 .. Len(s) - i : i + j \in DOMAIN s
    BY <1>1
  <2> QED
    BY <1>4, <2>1 DEF Range
<1>8. ASSUME NEW y \in Range(s), y # s[i] PROVE y \in Range(a) \cup Range(b)
  <2>1. PICK j \in DOMAIN s : y = s[j]
    BY DEF Range
  <2>2. CASE j < i
    <3>1. j \in 1 .. i - 1
      BY <1>1, <2>1, <2>2
    <3> QED
      BY <1>3, <2>1, <3>1 DEF Range
  <2>3. CASE j > i
    <3>1. j - i \in 1 .. Len(s) - i /\ i + (j - i) = j
      BY <1>1, <2>1, <2>3
    <3>2. b[j - i] = y
      BY <1>4, <2>1, <3>1
    <3> QED
      BY <1>4, <3>1, <3>2 DEF Range
  <2> QED
    BY <1>1, <1>8, <2>1, <2>2, <2>3
<1> QED
  BY <1>5, <1>6, <1>7, <1>8
-----------------------------------------------------------------------------
(***************************************************************************)
(* The steps that only move the processor on.                              *)
(***************************************************************************)
LEMMA LiveFacts ==
  ASSUME Inv
  PROVE  /\ \A o \in Live : o \in Obj /\ tidOf[o] \in Tid /\ queue[tidOf[o]] = o
         /\ \A t \in Tid : queue[t] # NoObj => queue[t] \in Live
         /\ 0 \in Tid /\ cur \in Tid
         /\ NoObj \notin Live
BY UthreadsAssumption DEF Inv, TypeOK, SlotMatches, Live, Tid

LEMMA InitLInv == Init => LInv
<1> SUFFICES ASSUME Init PROVE LInv
  OBVIOUS
<1>1. 0 \in Tid /\ 1 \in Obj
  BY UthreadsAssumption DEF Tid, Obj
<1>2. Range(fifo) = {1} /\ Range(blockedMutex) = {}
  BY DEF Init, Range
<1>3. Live = {1}
  BY <1>1 DEF Init, Live, NoObj
<1>4. NoNull /\ ReadyListed /\ WaitersFound
  BY <1>1, <1>2, <1>3
  DEF NoNull, ReadyListed, WaitersFound, BlockedByLock, Init, NoObj, User, At
<1>5. StepsAreTimely /\ MainStays /\ MainBlocks
  BY <1>1 DEF Init, StepsAreTimely, MainStays, MainBlocks, Contain, At, NoObj,
     READY, BLOCKED
<1> QED
  BY <1>4, <1>5 DEF LInv

\* Where a step that only moves the processor may lead to.
LEMMA PcStepLInv ==
  ASSUME Inv, MInv, LInv, OnlyPc,
         pc.at \notin { "spawn_push", "resume_push", "lock_push2", "lock_raise",
                        "unlock_wake", "unlock_clear" },
         pc.at \in SchedLabels => pc'.at = "segv",
         pc'.at \notin SchedLabels \cup
           { "spawn_push", "resume_push", "unlock_clear", "lock_block",
             "lock_push2", "lock_raise", "block_raise" },
         pc'.at = "lock_push" => mutex # NoTid,
         pc'.at \in { "term_test", "term_clear", "block_set", "unlock_free",
                      "unlock_wake" } => pc'.tid # 0,
         state[queue[0]] = BLOCKED /\ cur = 0 =>
           \/ pc'.at \in { "segv", "exit" }
           \/ pc'.at = "term" /\ pc'.tid = 0
  PROVE  LInv'
<1>1. NoNull'
  BY DEF LInv, NoNull, OnlyPc, lists
<1>2. ReadyListed'
  BY DEF LInv, ReadyListed, InTransit, OnlyPc, lists, thread, Live
<1>3. WaitersFound'
  BY DEF LInv, WaitersFound, BlockedByLock, OnlyPc, lists, thread, claims, Live, Self
<1>4. StepsAreTimely' /\ MainStays'
  BY DEF LInv, StepsAreTimely, MainStays, Contain, OnlyPc
<1>5. MainBlocks'
  BY DEF LInv, MainBlocks, OnlyPc, thread
<1> QED
  BY <1>1, <1>2, <1>3, <1>4, <1>5 DEF LInv

LEMMA PcOnlyLInv == Inv /\ MInv /\ LInv /\ PcOnly => LInv'
<1> SUFFICES ASSUME Inv, MInv, LInv, PcOnly PROVE LInv'
  OBVIOUS
<1>1. OnlyPc
  BY DEF PcOnly, Spawn, Terminate, TermStart, TermTest, ThreadEnds, Segv, Jump,
     SchedulerFault, Block, Resume, Lock, LockTest, Unlock, OnlyPc
<1> DEFINE MainWaits == state[queue[0]] = BLOCKED /\ cur = 0
<1>2. MainWaits => \/ pc.at \in SchedLabels \cup { "lock_push2", "lock_raise", "segv", "exit" }
                   \/ pc.at = "term" /\ pc.tid = 0
  BY DEF LInv, MainBlocks
<1>3. CASE Spawn \/ Terminate \/ ThreadEnds \/ Block \/ Resume \/ Lock \/ Unlock
  <2>1. pc.at = "user" /\ ~MainWaits
    BY <1>2, <1>3 DEF Spawn, Terminate, ThreadEnds, Block, Resume, Lock, Unlock,
       Calls, InClient, SchedLabels
  <2>2. /\ pc'.at \in { "spawn_new", "term", "exit", "segv", "block_set",
                        "resume_set", "lock_test", "unlock_free" }
        /\ pc'.at \in { "block_set", "unlock_free" } => pc'.tid # 0
    BY <1>3 DEF Spawn, Terminate, ThreadEnds, Block, Blockable, Resume, Lock,
       Unlock, Goto, At, NoTid
  <2> QED
    BY <1>1, <2>1, <2>2, PcStepLInv DEF SchedLabels
<1>4. CASE TermStart
  <2>1. /\ pc.at = "term"
        /\ \/ pc'.at = "exit"
           \/ pc'.at = "term_test" /\ pc'.tid # 0 /\ pc.tid # 0
    BY <1>4 DEF TermStart, Goto, At
  <2> QED
    BY <1>1, <1>2, <2>1, PcStepLInv DEF SchedLabels
<1>5. CASE TermTest
  <2>1. /\ pc.at = "term_test" /\ pc.tid # 0
        /\ pc'.at \in { "unlock_free", "term_clear" } /\ pc'.tid # 0
    BY <1>5 DEF TermTest, Goto, At, LInv, MainStays
  <2> QED
    BY <1>1, <1>2, <2>1, PcStepLInv DEF SchedLabels
<1>6. CASE Segv
  <2>1. /\ pc.at = "segv"
        /\ \/ pc'.at = "term" /\ pc'.tid = cur
           \/ pc'.at = "spin" /\ ~Contain(cur)
    BY <1>6 DEF Segv, Goto, At
  <2>2. Contain(0)
    BY DEF LInv, MainStays
  <2> QED
    BY <1>1, <2>1, <2>2, PcStepLInv DEF SchedLabels
<1>7. CASE Jump
  <2>1. Self \in Obj
    BY <1>7 DEF Jump, Inv, TypeOK, CurrentIsLive, SchedLabels, Self
  <2>2. pc.at = "jump" /\ pc'.at \in { "user", "lock_test" }
    BY <1>7, <2>1 DEF Jump, MInv, StoppedOutside
  <2> QED
    BY <1>1, <1>2, <2>2, PcStepLInv DEF SchedLabels
<1>8. CASE SchedulerFault
  <2>1. pc.at \in SchedLabels /\ pc'.at = "segv"
    BY <1>8 DEF SchedulerFault, InScheduler, Goto, At
  <2> QED
    BY <1>1, <2>1, PcStepLInv DEF SchedLabels
<1>9. CASE LockTest
  <2>1. /\ pc.at = "lock_test"
        /\ pc'.at \in { "lock_take", "lock_push" }
        /\ pc'.at = "lock_push" => mutex # NoTid
    BY <1>9 DEF LockTest, Goto, At
  <2> QED
    BY <1>1, <1>2, <2>1, PcStepLInv DEF SchedLabels
<1> QED
  BY <1>3, <1>4, <1>5, <1>6, <1>7, <1>8, <1>9 DEF PcOnly
-----------------------------------------------------------------------------
(***************************************************************************)
(* The scheduler.                                                          *)
(***************************************************************************)
\* What a thread that stops must have done for it to be found again: it goes to
\* the FIFO or is BLOCKED, and as a waiter it is listed.
LEMMA EnterSchedulerLInv ==
  ASSUME Inv, LInv, NEW sig, NEW k,
         EnterScheduler(sig, k),
         pc.at \notin { "spawn_push", "resume_push", "unlock_wake", "unlock_clear" }
           \cup SchedLabels,
         Contain(cur) => sig = SIGVTALRM \/ state[Self] = BLOCKED,
         Contain(cur) /\ k.at = "lock_test" =>
           Self \in Range(blockedMutex) /\ mutex # NoTid,
         cur = 0 /\ state[Self] = BLOCKED => k.at = "lock_test"
  PROVE  LInv'
<1>1. /\ UNCHANGED << queue, blockedMutex, mutex, cur, counters, tidOf, claims >>
      /\ pc'.at \in SchedLabels
      /\ Live' = Live /\ Self' = Self
  BY DEF EnterScheduler, Goto, At, SchedLabels, Live, Self
<1>2. Contain(cur) => Self \in Obj /\ Self \in Live
  BY LiveFacts DEF Contain, Self
<1>3. CASE ~Contain(cur)
  <2>1. UNCHANGED << fifo, ctx, state >> /\ Self = NoObj /\ cur # 0
    BY <1>3 DEF EnterScheduler, Contain, Self, LInv, MainStays
  <2>2. NoNull' /\ ReadyListed'
    BY <1>1, <2>1 DEF LInv, NoNull, ReadyListed, InTransit
  <2>3. WaitersFound'
    BY <1>1, <2>1, LiveFacts DEF LInv, WaitersFound, BlockedByLock, claims, SchedLabels
  <2>4. StepsAreTimely' /\ MainStays' /\ MainBlocks'
    BY <1>1, <2>1 DEF LInv, StepsAreTimely, MainStays, MainBlocks, Contain, SchedLabels
  <2> QED
    BY <2>2, <2>3, <2>4 DEF LInv
<1>4. CASE Contain(cur)
  <2>1. /\ fifo' = Requeue(sig)
        /\ ctx' = [ ctx EXCEPT ![Self] = k ]
        /\ state' = [ state EXCEPT ![Self] = Stopped(Self) ]
        /\ fifo \in Seq(Obj \cup {NoObj})
        /\ state \in [ Obj -> {READY, RUNNING, BLOCKED} ]
        /\ ctx \in [ Obj -> Continuation ]
    BY <1>4 DEF EnterScheduler, Inv, TypeOK
  <2>2. /\ Range(fifo) \subseteq Range(fifo')
        /\ Range(fifo') \subseteq Range(fifo) \cup {Self}
        /\ sig = SIGVTALRM => Self \in Range(fifo')
    BY <1>2, <1>4, <2>1, RangeAppend DEF Requeue
  <2>3. /\ state'[Self] = BLOCKED <=> state[Self] = BLOCKED
        /\ ctx'[Self] = k
        /\ \A o \in Obj \ {Self} : state'[o] = state[o] /\ ctx'[o] = ctx[o]
    BY <1>2, <1>4, <2>1 DEF Stopped, READY, RUNNING, BLOCKED
  <2>4. NoNull'
    BY <1>1, <1>4, <2>2 DEF LInv, NoNull, Contain, Self
  <2>5. ReadyListed'
    <3> SUFFICES ASSUME NEW o \in Live, state'[o] = READY PROVE o \in Range(fifo')
      BY <1>1 DEF ReadyListed
    <3>1. CASE o = Self
      BY <1>4, <2>2, <2>3, <3>1 DEF READY, BLOCKED
    <3>2. CASE o # Self
      BY <2>2, <2>3, <3>2, LiveFacts DEF LInv, ReadyListed, InTransit
    <3> QED
      BY <3>1, <3>2
  <2>6. WaitersFound'
    <3> SUFFICES ASSUME NEW o \in Live, BlockedByLock(o)'
                 PROVE  o \in Range(blockedMutex) /\ mutex # NoTid
      BY <1>1 DEF WaitersFound, SchedLabels
    <3>1. CASE o = Self
      BY <1>4, <2>3, <3>1 DEF BlockedByLock
    <3>2. CASE o # Self
      BY <1>1, <2>3, <3>2, LiveFacts DEF LInv, WaitersFound, BlockedByLock, claims
    <3> QED
      BY <3>1, <3>2
  <2>7. StepsAreTimely' /\ MainStays'
    BY <1>1 DEF LInv, StepsAreTimely, MainStays, Contain, SchedLabels
  <2>8. MainBlocks'
    <3> SUFFICES ASSUME state'[queue[0]] = BLOCKED PROVE ctx'[queue[0]].at = "lock_test"
      BY <1>1 DEF MainBlocks
    <3>1. queue[0] \in Live /\ queue[0] \in Obj
      BY LiveFacts DEF LInv, MainStays, Contain
    <3>2. CASE queue[0] = Self
      <4>1. cur = 0
        BY <3>2, LiveFacts DEF Inv, SlotMatches, LInv, MainStays, Contain, Self
      <4> QED
        BY <2>3, <3>2, <4>1
    <3>3. CASE queue[0] # Self
      BY <2>3, <3>1, <3>3 DEF LInv, MainBlocks, Self
    <3> QED
      BY <3>2, <3>3
  <2> QED
    BY <2>4, <2>5, <2>6, <2>7, <2>8 DEF LInv
<1> QED
  BY <1>3, <1>4

LEMMA EnterLInv ==
  Inv /\ LInv /\ (TimerBetween \/ BlockRaise \/ LockRaise) => LInv'
<1> SUFFICES ASSUME Inv, LInv, TimerBetween \/ BlockRaise \/ LockRaise PROVE LInv'
  OBVIOUS
<1>1. CASE TimerBetween
  <2>1. pc.at \in { "user", "spin" } /\ EnterScheduler(SIGVTALRM, pc)
    BY <1>1 DEF TimerBetween, Timer, ClientLabels
  <2>2. Contain(cur) => pc.at = "user"
    BY <2>1 DEF Inv, LoopIsGone, Contain, Self
  <2>3. ~(cur = 0 /\ state[Self] = BLOCKED)
    BY <2>1 DEF LInv, MainBlocks, Self, SchedLabels
  <2> QED
    BY <2>1, <2>2, <2>3, EnterSchedulerLInv DEF SchedLabels
<1>2. CASE BlockRaise
  <2>1. pc.at = "block_raise" /\ EnterScheduler(SIGINT, User) /\ User.at = "user"
    BY <1>2 DEF BlockRaise, User, At
  <2>2. state[Self] = BLOCKED
    BY <2>1 DEF LInv, StepsAreTimely
  <2>3. cur # 0
    BY <2>1, <2>2 DEF LInv, MainBlocks, Self, SchedLabels
  <2> QED
    BY <2>1, <2>2, <2>3, EnterSchedulerLInv DEF SchedLabels
<1>3. CASE LockRaise
  <2>1. pc.at = "lock_raise" /\ EnterScheduler(SIGINT, Retry) /\ Retry.at = "lock_test"
    BY <1>3 DEF LockRaise, Retry, At
  <2>2. state[Self] = BLOCKED /\ Self \in Range(blockedMutex) /\ mutex # NoTid
    BY <2>1 DEF LInv, StepsAreTimely
  <2> QED
    BY <2>1, <2>2, EnterSchedulerLInv DEF SchedLabels
<1> QED
  BY <1>1, <1>2, <1>3

\* Only entries of threads that are gone or blocked are erased.
LEMMA EraseLInv == Inv /\ LInv /\ (PurgeDead \/ DropBlocked) => LInv'
<1> SUFFICES ASSUME Inv, LInv, PurgeDead \/ DropBlocked PROVE LInv'
  OBVIOUS
<1>1. /\ UNCHANGED << queue, blockedMutex, mutex, cur, counters, thread, pc,
                      armed, claims >>
      /\ pc.at \in SchedLabels
  BY DEF PurgeDead, DropBlocked, InScheduler
<1>2. PICK i \in DOMAIN fifo : /\ fifo' = RemoveAt(fifo, i)
                               /\ Gone(fifo[i]) \/ state[fifo[i]] = BLOCKED
  BY DEF PurgeDead, DropBlocked
<1>3. /\ Range(fifo') \subseteq Range(fifo)
      /\ \A o \in Range(fifo) : o # fifo[i] => o \in Range(fifo')
  BY <1>2, RangeRemoveAt DEF Inv, TypeOK
<1>4. NoNull'
  BY <1>1, <1>3 DEF LInv, NoNull
<1>5. ReadyListed'
  <2> SUFFICES ASSUME NEW o \in Live, state[o] = READY PROVE o \in Range(fifo')
    BY <1>1 DEF ReadyListed, Live, thread
  <2>1. o \in Range(fifo)
    BY <1>1 DEF LInv, ReadyListed, InTransit, SchedLabels
  <2>2. o # fifo[i]
    BY <1>2, LiveFacts DEF Gone, READY, BLOCKED
  <2> QED
    BY <1>3, <2>1, <2>2
<1>6. WaitersFound' /\ StepsAreTimely' /\ MainStays' /\ MainBlocks'
  BY <1>1 DEF LInv, WaitersFound, BlockedByLock, StepsAreTimely, MainStays,
     MainBlocks, Contain, Live, Self, thread, claims
<1> QED
  BY <1>4, <1>5, <1>6 DEF LInv

\* The entry that is taken may be one of a former thread with the same ID; the
\* entries of the other threads stay.
LEMMA DispatchLInv == Inv /\ MInv /\ LInv /\ Dispatch => LInv'
<1> SUFFICES ASSUME Inv, MInv, LInv, Dispatch PROVE LInv'
  OBVIOUS
<1>1. PICK i \in DOMAIN fifo :
        fifo' = RemoveAt(fifo, i) /\ cur' = tidOf[fifo[i]]
  BY DEF Dispatch
<1> DEFINE o == queue[cur']
<1>2. fifo[i] \in Obj
  BY DEF Inv, TypeOK, Dispatch, HasNull
<1>3. cur' \in Tid /\ o \in Obj /\ tidOf[o] = cur' /\ o \in Live
  BY <1>1, <1>2 DEF Inv, TypeOK, Dispatch, HasGone, Gone, SlotMatches, Live
<1>4. /\ state' = [ state EXCEPT ![o] = RUNNING ]
      /\ pc' = IF pc.at = "sched_vtalrm" THEN ctx[o] ELSE At("jump", NoTid)
      /\ UNCHANGED << queue, blockedMutex, mutex, tidOf, ctx, claims >>
      /\ pc.at \in SchedLabels
      /\ Self' = o /\ Live' = Live
  BY DEF Dispatch, InScheduler, Self, Live
<1>5. pc'.at \in { "jump", "user", "lock_test" }
  BY <1>3, <1>4 DEF At, MInv, StoppedOutside
<1>6. /\ state'[o] = RUNNING
      /\ \A p \in Obj \ {o} : state'[p] = state[p]
  BY <1>3, <1>4 DEF Inv, TypeOK
<1>7. /\ Range(fifo') \subseteq Range(fifo)
      /\ \A p \in Range(fifo) : p # fifo[i] => p \in Range(fifo')
  BY <1>1, RangeRemoveAt DEF Inv, TypeOK
<1>8. NoNull'
  BY <1>4, <1>7 DEF LInv, NoNull
<1>9. ReadyListed'
  <2> SUFFICES ASSUME NEW p \in Live, state'[p] = READY PROVE p \in Range(fifo')
    BY <1>4 DEF ReadyListed
  <2>1. p # o /\ p \in Obj /\ state[p] = READY
    BY <1>6, LiveFacts DEF READY, RUNNING
  <2>2. p \in Range(fifo)
    BY <1>4, <2>1 DEF LInv, ReadyListed, InTransit, SchedLabels
  <2>3. p # fifo[i]
    BY <1>1, <2>1, LiveFacts
  <2> QED
    BY <1>7, <2>2, <2>3
<1>10. WaitersFound'
  <2> SUFFICES ASSUME NEW p \in Live, BlockedByLock(p)'
               PROVE  p \in Range(blockedMutex) /\ mutex # NoTid
    BY <1>4, <1>5 DEF WaitersFound
  <2>1. p # o /\ p \in Obj
    BY <1>4, <1>5, LiveFacts DEF BlockedByLock, SchedLabels
  <2>2. BlockedByLock(p)
    BY <1>4, <1>6, <2>1 DEF BlockedByLock, claims
  <2> QED
    BY <1>4, <2>2 DEF LInv, WaitersFound, SchedLabels
<1>11. StepsAreTimely' /\ MainStays'
  BY <1>4, <1>5 DEF LInv, StepsAreTimely, MainStays, Contain
<1>12. MainBlocks'
  <2>1. queue[0] \in Obj
    BY LiveFacts DEF LInv, MainStays, Contain
  <2> SUFFICES ASSUME state'[queue[0]] = BLOCKED
               PROVE  ctx[queue[0]].at = "lock_test" /\ cur' # 0
    BY <1>4 DEF MainBlocks
  <2>2. queue[0] # o
    BY <1>6 DEF RUNNING, BLOCKED
  <2>3. state[queue[0]] = BLOCKED
    BY <1>6, <2>1, <2>2
  <2> QED
    BY <1>4, <2>2, <2>3 DEF LInv, MainBlocks, SchedLabels
<1> QED
  BY <1>8, <1>9, <1>10, <1>11, <1>12 DEF LInv
-----------------------------------------------------------------------------
(***************************************************************************)
(* The steps of the calls that change a slot.                              *)
(***************************************************************************)
LEMMA SpawnNewLInv == Inv /\ MInv /\ LInv /\ SpawnNew => LInv'
<1> SUFFICES ASSUME Inv, MInv, LInv, SpawnNew PROVE LInv'
  OBVIOUS
<1>1. PICK o \in Obj \ Reachable :
        /\ queue' = [ queue EXCEPT ![pc.tid] = o ]
        /\ tidOf' = [ tidOf EXCEPT ![o] = pc.tid ]
        /\ state' = [ state EXCEPT ![o] = READY ]
        /\ ctx' = [ ctx EXCEPT ![o] = User ]
  BY DEF SpawnNew
<1>2. /\ pc.at = "spawn_new" /\ pc' = At("spawn_push", pc.tid)
      /\ pc.tid \in Tid /\ queue[pc.tid] = NoObj
      /\ UNCHANGED << lists, mutex, cur, claims >>
  BY ContinuationType
  DEF SpawnNew, Goto, Inv, TypeOK, MInv, CallsAreTimely, TidLabels
<1>3. pc'.at = "spawn_push" /\ pc'.tid = pc.tid
  BY <1>2 DEF At
<1>4. o \in Obj /\ o # NoObj /\ o \notin Live
  BY <1>1 DEF Reachable, Obj, NoObj
<1>5. /\ queue'[pc.tid] = o
      /\ \A t \in Tid : t # pc.tid => queue'[t] = queue[t]
      /\ Live' \subseteq Live \cup {o}
  BY <1>1, <1>2 DEF Inv, TypeOK, Live
<1>6. \A p \in Obj \ {o} : state'[p] = state[p] /\ ctx'[p] = ctx[p]
  BY <1>1 DEF Inv, TypeOK
<1>7. state'[o] = READY
  BY <1>1, <1>4 DEF Inv, TypeOK
<1>8. pc.tid # 0 /\ pc.tid # cur
  BY <1>2 DEF LInv, MainStays, Contain, Inv, CurrentIsLive, SchedLabels, Self
<1>9. NoNull'
  BY <1>2 DEF LInv, NoNull, lists
<1>10. ReadyListed'
  <2> SUFFICES ASSUME NEW p \in Live', state'[p] = READY, p # o
               PROVE  p \in Range(fifo)
    BY <1>2, <1>3, <1>5 DEF ReadyListed, InTransit, lists
  <2> QED
    BY <1>2, <1>5, <1>6, LiveFacts DEF LInv, ReadyListed, InTransit
<1>11. WaitersFound'
  <2> SUFFICES ASSUME NEW p \in Live', BlockedByLock(p)'
               PROVE  p \in Range(blockedMutex) /\ mutex # NoTid
    BY <1>2, <1>3 DEF WaitersFound, lists
  <2>1. p # o
    BY <1>7 DEF BlockedByLock, READY, BLOCKED
  <2>2. p \in Live /\ p \in Obj
    BY <1>5, <2>1, LiveFacts
  <2>3. Self' = Self
    BY <1>2, <1>5, <1>8, LiveFacts DEF Self
  <2>4. BlockedByLock(p)
    BY <1>2, <1>3, <1>6, <2>1, <2>2, <2>3 DEF BlockedByLock, claims, SchedLabels
  <2> QED
    BY <1>2, <2>2, <2>4 DEF LInv, WaitersFound
<1>12. StepsAreTimely' /\ MainStays'
  BY <1>3, <1>4, <1>5, <1>8, LiveFacts DEF LInv, StepsAreTimely, MainStays, Contain
<1>13. MainBlocks'
  <2>1. queue'[0] = queue[0] /\ queue[0] \in Live /\ queue[0] \in Obj
    BY <1>5, <1>8, LiveFacts DEF LInv, MainStays, Contain
  <2>2. queue[0] # o
    BY <1>4, <2>1
  <2> QED
    BY <1>2, <1>6, <2>1, <2>2 DEF LInv, MainBlocks, SchedLabels
<1> QED
  BY <1>9, <1>10, <1>11, <1>12, <1>13 DEF LInv

LEMMA TermClearLInv == Inv /\ LInv /\ TermClear => LInv'
<1> SUFFICES ASSUME Inv, LInv, TermClear PROVE LInv'
  OBVIOUS
<1>1. /\ pc.at = "term_clear" /\ pc.tid \in Tid /\ pc.tid # 0
      /\ queue' = [ queue EXCEPT ![pc.tid] = NoObj ]
      /\ suspended' = suspended \ { queue[pc.tid] }
      /\ pc'.at \in { "spin", "user" }
      /\ UNCHANGED << lists, mutex, cur, thread >>
  BY ContinuationType
  DEF TermClear, Goto, Return, At, User, Inv, TypeOK, TidLabels, LInv, MainStays
<1>2. /\ queue'[pc.tid] = NoObj
      /\ \A t \in Tid : t # pc.tid => queue'[t] = queue[t]
  BY <1>1 DEF Inv, TypeOK
<1>3. Live' = Live \ {queue[pc.tid]}
  BY <1>1, <1>2 DEF Live, Inv, TypeOK, SlotMatches
<1>4. NoNull'
  BY <1>1 DEF LInv, NoNull, lists
<1>5. ReadyListed'
  BY <1>1, <1>3 DEF LInv, ReadyListed, InTransit, lists, thread
<1>6. WaitersFound'
  <2> SUFFICES ASSUME NEW p \in Live', BlockedByLock(p)'
               PROVE  p \in Range(blockedMutex) /\ mutex # NoTid
    BY <1>1 DEF WaitersFound, lists
  <2>1. p \in Live /\ p # queue[pc.tid]
    BY <1>3
  <2>2. p # Self
    BY <1>1, <1>2, <2>1, LiveFacts DEF BlockedByLock, SchedLabels, Self
  <2>3. BlockedByLock(p)
    BY <1>1, <2>1, <2>2 DEF BlockedByLock, thread
  <2> QED
    BY <1>1, <2>1, <2>3 DEF LInv, WaitersFound
<1>7. StepsAreTimely' /\ MainStays'
  BY <1>1, <1>2, LiveFacts DEF LInv, StepsAreTimely, MainStays, Contain
<1>8. MainBlocks'
  <2>1. queue'[0] = queue[0]
    BY <1>1, <1>2, LiveFacts
  <2> QED
    BY <1>1, <2>1 DEF LInv, MainBlocks, SchedLabels, thread
<1> QED
  BY <1>4, <1>5, <1>6, <1>7, <1>8 DEF LInv
-----------------------------------------------------------------------------
(***************************************************************************)
(* The other steps of the calls.                                           *)
(***************************************************************************)
\* What they have in common.
LEMMA CallStepFacts ==
  ASSUME Inv, LInv, CallStep
  PROVE  /\ UNCHANGED << queue, cur, tidOf, ctx >>
         /\ Live' = Live /\ Self' = Self
         /\ Self \in Live /\ Self \in Obj
         /\ pc.at \notin SchedLabels
         /\ pc.at \in TidLabels => pc.tid \in Tid
         /\ queue[0] \in Live /\ queue[0] \in Obj
         /\ state \in [ Obj -> {READY, RUNNING, BLOCKED} ]
         /\ fifo \in Seq(Obj \cup {NoObj})
         /\ blockedMutex \in Seq(Obj \cup {NoObj})
         /\ cur = 0 /\ state[queue[0]] = BLOCKED =>
              pc.at \in { "lock_push2", "lock_raise" }
<1>1. /\ UNCHANGED << queue, cur, tidOf, ctx >>
      /\ pc.at \in { "spawn_push", "block_set", "resume_set", "resume_push",
                     "lock_push", "lock_push2", "lock_block", "lock_take",
                     "unlock_free", "unlock_wake", "unlock_clear" }
  BY DEF CallStep, SpawnPush, BlockSet, ResumeSet, ResumePush, LockPush,
     LockBlock, LockTake, UnlockFree, UnlockWake, UnlockClear, thread
<1>2. Self \in Live /\ queue[0] \in Live
  BY <1>1, LiveFacts
  DEF Inv, CurrentIsLive, SchedLabels, Self, LInv, MainStays, Contain
<1>3. pc.at \in TidLabels => pc.tid \in Tid
  BY ContinuationType DEF Inv, TypeOK
<1> QED
  BY <1>1, <1>2, <1>3, LiveFacts
  DEF Live, Self, SchedLabels, Inv, TypeOK, LInv, MainBlocks

\* The calls that make one thread ready.
LEMMA PushLInv == Inv /\ LInv /\ (SpawnPush \/ ResumePush) => LInv'
<1> SUFFICES ASSUME Inv, LInv, SpawnPush \/ ResumePush PROVE LInv'
  OBVIOUS
<1> DEFINE o == queue[pc.tid]
<1>1. CallStep
  BY DEF CallStep
<1>2. /\ pc.at \in { "spawn_push", "resume_push" } /\ pc'.at = "user"
      /\ fifo' = Append(fifo, o)
      /\ UNCHANGED << blockedMutex, mutex, thread, claims >>
  BY DEF SpawnPush, ResumePush, Return, User, At
<1>3. pc.tid \in Tid /\ o # NoObj /\ o \in Live
  BY <1>1, <1>2, CallStepFacts, LiveFacts DEF TidLabels, LInv, StepsAreTimely, Contain
<1>4. Range(fifo') = Range(fifo) \cup {o}
  BY <1>1, <1>2, <1>3, CallStepFacts, LiveFacts, RangeAppend
<1>5. NoNull'
  BY <1>2, <1>3, <1>4 DEF LInv, NoNull
<1>6. ReadyListed'
  BY <1>1, <1>2, <1>4, CallStepFacts DEF LInv, ReadyListed, InTransit, thread
<1>7. WaitersFound'
  BY <1>1, <1>2, CallStepFacts
  DEF LInv, WaitersFound, BlockedByLock, thread, claims, SchedLabels
<1>8. StepsAreTimely' /\ MainStays' /\ MainBlocks'
  BY <1>1, <1>2, CallStepFacts
  DEF LInv, StepsAreTimely, MainStays, MainBlocks, Contain, thread
<1> QED
  BY <1>5, <1>6, <1>7, <1>8 DEF LInv

LEMMA ResumeSetLInv == Inv /\ LInv /\ ResumeSet => LInv'
<1> SUFFICES ASSUME Inv, LInv, ResumeSet PROVE LInv'
  OBVIOUS
<1>1. CallStep /\ UNCHANGED << lists, mutex >> /\ pc.at = "resume_set"
  BY DEF CallStep, ResumeSet
<1>2. pc.tid \in Tid
  BY <1>1, CallStepFacts DEF TidLabels
<1>3. CASE Contain(pc.tid)
  <2> DEFINE o == queue[pc.tid]
  <2>1. /\ state' = [ state EXCEPT ![o] = READY ]
        /\ suspended' = suspended \ {o}
        /\ pc'.at = "resume_push" /\ pc'.tid = pc.tid
    BY <1>3 DEF ResumeSet, Goto, At
  <2>2. o \in Live /\ o \in Obj
    BY <1>2, <1>3, LiveFacts DEF Contain
  <2>3. state'[o] = READY /\ \A p \in Obj \ {o} : state'[p] = state[p]
    BY <1>1, <2>1, <2>2, CallStepFacts
  <2>4. NoNull'
    BY <1>1 DEF LInv, NoNull, lists
  <2>5. ReadyListed'
    BY <1>1, <2>1, <2>3, CallStepFacts, LiveFacts
    DEF LInv, ReadyListed, InTransit, lists
  <2>6. WaitersFound'
    <3> SUFFICES ASSUME NEW p \in Live, BlockedByLock(p)'
                 PROVE  p \in Range(blockedMutex) /\ mutex # NoTid
      BY <1>1, <2>1, CallStepFacts DEF WaitersFound, lists
    <3>1. p # o
      BY <2>3 DEF BlockedByLock, READY, BLOCKED
    <3>2. BlockedByLock(p)
      BY <1>1, <2>1, <2>3, <3>1, CallStepFacts, LiveFacts DEF BlockedByLock, SchedLabels
    <3> QED
      BY <1>1, <3>2 DEF LInv, WaitersFound
  <2>7. StepsAreTimely' /\ MainStays'
    BY <1>1, <1>3, <2>1, CallStepFacts DEF LInv, StepsAreTimely, MainStays, Contain
  <2>8. MainBlocks'
    BY <1>1, <2>1, <2>3, CallStepFacts DEF LInv, MainBlocks, READY, BLOCKED
  <2> QED
    BY <2>4, <2>5, <2>6, <2>7, <2>8 DEF LInv
<1>4. CASE ~Contain(pc.tid)
  <2>1. UNCHANGED << state, suspended >> /\ pc'.at = "segv"
    BY <1>4 DEF ResumeSet, Goto, At
  <2> QED
    BY <1>1, <2>1, CallStepFacts
    DEF LInv, NoNull, ReadyListed, InTransit, WaitersFound, BlockedByLock,
        StepsAreTimely, MainStays, MainBlocks, Contain, lists, SchedLabels
<1> QED
  BY <1>3, <1>4

LEMMA BlockSetLInv == Inv /\ LInv /\ BlockSet => LInv'
<1> SUFFICES ASSUME Inv, LInv, BlockSet PROVE LInv'
  OBVIOUS
<1>1. /\ CallStep /\ UNCHANGED << lists, mutex >>
      /\ pc.at = "block_set" /\ pc.tid # 0
  BY DEF CallStep, BlockSet, LInv, MainStays
<1>2. pc.tid \in Tid
  BY <1>1, CallStepFacts DEF TidLabels
<1>3. CASE Contain(pc.tid)
  <2> DEFINE o == queue[pc.tid]
  <2>1. /\ state' = [ state EXCEPT ![o] = BLOCKED ]
        /\ suspended' = suspended \cup {o}
        /\ \/ pc.tid = cur /\ pc'.at = "block_raise"
           \/ pc'.at = "user"
    BY <1>3 DEF BlockSet, Goto, Return, User, At
  <2>2. o \in Live /\ o \in Obj /\ tidOf[o] = pc.tid
    BY <1>2, <1>3, LiveFacts DEF Contain, Inv, SlotMatches
  <2>3. state'[o] = BLOCKED /\ \A p \in Obj \ {o} : state'[p] = state[p]
    BY <1>1, <2>1, <2>2, CallStepFacts
  <2>4. queue[0] # o
    BY <1>1, <2>2, LiveFacts DEF Inv, SlotMatches, LInv, MainStays, Contain
  <2>5. NoNull'
    BY <1>1 DEF LInv, NoNull, lists
  <2>6. ReadyListed'
    BY <1>1, <2>1, <2>3, CallStepFacts, LiveFacts
    DEF LInv, ReadyListed, InTransit, lists, READY, BLOCKED
  <2>7. WaitersFound'
    <3> SUFFICES ASSUME NEW p \in Live, BlockedByLock(p)'
                 PROVE  p \in Range(blockedMutex) /\ mutex # NoTid
      BY <1>1, <2>1, CallStepFacts DEF WaitersFound, lists
    <3>1. p # o
      BY <2>1 DEF BlockedByLock
    <3>2. BlockedByLock(p)
      BY <1>1, <2>1, <2>3, <3>1, CallStepFacts, LiveFacts DEF BlockedByLock, SchedLabels
    <3> QED
      BY <1>1, <3>2 DEF LInv, WaitersFound
  <2>8. StepsAreTimely' /\ MainStays'
    BY <1>1, <2>1, <2>3, CallStepFacts
    DEF LInv, StepsAreTimely, MainStays, Contain, Self
  <2>9. MainBlocks'
    BY <1>1, <2>1, <2>3, <2>4, CallStepFacts DEF LInv, MainBlocks
  <2> QED
    BY <2>5, <2>6, <2>7, <2>8, <2>9 DEF LInv
<1>4. CASE ~Contain(pc.tid)
  <2>1. UNCHANGED << state, suspended >> /\ pc'.at = "segv"
    BY <1>4 DEF BlockSet, Goto, At
  <2> QED
    BY <1>1, <2>1, CallStepFacts
    DEF LInv, NoNull, ReadyListed, InTransit, WaitersFound, BlockedByLock,
        StepsAreTimely, MainStays, MainBlocks, Contain, lists, SchedLabels
<1> QED
  BY <1>3, <1>4

\* The way of a thread through uthread_mutex_lock.
LEMMA LockStepLInv == Inv /\ LInv /\ (LockPush \/ LockBlock \/ LockTake) => LInv'
<1> SUFFICES ASSUME Inv, LInv, LockPush \/ LockBlock \/ LockTake PROVE LInv'
  OBVIOUS
<1>1. CallStep
  BY DEF CallStep
<1>2. CASE LockPush
  <2>1. /\ \/ pc.at = "lock_push" /\ pc'.at = "lock_block"
           \/ pc.at = "lock_push2" /\ pc'.at = "lock_raise"
        /\ blockedMutex' = Append(blockedMutex, Self)
        /\ UNCHANGED << fifo, mutex, thread, claims >>
    BY <1>2 DEF LockPush, Goto, At
  <2>2. Range(blockedMutex') = Range(blockedMutex) \cup {Self}
    BY <1>1, <2>1, CallStepFacts, RangeAppend
  <2>3. NoNull'
    BY <1>1, <2>1, <2>2, CallStepFacts, LiveFacts DEF LInv, NoNull
  <2>4. ReadyListed' /\ WaitersFound'
    BY <1>1, <2>1, <2>2, CallStepFacts
    DEF LInv, ReadyListed, InTransit, WaitersFound, BlockedByLock, thread,
        claims, SchedLabels
  <2>5. StepsAreTimely' /\ MainStays' /\ MainBlocks'
    BY <1>1, <2>1, <2>2, CallStepFacts
    DEF LInv, StepsAreTimely, MainStays, MainBlocks, Contain, thread
  <2> QED
    BY <2>3, <2>4, <2>5 DEF LInv
<1>3. CASE LockBlock
  <2>1. /\ pc.at = "lock_block" /\ pc'.at = "lock_push2"
        /\ state' = [ state EXCEPT ![Self] = BLOCKED ]
        /\ UNCHANGED << lists, mutex, claims >>
    BY <1>3 DEF LockBlock, Goto, At
  <2>2. state'[Self] = BLOCKED /\ \A p \in Obj \ {Self} : state'[p] = state[p]
    BY <1>1, <2>1, CallStepFacts
  <2>3. NoNull'
    BY <2>1 DEF LInv, NoNull, lists
  <2>4. ReadyListed'
    BY <1>1, <2>1, <2>2, CallStepFacts, LiveFacts
    DEF LInv, ReadyListed, InTransit, lists, READY, BLOCKED
  <2>5. WaitersFound'
    BY <1>1, <2>1, <2>2, CallStepFacts, LiveFacts
    DEF LInv, WaitersFound, BlockedByLock, lists, claims, SchedLabels
  <2>6. StepsAreTimely' /\ MainStays'
    BY <1>1, <2>1, <2>2, CallStepFacts
    DEF LInv, StepsAreTimely, MainStays, Contain, lists
  <2>7. MainBlocks'
    <3>1. CASE cur = 0
      BY <1>1, <2>1, <3>1, CallStepFacts DEF MainBlocks
    <3>2. CASE cur # 0
      <4>1. queue[0] # Self
        BY <1>1, <3>2, CallStepFacts, LiveFacts
        DEF Inv, SlotMatches, Self, LInv, MainStays, Contain
      <4> QED
        BY <1>1, <2>1, <2>2, <3>2, <4>1, CallStepFacts DEF LInv, MainBlocks
    <3> QED
      BY <3>1, <3>2
  <2> QED
    BY <2>3, <2>4, <2>5, <2>6, <2>7 DEF LInv
<1>4. CASE LockTake
  <2>1. /\ pc.at = "lock_take" /\ pc'.at = "user"
        /\ mutex' = cur /\ cur # NoTid
        /\ UNCHANGED << lists, thread, suspended >>
    BY <1>4, LiveFacts DEF LockTake, Return, User, At, Tid, NoTid
  <2> QED
    BY <1>1, <2>1, CallStepFacts
    DEF LInv, NoNull, ReadyListed, InTransit, WaitersFound, BlockedByLock,
        StepsAreTimely, MainStays, MainBlocks, Contain, lists, thread, SchedLabels
<1> QED
  BY <1>2, <1>3, <1>4

\* uthread_mutex_unlock: the waiters are made ready and queued together.
LEMMA UnlockStepLInv ==
  Inv /\ LInv /\ (UnlockFree \/ UnlockWake \/ UnlockClear) => LInv'
<1> SUFFICES ASSUME Inv, LInv, UnlockFree \/ UnlockWake \/ UnlockClear PROVE LInv'
  OBVIOUS
<1>1. CallStep
  BY DEF CallStep
<1>2. CASE UnlockFree
  <2>1. /\ pc.at = "unlock_free" /\ pc'.at = "unlock_wake" /\ pc'.tid = pc.tid
        /\ UNCHANGED << lists, thread, suspended >>
    BY <1>2 DEF UnlockFree, Goto, At
  <2> QED
    BY <1>1, <2>1, CallStepFacts
    DEF LInv, NoNull, ReadyListed, InTransit, WaitersFound, BlockedByLock,
        StepsAreTimely, MainStays, MainBlocks, Contain, lists, thread, SchedLabels
<1>3. CASE UnlockWake
  <2>1. /\ pc.at = "unlock_wake" /\ pc'.at = "unlock_clear" /\ pc'.tid = pc.tid
        /\ state' = [ o \in Obj |-> IF o \in Range(blockedMutex) THEN READY
                                                                ELSE state[o] ]
        /\ fifo' = fifo \o blockedMutex
        /\ UNCHANGED << blockedMutex, mutex, claims >>
    BY <1>3 DEF UnlockWake, Woken, WokenEntries, Goto, At
  <2>2. Range(fifo') = Range(fifo) \cup Range(blockedMutex)
    BY <1>1, <2>1, CallStepFacts, RangeConcat
  <2>3. \A o \in Obj : /\ o \in Range(blockedMutex) => state'[o] = READY
                       /\ o \notin Range(blockedMutex) => state'[o] = state[o]
    BY <2>1
  <2>4. NoNull'
    BY <2>1, <2>2 DEF LInv, NoNull
  <2>5. ReadyListed'
    BY <1>1, <2>1, <2>2, <2>3, CallStepFacts, LiveFacts
    DEF LInv, ReadyListed, InTransit
  <2>6. WaitersFound'
    <3> SUFFICES ASSUME NEW p \in Live, BlockedByLock(p)' PROVE FALSE
      BY <1>1, CallStepFacts DEF WaitersFound
    <3>1. p \in Obj /\ p \notin Range(blockedMutex) /\ state[p] = BLOCKED
      BY <2>3, LiveFacts DEF BlockedByLock, READY, BLOCKED
    <3>2. BlockedByLock(p)
      BY <1>1, <2>1, <3>1, CallStepFacts DEF BlockedByLock, claims, SchedLabels
    <3> QED
      BY <3>1, <3>2 DEF LInv, WaitersFound
  <2>7. StepsAreTimely' /\ MainStays'
    BY <1>1, <2>1, CallStepFacts DEF LInv, StepsAreTimely, MainStays, Contain
  <2>8. MainBlocks'
    BY <1>1, <2>1, <2>3, CallStepFacts DEF LInv, MainBlocks, READY, BLOCKED
  <2> QED
    BY <2>4, <2>5, <2>6, <2>7, <2>8 DEF LInv
<1>4. CASE UnlockClear
  <2>1. /\ pc.at = "unlock_clear" /\ blockedMutex' = << >>
        /\ \/ pc'.at = "user"
           \/ pc'.at = "term_clear" /\ pc'.tid = pc.tid
        /\ UNCHANGED << fifo, mutex, thread, claims >>
    BY <1>4 DEF UnlockClear, UnlockReturn, User, At
  <2>2. Range(blockedMutex') = {}
    BY <2>1 DEF Range
  <2>3. NoNull'
    BY <2>1, <2>2 DEF LInv, NoNull
  <2>4. ReadyListed' /\ WaitersFound'
    BY <1>1, <2>1, CallStepFacts
    DEF LInv, ReadyListed, InTransit, WaitersFound, BlockedByLock, thread,
        claims, SchedLabels
  <2>5. StepsAreTimely' /\ MainStays' /\ MainBlocks'
    BY <1>1, <2>1, CallStepFacts
    DEF LInv, StepsAreTimely, MainStays, MainBlocks, Contain, thread
  <2> QED
    BY <2>3, <2>4, <2>5 DEF LInv
<1> QED
  BY <1>2, <1>3, <1>4
-----------------------------------------------------------------------------
LEMMA NextLInv ==
  Inv /\ MInv /\ LInv /\ [WholeNext]_vars => LInv'
<1> SUFFICES ASSUME Inv, MInv, LInv, [WholeNext]_vars PROVE LInv'
  OBVIOUS
<1>1. CASE UNCHANGED vars
  BY <1>1 DEF vars, LInv, NoNull, ReadyListed, InTransit, WaitersFound,
     BlockedByLock, StepsAreTimely, MainStays, MainBlocks, Contain, Live, Self
<1>2. CASE WholeNext
  BY <1>2, PcOnlyLInv, EnterLInv, EraseLInv, DispatchLInv, SpawnNewLInv,
     TermClearLInv, PushLInv, ResumeSetLInv, BlockSetLInv, LockStepLInv,
     UnlockStepLInv DEF WholeNext, Library, Client, PcOnly
<1> QED
  BY <1>1, <1>2

LEMMA WholeLInv == WholeSpec => [](Inv /\ MInv /\ LInv)
BY WholeMInv, InitLInv, NextLInv, PTL DEF WholeSpec

LEMMA WholeReady == WholeSpec => []ReadyIsQueued
<1>1. LInv => ReadyIsQueued
  BY DEF LInv, ReadyListed, InTransit, ReadyIsQueued
<1> QED
  BY <1>1, WholeLInv, PTL

\* When no quantum ends inside a call, every thread that is READY and does not
\* run has an entry of the FIFO: no call and no switch forgets it, whatever
\* stale entries the FIFO holds.
THEOREM ReadyCorrect ==
  ASSUME ~PreemptibleCalls
  PROVE  Spec => []ReadyIsQueued
BY CallsAreWhole, WholeReady

LEMMA WholeWaiters == WholeSpec => []WaiterIsListed
<1>1. LInv => WaiterIsListed
  BY DEF LInv, WaitersFound, BlockedByLock, WaiterIsListed, Waiting
<1> QED
  BY <1>1, WholeLInv, PTL

\* When no quantum ends inside a call, a thread that waits for the mutex is in
\* the list of waiters, and the mutex is taken: the unlock that is to come
\* wakes it.
THEOREM WaitersCorrect ==
  ASSUME ~PreemptibleCalls
  PROVE  Spec => []WaiterIsListed
BY CallsAreWhole, WholeWaiters

LEMMA WholeFault == WholeSpec => FaultOnlyIfMainWaits
<1>1. ASSUME Inv, LInv, SchedulerFault
      PROVE  ctx[queue[0]].at = "lock_test" /\ state[queue[0]] = BLOCKED
  <2>1. pc.at \in SchedLabels
    BY <1>1 DEF SchedulerFault, InScheduler
  <2>2. queue[0] \in Live /\ queue[0] \in Obj /\ 0 \in Tid
    BY <1>1, LiveFacts DEF LInv, MainStays, Contain
  <2>3. ~HasNull
    BY <1>1 DEF LInv, NoNull, HasNull, Range
  <2>4. state[queue[0]] # RUNNING
    BY <1>1, <2>1, <2>2, LiveFacts DEF Inv, RunningIsCurrent
  <2>5. state[queue[0]] # READY
    <3> SUFFICES ASSUME state[queue[0]] = READY PROVE FALSE
      OBVIOUS
    <3>1. queue[0] \in Range(fifo)
      BY <1>1, <2>1, <2>2 DEF LInv, ReadyListed, InTransit, SchedLabels
    <3> QED
      BY <1>1, <2>3, <2>4, <3>1 DEF SchedulerFault, Range
  <2>6. state[queue[0]] = BLOCKED
    BY <1>1, <2>2, <2>4, <2>5 DEF Inv, TypeOK
  <2> QED
    BY <1>1, <2>1, <2>6 DEF LInv, MainBlocks, SchedLabels
<1>2. Inv /\ LInv /\ [WholeNext]_vars =>
        [ SchedulerFault => /\ ctx[queue[0]].at = "lock_test"
                            /\ state[queue[0]] = BLOCKED ]_vars
  BY <1>1
<1> QED
  BY <1>2, WholeLInv, PTL DEF WholeSpec, FaultOnlyIfMainWaits

\* When no quantum ends inside a call, the scheduler runs off the FIFO only
\* when the main thread waits for the mutex: it meets no null entry, and main
\* is blocked by nothing else.
THEOREM FaultCorrect ==
  ASSUME ~PreemptibleCalls
  PROVE  Spec => FaultOnlyIfMainWaits
BY CallsAreWhole, WholeFault
-----------------------------------------------------------------------------
(***************************************************************************)
(* Threads that only end themselves, and nobody that uses the mutex.  Then *)
(* no entry of the FIFO outlives its thread beyond the next switch, and so *)
(* no ID is reused while one is left.                                      *)
(***************************************************************************)
WithoutMutex == { "spawn", "return", "block", "resume" }

LabelsWithoutMutex ==
  { "user", "spin", "exit", "segv", "jump", "spawn_new", "spawn_push", "term",
    "term_test", "term_clear", "block_set", "block_raise", "resume_set",
    "resume_push" } \cup SchedLabels

\* An entry is that of the thread with its ID, or, until the scheduler has
\* erased it, of one that has ended.
EntriesLive ==
  \A o \in Range(fifo) :
    \/ queue[tidOf[o]] = o
    \/ queue[tidOf[o]] = NoObj /\ pc.at \in SchedLabels \cup { "spin" }

SInv ==
  /\ mutex = NoTid /\ blockedMutex = << >>
  /\ pc.at \in LabelsWithoutMutex
  /\ pc.at \in { "term", "term_test", "term_clear" } => pc.tid = cur
  /\ \A o \in Obj : ctx[o].at = "user"
  /\ EntriesLive
  /\ suspended \subseteq Live
  /\ SuspendedIsBlocked

LEMMA InitSInv == Init => SInv
<1> SUFFICES ASSUME Init PROVE SInv
  OBVIOUS
<1>1. 0 \in Tid /\ Range(fifo) = {1} /\ 1 \in Obj
  BY UthreadsAssumption DEF Tid, Obj, Init, Range
<1> QED
  BY <1>1 DEF Init, SInv, LabelsWithoutMutex, SchedLabels, EntriesLive,
     SuspendedIsBlocked, At, User

LEMMA PcOnlySInv ==
  ASSUME Ops \subseteq WithoutMutex
  PROVE  Inv /\ LInv /\ SInv /\ PcOnly => SInv'
<1> SUFFICES ASSUME Inv, LInv, SInv, PcOnly PROVE SInv'
  OBVIOUS
<1>1. UNCHANGED << queue, fifo, blockedMutex, mutex, cur, tidOf, state, ctx,
                   suspended >>
  BY DEF PcOnly, Spawn, Terminate, TermStart, TermTest, ThreadEnds, Segv, Jump,
     SchedulerFault, Block, Resume, Lock, LockTest, Unlock, lists, thread, claims
<1>2. ~Terminate /\ ~Lock /\ ~Unlock /\ ~LockTest
  BY DEF Terminate, Lock, Unlock, Calls, WithoutMutex, LockTest, SInv,
     LabelsWithoutMutex, SchedLabels
<1>3. /\ pc'.at \in LabelsWithoutMutex
      /\ pc'.at \in { "term", "term_test", "term_clear" } => pc'.tid = cur
  <2>1. CASE Spawn \/ ThreadEnds \/ Block \/ Resume \/ SchedulerFault \/ Segv
    BY <2>1 DEF Spawn, ThreadEnds, Block, Resume, SchedulerFault, Segv, Goto, At,
       LabelsWithoutMutex
  <2>2. CASE TermStart
    BY <2>2 DEF TermStart, Goto, At, SInv, LabelsWithoutMutex
  <2>3. CASE TermTest
    <3>1. mutex # cur
      BY LiveFacts DEF SInv, Tid, NoTid
    <3> QED
      BY <2>3, <3>1 DEF TermTest, Goto, At, SInv, LabelsWithoutMutex
  <2>4. CASE Jump
    <3>1. Self \in Obj
      BY <2>4 DEF Jump, Inv, TypeOK, CurrentIsLive, SchedLabels, Self
    <3> QED
      BY <2>4, <3>1 DEF Jump, SInv, LabelsWithoutMutex
  <2> QED
    BY <1>2, <2>1, <2>2, <2>3, <2>4 DEF PcOnly
<1>4. EntriesLive'
  <2>1. CASE SchedulerFault
    <3>1. /\ fifo \in Seq(Obj \cup {NoObj})
          /\ \A i \in DOMAIN fifo : queue[tidOf[fifo[i]]] # NoObj
      BY <2>1 DEF Inv, TypeOK, SchedulerFault, HasNull, HasGone, Gone, LInv,
         NoNull, Range
    <3> QED
      BY <1>1, <3>1 DEF SInv, EntriesLive, Range
  <2>2. CASE ~SchedulerFault
    <3>1. pc.at \notin SchedLabels \cup { "spin" }
      BY <1>2, <2>2 DEF PcOnly, Spawn, ThreadEnds, Block, Resume, TermStart,
         TermTest, Segv, Jump, Calls, InClient, SchedLabels
    <3> QED
      BY <1>1, <3>1 DEF SInv, EntriesLive
  <2> QED
    BY <2>1, <2>2
<1>5. suspended' \subseteq Live' /\ SuspendedIsBlocked'
  BY <1>1 DEF SInv, SuspendedIsBlocked, Live
<1> QED
  BY <1>1, <1>3, <1>4, <1>5 DEF SInv

LEMMA EnterSInv ==
  Inv /\ SInv /\ (TimerBetween \/ BlockRaise \/ LockRaise) => SInv'
<1> SUFFICES ASSUME Inv, SInv, TimerBetween \/ BlockRaise \/ LockRaise PROVE SInv'
  OBVIOUS
<1>1. PICK sig, k : EnterScheduler(sig, k) /\ (Contain(cur) => k.at = "user")
  <2>1. CASE TimerBetween
    BY <2>1 DEF TimerBetween, Timer, ClientLabels, Inv, LoopIsGone, Contain, Self
  <2>2. CASE BlockRaise
    BY <2>2 DEF BlockRaise, User, At
  <2>3. CASE LockRaise
    BY <2>3 DEF LockRaise, SInv, LabelsWithoutMutex, SchedLabels
  <2> QED
    BY <2>1, <2>2, <2>3
<1>2. /\ UNCHANGED << queue, blockedMutex, mutex, cur, tidOf, suspended >>
      /\ pc'.at \in SchedLabels
  BY <1>1 DEF EnterScheduler, Goto, At, SchedLabels, claims
<1>3. Contain(cur) => Self \in Obj /\ Self \in Live /\ tidOf[Self] = cur
  BY LiveFacts DEF Contain, Self, Inv, SlotMatches
<1>4. /\ \A o \in Range(fifo') : o \in Range(fifo) \/ (Contain(cur) /\ o = Self)
      /\ \A o \in Obj : ctx'[o].at = "user"
      /\ \A o \in Obj : state[o] = BLOCKED => state'[o] = BLOCKED
  <2>1. CASE Contain(cur)
    <3>1. /\ fifo' = Requeue(sig)
          /\ ctx' = [ ctx EXCEPT ![Self] = k ]
          /\ state' = [ state EXCEPT ![Self] = Stopped(Self) ]
          /\ fifo \in Seq(Obj \cup {NoObj})
          /\ state \in [ Obj -> {READY, RUNNING, BLOCKED} ]
          /\ ctx \in [ Obj -> Continuation ]
      BY <1>1, <2>1 DEF EnterScheduler, Inv, TypeOK
    <3>2. Range(fifo') \subseteq Range(fifo) \cup {Self}
      BY <1>3, <2>1, <3>1, RangeAppend DEF Requeue
    <3>3. \A o \in Obj : ctx'[o].at = "user"
      BY <1>1, <2>1, <3>1 DEF SInv
    <3>4. \A o \in Obj : state[o] = BLOCKED => state'[o] = BLOCKED
      BY <3>1 DEF Stopped, RUNNING, BLOCKED
    <3> QED
      BY <2>1, <3>2, <3>3, <3>4
  <2>2. CASE ~Contain(cur)
    BY <1>1, <2>2 DEF EnterScheduler, SInv
  <2> QED
    BY <2>1, <2>2
<1>5. EntriesLive'
  BY <1>2, <1>3, <1>4 DEF SInv, EntriesLive, Self
<1>6. suspended' \subseteq Live' /\ SuspendedIsBlocked'
  BY <1>2, <1>4, LiveFacts DEF SInv, SuspendedIsBlocked, Live
<1> QED
  BY <1>2, <1>4, <1>5, <1>6 DEF SInv, LabelsWithoutMutex, SchedLabels

LEMMA EraseSInv == Inv /\ SInv /\ (PurgeDead \/ DropBlocked) => SInv'
<1> SUFFICES ASSUME Inv, SInv, PurgeDead \/ DropBlocked PROVE SInv'
  OBVIOUS
<1>1. UNCHANGED << queue, blockedMutex, mutex, cur, tidOf, state, ctx, pc,
                   suspended >>
  BY DEF PurgeDead, DropBlocked, thread, claims
<1>2. Range(fifo') \subseteq Range(fifo)
  BY RangeRemoveAt DEF PurgeDead, DropBlocked, Inv, TypeOK
<1> QED
  BY <1>1, <1>2 DEF SInv, EntriesLive, SuspendedIsBlocked, Live

\* The entry that is taken is that of a thread that lives and is READY, so the
\* thread that runs was not suspended.
LEMMA DispatchSInv == Inv /\ SInv /\ Dispatch => SInv'
<1> SUFFICES ASSUME Inv, SInv, Dispatch PROVE SInv'
  OBVIOUS
<1>1. PICK i \in DOMAIN fifo :
        IsNext(i) /\ fifo' = RemoveAt(fifo, i) /\ cur' = tidOf[fifo[i]]
  BY DEF Dispatch
<1> DEFINE o == queue[cur']
<1>2. /\ fifo \in Seq(Obj \cup {NoObj})
      /\ \A j \in DOMAIN fifo : fifo[j] \in Obj /\ queue[tidOf[fifo[j]]] = fifo[j]
  BY DEF Inv, TypeOK, Dispatch, HasNull, HasGone, Gone, SInv, EntriesLive, Range
<1>3. o = fifo[i] /\ o \in Obj /\ state[o] = READY
  BY <1>1, <1>2 DEF IsNext
<1>4. /\ state' = [ state EXCEPT ![o] = RUNNING ]
      /\ pc' = IF pc.at = "sched_vtalrm" THEN ctx[o] ELSE At("jump", NoTid)
      /\ UNCHANGED << queue, blockedMutex, mutex, tidOf, ctx, suspended >>
  BY DEF Dispatch, claims
<1>5. pc'.at \in { "jump", "user" }
  BY <1>3, <1>4 DEF At, SInv
<1>6. \A p \in Range(fifo') : queue[tidOf[p]] = p
  BY <1>1, <1>2, RangeRemoveAt DEF Range
<1>7. EntriesLive'
  BY <1>4, <1>6 DEF EntriesLive
<1>8. suspended' \subseteq Live' /\ SuspendedIsBlocked'
  BY <1>3, <1>4, LiveFacts DEF SInv, SuspendedIsBlocked, Live, READY, BLOCKED,
     Inv, TypeOK
<1> QED
  BY <1>4, <1>5, <1>7, <1>8 DEF SInv, LabelsWithoutMutex

\* The slot that is filled has no entry of the FIFO left.
LEMMA SpawnNewSInv == Inv /\ MInv /\ LInv /\ SInv /\ SpawnNew => SInv'
<1> SUFFICES ASSUME Inv, MInv, LInv, SInv, SpawnNew PROVE SInv'
  OBVIOUS
<1>1. PICK o \in Obj \ Reachable :
        /\ queue' = [ queue EXCEPT ![pc.tid] = o ]
        /\ tidOf' = [ tidOf EXCEPT ![o] = pc.tid ]
        /\ state' = [ state EXCEPT ![o] = READY ]
        /\ ctx' = [ ctx EXCEPT ![o] = User ]
  BY DEF SpawnNew
<1>2. /\ pc.at = "spawn_new" /\ pc'.at = "spawn_push"
      /\ pc.tid \in Tid /\ queue[pc.tid] = NoObj
      /\ UNCHANGED << fifo, blockedMutex, mutex, cur, suspended >>
  BY ContinuationType
  DEF SpawnNew, Goto, At, Inv, TypeOK, MInv, CallsAreTimely, TidLabels, lists, claims
<1>3. o \in Obj /\ o \notin Live /\ o \notin Range(fifo)
  BY <1>1 DEF Reachable, Obj, NoObj
<1>4. EntriesLive'
  <2> SUFFICES ASSUME NEW p \in Range(fifo) PROVE queue'[tidOf'[p]] = p
    BY <1>2 DEF EntriesLive
  <2>1. queue[tidOf[p]] = p /\ p # o
    BY <1>2, <1>3 DEF SInv, EntriesLive, SchedLabels
  <2>2. p \in Obj
    BY DEF Inv, TypeOK, LInv, NoNull, Range
  <2> QED
    BY <1>1, <1>2, <2>1, <2>2 DEF Inv, TypeOK, Obj, NoObj
<1>5. Live \subseteq Live'
  BY <1>1, <1>2, LiveFacts DEF Live, Inv, TypeOK
<1>6. suspended' \subseteq Live' /\ SuspendedIsBlocked'
  BY <1>1, <1>2, <1>3, <1>5, LiveFacts DEF SInv, SuspendedIsBlocked, Inv, TypeOK
<1>7. \A p \in Obj : ctx'[p].at = "user"
  BY <1>1 DEF SInv, Inv, TypeOK, User, At
<1> QED
  BY <1>2, <1>4, <1>6, <1>7 DEF SInv, LabelsWithoutMutex

\* A thread that ends itself leaves its entries to the scheduler.
LEMMA TermClearSInv == Inv /\ SInv /\ TermClear => SInv'
<1> SUFFICES ASSUME Inv, SInv, TermClear PROVE SInv'
  OBVIOUS
<1>1. /\ pc.at = "term_clear" /\ pc.tid = cur /\ pc'.at = "spin"
      /\ queue' = [ queue EXCEPT ![cur] = NoObj ]
      /\ suspended' = suspended \ { queue[cur] }
      /\ UNCHANGED << lists, mutex, cur, thread >>
  <2>1. pc.at = "term_clear" /\ pc.tid = cur
    BY DEF TermClear, SInv
  <2>2. Goto("spin", NoTid) /\ UNCHANGED << lists, mutex, cur, thread >>
    BY <2>1 DEF TermClear
  <2>3. queue' = [ queue EXCEPT ![pc.tid] = NoObj ]
    BY DEF TermClear
  <2>4. suspended' = suspended \ { queue[pc.tid] }
    BY DEF TermClear
  <2> QED
    BY <2>1, <2>2, <2>3, <2>4 DEF Goto, At
<1>2. /\ cur \in Tid /\ queue'[cur] = NoObj
      /\ \A t \in Tid : t # cur => queue'[t] = queue[t]
  BY <1>1 DEF Inv, TypeOK
<1>3. Live' = Live \ {queue[cur]}
  BY <1>1, <1>2 DEF Live, Inv, TypeOK, SlotMatches
<1>4. EntriesLive'
  <2> SUFFICES ASSUME NEW p \in Range(fifo)
               PROVE  queue'[tidOf[p]] = p \/ queue'[tidOf[p]] = NoObj
    BY <1>1 DEF EntriesLive, lists, thread
  <2>1. queue[tidOf[p]] = p
    BY <1>1 DEF SInv, EntriesLive, SchedLabels
  <2> QED
    BY <1>1, <2>1 DEF Inv, TypeOK
<1>5. suspended' \subseteq Live' /\ SuspendedIsBlocked'
  BY <1>1, <1>3 DEF SInv, SuspendedIsBlocked, thread
<1> QED
  BY <1>1, <1>4, <1>5 DEF SInv, LabelsWithoutMutex, lists, thread

LEMMA CallStepSInv == Inv /\ LInv /\ SInv /\ CallStep => SInv'
<1> SUFFICES ASSUME Inv, LInv, SInv, CallStep PROVE SInv'
  OBVIOUS
<1>1. /\ UNCHANGED << blockedMutex, mutex >>
      /\ pc.tid \in Tid
      /\ pc.at \in { "spawn_push", "resume_push", "block_set", "resume_set" }
  BY CallStepFacts
  DEF CallStep, SpawnPush, BlockSet, ResumeSet, ResumePush, LockPush, LockBlock,
      LockTake, UnlockFree, UnlockWake, UnlockClear, SInv, LabelsWithoutMutex,
      SchedLabels, TidLabels, lists
<1> DEFINE o == queue[pc.tid]
<1>2. CASE SpawnPush \/ ResumePush
  <2>1. /\ pc'.at = "user" /\ fifo' = Append(fifo, o)
        /\ UNCHANGED << thread, claims >>
    BY <1>2 DEF SpawnPush, ResumePush, Return, User, At
  <2>2. o \in Live /\ o \in Obj /\ tidOf[o] = pc.tid
    BY <1>1, <1>2, LiveFacts
    DEF LInv, StepsAreTimely, Contain, Inv, SlotMatches, SpawnPush, ResumePush
  <2>3. Range(fifo') = Range(fifo) \cup {o}
    BY <2>1, <2>2, CallStepFacts, RangeAppend
  <2>4. EntriesLive'
    BY <1>1, <2>1, <2>2, <2>3, CallStepFacts DEF SInv, EntriesLive, SchedLabels
  <2> QED
    BY <1>1, <2>1, <2>4, CallStepFacts
    DEF SInv, LabelsWithoutMutex, SuspendedIsBlocked, thread, claims
<1>3. CASE BlockSet \/ ResumeSet
  <2>1. /\ UNCHANGED fifo
        /\ pc'.at \in { "user", "block_raise", "resume_push", "segv" }
    BY <1>3 DEF BlockSet, ResumeSet, Goto, Return, User, At, lists
  <2>2. EntriesLive'
    BY <1>1, <2>1, CallStepFacts DEF SInv, EntriesLive, SchedLabels
  <2>3. suspended' \subseteq Live' /\ SuspendedIsBlocked'
    <3>1. CASE ~Contain(pc.tid)
      BY <1>3, <3>1, CallStepFacts DEF BlockSet, ResumeSet, SInv, SuspendedIsBlocked
    <3>2. CASE Contain(pc.tid)
      <4>1. o \in Live /\ o \in Obj
        BY <1>1, <3>2, LiveFacts DEF Contain
      <4> QED
        BY <1>3, <3>2, <4>1, CallStepFacts, LiveFacts
        DEF BlockSet, ResumeSet, SInv, SuspendedIsBlocked
    <3> QED
      BY <3>1, <3>2
  <2> QED
    BY <1>1, <2>1, <2>2, <2>3, CallStepFacts DEF SInv, LabelsWithoutMutex
<1> QED
  BY <1>1, <1>2, <1>3
  DEF CallStep, SpawnPush, BlockSet, ResumeSet, ResumePush, LockPush, LockBlock,
      LockTake, UnlockFree, UnlockWake, UnlockClear

LEMMA NextSInv ==
  ASSUME Ops \subseteq WithoutMutex
  PROVE  Inv /\ MInv /\ LInv /\ SInv /\ [WholeNext]_vars => SInv'
<1> SUFFICES ASSUME Inv, MInv, LInv, SInv, [WholeNext]_vars PROVE SInv'
  OBVIOUS
<1>1. CASE UNCHANGED vars
  BY <1>1 DEF vars, SInv, EntriesLive, SuspendedIsBlocked, Live
<1>2. CASE WholeNext
  BY <1>2, PcOnlySInv, EnterSInv, EraseSInv, DispatchSInv, SpawnNewSInv,
     TermClearSInv, CallStepSInv DEF WholeNext, Library, Client, PcOnly, CallStep
<1> QED
  BY <1>1, <1>2

\* When no quantum ends inside a call, threads end only themselves and nobody
\* uses the mutex, a thread that was blocked stays blocked until it is resumed:
\* what wakes it in the library as it is are the entries of ended threads and
\* the unlock.
THEOREM SuspendedCorrect ==
  ASSUME ~PreemptibleCalls, Ops \subseteq WithoutMutex
  PROVE  Spec => []SuspendedIsBlocked
<1>1. SInv => SuspendedIsBlocked
  BY DEF SInv
<1>2. WholeSpec => []SInv
  BY WholeLInv, InitSInv, NextSInv, PTL DEF WholeSpec
<1> QED
  BY <1>1, <1>2, CallsAreWhole, PTL
=============================================================================
