------------------------ MODULE UthreadsClientProofs ------------------------
(***************************************************************************)
(* Proofs about the threads library as its clients see it: a scheduler of  *)
(* threads to whom a call is one step, and the tests of exercise 2.        *)
(***************************************************************************)
EXTENDS UthreadsProofs, UthreadsTests
-----------------------------------------------------------------------------
(***************************************************************************)
(* The library implements the scheduler of whole calls.  What that needs   *)
(* beyond the lists: who runs is not blocked, who waits for the mutex does *)
(* not hold it, and a free mutex has no waiters.                           *)
(***************************************************************************)
LockLabels == { "lock_test", "lock_push", "lock_block", "lock_push2", "lock_raise" }
EndLabels ==
  { "term", "term_test", "term_clear", "unlock_free", "unlock_wake", "unlock_clear" }

\* A thread that is blocked runs only the rest of the call that blocked it, or,
\* after a fault of the scheduler, its own end.
RunnerNotBlocked ==
  Contain(cur) /\ state[Self] = BLOCKED =>
    \/ pc.at \in SchedLabels \cup { "block_raise", "lock_push2", "lock_raise",
                                    "segv", "exit" }
    \/ pc.at \in EndLabels /\ pc.tid = cur

\* Who is in uthread_mutex_lock, or listed as a waiter, is not the holder.
InLock(o) ==
  ctx[o].at = "lock_test" /\ (o # Self \/ pc.at \in SchedLabels \cup { "jump" })
HolderNotListed ==
  /\ \A o \in Live : o \in Range(blockedMutex) \/ InLock(o) => mutex # tidOf[o]
  /\ pc.at \in LockLabels => mutex # cur
  /\ pc.at = "unlock_wake" => Self \notin Range(blockedMutex)

\* Nobody waits for a free mutex, but inside the unlock.
FreeIsEmpty ==
  mutex = NoTid =>
    Range(blockedMutex) = {} \/ pc.at \in { "unlock_wake", "unlock_clear" }

\* The unlock has freed the mutex, and so has who is about to end itself.
GivenBack ==
  /\ pc.at \in { "unlock_wake", "unlock_clear" } => mutex = NoTid
  /\ pc.at = "term_clear" /\ pc.tid = cur => mutex # cur

TimerStopped == pc.at \in SchedLabels => ~armed

\* The main thread is not blocked by uthread_block, and a call that is about to
\* fill a slot found it to be the first that is free.
MainNotSuspended == queue[0] \notin suspended
SpawnsLeast == pc.at = "spawn_new" => \A u \in 1 .. pc.tid - 1 : Contain(u)

WInv ==
  /\ RunnerNotBlocked
  /\ HolderNotListed
  /\ FreeIsEmpty
  /\ GivenBack
  /\ TimerStopped
  /\ MainNotSuspended
  /\ SpawnsLeast

LEMMA InitWInv == Init => WInv
<1> SUFFICES ASSUME Init PROVE WInv
  OBVIOUS
<1>1. Range(blockedMutex) = {}
  BY DEF Init, Range
<1>2. Live \subseteq {1} /\ tidOf[1] = 0 /\ mutex = NoTid
  BY UthreadsAssumption DEF Init, Live, NoObj, Obj
<1>3. pc.at = "sched_int" /\ armed = FALSE /\ suspended = {}
  BY DEF Init, At
<1> QED
  BY <1>1, <1>2, <1>3
  DEF WInv, MainNotSuspended, SpawnsLeast, RunnerNotBlocked, HolderNotListed,
      FreeIsEmpty, GivenBack, TimerStopped, SchedLabels, LockLabels, NoTid

\* Where a step that only moves the processor may lead to.
LEMMA PcStepWInv ==
  ASSUME WInv, OnlyPc,
         pc.at \notin { "unlock_wake", "unlock_clear" },
         pc'.at \notin SchedLabels \cup { "jump", "unlock_wake", "unlock_clear" },
         Contain(cur) /\ state[Self] = BLOCKED =>
           pc'.at \in { "segv", "exit" } \/ (pc'.at \in EndLabels /\ pc'.tid = cur),
         pc'.at \in LockLabels => mutex # cur,
         pc'.at = "term_clear" /\ pc'.tid = cur => mutex # cur,
         pc'.at = "spawn_new" => \A u \in 1 .. pc'.tid - 1 : Contain(u)
  PROVE  WInv'
<1>1. RunnerNotBlocked'
  BY DEF RunnerNotBlocked, OnlyPc, thread, Contain, Self
<1>2. HolderNotListed'
  BY DEF WInv, HolderNotListed, InLock, OnlyPc, thread, lists, Live, Self
<1>3. FreeIsEmpty' /\ GivenBack' /\ TimerStopped' /\ MainNotSuspended' /\ SpawnsLeast'
  BY DEF WInv, FreeIsEmpty, GivenBack, TimerStopped, MainNotSuspended, SpawnsLeast, Contain,
     OnlyPc, lists, claims
<1> QED
  BY <1>1, <1>2, <1>3 DEF WInv

LEMMA PcOnlyWInv == Inv /\ MInv /\ WInv /\ PcOnly => WInv'
<1> SUFFICES ASSUME Inv, MInv, WInv, PcOnly PROVE WInv'
  OBVIOUS
<1>1. OnlyPc
  BY DEF PcOnly, Spawn, Terminate, TermStart, TermTest, ThreadEnds, Segv, Jump,
     SchedulerFault, Block, Resume, Lock, LockTest, Unlock, OnlyPc
<1> DEFINE Blocked == Contain(cur) /\ state[Self] = BLOCKED
<1>2. Blocked =>
        \/ pc.at \in SchedLabels \cup { "block_raise", "lock_push2", "lock_raise",
                                        "segv", "exit" }
        \/ pc.at \in EndLabels /\ pc.tid = cur
  BY DEF WInv, RunnerNotBlocked
<1>3. CASE Spawn \/ Terminate \/ ThreadEnds \/ Block \/ Resume \/ Lock \/ Unlock
  <2>1. pc.at = "user" /\ ~Blocked
    BY <1>2, <1>3 DEF Spawn, Terminate, ThreadEnds, Block, Resume, Lock, Unlock,
       Calls, InClient, SchedLabels, EndLabels
  <2>2. /\ pc'.at \in { "spawn_new", "term", "exit", "segv", "block_set",
                        "resume_set", "lock_test", "unlock_free" }
        /\ pc'.at = "lock_test" => mutex # cur
        /\ pc'.at = "spawn_new" => \A u \in 1 .. pc'.tid - 1 : Contain(u)
    BY <1>3 DEF Spawn, FreeTid, Contain, Terminate, ThreadEnds, Block, Resume, Lock, Unlock,
       Goto, At
  <2> QED
    BY <1>1, <2>1, <2>2, PcStepWInv DEF SchedLabels, LockLabels
<1>4. CASE TermStart \/ TermTest
  <2>1. /\ pc.at \in { "term", "term_test" }
        /\ pc'.at \in { "exit", "term_test", "unlock_free", "term_clear" }
        /\ pc'.tid = pc.tid \/ pc'.at = "exit"
        /\ pc'.at = "term_clear" => ~(mutex = pc.tid /\ mutex = cur)
    BY <1>4 DEF TermStart, TermTest, Goto, At
  <2> QED
    BY <1>1, <1>2, <2>1, PcStepWInv DEF SchedLabels, LockLabels, EndLabels
<1>5. CASE Segv
  <2>1. /\ pc.at = "segv"
        /\ \/ pc'.at = "term" /\ pc'.tid = cur
           \/ pc'.at = "spin" /\ ~Contain(cur)
    BY <1>5 DEF Segv, Goto, At
  <2> QED
    BY <1>1, <2>1, PcStepWInv DEF SchedLabels, LockLabels, EndLabels
<1>6. CASE Jump
  <2>1. pc.at = "jump" /\ Self # NoObj /\ tidOf[Self] = cur /\ Self \in Live /\ Self \in Obj
    BY <1>6, LiveFacts DEF Jump, Inv, CurrentIsLive, SchedLabels, Self
  <2>2. pc' = ctx[Self] /\ pc'.at \in { "user", "lock_test" }
    BY <1>6, <2>1 DEF Jump, MInv, StoppedOutside
  <2>3. pc'.at = "lock_test" => mutex # cur
    BY <2>1, <2>2 DEF WInv, HolderNotListed, InLock
  <2> QED
    BY <1>1, <1>2, <2>1, <2>2, <2>3, PcStepWInv DEF SchedLabels, LockLabels, EndLabels
<1>7. CASE SchedulerFault
  <2>1. pc.at \in SchedLabels /\ pc'.at = "segv"
    BY <1>7 DEF SchedulerFault, InScheduler, Goto, At
  <2> QED
    BY <1>1, <2>1, PcStepWInv DEF SchedLabels, LockLabels
<1>8. CASE LockTest
  <2>1. pc.at = "lock_test" /\ pc'.at \in { "lock_take", "lock_push" }
    BY <1>8 DEF LockTest, Goto, At
  <2>2. mutex # cur
    BY <2>1 DEF WInv, HolderNotListed, LockLabels
  <2> QED
    BY <1>1, <1>2, <2>1, <2>2, PcStepWInv DEF SchedLabels, LockLabels, EndLabels
<1> QED
  BY <1>3, <1>4, <1>5, <1>6, <1>7, <1>8 DEF PcOnly

\* A thread that stops in uthread_mutex_lock does not hold the mutex.
LEMMA EnterWInv ==
  Inv /\ WInv /\ (TimerBetween \/ BlockRaise \/ LockRaise) => WInv'
<1> SUFFICES ASSUME Inv, WInv, TimerBetween \/ BlockRaise \/ LockRaise PROVE WInv'
  OBVIOUS
<1>1. PICK sig, k :
        /\ EnterScheduler(sig, k)
        /\ pc.at \in { "user", "spin", "block_raise", "lock_raise" }
        /\ Contain(cur) /\ k.at = "lock_test" => mutex # cur
  <2>1. CASE TimerBetween
    BY <2>1 DEF TimerBetween, Timer, ClientLabels, Inv, LoopIsGone, Contain, Self
  <2>2. CASE BlockRaise
    BY <2>2 DEF BlockRaise, User, At
  <2>3. CASE LockRaise
    BY <2>3 DEF LockRaise, WInv, HolderNotListed, LockLabels
  <2> QED
    BY <2>1, <2>2, <2>3
<1>2. /\ UNCHANGED << queue, blockedMutex, mutex, cur, tidOf >>
      /\ pc'.at \in SchedLabels /\ armed' = FALSE
      /\ Live' = Live /\ Self' = Self
  BY <1>1 DEF EnterScheduler, Goto, At, SchedLabels, Live, Self
<1>3. \A o \in Live : o # Self => ctx'[o] = ctx[o]
  BY <1>1, LiveFacts DEF EnterScheduler, Inv, TypeOK
<1>4. Self \in Live => tidOf[Self] = cur /\ (ctx'[Self].at = "lock_test" => mutex # cur)
  <2> SUFFICES ASSUME Self \in Live
               PROVE  tidOf[Self] = cur /\ (ctx'[Self].at = "lock_test" => mutex # cur)
    OBVIOUS
  <2>1. Contain(cur) /\ Self \in Obj /\ tidOf[Self] = cur
    BY LiveFacts DEF Contain, Self, Inv, SlotMatches
  <2>2. ctx'[Self] = k
    BY <1>1, <2>1 DEF EnterScheduler, Inv, TypeOK
  <2> QED
    BY <1>1, <2>1, <2>2
<1>5. HolderNotListed'
  <2>1. ASSUME NEW o \in Live, o \in Range(blockedMutex) \/ ctx'[o].at = "lock_test"
        PROVE  mutex # tidOf[o]
    BY <1>3, <1>4, <2>1 DEF WInv, HolderNotListed, InLock
  <2> QED
    BY <1>2, <2>1 DEF HolderNotListed, InLock, SchedLabels, LockLabels
<1>6. FreeIsEmpty'
  BY <1>1, <1>2 DEF WInv, FreeIsEmpty
<1>7. MainNotSuspended' /\ SpawnsLeast'
  BY <1>1, <1>2 DEF EnterScheduler, claims, WInv, MainNotSuspended, SpawnsLeast, SchedLabels
<1> QED
  BY <1>2, <1>5, <1>6, <1>7 DEF WInv, RunnerNotBlocked, GivenBack, TimerStopped, SchedLabels

LEMMA EraseWInv == WInv /\ (PurgeDead \/ DropBlocked) => WInv'
BY DEF PurgeDead, DropBlocked, thread, claims, WInv, RunnerNotBlocked, HolderNotListed,
   InLock, FreeIsEmpty, GivenBack, TimerStopped, MainNotSuspended, SpawnsLeast, Contain, Self,
   Live

\* The thread that is run is RUNNING, and goes on outside of the calls or where
\* it tests the mutex.
LEMMA DispatchFacts ==
  ASSUME Inv, MInv, Dispatch
  PROVE  /\ cur' \in Tid /\ Self' = queue[cur'] /\ Self' \in Live /\ Self' \in Obj
         /\ tidOf[Self'] = cur'
         /\ UNCHANGED << queue, blockedMutex, mutex, tidOf, ctx, claims >>
         /\ Live' = Live /\ armed' = TRUE
         /\ pc.at \in SchedLabels
         /\ pc'.at \in { "jump", "user", "lock_test" }
         /\ pc'.at # "jump" => pc'.at = ctx[Self'].at
         /\ state' = [ state EXCEPT ![Self'] = RUNNING ]
         /\ state'[Self'] = RUNNING
         /\ \E i \in DOMAIN fifo :
              /\ fifo[i] \in Obj /\ cur' = tidOf[fifo[i]] /\ state[fifo[i]] = READY
              /\ fifo' = RemoveAt(fifo, i)
         /\ \A i \in DOMAIN fifo : queue[tidOf[fifo[i]]] # NoObj
<1>1. PICK i \in DOMAIN fifo :
        fifo' = RemoveAt(fifo, i) /\ cur' = tidOf[fifo[i]] /\ IsNext(i)
  BY DEF Dispatch
<1>2. fifo[i] \in Obj /\ state[fifo[i]] = READY
  BY <1>1 DEF Inv, TypeOK, Dispatch, HasNull, IsNext
<1>3. cur' \in Tid /\ queue[cur'] \in Obj /\ queue[cur'] # NoObj /\ tidOf[queue[cur']] = cur'
  BY <1>1, <1>2 DEF Inv, TypeOK, Dispatch, HasGone, Gone, SlotMatches
<1>4. /\ state' = [ state EXCEPT ![queue[cur']] = RUNNING ]
      /\ pc' = IF pc.at = "sched_vtalrm" THEN ctx[queue[cur']] ELSE At("jump", NoTid)
      /\ UNCHANGED << queue, blockedMutex, mutex, tidOf, ctx, claims >>
      /\ pc.at \in SchedLabels /\ armed' = TRUE
      /\ Self' = queue[cur'] /\ Live' = Live
  BY DEF Dispatch, InScheduler, Self, Live
<1>5. /\ pc'.at \in { "jump", "user", "lock_test" }
      /\ pc'.at # "jump" => pc'.at = ctx[queue[cur']].at
  BY <1>3, <1>4 DEF At, MInv, StoppedOutside
<1>6. state'[queue[cur']] = RUNNING /\ queue[cur'] \in Live
  BY <1>3, <1>4 DEF Inv, TypeOK, Live
<1>7. \A j \in DOMAIN fifo : queue[tidOf[fifo[j]]] # NoObj
  BY DEF Dispatch, HasGone, Gone
<1> QED
  BY <1>1, <1>2, <1>3, <1>4, <1>5, <1>6, <1>7

LEMMA DispatchWInv == Inv /\ MInv /\ WInv /\ Dispatch => WInv'
<1> SUFFICES ASSUME Inv, MInv, WInv, Dispatch PROVE WInv'
  OBVIOUS
<1>1. /\ Self' \in Live /\ tidOf[Self'] = cur' /\ state'[Self'] = RUNNING
      /\ UNCHANGED << queue, blockedMutex, mutex, tidOf, ctx, suspended >>
      /\ Live' = Live
      /\ pc.at \in SchedLabels
      /\ pc'.at \in { "jump", "user", "lock_test" }
      /\ pc'.at # "jump" => pc'.at = ctx[Self'].at
  BY DispatchFacts DEF claims
<1>2. HolderNotListed'
  BY <1>1 DEF WInv, HolderNotListed, InLock, SchedLabels, LockLabels
<1>3. RunnerNotBlocked'
  BY <1>1 DEF RunnerNotBlocked, RUNNING, BLOCKED
<1>4. FreeIsEmpty' /\ GivenBack' /\ TimerStopped' /\ MainNotSuspended' /\ SpawnsLeast'
  BY <1>1 DEF WInv, FreeIsEmpty, GivenBack, TimerStopped, MainNotSuspended, SpawnsLeast,
     SchedLabels
<1> QED
  BY <1>2, <1>3, <1>4 DEF WInv

\* A new object is in no list, and its ID is not that of the thread that runs.
LEMMA SpawnFacts ==
  ASSUME Inv, MInv, SpawnNew
  PROVE  /\ pc.at = "spawn_new" /\ pc' = At("spawn_push", pc.tid)
         /\ pc'.at = "spawn_push" /\ pc'.tid = pc.tid
         /\ pc.tid \in Tid /\ queue[pc.tid] = NoObj /\ pc.tid # cur
         /\ UNCHANGED << lists, mutex, cur, armed, claims >>
         /\ Self' = Self /\ Self \in Live /\ Self \in Obj
         /\ \A t \in Tid : t # pc.tid => queue'[t] = queue[t]
         /\ \E o \in Obj \ Reachable :
              /\ o \notin Live /\ o \notin Range(fifo) /\ o \notin Range(blockedMutex)
              /\ queue'[pc.tid] = o /\ tidOf'[o] = pc.tid /\ state'[o] = READY
              /\ ctx'[o].at = "user"
              /\ Live' \subseteq Live \cup {o}
              /\ \A p \in Obj \ {o} : /\ tidOf'[p] = tidOf[p] /\ state'[p] = state[p]
                                      /\ ctx'[p] = ctx[p]
<1>1. PICK o \in Obj \ Reachable :
        /\ queue' = [ queue EXCEPT ![pc.tid] = o ]
        /\ tidOf' = [ tidOf EXCEPT ![o] = pc.tid ]
        /\ state' = [ state EXCEPT ![o] = READY ]
        /\ ctx' = [ ctx EXCEPT ![o] = User ]
  BY DEF SpawnNew
<1>2. /\ pc.at = "spawn_new" /\ pc' = At("spawn_push", pc.tid)
      /\ pc.tid \in Tid /\ queue[pc.tid] = NoObj
      /\ UNCHANGED << lists, mutex, cur, armed, claims >>
  BY ContinuationType
  DEF SpawnNew, Goto, Inv, TypeOK, MInv, CallsAreTimely, TidLabels
<1>3. pc'.at = "spawn_push" /\ pc'.tid = pc.tid
  BY <1>2 DEF At
<1>4. Self # NoObj /\ pc.tid # cur /\ Self \in Live /\ Self \in Obj
  BY <1>2, LiveFacts DEF Inv, CurrentIsLive, SchedLabels, Self
<1>5. /\ queue'[pc.tid] = o
      /\ \A t \in Tid : t # pc.tid => queue'[t] = queue[t]
      /\ Live' \subseteq Live \cup {o}
  BY <1>1, <1>2 DEF Inv, TypeOK, Live
<1>6. Self' = Self
  BY <1>2, <1>4, <1>5, LiveFacts DEF Self
<1>7. /\ tidOf'[o] = pc.tid /\ state'[o] = READY /\ ctx'[o].at = "user"
      /\ \A p \in Obj \ {o} : /\ tidOf'[p] = tidOf[p] /\ state'[p] = state[p]
                              /\ ctx'[p] = ctx[p]
  BY <1>1, <1>2 DEF Inv, TypeOK, User, At
<1>8. o \notin Live /\ o \notin Range(fifo) /\ o \notin Range(blockedMutex)
  BY <1>1 DEF Reachable, Obj, NoObj
<1> QED
  BY <1>1, <1>2, <1>3, <1>4, <1>5, <1>6, <1>7, <1>8

LEMMA SpawnNewWInv == Inv /\ MInv /\ LInv /\ WInv /\ SpawnNew => WInv'
<1> SUFFICES ASSUME Inv, MInv, LInv, WInv, SpawnNew PROVE WInv'
  OBVIOUS
<1>1. PICK o \in Obj \ Reachable :
        /\ o \notin Live /\ o \notin Range(blockedMutex)
        /\ ctx'[o].at = "user"
        /\ Live' \subseteq Live \cup {o}
        /\ \A p \in Obj \ {o} : /\ tidOf'[p] = tidOf[p] /\ state'[p] = state[p]
                                /\ ctx'[p] = ctx[p]
  BY SpawnFacts
<1>2. /\ pc.at = "spawn_new" /\ pc'.at = "spawn_push"
      /\ UNCHANGED << blockedMutex, mutex, cur >>
      /\ Self' = Self /\ Self \in Live /\ Self \in Obj /\ Contain(cur)
  BY SpawnFacts, LiveFacts DEF lists, Contain, Self
<1>3. RunnerNotBlocked'
  BY <1>1, <1>2 DEF WInv, RunnerNotBlocked, EndLabels, SchedLabels
<1>4. HolderNotListed'
  <2> SUFFICES ASSUME NEW p \in Live', p \in Range(blockedMutex) \/ InLock(p)'
               PROVE  mutex # tidOf'[p]
    BY <1>2 DEF HolderNotListed, LockLabels
  <2>1. p # o
    BY <1>1 DEF InLock
  <2>2. p \in Live /\ p \in Obj
    BY <1>1, <2>1, LiveFacts
  <2>3. p \in Range(blockedMutex) \/ InLock(p)
    BY <1>1, <1>2, <2>1, <2>2 DEF InLock, SchedLabels
  <2> QED
    BY <1>1, <2>1, <2>2, <2>3 DEF WInv, HolderNotListed
<1>5. FreeIsEmpty' /\ GivenBack' /\ TimerStopped'
  BY <1>2 DEF WInv, FreeIsEmpty, GivenBack, TimerStopped, SchedLabels
<1>6. MainNotSuspended' /\ SpawnsLeast'
  <2>1. 0 \in Tid /\ pc.tid # 0 /\ suspended' = suspended
    BY SpawnFacts, LiveFacts DEF LInv, MainStays, Contain, claims
  <2>2. queue'[0] = queue[0]
    BY <2>1, SpawnFacts
  <2> QED
    BY <1>2, <2>1, <2>2 DEF WInv, MainNotSuspended, SpawnsLeast
<1> QED
  BY <1>3, <1>4, <1>5, <1>6 DEF WInv

LEMMA TermFacts ==
  ASSUME Inv, LInv, TermClear
  PROVE  /\ pc.at = "term_clear" /\ pc.tid \in Tid /\ pc.tid # 0
         /\ queue'[pc.tid] = NoObj
         /\ \A t \in Tid : t # pc.tid => queue'[t] = queue[t]
         /\ Live' = Live \ {queue[pc.tid]}
         /\ \/ pc.tid = cur /\ pc'.at = "spin" /\ Self' = NoObj
            \/ pc.tid # cur /\ pc'.at = "user" /\ Self' = Self
         /\ UNCHANGED << lists, mutex, cur, thread, armed >>
         /\ suspended' \subseteq suspended
<1>1. /\ pc.at = "term_clear" /\ pc.tid \in Tid /\ pc.tid # 0
      /\ queue' = [ queue EXCEPT ![pc.tid] = NoObj ]
      /\ \/ pc.tid = cur /\ pc'.at = "spin"
         \/ pc.tid # cur /\ pc'.at = "user"
      /\ UNCHANGED << lists, mutex, cur, thread, armed >>
      /\ suspended' \subseteq suspended
  BY ContinuationType
  DEF TermClear, Goto, Return, At, User, Inv, TypeOK, TidLabels, LInv, MainStays
<1>2. /\ queue'[pc.tid] = NoObj
      /\ \A t \in Tid : t # pc.tid => queue'[t] = queue[t]
  BY <1>1 DEF Inv, TypeOK
<1>3. Live' = Live \ {queue[pc.tid]}
  BY <1>1, <1>2 DEF Live, Inv, TypeOK, SlotMatches
<1>4. pc.tid # cur => Self' = Self
  BY <1>1, <1>2, LiveFacts DEF Self
<1>5. pc.tid = cur => Self' = NoObj
  BY <1>1, <1>2 DEF Self
<1> QED
  BY <1>1, <1>2, <1>3, <1>4, <1>5

LEMMA TermClearWInv == Inv /\ LInv /\ WInv /\ TermClear => WInv'
<1> SUFFICES ASSUME Inv, LInv, WInv, TermClear PROVE WInv'
  OBVIOUS
<1>1. /\ pc.at = "term_clear"
      /\ Live' \subseteq Live
      /\ \/ pc.tid = cur /\ pc'.at = "spin" /\ Self' = NoObj
         \/ pc.tid # cur /\ pc'.at = "user" /\ Self' = Self
      /\ UNCHANGED << blockedMutex, mutex, cur, tidOf, state, ctx >>
  BY TermFacts DEF lists, thread
<1>2. RunnerNotBlocked'
  BY <1>1 DEF WInv, RunnerNotBlocked, Contain, Self, EndLabels, SchedLabels
<1>3. Self \in Live /\ NoObj \notin Live /\ (pc.tid = cur => Self \notin Live')
  BY <1>1, TermFacts, LiveFacts DEF Inv, CurrentIsLive, SchedLabels, Self
<1>4. HolderNotListed'
  BY <1>1, <1>3 DEF WInv, HolderNotListed, InLock, LockLabels, SchedLabels
<1>5. FreeIsEmpty' /\ GivenBack' /\ TimerStopped'
  BY <1>1 DEF WInv, FreeIsEmpty, GivenBack, TimerStopped, SchedLabels
<1>6. MainNotSuspended' /\ SpawnsLeast'
  BY <1>1, TermFacts, LiveFacts DEF WInv, MainNotSuspended, SpawnsLeast
<1> QED
  BY <1>2, <1>4, <1>5, <1>6 DEF WInv

\* The other steps of the calls.
LEMMA CallStepWInv == Inv /\ MInv /\ LInv /\ WInv /\ CallStep => WInv'
<1> SUFFICES ASSUME Inv, MInv, LInv, WInv, CallStep PROVE WInv'
  OBVIOUS
<1>1. /\ UNCHANGED << queue, cur, tidOf, ctx >>
      /\ Live' = Live /\ Self' = Self
      /\ Self \in Live /\ Self \in Obj
      /\ pc.at \notin SchedLabels
      /\ state \in [ Obj -> {READY, RUNNING, BLOCKED} ]
      /\ tidOf[Self] = cur /\ cur # NoTid /\ cur \in Tid
      /\ Contain(cur)' = Contain(cur)
  BY CallStepFacts, LiveFacts DEF Contain, Self, Inv, SlotMatches, Tid, NoTid
<1>10. MainNotSuspended'
  <2>1. CASE BlockSet /\ Contain(pc.tid)
    <3>1. suspended' = suspended \cup {queue[pc.tid]} /\ pc.tid \in Tid /\ pc.tid # 0
      BY <2>1, CallStepFacts DEF BlockSet, TidLabels, LInv, MainStays
    <3>2. queue[pc.tid] # queue[0]
      BY <2>1, <3>1, LiveFacts DEF Inv, SlotMatches, Contain
    <3> QED
      BY <1>1, <3>1, <3>2 DEF WInv, MainNotSuspended
  <2>2. CASE ~(BlockSet /\ Contain(pc.tid))
    <3>1. suspended' \subseteq suspended
      BY <2>2 DEF CallStep, SpawnPush, BlockSet, ResumeSet, ResumePush, LockPush, LockBlock,
         LockTake, UnlockFree, UnlockWake, UnlockClear, claims
    <3> QED
      BY <1>1, <3>1 DEF WInv, MainNotSuspended
  <2> QED
    BY <2>1, <2>2
<1>11. SpawnsLeast'
  BY DEF CallStep, SpawnPush, BlockSet, ResumeSet, ResumePush, LockPush, LockBlock,
     LockTake, UnlockFree, UnlockWake, UnlockClear, UnlockReturn, Goto, Return, User, At,
     SpawnsLeast
<1>2. CASE SpawnPush \/ ResumePush
  <2>1. /\ pc.at \in { "spawn_push", "resume_push" } /\ pc'.at = "user"
        /\ UNCHANGED << blockedMutex, mutex, state, armed >>
    BY <1>2 DEF SpawnPush, ResumePush, Return, User, At, thread
  <2> QED
    BY <1>1, <1>10, <1>11, <2>1
    DEF WInv, RunnerNotBlocked, HolderNotListed, InLock, FreeIsEmpty, GivenBack,
        TimerStopped, SchedLabels, EndLabels, LockLabels
<1>3. CASE BlockSet \/ ResumeSet
  <2>1. /\ pc.at \in { "block_set", "resume_set" }
        /\ pc'.at \in { "block_raise", "user", "resume_push", "segv" }
        /\ UNCHANGED << blockedMutex, mutex, armed >>
    BY <1>3 DEF BlockSet, ResumeSet, Goto, Return, User, At, lists
  <2>2. state'[Self] = BLOCKED => pc'.at \in { "block_raise", "segv" }
    <3>1. pc.tid \in Tid /\ state[Self] # BLOCKED
      BY <1>1, <2>1, CallStepFacts, LiveFacts
      DEF WInv, RunnerNotBlocked, SchedLabels, EndLabels, TidLabels, Contain, Self
    <3>2. pc.tid # cur => queue[pc.tid] # Self
      BY <1>1, <3>1, LiveFacts DEF Inv, SlotMatches
    <3> QED
      BY <1>1, <1>3, <3>1, <3>2 DEF BlockSet, ResumeSet, Goto, At, READY, BLOCKED
  <2>3. RunnerNotBlocked'
    BY <1>1, <2>2 DEF RunnerNotBlocked
  <2> QED
    BY <1>1, <1>10, <1>11, <2>1, <2>3
    DEF WInv, HolderNotListed, InLock, FreeIsEmpty, GivenBack, TimerStopped,
        SchedLabels, LockLabels
<1>4. CASE LockPush
  <2>1. /\ \/ pc.at = "lock_push" /\ pc'.at = "lock_block"
           \/ pc.at = "lock_push2" /\ pc'.at = "lock_raise"
        /\ blockedMutex' = Append(blockedMutex, Self)
        /\ UNCHANGED << mutex, state, armed >>
    BY <1>4 DEF LockPush, Goto, At, thread
  <2>2. Range(blockedMutex') = Range(blockedMutex) \cup {Self}
    BY <2>1, CallStepFacts, RangeAppend
  <2>3. mutex # NoTid /\ mutex # cur
    BY <2>1 DEF LInv, StepsAreTimely, WInv, HolderNotListed, LockLabels
  <2> QED
    BY <1>1, <1>10, <1>11, <2>1, <2>2, <2>3
    DEF WInv, RunnerNotBlocked, HolderNotListed, InLock, FreeIsEmpty, GivenBack,
        TimerStopped, SchedLabels, EndLabels, LockLabels
<1>5. CASE LockBlock
  <2>1. /\ pc.at = "lock_block" /\ pc'.at = "lock_push2"
        /\ UNCHANGED << blockedMutex, mutex, armed >>
    BY <1>5 DEF LockBlock, Goto, At, lists
  <2> QED
    BY <1>1, <1>10, <1>11, <2>1
    DEF WInv, RunnerNotBlocked, HolderNotListed, InLock, FreeIsEmpty, GivenBack,
        TimerStopped, SchedLabels, EndLabels, LockLabels
<1>6. CASE LockTake
  <2>1. /\ pc.at = "lock_take" /\ pc'.at = "user" /\ mutex' = cur
        /\ UNCHANGED << blockedMutex, state, armed >>
    BY <1>6 DEF LockTake, Return, User, At, thread, lists
  <2>2. Range(blockedMutex) = {}
    BY <2>1 DEF MInv, CallsAreTimely, WInv, FreeIsEmpty
  <2>3. \A o \in Live : o # Self => tidOf[o] # cur
    BY LiveFacts DEF Self
  <2> QED
    BY <1>1, <1>10, <1>11, <2>1, <2>2, <2>3
    DEF WInv, RunnerNotBlocked, HolderNotListed, InLock, FreeIsEmpty, GivenBack,
        TimerStopped, SchedLabels, EndLabels, LockLabels
<1>7. CASE UnlockFree
  <2>1. /\ pc.at = "unlock_free" /\ pc'.at = "unlock_wake" /\ pc'.tid = pc.tid
        /\ mutex = cur /\ mutex' = NoTid
        /\ UNCHANGED << blockedMutex, state, armed >>
    BY <1>7 DEF UnlockFree, Goto, At, thread, lists, MInv, CallsAreTimely
  <2>2. \A o \in Live : tidOf[o] # NoTid
    BY LiveFacts DEF Tid, NoTid
  <2> QED
    BY <1>1, <1>10, <1>11, <2>1, <2>2
    DEF WInv, RunnerNotBlocked, HolderNotListed, InLock, FreeIsEmpty, GivenBack,
        TimerStopped, SchedLabels, EndLabels, LockLabels
<1>8. CASE UnlockWake
  <2>1. /\ pc.at = "unlock_wake" /\ pc'.at = "unlock_clear" /\ pc'.tid = pc.tid
        /\ state' = [ o \in Obj |-> IF o \in Range(blockedMutex) THEN READY
                                                                ELSE state[o] ]
        /\ UNCHANGED << blockedMutex, mutex, armed >>
    BY <1>8 DEF UnlockWake, Woken, Goto, At
  <2>2. state'[Self] = BLOCKED => state[Self] = BLOCKED
    BY <1>1, <2>1 DEF READY, BLOCKED
  <2> QED
    BY <1>1, <1>10, <1>11, <2>1, <2>2
    DEF WInv, RunnerNotBlocked, HolderNotListed, InLock, FreeIsEmpty, GivenBack,
        TimerStopped, SchedLabels, EndLabels, LockLabels
<1>9. CASE UnlockClear
  <2>1. /\ pc.at = "unlock_clear" /\ blockedMutex' = << >>
        /\ \/ pc'.at = "user" /\ pc.tid = NoTid
           \/ pc'.at = "term_clear" /\ pc'.tid = pc.tid
        /\ UNCHANGED << mutex, state, armed >>
    BY <1>9 DEF UnlockClear, UnlockReturn, User, At, thread
  <2>2. Range(blockedMutex') = {}
    BY <2>1 DEF Range
  <2>3. mutex = NoTid
    BY <2>1 DEF WInv, GivenBack
  <2>4. \A o \in Live : tidOf[o] # NoTid
    BY LiveFacts DEF Tid, NoTid
  <2> QED
    BY <1>1, <1>10, <1>11, <2>1, <2>2, <2>3, <2>4
    DEF WInv, RunnerNotBlocked, HolderNotListed, InLock, FreeIsEmpty, GivenBack,
        TimerStopped, SchedLabels, EndLabels, LockLabels
<1> QED
  BY <1>2, <1>3, <1>4, <1>5, <1>6, <1>7, <1>8, <1>9 DEF CallStep

LEMMA NextWInv ==
  Inv /\ MInv /\ LInv /\ WInv /\ [WholeNext]_vars => WInv'
<1> SUFFICES ASSUME Inv, MInv, LInv, WInv, [WholeNext]_vars PROVE WInv'
  OBVIOUS
<1>1. CASE UNCHANGED vars
  BY <1>1 DEF vars, WInv, RunnerNotBlocked, HolderNotListed, InLock, FreeIsEmpty,
     GivenBack, TimerStopped, MainNotSuspended, SpawnsLeast, claims, Contain, Self, Live
<1>2. CASE WholeNext
  BY <1>2, PcOnlyWInv, EnterWInv, EraseWInv, DispatchWInv, SpawnNewWInv,
     TermClearWInv, CallStepWInv DEF WholeNext, Library, Client, PcOnly, CallStep
<1> QED
  BY <1>1, <1>2
-----------------------------------------------------------------------------
(***************************************************************************)
(* When no thread ends another: the lists have entries of live threads     *)
(* only, so that no ID is reused while one is left.                        *)
(***************************************************************************)
\* A waiter that is gone was ended by the fault of a scheduler that found
\* nobody to run.
WaitersLive ==
  \A o \in Range(blockedMutex) : queue[tidOf[o]] = o \/ (pc.at = "spin" /\ ~armed)

\* Who is listed as a waiter is inside uthread_mutex_lock.
LockersInside ==
  \A o \in Live : o \in Range(blockedMutex) =>
    IF o = Self /\ pc.at \notin SchedLabels \cup { "jump" }
      THEN \/ pc.at \in LockLabels
           \/ ~armed /\ pc.at \in EndLabels \cup { "segv", "exit" }
      ELSE ctx[o].at = "lock_test"

EInv == EntriesLive /\ WaitersLive /\ LockersInside

LEMMA InitEInv == Init => EInv
<1> SUFFICES ASSUME Init PROVE EInv
  OBVIOUS
<1>1. 0 \in Tid /\ 1 \in Obj /\ Range(fifo) = {1} /\ Range(blockedMutex) = {}
  BY UthreadsAssumption DEF Tid, Obj, Init, Range
<1> QED
  BY <1>1 DEF Init, EInv, EntriesLive, WaitersLive, LockersInside

\* An entry is that of the live thread unless the scheduler works.
LEMMA ListsLive ==
  ASSUME Inv, LInv, EInv
  PROVE  /\ Range(fifo) \subseteq Obj /\ Range(blockedMutex) \subseteq Obj
         /\ pc.at \notin SchedLabels \cup { "spin" } =>
              \A o \in Range(fifo) : queue[tidOf[o]] = o
         /\ pc.at # "spin" => \A o \in Range(blockedMutex) : queue[tidOf[o]] = o
<1>1. fifo \in Seq(Obj \cup {NoObj}) /\ blockedMutex \in Seq(Obj \cup {NoObj})
  BY DEF Inv, TypeOK
<1>2. Range(fifo) \subseteq Obj /\ Range(blockedMutex) \subseteq Obj
  BY <1>1 DEF Range, LInv, NoNull
<1> QED
  BY <1>2 DEF EInv, EntriesLive, WaitersLive

LEMMA PcOnlyEInv ==
  ASSUME "terminate" \notin Ops
  PROVE  Inv /\ MInv /\ LInv /\ WInv /\ EInv /\ PcOnly => EInv'
<1> SUFFICES ASSUME Inv, MInv, LInv, WInv, EInv, PcOnly PROVE EInv'
  OBVIOUS
<1>1. /\ UNCHANGED << queue, fifo, blockedMutex, mutex, cur, tidOf, ctx, armed >>
      /\ Live' = Live /\ Self' = Self
  BY DEF PcOnly, Spawn, Terminate, TermStart, TermTest, ThreadEnds, Segv, Jump,
     SchedulerFault, Block, Resume, Lock, LockTest, Unlock, lists, thread, Live, Self
<1>2. pc.at # "spin"
  BY DEF PcOnly, Spawn, Terminate, TermStart, TermTest, ThreadEnds, Segv, Jump,
     SchedulerFault, Block, Resume, Lock, LockTest, Unlock, Calls, InClient, InScheduler,
     SchedLabels
<1>3. \A o \in Range(fifo) : queue[tidOf[o]] = o
  <2>1. CASE SchedulerFault
    <3>1. ~HasNull
      BY DEF LInv, NoNull, HasNull, Range
    <3>2. \A i \in DOMAIN fifo : queue[tidOf[fifo[i]]] # NoObj
      BY <2>1, <3>1 DEF SchedulerFault, HasGone, Gone
    <3> QED
      BY <3>2 DEF EInv, EntriesLive, Range
  <2>2. CASE ~SchedulerFault
    <3>1. pc.at \notin SchedLabels
      BY <2>2 DEF PcOnly, Spawn, Terminate, TermStart, TermTest, ThreadEnds, Segv, Jump,
         Block, Resume, Lock, LockTest, Unlock, Calls, InClient, SchedLabels
    <3> QED
      BY <1>2, <3>1, ListsLive
  <2> QED
    BY <2>1, <2>2
<1>4. LockersInside'
  <2> SUFFICES ASSUME NEW o \in Live, o \in Range(blockedMutex),
                      IF o = Self /\ pc.at \notin SchedLabels \cup { "jump" }
                        THEN \/ pc.at \in LockLabels
                             \/ ~armed /\ pc.at \in EndLabels \cup { "segv", "exit" }
                        ELSE ctx[o].at = "lock_test"
               PROVE  IF o = Self /\ pc'.at \notin SchedLabels \cup { "jump" }
                        THEN \/ pc'.at \in LockLabels
                             \/ ~armed /\ pc'.at \in EndLabels \cup { "segv", "exit" }
                        ELSE ctx[o].at = "lock_test"
    BY <1>1 DEF EInv, LockersInside
  <2>1. pc'.at \notin SchedLabels \cup { "jump" }
    <3>1. CASE Jump
      BY <3>1 DEF Jump, MInv, StoppedOutside, Inv, TypeOK, CurrentIsLive, SchedLabels, Self
    <3>2. CASE ~Jump
      BY <3>2 DEF PcOnly, Spawn, Terminate, TermStart, TermTest, ThreadEnds, Segv,
         SchedulerFault, Block, Resume, Lock, LockTest, Unlock, Goto, At, SchedLabels
    <3> QED
      BY <3>1, <3>2
  <2>2. CASE o # Self
    BY <2>1, <2>2
  <2>3. CASE o = Self
    <3>1. CASE Spawn \/ Terminate \/ ThreadEnds \/ Block \/ Resume \/ Lock \/ Unlock
      BY <2>3, <3>1 DEF Spawn, Terminate, ThreadEnds, Block, Resume, Lock, Unlock, Calls,
         InClient, SchedLabels, LockLabels, EndLabels
    <3>2. CASE TermStart \/ TermTest
      BY <2>1, <2>3, <3>2 DEF TermStart, TermTest, Goto, At, SchedLabels, LockLabels, EndLabels
    <3>3. CASE Segv
      <4>1. Contain(cur)
        BY <2>3, LiveFacts DEF Contain, Self
      <4> QED
        BY <2>1, <2>3, <3>3, <4>1 DEF Segv, Goto, At, SchedLabels, LockLabels, EndLabels
    <3>4. CASE Jump
      BY <2>1, <2>3, <3>4 DEF Jump, LockLabels
    <3>5. CASE SchedulerFault
      BY <2>1, <2>3, <3>5
      DEF SchedulerFault, InScheduler, Goto, At, WInv, TimerStopped
    <3>6. CASE LockTest
      <4>1. mutex # NoTid
        BY <3>6 DEF LockTest, WInv, FreeIsEmpty
      <4> QED
        BY <2>1, <2>3, <3>6, <4>1 DEF LockTest, Goto, At, LockLabels
    <3> QED
      BY <3>1, <3>2, <3>3, <3>4, <3>5, <3>6 DEF PcOnly
  <2> QED
    BY <2>2, <2>3
<1> QED
  BY <1>1, <1>2, <1>3, <1>4, ListsLive DEF EInv, EntriesLive, WaitersLive

LEMMA EnterEInv ==
  Inv /\ LInv /\ EInv /\ (TimerBetween \/ BlockRaise \/ LockRaise) => EInv'
<1> SUFFICES ASSUME Inv, LInv, EInv, TimerBetween \/ BlockRaise \/ LockRaise PROVE EInv'
  OBVIOUS
<1>1. PICK sig, k :
        /\ EnterScheduler(sig, k)
        /\ \/ pc.at \in { "user", "block_raise" }
           \/ pc.at = "spin" /\ armed
           \/ pc.at = "lock_raise" /\ k.at = "lock_test"
  <2>1. CASE TimerBetween
    BY <2>1 DEF TimerBetween, Timer, ClientLabels
  <2>2. CASE BlockRaise
    BY <2>2 DEF BlockRaise
  <2>3. CASE LockRaise
    BY <2>3 DEF LockRaise, Retry, At
  <2> QED
    BY <2>1, <2>2, <2>3
<1>2. /\ UNCHANGED << queue, blockedMutex, cur, tidOf >>
      /\ pc'.at \in SchedLabels
      /\ Live' = Live /\ Self' = Self
  BY <1>1 DEF EnterScheduler, Goto, At, SchedLabels, Live, Self
<1>3. Contain(cur) => Self \in Obj /\ queue[tidOf[Self]] = Self
  BY LiveFacts DEF Contain, Self, Inv, SlotMatches
<1>4. EntriesLive'
  <2>1. \A o \in Range(fifo') : o \in Range(fifo) \/ (Contain(cur) /\ o = Self)
    <3>1. CASE Contain(cur)
      <4>1. fifo' = Requeue(sig) /\ fifo \in Seq(Obj \cup {NoObj})
        BY <1>1, <3>1 DEF EnterScheduler, Inv, TypeOK
      <4>2. Range(fifo') \subseteq Range(fifo) \cup {Self}
        BY <1>3, <3>1, <4>1, RangeAppend DEF Requeue
      <4> QED
        BY <3>1, <4>2
    <3>2. CASE ~Contain(cur)
      BY <1>1, <3>2 DEF EnterScheduler
    <3> QED
      BY <3>1, <3>2
  <2> QED
    BY <1>2, <1>3, <2>1 DEF EInv, EntriesLive
<1>5. WaitersLive'
  BY <1>1, <1>2 DEF EInv, WaitersLive
<1>6. LockersInside'
  <2> SUFFICES ASSUME NEW o \in Live, o \in Range(blockedMutex)
               PROVE  ctx'[o].at = "lock_test"
    BY <1>2 DEF LockersInside
  <2>1. CASE o = Self
    <3>1. Contain(cur)
      BY <2>1, LiveFacts DEF Contain, Self
    <3>2. pc.at = "lock_raise" /\ k.at = "lock_test"
      BY <1>1, <2>1 DEF EInv, LockersInside, LockLabels, EndLabels, SchedLabels
    <3> QED
      BY <1>1, <1>3, <2>1, <3>1, <3>2 DEF EnterScheduler, Inv, TypeOK
  <2>2. CASE o # Self
    <3>1. ctx[o].at = "lock_test" /\ o \in Obj
      BY <2>2, LiveFacts DEF EInv, LockersInside
    <3> QED
      BY <1>1, <2>2, <3>1 DEF EnterScheduler, Inv, TypeOK
  <2> QED
    BY <2>1, <2>2
<1> QED
  BY <1>4, <1>5, <1>6 DEF EInv

LEMMA EraseEInv == Inv /\ EInv /\ (PurgeDead \/ DropBlocked) => EInv'
<1> SUFFICES ASSUME Inv, EInv, PurgeDead \/ DropBlocked PROVE EInv'
  OBVIOUS
<1>1. /\ UNCHANGED << queue, blockedMutex, cur, tidOf, ctx, pc, armed >>
      /\ Live' = Live /\ Self' = Self
  BY DEF PurgeDead, DropBlocked, thread, Live, Self
<1>2. Range(fifo') \subseteq Range(fifo)
  BY RangeRemoveAt DEF PurgeDead, DropBlocked, Inv, TypeOK
<1> QED
  BY <1>1, <1>2 DEF EInv, EntriesLive, WaitersLive, LockersInside

LEMMA DispatchEInv == Inv /\ MInv /\ LInv /\ EInv /\ Dispatch => EInv'
<1> SUFFICES ASSUME Inv, MInv, LInv, EInv, Dispatch PROVE EInv'
  OBVIOUS
<1>1. /\ UNCHANGED << queue, blockedMutex, tidOf, ctx >>
      /\ Live' = Live
      /\ pc.at \in SchedLabels
      /\ pc'.at \in { "jump", "user", "lock_test" }
      /\ pc'.at # "jump" => pc'.at = ctx[Self'].at
      /\ \A i \in DOMAIN fifo : queue[tidOf[fifo[i]]] # NoObj
  BY DispatchFacts
<1>2. Range(fifo') \subseteq Range(fifo)
  BY DispatchFacts, RangeRemoveAt DEF Inv, TypeOK
<1>3. \A o \in Range(fifo) : queue[tidOf[o]] = o
  BY <1>1 DEF EInv, EntriesLive, Range
<1>4. \A o \in Range(blockedMutex) : queue[tidOf[o]] = o
  BY <1>1, ListsLive DEF SchedLabels
<1>5. \A o \in Live : o \in Range(blockedMutex) => ctx[o].at = "lock_test"
  BY <1>1 DEF EInv, LockersInside
<1> QED
  BY <1>1, <1>2, <1>3, <1>4, <1>5
  DEF EInv, EntriesLive, WaitersLive, LockersInside, LockLabels

LEMMA SpawnNewEInv == Inv /\ MInv /\ LInv /\ EInv /\ SpawnNew => EInv'
<1> SUFFICES ASSUME Inv, MInv, LInv, EInv, SpawnNew PROVE EInv'
  OBVIOUS
<1>1. PICK o \in Obj \ Reachable :
        /\ o \notin Range(fifo) /\ o \notin Range(blockedMutex)
        /\ Live' \subseteq Live \cup {o}
        /\ \A p \in Obj \ {o} : tidOf'[p] = tidOf[p] /\ ctx'[p] = ctx[p]
  BY SpawnFacts
<1>2. /\ pc.at = "spawn_new" /\ pc'.at = "spawn_push"
      /\ UNCHANGED << fifo, blockedMutex >>
      /\ Self' = Self
      /\ queue[pc.tid] = NoObj
      /\ \A t \in Tid : t # pc.tid => queue'[t] = queue[t]
  BY SpawnFacts DEF lists
<1>3. ASSUME NEW p \in Range(fifo) \cup Range(blockedMutex)
      PROVE  queue'[tidOf'[p]] = p
  <2>1. p \in Obj /\ queue[tidOf[p]] = p /\ p # NoObj
    BY <1>2, ListsLive DEF SchedLabels, Obj, NoObj
  <2>2. tidOf[p] \in Tid /\ tidOf[p] # pc.tid
    BY <1>2, <2>1 DEF Inv, TypeOK
  <2>3. tidOf'[p] = tidOf[p]
    BY <1>1, <2>1
  <2> QED
    BY <1>2, <2>1, <2>2, <2>3
<1>4. LockersInside'
  <2> SUFFICES ASSUME NEW p \in Live', p \in Range(blockedMutex)
               PROVE  p # Self /\ ctx'[p].at = "lock_test"
    BY <1>2 DEF LockersInside
  <2>1. p \in Live /\ p # o /\ p \in Obj
    BY <1>1, ListsLive
  <2> QED
    BY <1>1, <1>2, <2>1 DEF EInv, LockersInside, LockLabels, EndLabels, SchedLabels
<1> QED
  BY <1>2, <1>3, <1>4 DEF EInv, EntriesLive, WaitersLive

\* A thread that ends is not listed as a waiter, unless after that fault.
LEMMA TermClearEInv == Inv /\ LInv /\ HInv /\ EInv /\ TermClear => EInv'
<1> SUFFICES ASSUME Inv, LInv, HInv, EInv, TermClear PROVE EInv'
  OBVIOUS
<1>1. /\ pc.at = "term_clear" /\ pc.tid = cur /\ cur \in Tid
      /\ queue'[cur] = NoObj
      /\ \A t \in Tid : t # cur => queue'[t] = queue[t]
      /\ Live' = Live \ {Self}
      /\ pc'.at = "spin" /\ Self' = NoObj
      /\ UNCHANGED << fifo, blockedMutex, tidOf, ctx, armed >>
  BY TermFacts DEF HInv, EndsItself, lists, thread, Self
<1>2. \A o \in Range(fifo) \cup Range(blockedMutex) :
        o \in Obj /\ queue[tidOf[o]] = o /\ tidOf[o] \in Tid
  BY <1>1, ListsLive DEF SchedLabels, Inv, TypeOK
<1>3. EntriesLive'
  BY <1>1, <1>2 DEF EntriesLive
<1>4. WaitersLive'
  <2> SUFFICES ASSUME NEW o \in Range(blockedMutex), tidOf[o] = cur PROVE ~armed
    BY <1>1, <1>2 DEF WaitersLive
  <2>1. o = Self /\ o \in Live
    BY <1>1, <1>2, LiveFacts DEF Self, Obj, NoObj
  <2> QED
    BY <1>1, <2>1 DEF EInv, LockersInside, LockLabels, SchedLabels
<1>5. LockersInside'
  <2>1. NoObj \notin Live
    BY LiveFacts
  <2> QED
    BY <1>1, <2>1 DEF EInv, LockersInside
<1> QED
  BY <1>3, <1>4, <1>5 DEF EInv

LEMMA CallStepEInv == Inv /\ MInv /\ LInv /\ WInv /\ EInv /\ CallStep => EInv'
<1> SUFFICES ASSUME Inv, MInv, LInv, WInv, EInv, CallStep PROVE EInv'
  OBVIOUS
<1>1. /\ UNCHANGED << queue, cur, tidOf, ctx, armed >>
      /\ Live' = Live /\ Self' = Self
      /\ Self \in Live /\ Self \in Obj /\ queue[tidOf[Self]] = Self
      /\ pc.at \notin SchedLabels \cup { "spin", "jump" }
      /\ pc'.at \notin SchedLabels \cup { "spin", "jump" }
  BY CallStepFacts, LiveFacts
  DEF CallStep, SpawnPush, BlockSet, ResumeSet, ResumePush, LockPush, LockBlock, LockTake,
      UnlockFree, UnlockWake, UnlockClear, UnlockReturn, Goto, Return, User, At, SchedLabels
<1>2. /\ \A o \in Range(fifo) : queue[tidOf[o]] = o
      /\ \A o \in Range(blockedMutex) : queue[tidOf[o]] = o
  BY <1>1, ListsLive
<1> DEFINE Inside == \/ pc.at \in LockLabels
                     \/ ~armed /\ pc.at \in EndLabels \cup { "segv", "exit" }
<1>3. /\ Self \in Range(blockedMutex) => Inside
      /\ \A o \in Live : o \in Range(blockedMutex) /\ o # Self => ctx[o].at = "lock_test"
  BY <1>1 DEF EInv, LockersInside
<1>4. CASE SpawnPush \/ ResumePush
  <2> DEFINE o == queue[pc.tid]
  <2>1. /\ pc.at \in { "spawn_push", "resume_push" }
        /\ fifo' = Append(fifo, o) /\ UNCHANGED blockedMutex
    BY <1>4 DEF SpawnPush, ResumePush
  <2>2. o \in Live /\ o \in Obj /\ queue[tidOf[o]] = o
    BY <2>1, CallStepFacts, LiveFacts DEF TidLabels, LInv, StepsAreTimely, Contain
  <2>3. Range(fifo') = Range(fifo) \cup {o}
    BY <2>1, <2>2, CallStepFacts, RangeAppend
  <2>4. Self \notin Range(blockedMutex)
    BY <1>3, <2>1 DEF LockLabels, EndLabels
  <2> QED
    BY <1>1, <1>2, <1>3, <2>1, <2>2, <2>3, <2>4
    DEF EInv, EntriesLive, WaitersLive, LockersInside
<1>5. CASE BlockSet \/ ResumeSet
  <2>1. pc.at \in { "block_set", "resume_set" } /\ UNCHANGED lists
    BY <1>5 DEF BlockSet, ResumeSet
  <2>2. Self \notin Range(blockedMutex)
    BY <1>3, <2>1 DEF LockLabels, EndLabels
  <2> QED
    BY <1>1, <1>2, <1>3, <2>1, <2>2 DEF EInv, EntriesLive, WaitersLive, LockersInside, lists
<1>6. CASE LockPush
  <2>1. /\ blockedMutex' = Append(blockedMutex, Self) /\ UNCHANGED fifo
        /\ pc'.at \in LockLabels
    BY <1>6 DEF LockPush, Goto, At, LockLabels
  <2>2. Range(blockedMutex') = Range(blockedMutex) \cup {Self}
    BY <2>1, CallStepFacts, RangeAppend
  <2> QED
    BY <1>1, <1>2, <1>3, <2>1, <2>2 DEF EInv, EntriesLive, WaitersLive, LockersInside
<1>7. CASE LockBlock \/ UnlockFree
  <2>1. /\ UNCHANGED lists
        /\ \/ pc'.at \in LockLabels
           \/ pc.at = "unlock_free" /\ pc'.at = "unlock_wake"
    BY <1>7 DEF LockBlock, UnlockFree, Goto, At, LockLabels
  <2>2. Self \in Range(blockedMutex) =>
          pc'.at \in LockLabels \/ (~armed /\ pc'.at \in EndLabels)
    BY <1>3, <2>1 DEF LockLabels, EndLabels
  <2> QED
    BY <1>1, <1>2, <1>3, <2>1, <2>2 DEF EInv, EntriesLive, WaitersLive, LockersInside, lists
<1>8. CASE LockTake
  <2>1. pc.at = "lock_take" /\ UNCHANGED lists
    BY <1>8 DEF LockTake
  <2>2. Range(blockedMutex) = {}
    BY <2>1 DEF MInv, CallsAreTimely, WInv, FreeIsEmpty
  <2> QED
    BY <1>1, <1>2, <2>1, <2>2 DEF EInv, EntriesLive, WaitersLive, LockersInside, lists
<1>9. CASE UnlockWake
  <2>1. /\ pc.at = "unlock_wake" /\ fifo' = fifo \o blockedMutex /\ UNCHANGED blockedMutex
    BY <1>9 DEF UnlockWake, WokenEntries
  <2>2. Range(fifo') = Range(fifo) \cup Range(blockedMutex)
    BY <2>1, CallStepFacts, RangeConcat
  <2>3. Self \notin Range(blockedMutex)
    BY <2>1 DEF WInv, HolderNotListed
  <2> QED
    BY <1>1, <1>2, <1>3, <2>1, <2>2, <2>3 DEF EInv, EntriesLive, WaitersLive, LockersInside
<1>10. CASE UnlockClear
  <2>1. blockedMutex' = << >> /\ UNCHANGED fifo
    BY <1>10 DEF UnlockClear
  <2>2. Range(blockedMutex') = {}
    BY <2>1 DEF Range
  <2> QED
    BY <1>1, <1>2, <2>1, <2>2 DEF EInv, EntriesLive, WaitersLive, LockersInside
<1> QED
  BY <1>4, <1>5, <1>6, <1>7, <1>8, <1>9, <1>10 DEF CallStep

LEMMA NextEInv ==
  ASSUME "terminate" \notin Ops
  PROVE  Inv /\ MInv /\ LInv /\ WInv /\ HInv /\ EInv /\ [WholeNext]_vars => EInv'
<1> SUFFICES ASSUME Inv, MInv, LInv, WInv, HInv, EInv, [WholeNext]_vars PROVE EInv'
  OBVIOUS
<1>1. CASE UNCHANGED vars
  BY <1>1 DEF vars, EInv, EntriesLive, WaitersLive, LockersInside, Live, Self
<1>2. CASE WholeNext
  BY <1>2, PcOnlyEInv, EnterEInv, EraseEInv, DispatchEInv, SpawnNewEInv,
     TermClearEInv, CallStepEInv DEF WholeNext, Library, Client, PcOnly, CallStep
<1> QED
  BY <1>1, <1>2
-----------------------------------------------------------------------------
(***************************************************************************)
(* Each step of the library is one of the scheduler of whole calls, or     *)
(* none: a call counts as made in the step that settles what comes of it.  *)
(***************************************************************************)
\* The status of a thread, state by state.
LEMMA StatusNow ==
  ASSUME NEW t \in Tid
  PROVE  /\ Statuses[t] = StatusOf(t)
         /\ queue[t] = NoObj => Statuses[t] = "none"
         /\ queue[t] # NoObj /\ t = cur /\ pc.at \notin Stopping => Statuses[t] = "running"
         /\ queue[t] # NoObj /\ t = cur /\ pc.at = "lock_block" => Statuses[t] = "blocked"
         /\ queue[t] # NoObj /\ (t # cur \/ pc.at \in Stopping \ { "lock_block" }) =>
              Statuses[t] = IF state[queue[t]] = BLOCKED THEN "blocked" ELSE "ready"
BY DEF Statuses, StatusOf, Stopping

LEMMA StatusThen ==
  ASSUME NEW t \in Tid
  PROVE  /\ Statuses'[t] = StatusOf(t)'
         /\ queue'[t] = NoObj => Statuses'[t] = "none"
         /\ queue'[t] # NoObj /\ t = cur' /\ pc'.at \notin Stopping => Statuses'[t] = "running"
         /\ queue'[t] # NoObj /\ t = cur' /\ pc'.at = "lock_block" => Statuses'[t] = "blocked"
         /\ queue'[t] # NoObj /\ (t # cur' \/ pc'.at \in Stopping \ { "lock_block" }) =>
              Statuses'[t] = IF state'[queue'[t]] = BLOCKED THEN "blocked" ELSE "ready"
BY DEF Statuses, StatusOf, Stopping

\* Nothing changes for the client, or the status of one thread.
LEMMA SameStatus ==
  ASSUME \A t \in Tid : Statuses'[t] = Statuses[t]
  PROVE  Statuses' = Statuses
BY DEF Statuses

LEMMA OneStatus ==
  ASSUME NEW t \in Tid, NEW s, Statuses'[t] = s,
         \A u \in Tid : u # t => Statuses'[u] = Statuses[u]
  PROVE  Threads!Become(t, s)
BY DEF Threads!Become, Statuses

SStep == Threads!Step \/ UNCHANGED << Statuses, Holder, Waiters >>

LEMMA TidIsTid == Threads!Tid = Tid /\ Threads!NoTid = NoTid
BY DEF Threads!Tid, Tid, Threads!NoTid, NoTid

LEMMA WaitersNow ==
  ASSUME NEW t \in Tid
  PROVE  t \in Waiters <=>
           pc.at # "unlock_clear" /\ queue[t] # NoObj /\ queue[t] \in Range(blockedMutex)
BY DEF Waiters, Contain

\* The waiters stay the same as long as slots and list do.
LEMMA SameWaiters ==
  ASSUME UNCHANGED << queue, blockedMutex >>,
         pc.at # "unlock_clear", pc'.at # "unlock_clear"
  PROVE  Waiters' = Waiters
BY DEF Waiters, Contain

\* A step that only moves the processor on, between points of the code that
\* settle nothing.
LEMMA PcStepS ==
  ASSUME UNCHANGED << queue, blockedMutex, mutex, cur, state >>,
         pc.at \notin { "unlock_wake", "unlock_clear" },
         pc'.at \notin { "unlock_wake", "unlock_clear" },
         \/ pc.at \notin Stopping /\ pc'.at \notin Stopping
         \/ /\ pc.at \in Stopping \ { "lock_block" }
            /\ pc'.at \in Stopping \ { "lock_block" }
         \/ ~Contain(cur)
  PROVE  UNCHANGED << Statuses, Holder, Waiters >>
<1>1. Statuses' = Statuses
  <2> SUFFICES ASSUME NEW t \in Tid PROVE Statuses'[t] = Statuses[t]
    BY SameStatus
  <2> QED
    BY StatusNow, StatusThen DEF Contain
<1>2. Holder' = Holder /\ Waiters' = Waiters
  BY SameWaiters DEF Holder
<1> QED
  BY <1>1, <1>2

LEMMA PcOnlyS ==
  Inv /\ MInv /\ PcOnly /\ ~SchedulerFault => UNCHANGED << Statuses, Holder, Waiters >>
<1> SUFFICES ASSUME Inv, MInv, PcOnly, ~SchedulerFault
             PROVE  UNCHANGED << Statuses, Holder, Waiters >>
  OBVIOUS
<1>1. UNCHANGED << queue, blockedMutex, mutex, cur, state >>
  BY DEF PcOnly, Spawn, Terminate, TermStart, TermTest, ThreadEnds, Segv, Jump,
     Block, Resume, Lock, LockTest, Unlock, lists, thread
<1>2. pc.at \notin Stopping \cup { "unlock_wake", "unlock_clear" }
  BY DEF PcOnly, Spawn, Terminate, TermStart, TermTest, ThreadEnds, Segv, Jump, Block,
     Resume, Lock, LockTest, Unlock, Calls, InClient, Stopping, SchedLabels
<1>3. pc'.at \notin Stopping \cup { "unlock_wake", "unlock_clear" }
  <2>1. CASE Jump
    <3>1. Self \in Obj
      BY <2>1 DEF Jump, Inv, TypeOK, CurrentIsLive, SchedLabels, Self
    <3> QED
      BY <2>1, <3>1 DEF Jump, MInv, StoppedOutside, Stopping, SchedLabels
  <2>2. CASE ~Jump
    BY <2>2 DEF PcOnly, Spawn, Terminate, TermStart, TermTest, ThreadEnds, Segv, Block,
       Resume, Lock, LockTest, Unlock, Goto, At, Stopping, SchedLabels
  <2> QED
    BY <2>1, <2>2
<1> QED
  BY <1>1, <1>2, <1>3, PcStepS

\* The scheduler finds nobody to run: main waits, and the thread that ran last
\* runs into the fault.
LEMMA FaultS == Inv /\ LInv /\ WInv /\ SchedulerFault => SStep
<1> SUFFICES ASSUME Inv, LInv, WInv, SchedulerFault PROVE SStep
  OBVIOUS
<1>1. /\ pc.at \in SchedLabels /\ pc'.at = "segv"
      /\ UNCHANGED << queue, blockedMutex, mutex, cur, state >>
  BY DEF SchedulerFault, InScheduler, Goto, At, lists, thread
<1>2. CASE ~Contain(cur)
  BY <1>1, <1>2, PcStepS DEF SStep, Stopping, SchedLabels
<1>3. CASE Contain(cur)
  <2>1. \A o \in Live : state[o] = BLOCKED
    <3> SUFFICES ASSUME NEW o \in Live, state[o] # BLOCKED PROVE FALSE
      OBVIOUS
    <3>1. o \in Obj /\ tidOf[o] \in Tid /\ queue[tidOf[o]] = o /\ o # NoObj
      BY LiveFacts
    <3>2. state[o] = READY
      BY <1>1, <3>1 DEF Inv, TypeOK, RunningIsCurrent
    <3>3. o \in Range(fifo)
      BY <1>1, <3>2 DEF LInv, ReadyListed, InTransit, SchedLabels
    <3>4. ~HasNull
      BY DEF LInv, NoNull, HasNull, Range
    <3> QED
      BY <3>2, <3>3, <3>4 DEF SchedulerFault, Range, READY, RUNNING
  <2>2. \A t \in Tid : Statuses[t] \in { "none", "blocked" }
    <3> SUFFICES ASSUME NEW t \in Tid, queue[t] # NoObj PROVE Statuses[t] = "blocked"
      BY StatusNow
    <3>1. state[queue[t]] = BLOCKED
      BY <2>1, LiveFacts
    <3> QED
      BY <1>1, <3>1, StatusNow DEF Stopping, SchedLabels
  <2>3. queue[0] \in Range(blockedMutex) /\ mutex # NoTid /\ mutex # 0
    <3>1. queue[0] \in Live /\ tidOf[queue[0]] = 0
      BY LiveFacts DEF LInv, MainStays, Contain, Inv, SlotMatches
    <3>2. ctx[queue[0]].at = "lock_test"
      BY <1>1, <2>1, <3>1 DEF LInv, MainBlocks, SchedLabels
    <3>3. BlockedByLock(queue[0])
      BY <1>1, <2>1, <3>1, <3>2 DEF BlockedByLock, WInv, MainNotSuspended
    <3>4. queue[0] \in Range(blockedMutex) /\ mutex # NoTid
      BY <1>1, <3>1, <3>3 DEF LInv, WaitersFound, SchedLabels
    <3> QED
      BY <3>1, <3>4 DEF WInv, HolderNotListed
  <2>4. 0 \in Tid /\ cur \in Tid /\ 0 \in Waiters /\ Holder = mutex
    BY <1>1, <2>3, LiveFacts, WaitersNow DEF Holder, LInv, MainStays, Contain, SchedLabels
  <2>5. Statuses[cur] # "none"
    BY <1>1, <1>3, <2>4, StatusNow DEF Contain, Stopping, SchedLabels
  <2>6. Threads!Become(cur, "running")
    <3>1. Statuses'[cur] = "running"
      BY <1>1, <1>3, <2>4, StatusThen DEF Contain, Stopping, SchedLabels
    <3>2. \A u \in Tid : u # cur => Statuses'[u] = Statuses[u]
      BY <1>1, StatusNow, StatusThen
    <3> QED
      BY <2>4, <3>1, <3>2, OneStatus
  <2>7. Holder' = Holder /\ Waiters' = Waiters
    BY <1>1, SameWaiters DEF Holder, SchedLabels
  <2>8. Threads!Fault(cur)
    BY <2>2, <2>3, <2>4, <2>5, <2>6, <2>7, TidIsTid
    DEF Threads!Fault, Threads!Used, Threads!mutex
  <2> QED
    BY <2>4, <2>8, TidIsTid DEF SStep, Threads!Step
<1> QED
  BY <1>2, <1>3

LEMMA OtherSlot ==
  ASSUME Inv, NEW t \in Tid, NEW u \in Tid, t # u, queue[t] # NoObj
  PROVE  queue[t] # queue[u]
BY DEF Inv, SlotMatches

\* A thread that stops because its quantum has ended is ready; one that stops
\* by itself was blocked before.
LEMMA EnterS ==
  Inv /\ LInv /\ WInv /\ (TimerBetween \/ BlockRaise \/ LockRaise) => SStep
<1> SUFFICES ASSUME Inv, LInv, WInv, TimerBetween \/ BlockRaise \/ LockRaise PROVE SStep
  OBVIOUS
<1>1. PICK sig, k :
        /\ EnterScheduler(sig, k)
        /\ pc.at \in { "user", "spin", "block_raise", "lock_raise" }
  <2>1. CASE TimerBetween
    BY <2>1 DEF TimerBetween, Timer, ClientLabels
  <2>2. CASE BlockRaise
    BY <2>2 DEF BlockRaise
  <2>3. CASE LockRaise
    BY <2>3 DEF LockRaise
  <2> QED
    BY <2>1, <2>2, <2>3
<1>2. /\ UNCHANGED << queue, blockedMutex, mutex, cur >>
      /\ pc'.at \in SchedLabels
      /\ cur \in Tid
  BY <1>1, LiveFacts DEF EnterScheduler, Goto, At, SchedLabels
<1>3. CASE ~Contain(cur)
  <2>1. state' = state
    BY <1>1, <1>3 DEF EnterScheduler
  <2> QED
    BY <1>1, <1>2, <1>3, <2>1, PcStepS DEF SStep, SchedLabels
<1>4. CASE Contain(cur) /\ pc.at \in { "block_raise", "lock_raise" }
  <2>1. state[Self] = BLOCKED /\ Self \in Obj
    BY <1>4, LiveFacts DEF LInv, StepsAreTimely, Contain, Self
  <2>2. state' = state
    BY <1>1, <1>4, <2>1 DEF EnterScheduler, Stopped, Inv, TypeOK, RUNNING, BLOCKED
  <2> QED
    BY <1>2, <1>4, <2>2, PcStepS DEF SStep, Stopping, SchedLabels
<1>5. CASE Contain(cur) /\ pc.at \in { "user", "spin" }
  <2>1. state[Self] # BLOCKED /\ Self \in Obj
    BY <1>5, LiveFacts
    DEF WInv, RunnerNotBlocked, SchedLabels, EndLabels, Contain, Self
  <2>2. /\ state'[Self] # BLOCKED
        /\ \A o \in Obj : o # Self => state'[o] = state[o]
    BY <1>1, <1>5, <2>1
    DEF EnterScheduler, Stopped, Inv, TypeOK, READY, BLOCKED
  <2>3. Statuses[cur] = "running" /\ Statuses'[cur] = "ready"
    BY <1>2, <1>5, <2>2, StatusNow, StatusThen DEF Contain, Self, Stopping, SchedLabels
  <2>4. ASSUME NEW u \in Tid, u # cur PROVE Statuses'[u] = Statuses[u]
    <3>1. queue[u] # NoObj => queue[u] \in Obj /\ queue[u] # Self
      BY <1>2, <2>4, OtherSlot, LiveFacts DEF Self
    <3> QED
      BY <1>2, <2>2, <2>4, <3>1, StatusNow, StatusThen
  <2>5. Threads!Become(cur, "ready")
    BY <1>2, <2>3, <2>4, OneStatus
  <2>6. Holder' = Holder /\ Waiters' = Waiters
    BY <1>2, <1>5, SameWaiters DEF Holder, SchedLabels
  <2>7. Threads!Preempt(cur)
    BY <2>3, <2>5, <2>6 DEF Threads!Preempt, Threads!Runs, Threads!mutex
  <2> QED
    BY <1>2, <2>7, TidIsTid DEF SStep, Threads!Step
<1> QED
  BY <1>1, <1>3, <1>4, <1>5

LEMMA EraseS == PurgeDead \/ DropBlocked => SStep
<1> SUFFICES ASSUME PurgeDead \/ DropBlocked PROVE SStep
  OBVIOUS
<1>1. /\ UNCHANGED << queue, blockedMutex, mutex, cur, state, pc >>
      /\ pc.at \in SchedLabels
  BY DEF PurgeDead, DropBlocked, thread, InScheduler
<1> QED
  BY <1>1, PcStepS DEF SStep, Stopping, SchedLabels

\* Who is run was stopped; and ready, unless the entry that was chosen is one of
\* a thread with the same ID that is gone.
LEMMA DispatchS == Inv /\ MInv /\ Dispatch => SStep
<1> SUFFICES ASSUME Inv, MInv, Dispatch PROVE SStep
  OBVIOUS
<1> DEFINE t == cur'
<1>1. /\ t \in Tid /\ queue[t] \in Obj /\ queue[t] # NoObj
      /\ UNCHANGED << queue, blockedMutex, mutex >>
      /\ pc.at \in SchedLabels /\ pc'.at \in { "jump", "user", "lock_test" }
      /\ state' = [ state EXCEPT ![queue[t]] = RUNNING ]
  BY DispatchFacts, LiveFacts
<1>2. PICK i \in DOMAIN fifo :
        fifo[i] \in Obj /\ t = tidOf[fifo[i]] /\ state[fifo[i]] = READY
  BY DispatchFacts
<1>3. \A u \in Tid : Statuses[u] # "running"
  BY <1>1, StatusNow DEF Stopping, SchedLabels
<1>4. Statuses[t] \in { "ready", "blocked" }
  BY <1>1, StatusNow DEF Stopping, SchedLabels
<1>5. Statuses[t] = "ready" \/ t \in StaleIds
  <2>1. CASE queue[t] = fifo[i]
    BY <1>1, <1>2, <2>1, StatusNow DEF Stopping, SchedLabels, READY, BLOCKED
  <2>2. CASE queue[t] # fifo[i]
    <3>1. fifo[i] \in Dead(fifo)
      BY <1>2, <2>2, LiveFacts DEF Dead, Range, Obj, NoObj
    <3>2. Contain(t) /\ ~Hangs
      BY <1>1 DEF Contain, Hangs, SchedLabels
    <3> QED
      BY <1>2, <3>1, <3>2 DEF StaleIds, StaleEntries
  <2> QED
    BY <2>1, <2>2
<1>6. Statuses'[t] = "running"
  BY <1>1, StatusThen DEF Stopping, SchedLabels
<1>7. ASSUME NEW u \in Tid, u # t PROVE Statuses'[u] = Statuses[u]
  <2>1. queue[u] # NoObj => state'[queue[u]] = state[queue[u]]
    BY <1>1, <1>7, OtherSlot, LiveFacts DEF Inv, TypeOK
  <2> QED
    BY <1>1, <1>7, <2>1, StatusNow, StatusThen DEF Stopping, SchedLabels
<1>8. Threads!Become(t, "running")
  BY <1>1, <1>6, <1>7, OneStatus
<1>9. Holder' = Holder /\ Waiters' = Waiters
  BY <1>1, SameWaiters DEF Holder, SchedLabels
<1>10. Threads!Run(t)
  BY <1>3, <1>4, <1>5, <1>8, <1>9, TidIsTid DEF Threads!Run, Threads!Runs, Threads!mutex
<1> QED
  BY <1>1, <1>10, TidIsTid DEF SStep, Threads!Step

\* The new thread takes the least ID that is not in use.
LEMMA SpawnNewS == Inv /\ MInv /\ LInv /\ WInv /\ SpawnNew => SStep
<1> SUFFICES ASSUME Inv, MInv, LInv, WInv, SpawnNew PROVE SStep
  OBVIOUS
<1> DEFINE t == pc.tid
<1>1. /\ pc.at = "spawn_new" /\ pc'.at = "spawn_push"
      /\ t \in Tid /\ queue[t] = NoObj /\ t # cur
      /\ UNCHANGED << blockedMutex, mutex, cur >>
      /\ cur \in Tid /\ Self # NoObj /\ Self' = Self
      /\ \A u \in Tid : u # t => queue'[u] = queue[u]
  BY SpawnFacts, LiveFacts DEF lists
<1>2. PICK o \in Obj \ Reachable :
        /\ o \notin Live /\ o \notin Range(blockedMutex)
        /\ queue'[t] = o /\ state'[o] = READY
        /\ \A p \in Obj \ {o} : state'[p] = state[p]
  BY SpawnFacts
<1>3. o # NoObj
  BY DEF Obj, NoObj
<1>4. Statuses[cur] = "running" /\ Statuses[t] = "none"
  BY <1>1, StatusNow DEF Self, Stopping, SchedLabels
<1>5. \A u \in 0 .. t - 1 : Statuses[u] # "none"
  <2> SUFFICES ASSUME NEW u \in 0 .. t - 1 PROVE Statuses[u] # "none"
    OBVIOUS
  <2>1. u \in Tid /\ (u = 0 \/ u \in 1 .. t - 1)
    BY <1>1, UthreadsAssumption DEF Tid
  <2>2. queue[u] # NoObj
    BY <1>1, <2>1 DEF WInv, SpawnsLeast, LInv, MainStays, Contain
  <2> QED
    BY <1>1, <2>1, <2>2, StatusNow DEF Stopping, SchedLabels
<1>6. Statuses'[t] = "ready"
  BY <1>1, <1>2, <1>3, StatusThen DEF READY, BLOCKED
<1>7. ASSUME NEW u \in Tid, u # t PROVE Statuses'[u] = Statuses[u]
  <2>1. queue[u] # NoObj => state'[queue[u]] = state[queue[u]]
    BY <1>2, LiveFacts
  <2> QED
    BY <1>1, <1>7, <2>1, StatusNow, StatusThen DEF Stopping, SchedLabels
<1>8. Threads!Become(t, "ready")
  BY <1>1, <1>6, <1>7, OneStatus
<1>9. Waiters' = Waiters
  BY <1>1, <1>2 DEF Waiters, Contain
<1>10. Holder' = Holder
  BY <1>1 DEF Holder
<1>11. Threads!Spawn(cur, t)
  BY <1>4, <1>5, <1>8, <1>9, <1>10 DEF Threads!Spawn, Threads!Runs, Threads!Used, Threads!mutex
<1> QED
  BY <1>1, <1>11, TidIsTid DEF SStep, Threads!Step

\* Who ends itself has given back the mutex, and only terminate ends another.
LEMMA TermClearS ==
  Inv /\ LInv /\ WInv /\ ("terminate" \notin Ops => HInv) /\ TermClear => SStep
<1> SUFFICES ASSUME Inv, LInv, WInv, "terminate" \notin Ops => HInv, TermClear
             PROVE  SStep
  OBVIOUS
<1> DEFINE t == pc.tid
<1>1. /\ pc.at = "term_clear" /\ t \in Tid /\ t # 0
      /\ queue'[t] = NoObj
      /\ \A u \in Tid : u # t => queue'[u] = queue[u]
      /\ pc'.at \in { "spin", "user" }
      /\ UNCHANGED << blockedMutex, mutex, cur, state >>
      /\ cur \in Tid
      /\ t # cur => "terminate" \in Ops
      /\ t = cur => mutex # t
  BY TermFacts, LiveFacts DEF lists, thread, HInv, EndsItself, WInv, GivenBack
<1>2. queue[cur] # NoObj
  BY <1>1 DEF Inv, CurrentIsLive, SchedLabels, Self
<1>3. Statuses[cur] = "running"
  BY <1>1, <1>2, StatusNow DEF Stopping, SchedLabels
<1>4. Threads!Become(t, "none")
  <2>1. Statuses'[t] = "none"
    BY <1>1, StatusThen
  <2>2. ASSUME NEW u \in Tid, u # t PROVE Statuses'[u] = Statuses[u]
    BY <1>1, <2>2, StatusNow, StatusThen DEF Stopping, SchedLabels
  <2> QED
    BY <1>1, <2>1, <2>2, OneStatus
<1>5. Waiters' = Waiters \ {t}
  BY <1>1 DEF Waiters, Contain
<1>6. Holder = mutex /\ Holder' = mutex
  BY <1>1 DEF Holder
<1>7. Threads!End(cur, t)
  BY <1>1, <1>3, <1>4, <1>5, <1>6 DEF Threads!End, Threads!Runs
<1> QED
  BY <1>1, <1>7, TidIsTid DEF SStep, Threads!Step

LEMMA InitS == Init => Threads!Init
<1> SUFFICES ASSUME Init PROVE Threads!Init
  OBVIOUS
<1>1. Holder = Threads!NoTid
  BY TidIsTid DEF Init, Holder, At
<1>2. Waiters = {} /\ StaleIds = {}
  <2>1. Range(blockedMutex) = {} /\ Range(fifo) = {1} /\ 1 \in Live
    BY UthreadsAssumption DEF Init, Range, Live, Tid, NoObj
  <2> QED
    BY <2>1 DEF Waiters, StaleIds, StaleEntries, Dead
<1>3. Statuses = [ t \in Tid |-> IF t = 0 THEN "ready" ELSE "none" ]
  <2> SUFFICES ASSUME NEW t \in Tid
               PROVE  StatusOf(t) = IF t = 0 THEN "ready" ELSE "none"
    BY DEF Statuses
  <2>1. Statuses[t] = StatusOf(t) /\ 1 \in Obj
    BY UthreadsAssumption DEF Statuses, Obj
  <2> QED
    BY <2>1, StatusNow DEF Init, At, Stopping, SchedLabels, READY, BLOCKED, NoObj
<1> QED
  BY <1>1, <1>2, <1>3, TidIsTid DEF Threads!Init

\* In a step of a call the caller runs, and the other threads keep their status
\* as long as their objects keep their state.
LEMMA CallStepStatus ==
  ASSUME Inv, LInv, CallStep
  PROVE  /\ cur \in Tid /\ cur \in Threads!Tid /\ queue[cur] = Self /\ Self # NoObj
         /\ pc.at \notin Stopping => Statuses[cur] = "running"
         /\ pc'.at \notin Stopping => Statuses'[cur] = "running"
         /\ \A u \in Tid :
              /\ u # cur
              /\ queue[u] # NoObj => state'[queue[u]] = state[queue[u]]
              => Statuses'[u] = Statuses[u]
<1>1. /\ cur \in Tid /\ queue[cur] = Self /\ Self # NoObj
      /\ UNCHANGED << queue, cur >>
  BY CallStepFacts, LiveFacts DEF Self
<1> QED
  BY <1>1, StatusNow, StatusThen, TidIsTid

LEMMA BlockSetS == Inv /\ LInv /\ BlockSet => SStep
<1> SUFFICES ASSUME Inv, LInv, BlockSet PROVE SStep
  OBVIOUS
<1> DEFINE t == pc.tid
<1>1. /\ pc.at = "block_set" /\ t \in Tid /\ t # 0
      /\ UNCHANGED << queue, blockedMutex, mutex, cur >>
      /\ CallStep
  BY ContinuationType
  DEF BlockSet, lists, Inv, TypeOK, TidLabels, LInv, MainStays, CallStep
<1>2. CASE ~Contain(t)
  <2>1. state' = state /\ pc'.at = "segv"
    BY <1>2 DEF BlockSet, Goto, At
  <2> QED
    BY <1>1, <2>1, PcStepS DEF SStep, Stopping, SchedLabels
<1>3. CASE Contain(t)
  <2>1. /\ state' = [ state EXCEPT ![queue[t]] = BLOCKED ]
        /\ IF t = cur THEN pc'.at = "block_raise" ELSE pc'.at = "user"
        /\ queue[t] # NoObj /\ queue[t] \in Obj
    BY <1>1, <1>3, LiveFacts DEF BlockSet, Goto, Return, User, At, Contain
  <2>2. Statuses'[t] = "blocked"
    BY <1>1, <2>1, StatusThen DEF Inv, TypeOK, Stopping
  <2>3. Statuses[cur] = "running" /\ Statuses[t] # "none" /\ cur \in Tid
    BY <1>1, <2>1, CallStepStatus, StatusNow DEF Stopping, SchedLabels
  <2>4. ASSUME NEW u \in Tid, u # t PROVE Statuses'[u] = Statuses[u]
    <3>1. queue[u] # NoObj => state'[queue[u]] = state[queue[u]]
      BY <1>1, <2>1, <2>4, OtherSlot DEF Inv, TypeOK
    <3> QED
      BY <1>1, <2>1, <2>3, <2>4, <3>1, CallStepStatus DEF Stopping, SchedLabels
  <2>5. Threads!Become(t, "blocked")
    BY <1>1, <2>2, <2>4, OneStatus
  <2>6. Holder' = Holder /\ Waiters' = Waiters
    BY <1>1, <2>1, SameWaiters DEF Holder
  <2>7. Threads!Block(cur, t)
    BY <1>1, <2>3, <2>5, <2>6 DEF Threads!Block, Threads!Runs, Threads!Used, Threads!mutex
  <2> QED
    BY <1>1, <2>3, <2>7, TidIsTid DEF SStep, Threads!Step
<1> QED
  BY <1>2, <1>3

LEMMA ResumeSetS == Inv /\ LInv /\ ResumeSet => SStep
<1> SUFFICES ASSUME Inv, LInv, ResumeSet PROVE SStep
  OBVIOUS
<1> DEFINE t == pc.tid
<1>1. /\ pc.at = "resume_set" /\ t \in Tid
      /\ UNCHANGED << queue, blockedMutex, mutex, cur >>
      /\ CallStep
  BY ContinuationType DEF ResumeSet, lists, Inv, TypeOK, TidLabels, CallStep
<1>2. CASE ~Contain(t)
  <2>1. state' = state /\ pc'.at = "segv"
    BY <1>2 DEF ResumeSet, Goto, At
  <2> QED
    BY <1>1, <2>1, PcStepS DEF SStep, Stopping, SchedLabels
<1>3. CASE Contain(t)
  <2>1. /\ state' = [ state EXCEPT ![queue[t]] = READY ]
        /\ pc'.at = "resume_push"
        /\ queue[t] # NoObj /\ queue[t] \in Obj
    BY <1>1, <1>3, LiveFacts DEF ResumeSet, Goto, At, Contain
  <2>2. /\ Statuses[cur] = "running" /\ Statuses'[cur] = "running" /\ cur \in Tid
        /\ Statuses[t] # "none"
    BY <1>1, <2>1, CallStepStatus, StatusNow DEF Stopping, SchedLabels
  <2>3. t # cur => Statuses'[t] = "ready"
    BY <1>1, <2>1, StatusThen DEF Inv, TypeOK, READY, BLOCKED
  <2>4. ASSUME NEW u \in Tid, u # t PROVE Statuses'[u] = Statuses[u]
    <3>1. queue[u] # NoObj => state'[queue[u]] = state[queue[u]]
      BY <1>1, <2>1, <2>4, OtherSlot DEF Inv, TypeOK
    <3> QED
      BY <1>1, <2>2, <2>4, <3>1, CallStepStatus
  <2>5. Holder' = Holder /\ Waiters' = Waiters
    BY <1>1, <2>1, SameWaiters DEF Holder
  <2>6. CASE t = cur
    BY <2>2, <2>4, <2>5, <2>6, SameStatus DEF SStep
  <2>7. CASE t # cur
    <3>1. Threads!Become(t, "ready")
      BY <1>1, <2>3, <2>4, <2>7, OneStatus
    <3>2. Threads!Resume(cur, t)
      BY <2>2, <2>5, <2>7, <3>1 DEF Threads!Resume, Threads!Runs, Threads!Used, Threads!mutex
    <3> QED
      BY <1>1, <2>2, <3>2, TidIsTid DEF SStep, Threads!Step
  <2> QED
    BY <2>6, <2>7
<1> QED
  BY <1>2, <1>3

\* A thread waits from its first entry in the list on; what follows is seen by
\* nobody.
LEMMA LockPushS == Inv /\ LInv /\ WInv /\ LockPush => SStep
<1> SUFFICES ASSUME Inv, LInv, WInv, LockPush PROVE SStep
  OBVIOUS
<1>1. /\ UNCHANGED << queue, mutex, cur, state >>
      /\ \/ pc.at = "lock_push" /\ pc'.at = "lock_block"
         \/ pc.at = "lock_push2" /\ pc'.at = "lock_raise"
      /\ blockedMutex' = Append(blockedMutex, Self)
      /\ CallStep
  BY DEF LockPush, Goto, At, thread, CallStep
<1>2. Range(blockedMutex') = Range(blockedMutex) \cup {Self}
  BY <1>1, CallStepFacts, RangeAppend
<1>3. cur \in Tid /\ queue[cur] = Self /\ Self # NoObj
  BY <1>1, CallStepStatus
<1>4. Holder = mutex /\ Holder' = mutex
  BY <1>1 DEF Holder
<1>5. ASSUME NEW u \in Tid, u # cur PROVE Statuses'[u] = Statuses[u]
  BY <1>1, <1>5, CallStepStatus
<1>6. CASE pc.at = "lock_push"
  <2>1. Statuses[cur] = "running" /\ Statuses'[cur] = "blocked"
    BY <1>1, <1>3, <1>6, StatusNow, StatusThen DEF Stopping, SchedLabels
  <2>2. Threads!Become(cur, "blocked")
    BY <1>3, <1>5, <2>1, OneStatus
  <2>3. Waiters' = Waiters \cup {cur}
    <3>1. \A u \in Tid : queue[u] = Self => u = cur
      BY <1>3, OtherSlot
    <3> QED
      BY <1>1, <1>2, <1>3, <1>6, <3>1 DEF Waiters, Contain
  <2>4. mutex \notin { NoTid, cur }
    BY <1>6 DEF LInv, StepsAreTimely, WInv, HolderNotListed, LockLabels
  <2>5. Threads!Wait(cur)
    BY <1>4, <2>1, <2>2, <2>3, <2>4, TidIsTid DEF Threads!Wait, Threads!Runs
  <2> QED
    BY <1>3, <2>5, TidIsTid DEF SStep, Threads!Step
<1>7. CASE pc.at = "lock_push2"
  <2>1. Self \in Range(blockedMutex)
    BY <1>7 DEF LInv, StepsAreTimely
  <2>2. Waiters' = Waiters
    BY <1>1, <1>2, <1>7, <2>1 DEF Waiters, Contain
  <2>3. Statuses'[cur] = Statuses[cur]
    BY <1>1, <1>3, <1>7, StatusNow, StatusThen DEF Stopping
  <2> QED
    BY <1>4, <1>5, <2>2, <2>3, SameStatus DEF SStep
<1> QED
  BY <1>1, <1>6, <1>7

LEMMA LockBlockS == Inv /\ LInv /\ LockBlock => SStep
<1> SUFFICES ASSUME Inv, LInv, LockBlock PROVE SStep
  OBVIOUS
<1>1. /\ UNCHANGED << queue, blockedMutex, mutex, cur >>
      /\ pc.at = "lock_block" /\ pc'.at = "lock_push2"
      /\ state' = [ state EXCEPT ![Self] = BLOCKED ]
      /\ CallStep
  BY DEF LockBlock, Goto, At, lists, CallStep
<1>2. cur \in Tid /\ queue[cur] = Self /\ Self # NoObj /\ Self \in Obj
  BY <1>1, CallStepStatus, CallStepFacts
<1>3. Statuses'[cur] = Statuses[cur]
  BY <1>1, <1>2, StatusNow, StatusThen DEF Inv, TypeOK, Stopping
<1>4. ASSUME NEW u \in Tid, u # cur PROVE Statuses'[u] = Statuses[u]
  <2>1. queue[u] # NoObj => state'[queue[u]] = state[queue[u]]
    BY <1>1, <1>2, <1>4, OtherSlot DEF Inv, TypeOK
  <2> QED
    BY <1>1, <1>4, <2>1, CallStepStatus
<1>5. Holder' = Holder /\ Waiters' = Waiters
  BY <1>1, SameWaiters DEF Holder
<1> QED
  BY <1>3, <1>4, <1>5, SameStatus DEF SStep

LEMMA LockTakeS == Inv /\ MInv /\ LInv /\ WInv /\ LockTake => SStep
<1> SUFFICES ASSUME Inv, MInv, LInv, WInv, LockTake PROVE SStep
  OBVIOUS
<1>1. /\ UNCHANGED << queue, blockedMutex, cur, state >>
      /\ pc.at = "lock_take" /\ pc'.at = "user" /\ mutex' = cur
      /\ CallStep
  BY DEF LockTake, Return, User, At, lists, thread, CallStep
<1>2. mutex = NoTid /\ Range(blockedMutex) = {}
  BY <1>1 DEF MInv, CallsAreTimely, WInv, FreeIsEmpty
<1>3. cur \in Tid /\ Statuses[cur] = "running" /\ Statuses'[cur] = "running"
  BY <1>1, CallStepStatus DEF Stopping, SchedLabels
<1>4. Statuses' = Statuses
  BY <1>1, <1>3, CallStepStatus, SameStatus
<1>5. Waiters = {} /\ Waiters' = {}
  BY <1>1, <1>2 DEF Waiters
<1>6. Holder = NoTid /\ Holder' = cur
  BY <1>1, <1>2 DEF Holder
<1>7. Threads!Acquire(cur)
  BY <1>3, <1>4, <1>5, <1>6, TidIsTid DEF Threads!Acquire, Threads!Runs
<1> QED
  BY <1>3, <1>7, TidIsTid DEF SStep, Threads!Step

\* The unlock counts as made when the waiters are ready.
LEMMA UnlockStepS ==
  Inv /\ MInv /\ LInv /\ WInv /\ (UnlockFree \/ UnlockWake \/ UnlockClear) => SStep
<1> SUFFICES ASSUME Inv, MInv, LInv, WInv, UnlockFree \/ UnlockWake \/ UnlockClear
             PROVE  SStep
  OBVIOUS
<1>1. CallStep /\ UNCHANGED << queue, cur >>
  BY DEF UnlockFree, UnlockWake, UnlockClear, thread, CallStep
<1>2. cur \in Tid /\ queue[cur] = Self /\ Self # NoObj
  BY <1>1, CallStepStatus
<1>3. CASE UnlockFree
  <2>1. /\ pc.at = "unlock_free" /\ pc'.at = "unlock_wake" /\ mutex = cur
        /\ UNCHANGED << blockedMutex, state >>
    BY <1>3 DEF UnlockFree, Goto, At, lists, thread, MInv, CallsAreTimely
  <2>2. Statuses' = Statuses
    BY <1>1, <2>1, CallStepStatus, SameStatus DEF Stopping, SchedLabels
  <2> QED
    BY <1>1, <2>1, <2>2, SameWaiters DEF SStep, Holder
<1>4. CASE UnlockWake
  <2>1. /\ pc.at = "unlock_wake" /\ pc'.at = "unlock_clear"
        /\ state' = [ o \in Obj |-> IF o \in Range(blockedMutex) THEN READY
                                                                ELSE state[o] ]
        /\ mutex = NoTid /\ mutex' = NoTid
        /\ Self \notin Range(blockedMutex)
    BY <1>4 DEF UnlockWake, Woken, Goto, At, WInv, GivenBack, HolderNotListed
  <2>2. Statuses[cur] = "running" /\ Statuses'[cur] = "running" /\ cur \notin Waiters
    BY <1>1, <1>2, <2>1, CallStepStatus, WaitersNow DEF Stopping, SchedLabels
  <2>3. ASSUME NEW u \in Tid
        PROVE  Statuses'[u] = IF u \in Waiters THEN "ready" ELSE Statuses[u]
    <3>1. CASE u = cur
      BY <2>2, <3>1
    <3>2. CASE u # cur /\ queue[u] = NoObj
      BY <1>1, <3>2, StatusNow, StatusThen, WaitersNow
    <3>3. CASE u # cur /\ queue[u] # NoObj
      <4>1. queue[u] \in Obj
        BY <3>3, LiveFacts
      <4>2. CASE queue[u] \in Range(blockedMutex)
        BY <1>1, <2>1, <3>3, <4>1, <4>2, StatusThen, WaitersNow DEF READY, BLOCKED
      <4>3. CASE queue[u] \notin Range(blockedMutex)
        BY <1>1, <2>1, <3>3, <4>1, <4>3, CallStepStatus, WaitersNow
      <4> QED
        BY <4>2, <4>3
    <3> QED
      BY <3>1, <3>2, <3>3
  <2>4. Statuses' = [ u \in Tid |-> IF u \in Waiters THEN "ready" ELSE Statuses[u] ]
    BY <2>3 DEF Statuses
  <2>5. Holder = cur /\ Holder' = NoTid /\ Waiters' = {}
    BY <2>1 DEF Holder, Waiters
  <2>6. Threads!Release(cur)
    BY <2>2, <2>4, <2>5, TidIsTid DEF Threads!Release, Threads!Runs
  <2> QED
    BY <1>2, <2>6, TidIsTid DEF SStep, Threads!Step
<1>5. CASE UnlockClear
  <2>1. /\ pc.at = "unlock_clear" /\ pc'.at \in { "user", "term_clear" }
        /\ blockedMutex' = << >>
        /\ UNCHANGED << mutex, state >>
    BY <1>5 DEF UnlockClear, UnlockReturn, User, At, thread
  <2>2. Statuses' = Statuses
    BY <1>1, <2>1, CallStepStatus, SameStatus DEF Stopping, SchedLabels
  <2>3. Waiters = {} /\ Waiters' = {}
    BY <2>1 DEF Waiters, Range
  <2>4. Holder' = Holder
    BY <2>1 DEF Holder
  <2> QED
    BY <2>2, <2>3, <2>4 DEF SStep
<1> QED
  BY <1>3, <1>4, <1>5

LEMMA CallStepS == Inv /\ MInv /\ LInv /\ WInv /\ CallStep => SStep
<1> SUFFICES ASSUME Inv, MInv, LInv, WInv, CallStep PROVE SStep
  OBVIOUS
<1>1. CASE SpawnPush \/ ResumePush
  <2>1. /\ UNCHANGED << queue, blockedMutex, mutex, cur, state >>
        /\ pc.at \in { "spawn_push", "resume_push" } /\ pc'.at = "user"
    BY <1>1 DEF SpawnPush, ResumePush, Return, User, At, thread
  <2> QED
    BY <2>1, PcStepS DEF SStep, Stopping, SchedLabels
<1> QED
  BY <1>1, BlockSetS, ResumeSetS, LockPushS, LockBlockS, LockTakeS, UnlockStepS
  DEF CallStep

\* What the two cases of the theorem need of a state.
RInv ==
  /\ Inv /\ MInv /\ LInv /\ WInv
  /\ "terminate" \notin Ops => HInv /\ EInv

\* The lists get no entry of a thread that is gone, and nobody forgets one that
\* counts: entries only go from the list of waiters to the FIFO.
LEMMA SmallerStale ==
  ASSUME ~Hangs, UNCHANGED << cur, queue >>,
         \A o \in Dead(blockedMutex)' :
           tidOf'[o] = tidOf[o] /\ o \in Dead(blockedMutex),
         \A o \in Dead(fifo)' :
           tidOf'[o] = tidOf[o] /\ o \in Dead(fifo) \cup Dead(blockedMutex)
  PROVE  StaleIds' \subseteq StaleIds
BY DEF StaleIds, StaleEntries, Contain

LEMMA NothingStale ==
  ASSUME RInv, WholeNext, ~TermClear
  PROVE  StaleIds' \subseteq StaleIds
<1>1. /\ fifo \in Seq(Obj \cup {NoObj}) /\ blockedMutex \in Seq(Obj \cup {NoObj})
      /\ Self \in Obj \cup {NoObj}
      /\ Inv /\ MInv /\ LInv
  BY DEF RInv, Inv, TypeOK, Self
<1>2. CASE Hangs
  <2>1. UNCHANGED << pc, armed >>
    BY <1>2
    DEF Hangs, WholeNext, Library, Client, TimerBetween, Timer, SpawnNew, SpawnPush,
        TermStart, TermTest, TermClear, Segv, PurgeDead, DropBlocked, Dispatch, Jump,
        SchedulerFault, BlockSet, BlockRaise, ResumeSet, ResumePush, LockTest, LockPush,
        LockBlock, LockRaise, LockTake, UnlockFree, UnlockWake, UnlockClear, Spawn,
        Terminate, ThreadEnds, Block, Resume, Lock, Unlock, Calls, InClient, InScheduler,
        SchedLabels
  <2> QED
    BY <1>2, <2>1 DEF StaleIds, Hangs
<1>3. CASE ~Hangs /\ PcOnly
  <2>1. UNCHANGED << queue, fifo, blockedMutex, cur, tidOf >>
    BY <1>3 DEF PcOnly, Spawn, Terminate, TermStart, TermTest, ThreadEnds, Segv, Jump,
       SchedulerFault, Block, Resume, Lock, LockTest, Unlock, lists, thread
  <2> QED
    BY <1>3, <2>1, SmallerStale DEF Dead, Live
<1>4. CASE ~Hangs /\ (TimerBetween \/ BlockRaise \/ LockRaise)
  <2>1. /\ UNCHANGED << queue, blockedMutex, cur, tidOf >>
        /\ fifo' = fifo \/ fifo' = Append(fifo, Self)
    <3>1. PICK sig, k : EnterScheduler(sig, k)
      BY <1>4 DEF TimerBetween, Timer, BlockRaise, LockRaise
    <3> QED
      BY <3>1 DEF EnterScheduler, Requeue
  <2>2. Range(fifo') \subseteq Range(fifo) \cup { Self }
    <3>1. Range(Append(fifo, Self)) = Range(fifo) \cup { Self }
      BY <1>1, RangeAppend
    <3> QED
      BY <2>1, <3>1
  <2>3. Live' = Live /\ (Self = NoObj \/ Self \in Live)
    BY <2>1, LiveFacts DEF Live, Self, RInv
  <2> QED
    BY <1>4, <2>1, <2>2, <2>3, SmallerStale DEF Dead
<1>5. CASE ~Hangs /\ (PurgeDead \/ DropBlocked)
  <2>1. UNCHANGED << queue, blockedMutex, cur, tidOf >> /\ Live' = Live
    BY <1>5 DEF PurgeDead, DropBlocked, thread, Live
  <2>2. Range(fifo') \subseteq Range(fifo)
    BY <1>1, <1>5, RangeRemoveAt DEF PurgeDead, DropBlocked
  <2> QED
    BY <1>5, <2>1, <2>2, SmallerStale DEF Dead
<1>6. CASE ~Hangs /\ Dispatch
  <2>1. /\ UNCHANGED << queue, blockedMutex, tidOf >> /\ Live' = Live
        /\ cur' \in Tid /\ queue[cur'] # NoObj
        /\ \A i \in DOMAIN fifo : queue[tidOf[fifo[i]]] # NoObj
        /\ ~Hangs'
    BY <1>6, DispatchFacts, LiveFacts DEF RInv, Hangs
  <2>2. Range(fifo') \subseteq Range(fifo)
    BY <1>1, <1>6, RangeRemoveAt DEF Dispatch
  <2>3. \A o \in Range(fifo) : tidOf[o] # cur \/ Contain(cur)
    BY <2>1 DEF Range, Contain
  <2> QED
    BY <1>6, <2>1, <2>2, <2>3 DEF StaleIds, StaleEntries, Dead
<1>7. CASE ~Hangs /\ SpawnNew
  <2>1. PICK o \in Obj \ Reachable :
          /\ o \notin Range(fifo) /\ o \notin Range(blockedMutex)
          /\ Live' \subseteq Live \cup {o}
          /\ \A p \in Obj \ {o} : tidOf'[p] = tidOf[p]
    BY <1>1, <1>7, SpawnFacts
  <2>2. /\ UNCHANGED << fifo, blockedMutex, cur >>
        /\ queue[pc.tid] = NoObj /\ pc.tid # cur /\ cur \in Tid
        /\ \A t \in Tid : t # pc.tid => queue'[t] = queue[t]
    BY <1>1, <1>7, SpawnFacts, LiveFacts DEF lists
  <2>3. Live \subseteq Live'
    <3> SUFFICES ASSUME NEW t \in Tid, queue[t] # NoObj PROVE queue[t] \in Live'
      BY DEF Live
    <3> QED
      BY <2>2 DEF Live
  <2>4. /\ Range(fifo) \subseteq Obj \cup {NoObj}
        /\ Range(blockedMutex) \subseteq Obj \cup {NoObj}
    BY <1>1 DEF Range
  <2>5. Contain(cur)' <=> Contain(cur)
    BY <2>2 DEF Contain
  <2> QED
    BY <1>7, <2>1, <2>2, <2>3, <2>4, <2>5 DEF StaleIds, StaleEntries, Dead
<1>8. CASE ~Hangs /\ CallStep
  <2>1. /\ UNCHANGED << queue, cur, tidOf >> /\ Live' = Live
        /\ Self \in Live
        /\ pc.at \in TidLabels => pc.tid \in Tid
    BY <1>8, CallStepFacts DEF RInv
  <2>2. CASE SpawnPush \/ ResumePush
    <3>1. /\ blockedMutex' = blockedMutex
          /\ fifo' = Append(fifo, queue[pc.tid])
          /\ pc.at \in { "spawn_push", "resume_push" }
      BY <2>2 DEF SpawnPush, ResumePush
    <3>2. pc.tid \in Tid
      BY <2>1, <3>1 DEF TidLabels
    <3>3. queue[pc.tid] = NoObj \/ queue[pc.tid] \in Live
      BY <1>1, <3>2, LiveFacts
    <3>4. Range(fifo') = Range(fifo) \cup { queue[pc.tid] }
      <4>1. queue[pc.tid] \in Obj \cup {NoObj}
        BY <1>1, <3>2 DEF Inv, TypeOK
      <4>2. Range(Append(fifo, queue[pc.tid])) = Range(fifo) \cup { queue[pc.tid] }
        BY <1>1, <4>1, RangeAppend
      <4> QED
        BY <3>1, <4>2
    <3> QED
      BY <1>8, <2>1, <3>1, <3>3, <3>4, SmallerStale DEF Dead
  <2>3. CASE LockPush
    <3>1. Range(blockedMutex') = Range(blockedMutex) \cup { Self } /\ fifo' = fifo
      BY <1>1, <2>3, RangeAppend DEF LockPush
    <3> QED
      BY <1>8, <2>1, <3>1, SmallerStale DEF Dead
  <2>4. CASE UnlockWake
    <3>1. /\ Range(fifo') = Range(fifo) \cup Range(blockedMutex)
          /\ blockedMutex' = blockedMutex
      BY <1>1, <2>4, RangeConcat DEF UnlockWake, WokenEntries
    <3> QED
      BY <1>8, <2>1, <3>1, SmallerStale DEF Dead
  <2>5. CASE UnlockClear
    <3>1. Range(blockedMutex') = {} /\ fifo' = fifo
      BY <2>5 DEF UnlockClear, Range
    <3> QED
      BY <1>8, <2>1, <3>1, SmallerStale DEF Dead
  <2>6. CASE BlockSet \/ ResumeSet \/ LockBlock \/ LockTake \/ UnlockFree
    <3>1. UNCHANGED << fifo, blockedMutex >>
      BY <2>6 DEF BlockSet, ResumeSet, LockBlock, LockTake, UnlockFree, lists
    <3> QED
      BY <1>8, <2>1, <3>1, SmallerStale DEF Dead
  <2> QED
    BY <1>8, <2>2, <2>3, <2>4, <2>5, <2>6 DEF CallStep
<1> QED
  BY <1>2, <1>3, <1>4, <1>5, <1>6, <1>7, <1>8
  DEF WholeNext, Library, Client, PcOnly, CallStep

\* A thread that is ended leaves its ID behind only if another one ends it, or
\* a fault of the scheduler while it waits.
LEMMA TermClearStale ==
  ASSUME RInv, TermClear
  PROVE  \A t \in StaleIds' \ StaleIds : Threads!LeavesBehind(t)
<1> SUFFICES ASSUME NEW t \in StaleIds', t \notin StaleIds
             PROVE  Threads!LeavesBehind(t)
  OBVIOUS
<1>1. /\ pc.at = "term_clear" /\ pc.tid \in Tid /\ cur \in Tid
      /\ queue'[pc.tid] = NoObj
      /\ Live' = Live \ {queue[pc.tid]}
      /\ pc.tid = cur => pc'.at = "spin"
      /\ UNCHANGED << fifo, blockedMutex, cur, tidOf, armed >>
  BY TermFacts, LiveFacts DEF RInv, lists, thread
<1>2. Contain(cur) /\ ~Hangs /\ ~Hangs'
  BY <1>1 DEF RInv, Inv, CurrentIsLive, SchedLabels, Self, Contain, Hangs, StaleIds
<1>3. PICK o \in StaleEntries' : t = tidOf[o]
  BY <1>1, <1>2 DEF StaleIds
<1>4. o \in Live
  BY <1>1, <1>2, <1>3 DEF StaleIds, StaleEntries, Dead
<1>5. o = queue[pc.tid] /\ t = pc.tid /\ queue[t] # NoObj
  <2>1. o = queue[pc.tid]
    BY <1>1, <1>4 DEF StaleEntries, Dead
  <2> QED
    BY <1>1, <1>3, <1>4, <2>1, LiveFacts DEF RInv, Inv, SlotMatches
<1>6. t = cur => o = Self /\ o \in Range(blockedMutex)
  BY <1>1, <1>3, <1>5 DEF StaleEntries, Dead, Contain, Self
<1>7. "terminate" \in Ops
  <2> SUFFICES ASSUME "terminate" \notin Ops PROVE FALSE
    OBVIOUS
  <2>1. t = cur
    BY <1>1, <1>5 DEF RInv, HInv, EndsItself
  <2>2. ~armed
    BY <1>1, <1>4, <1>6, <2>1
    DEF RInv, EInv, LockersInside, LockLabels, SchedLabels
  <2> QED
    BY <1>1, <1>2, <1>5, <2>1, <2>2 DEF Hangs
<1>8. Statuses[t] # "none" /\ Statuses'[t] = "none"
  BY <1>1, <1>5, StatusNow, StatusThen
<1>9. Statuses[t] # "running" \/ t \in Waiters
  <2>1. CASE t = cur
    BY <1>1, <1>5, <1>6, <2>1, WaitersNow
  <2>2. CASE t # cur
    BY <1>1, <1>5, <2>2, StatusNow
  <2> QED
    BY <2>1, <2>2
<1> QED
  BY <1>7, <1>8, <1>9 DEF Threads!LeavesBehind, Threads!Used, Threads!Runs

LEMMA NextS ==
  RInv /\ [WholeNext]_vars => Threads!Next \/ UNCHANGED Threads!vars
<1> SUFFICES ASSUME RInv, [WholeNext]_vars
             PROVE  Threads!Next \/ UNCHANGED Threads!vars
  OBVIOUS
<1>1. CASE UNCHANGED vars
  BY <1>1
  DEF vars, Threads!vars, Threads!client, Statuses, StatusOf, Holder, Waiters, Contain,
      StaleIds, StaleEntries, Dead, Live, Hangs
<1>2. CASE WholeNext
  <2>1. SStep
    BY <1>2, PcOnlyS, FaultS, EnterS, EraseS, DispatchS, SpawnNewS, TermClearS, CallStepS
    DEF WholeNext, Library, Client, PcOnly, CallStep, RInv, SStep
  <2>2. \A t \in StaleIds' \ StaleIds : Threads!LeavesBehind(t)
    BY <1>2, NothingStale, TermClearStale
  <2> QED
    BY <2>1, <2>2 DEF SStep, Threads!Next, Threads!client
<1> QED
  BY <1>1, <1>2

LEMMA WholeScheduler == WholeSpec => SchedulerImplemented
<1>1. Init => RInv
  BY InitInv, InitMInv, InitLInv, InitWInv, InitHInv, InitEInv DEF RInv
<1>2. RInv /\ [WholeNext]_vars => RInv'
  BY NextInv, WholeIsNext, NextMInv, NextLInv, NextWInv, NextHInv, NextEInv DEF RInv
<1>3. Init => Threads!Init
  BY InitS
<1>4. RInv /\ [WholeNext]_vars => Threads!Next \/ UNCHANGED Threads!vars
  BY NextS
<1> QED
  BY <1>1, <1>2, <1>3, <1>4, PTL DEF WholeSpec, SchedulerImplemented, Threads!Spec

\* When no quantum ends inside a call, the library is a scheduler of whole
\* calls: see SchedulerImplemented.
THEOREM SchedulerCorrect ==
  ASSUME ~PreemptibleCalls
  PROVE  Spec => SchedulerImplemented
BY CallsAreWhole, WholeScheduler
-----------------------------------------------------------------------------
(***************************************************************************)
(* What holds in every state of the scheduler of whole calls, from its     *)
(* actions alone.                                                          *)
(***************************************************************************)
CInv == Threads!Consistent /\ Waiters \subseteq Tid /\ Holder \in Tid \cup {NoTid}

\* One thread gets a new status: the others keep theirs.
LEMMA BecomeFacts ==
  ASSUME Statuses \in [ Tid -> { "none", "ready", "running", "blocked" } ],
         NEW t \in Tid, NEW s \in { "none", "ready", "running", "blocked" },
         Threads!Become(t, s)
  PROVE  /\ Statuses' \in [ Tid -> { "none", "ready", "running", "blocked" } ]
         /\ Statuses'[t] = s
         /\ \A u \in Tid : u # t => Statuses'[u] = Statuses[u]
BY DEF Threads!Become

LEMMA InitC == Threads!Init => CInv
<1> SUFFICES ASSUME Threads!Init PROVE CInv
  OBVIOUS
<1>1. 0 \in Tid
  BY UthreadsAssumption DEF Tid
<1>2. /\ Holder = NoTid /\ Waiters = {} /\ StaleIds = {}
      /\ Statuses = [ t \in Tid |-> IF t = 0 THEN "ready" ELSE "none" ]
  BY TidIsTid DEF Threads!Init
<1> QED
  BY <1>1, <1>2, TidIsTid DEF CInv, Threads!Consistent, Threads!Runs, Threads!Used, NoTid

LEMMA NextC == CInv /\ Threads!Next => CInv'
<1> SUFFICES ASSUME CInv, Threads!Next PROVE CInv'
  OBVIOUS
<1> USE TidIsTid DEF Threads!Used, Threads!Runs
<1>1. Statuses \in [ Tid -> { "none", "ready", "running", "blocked" } ]
  BY DEF CInv, Threads!Consistent
<1>2. /\ 0 \in Tid /\ NoTid \notin Tid
      /\ "terminate" \notin Ops => StaleIds' = {}
  BY UthreadsAssumption
  DEF Tid, NoTid, CInv, Threads!Consistent, Threads!Next, Threads!LeavesBehind
<1>3. ASSUME NEW r \in Tid, NEW t \in Tid, Threads!Spawn(r, t) PROVE CInv'
  <2>1. /\ Threads!Become(t, "ready")
        /\ Holder' = Holder /\ Waiters' = Waiters /\ Statuses[t] = "none"
    BY <1>3 DEF Threads!Spawn, Threads!mutex
  <2> QED
    BY <1>1, <1>2, <2>1, BecomeFacts DEF CInv, Threads!Consistent
<1>4. ASSUME NEW r \in Tid, NEW t \in Tid, Threads!End(r, t) PROVE CInv'
  <2>1. /\ Threads!Become(t, "none") /\ Holder' = Holder /\ Waiters' = Waiters \ {t} /\ t # 0
        /\ ~("terminate" \in Ops) => Holder # t
    BY <1>4 DEF Threads!End
  <2> QED
    BY <1>1, <1>2, <2>1, BecomeFacts DEF CInv, Threads!Consistent
<1>5. ASSUME NEW r \in Tid, NEW t \in Tid, Threads!Block(r, t) \/ Threads!Resume(r, t)
      PROVE  CInv'
  <2>1. /\ Threads!Become(t, "blocked") \/ Threads!Become(t, "ready")
        /\ Holder' = Holder /\ Waiters' = Waiters /\ Statuses[t] # "none"
    BY <1>5 DEF Threads!Block, Threads!Resume, Threads!mutex
  <2> QED
    BY <1>1, <1>2, <2>1, BecomeFacts DEF CInv, Threads!Consistent
<1>6. ASSUME NEW t \in Tid, Threads!Preempt(t) PROVE CInv'
  <2>1. /\ Threads!Become(t, "ready")
        /\ Holder' = Holder /\ Waiters' = Waiters /\ Statuses[t] # "none"
    BY <1>6 DEF Threads!Preempt, Threads!mutex
  <2> QED
    BY <1>1, <1>2, <2>1, BecomeFacts DEF CInv, Threads!Consistent
<1>7. ASSUME NEW t \in Tid, Threads!Run(t) \/ Threads!Fault(t) PROVE CInv'
  <2>1. /\ Threads!Become(t, "running") /\ Holder' = Holder /\ Waiters' = Waiters
        /\ Statuses[t] # "none" /\ \A u \in Tid : Statuses[u] # "running"
    BY <1>7 DEF Threads!Run, Threads!Fault, Threads!mutex
  <2> QED
    BY <1>1, <1>2, <2>1, BecomeFacts DEF CInv, Threads!Consistent
<1>8. ASSUME NEW t \in Tid, Threads!Acquire(t) PROVE CInv'
  <2>1. Statuses' = Statuses /\ Holder' = t /\ Waiters' = {} /\ Statuses[t] = "running"
    BY <1>8 DEF Threads!Acquire
  <2> QED
    BY <1>1, <1>2, <2>1 DEF CInv, Threads!Consistent
<1>9. ASSUME NEW t \in Tid, Threads!Wait(t) PROVE CInv'
  <2>1. /\ Threads!Become(t, "blocked") /\ Holder' = Holder /\ Waiters' = Waiters \cup {t}
        /\ Statuses[t] = "running" /\ Holder \notin { NoTid, t }
    BY <1>9 DEF Threads!Wait
  <2> QED
    BY <1>1, <1>2, <2>1, BecomeFacts DEF CInv, Threads!Consistent
<1>10. ASSUME NEW t \in Tid, Threads!Release(t) PROVE CInv'
  <2>1. /\ Statuses' = [ u \in Tid |-> IF u \in Waiters THEN "ready" ELSE Statuses[u] ]
        /\ Holder' = NoTid /\ Waiters' = {}
    BY <1>10 DEF Threads!Release
  <2> QED
    BY <1>1, <1>2, <2>1 DEF CInv, Threads!Consistent
<1>11. CASE UNCHANGED Threads!client
  BY <1>2, <1>11 DEF CInv, Threads!Consistent, Threads!client
<1> QED
  BY <1>3, <1>4, <1>5, <1>6, <1>7, <1>8, <1>9, <1>10, <1>11
  DEF Threads!Next, Threads!Step

\* What holds in every state of the scheduler of whole calls therefore holds in
\* the library, too: whoever is counted as a waiter, another thread has the
\* mutex; and where no thread ends another, only ready threads are run.
THEOREM WaitersHaveHolder ==
  ASSUME ~PreemptibleCalls
  PROVE  Spec => []Threads!Consistent
<1>1. Threads!Init => CInv
  BY InitC
<1>2. CInv /\ (Threads!Next \/ UNCHANGED Threads!vars) => CInv'
  <2>1. CInv /\ UNCHANGED Threads!vars => CInv'
    BY DEF CInv, Threads!Consistent, Threads!vars, Threads!client, Threads!Runs,
           Threads!Used
  <2> QED
    BY <2>1, NextC
<1>3. CInv => Threads!Consistent
  BY DEF CInv
<1>4. Spec => Threads!Spec
  BY SchedulerCorrect DEF SchedulerImplemented
<1> QED
  BY <1>1, <1>2, <1>3, <1>4, PTL DEF Threads!Spec
-----------------------------------------------------------------------------
(***************************************************************************)
(* The tests are clients of the library.                                   *)
(***************************************************************************)
LEMMA TestsInitClient == TestsInit => Init
BY DEF TestsInit

\* A step of a test is a step of the client or leaves the library alone.
LEMMA TestStepClient ==
  TestStep => Client \/ UNCHANGED vars
<1> SUFFICES ASSUME TestStep PROVE Client \/ UNCHANGED vars
  OBVIOUS
<1>1. ASSUME NEW e, Begin(e) PROVE Client
  BY <1>1 DEF Begin, Client
<1>2. CASE SpawnCall
  BY <1>2 DEF SpawnCall, Client
<1>3. CASE OtherCall
  BY <1>1, <1>3 DEF OtherCall
<1>4. CASE Sleep \/ Wake \/ SetFlag \/ CheckFlag \/ Note \/ Compare
  BY <1>4 DEF Sleep, Wake, SetFlag, CheckFlag, Note, Compare
<1>5. CASE Load \/ Store \/ Await \/ RandomDone
  BY <1>5 DEF Load, Store, Await, RandomDone
<1>6. CASE RandomSpawn
  BY <1>6 DEF RandomSpawn, Client
<1>7. CASE RandomCall
  BY <1>1, <1>7 DEF RandomCall
<1> QED
  BY <1>2, <1>3, <1>4, <1>5, <1>6, <1>7 DEF TestStep

LEMMA TestsNextClient ==
  [TestsNext]_allVars =>
    \/ Client \/ UNCHANGED vars
    \/ Library /\ UNCHANGED testVars
    \/ QuantumEnds
BY TestStepClient DEF TestsNext, LibraryStep, Over, allVars

\* Every test is a client of the library, as far as the library can tell.
THEOREM TestsAreClients == TestsSpec => Spec
<1>1. [TestsNext]_allVars => [Next]_vars
  BY TestsNextClient DEF Next, QuantumEnds
<1> QED
  BY <1>1, TestsInitClient, PTL DEF TestsSpec, Spec

\* The tests keep to themselves which of them runs.
LEMMA SameTest == [TestsNext]_allVars => test' = test
<1> SUFFICES ASSUME [TestsNext]_allVars PROVE test' = test
  OBVIOUS
<1>1. CASE SpawnCall \/ OtherCall \/ Sleep \/ Wake \/ SetFlag \/ CheckFlag
  BY <1>1 DEF SpawnCall, OtherCall, Sleep, Wake, SetFlag, CheckFlag
<1>2. CASE Note \/ Compare \/ Load \/ Store \/ Await
  BY <1>2 DEF Note, Compare, Load, Store, Await
<1>3. CASE RandomSpawn \/ RandomCall \/ RandomDone
  BY <1>3 DEF RandomSpawn, RandomCall, RandomDone
<1>4. CASE LibraryStep \/ QuantumEnds \/ Over \/ UNCHANGED allVars
  BY <1>4 DEF LibraryStep, QuantumEnds, Over, allVars, testVars
<1> QED
  BY <1>1, <1>2, <1>3, <1>4 DEF TestsNext, TestStep

\* With long quanta no call is interrupted.
LEMMA LongQuanta ==
  Tests[test].quantum = LONG /\ QuantumEnds => TimerBetween
BY DEF QuantumEnds, Idle, TimerBetween, Doing, InClient, ClientLabels

LEMMA LongTestsWhole ==
  TestsSpec /\ Tests[test].quantum = LONG => WholeSpec
<1> DEFINE Long == Tests[test].quantum = LONG
<1>1. Long /\ [TestsNext]_allVars => Long' /\ [WholeNext]_vars
  <2> SUFFICES ASSUME Long, [TestsNext]_allVars PROVE Long' /\ [WholeNext]_vars
    OBVIOUS
  <2>1. Long'
    BY SameTest
  <2>2. [WholeNext]_vars
    BY TestsNextClient, LongQuanta DEF WholeNext
  <2> QED
    BY <2>1, <2>2
<1> HIDE DEF Long
<1>2. TestsSpec /\ Long => WholeSpec
  BY <1>1, TestsInitClient, PTL DEF TestsSpec, WholeSpec
<1> QED
  BY <1>2 DEF Long

\* A test whose quanta are long keeps every promise of the library, although the
\* timer of the library may interrupt a call: its quanta end in its threads'
\* loops only, and so its steps are those of a library of whole calls.
THEOREM LongTestsCorrect ==
  TestsSpec /\ Tests[test].quantum = LONG =>
    /\ [](MutualExclusion /\ ReadyIsQueued /\ WaiterIsListed)
    /\ []QuantaAccounted
    /\ FaultOnlyIfMainWaits
    /\ SchedulerImplemented
BY LongTestsWhole, WholeMutex, WholeReady, WholeWaiters, WholeQuanta, WholeFault,
   WholeScheduler, PTL
-----------------------------------------------------------------------------
(***************************************************************************)
(* Test6, interrupted anywhere: only main calls the library, and its set   *)
(* of threads is that of the library but for the call it is in.            *)
(***************************************************************************)
\* Where main is, running or not.
MainAt ==
  IF cur = 0 /\ pc.at \notin SchedLabels \cup {"jump"} THEN pc ELSE ctx[queue[0]]
\* The other threads, and what main does to one that stays.
Others == { t \in Tid \ {0} : Contain(t) }
TermSteps == { "term", "term_test", "term_clear" }
StaySteps == { "spawn_push", "block_set", "resume_set", "resume_push" }

\* Main is not blocked, nor forgotten, and the scheduler meets no null.
MainQueued ==
  /\ Contain(0)
  /\ state[queue[0]] # BLOCKED
  /\ NoObj \notin Range(fifo)
  /\ cur # 0 \/ pc.at \in SchedLabels => queue[0] \in Range(fifo)
  /\ Contain(cur)
  /\ mutex = NoTid

\* The other threads do nothing.
OnlyMainCalls ==
  /\ cur # 0 => pc.at \in { "sched_vtalrm", "user" }
  /\ \A t \in Others : code[t] = "f" /\ ip[t] = 1 /\ ctx[queue[t]].at = "user"

\* Main is in the call that ends the process.
Leaving == MainAt.at = "exit" \/ (MainAt.at \in TermSteps /\ MainAt.tid = 0)

\* Main does what its function says.
MainFollows ==
  /\ code[0] = "main"
  /\ pc.at \notin { "spin", "segv" }
  /\ MainAt.at \in TermSteps \cup StaySteps \cup { "user", "spawn_new", "exit" }
  /\ MainAt.at \in StaySteps \cup {"spawn_new"} => MainAt.tid # 0
  /\ MainAt.at \in TermSteps /\ MainAt.tid = 0 => MainAt.at = "term"
  /\ ip[0] = 4 <=> Leaving
  /\ pc.at \in { "sched_int", "jump" } => ip[0] = 1
  /\ ip[0] = 1 =>
       /\ cur = 0 /\ MainAt.at = "user" /\ Others = {}
       /\ IF pc.at = "sched_int" THEN total = 0 ELSE pc.at \in { "jump", "user" } /\ total = 1

\* The set of Test6, in the middle of a call of main.
ThreadsTracked ==
  /\ MainAt.at \in StaySteps => MainAt.tid \in Others
  /\ MainAt.at = "spawn_new" =>
       MainAt.tid \notin Others /\ code[MainAt.tid] = "f" /\ ip[MainAt.tid] = 1
  /\ MainAt.at \in TermSteps /\ MainAt.tid # 0 => MainAt.tid \in Others
  /\ activeThreads =
       CASE MainAt.at = "spawn_new" -> Others \cup {MainAt.tid}
         [] MainAt.at \in TermSteps -> Others \ {MainAt.tid}
         [] OTHER -> Others

CodeType == code \in [ Tid -> { "main", "f" } ] /\ ip \in [ Tid -> 1 .. 4 ]

TInv ==
  /\ Tests[test] = Test6
  /\ CodeType
  /\ MainQueued
  /\ OnlyMainCalls
  /\ MainFollows
  /\ ThreadsTracked
  /\ failed = {}

\* The functions of Test6.
LEMMA Test6Functions ==
  /\ Test6["main"][1] = uthread_get_total_quantums(1)
  /\ Test6["main"][2] = Do("doOperation")
  /\ Test6["main"][3] = Exit
  /\ Test6["f"][1] = Do("forever")
<1>1. Test6["main"] = initializeWithPriorities \o << Do("doOperation"), Exit >>
  BY DEF Test6
<1>2. Test6["f"] = << Do("forever") >>
  BY DEF Test6
<1>3. ASSUME NEW a, NEW b, NEW c
      PROVE  LET s == << a >> \o << b, c >> IN s[1] = a /\ s[2] = b /\ s[3] = c
  OBVIOUS
<1> QED
  BY <1>1, <1>2, <1>3 DEF initializeWithPriorities

\* What the thread that runs Test6 does next.
LEMMA Test6Op ==
  ASSUME Inv, TInv, InClient
  PROVE  /\ cur # 0 => Op = Do("forever")
         /\ cur = 0 => \/ ip[0] = 1 /\ Op = uthread_get_total_quantums(1)
                       \/ ip[0] = 2 /\ Op = Do("doOperation")
                       \/ ip[0] = 3 /\ Op = Exit
<1>1. CASE cur # 0
  <2>1. cur \in Others
    BY <1>1 DEF Inv, TypeOK, TInv, MainQueued, Others
  <2>2. code[cur] = "f" /\ ip[cur] = 1
    BY <2>1 DEF TInv, OnlyMainCalls
  <2> QED
    BY <1>1, <2>2, Test6Functions DEF Op, TInv
<1>2. CASE cur = 0
  <2>1. MainAt = pc /\ pc.at = "user"
    BY <1>2 DEF MainAt, InClient, SchedLabels
  <2>2. code[0] = "main" /\ ip[0] \in 1 .. 3
    BY <1>2, <2>1 DEF TInv, CodeType, MainFollows, Leaving, TermSteps, Inv, TypeOK
  <2> QED
    BY <1>2, <2>2, Test6Functions DEF Op, TInv
<1> QED
  BY <1>1, <1>2

\* Who the objects of the threads are.
LEMMA OtherFacts ==
  ASSUME Inv, TInv
  PROVE  /\ 0 \in Tid /\ cur \in Tid /\ Others \subseteq Tid
         /\ queue[0] \in Obj /\ queue[cur] \in Obj
         /\ \A t \in Tid : t \in Others <=> t # 0 /\ queue[t] # NoObj
         /\ \A t \in Others :
              queue[t] \in Obj /\ queue[t] # queue[0] /\ tidOf[queue[t]] = t
         /\ tidOf[queue[0]] = 0
         /\ \A t, u \in Others : queue[t] = queue[u] => t = u
         /\ cur # 0 => cur \in Others
<1>1. 0 \in Tid
  BY UthreadsAssumption DEF Tid
<1> QED
  BY <1>1 DEF Inv, TypeOK, SlotMatches, TInv, MainQueued, Contain, Others

\* A call in progress is one of main.
LEMMA MainCalls ==
  ASSUME Inv, TInv, pc.at \in CallLabels \ {"jump"}
  PROVE  /\ cur = 0 /\ MainAt = pc /\ ip[0] # 1
         /\ pc.at \in TermSteps \cup StaySteps \cup {"spawn_new"}
         /\ pc.tid \in Tid
<1>1. cur = 0
  BY DEF TInv, OnlyMainCalls, CallLabels
<1>2. MainAt = pc
  BY <1>1 DEF MainAt, CallLabels, SchedLabels
<1>3. pc.at \in TermSteps \cup StaySteps \cup {"spawn_new"}
  BY <1>2 DEF TInv, MainFollows, CallLabels
<1>4. pc.tid \in Tid
  BY <1>3, ContinuationType DEF Inv, TypeOK, TermSteps, StaySteps, TidLabels
<1> QED
  BY <1>1, <1>2, <1>3, <1>4 DEF TInv, MainFollows, CallLabels

\* Main goes from one point of a call to another, and the threads are the same.
LEMMA MainMoves ==
  ASSUME Inv, TInv, cur = 0, MainAt = pc, pc.at # "sched_int", CodeType', ip'[0] # 1,
         UNCHANGED << queue, mutex, cur, tidOf, ctx, test, failed >>,
         \A t \in Others : code'[t] = "f" /\ ip'[t] = 1,
         code'[0] = "main",
         state'[queue[0]] # BLOCKED, NoObj \notin Range(fifo'),
         pc'.at \in TermSteps \cup StaySteps \cup { "user", "spawn_new", "exit" },
         pc'.at \in StaySteps => pc'.tid \in Others,
         pc'.at = "spawn_new" =>
           /\ pc'.tid \in Tid \ {0} /\ pc'.tid \notin Others
           /\ code'[pc'.tid] = "f" /\ ip'[pc'.tid] = 1,
         pc'.at \in TermSteps /\ pc'.tid # 0 => pc'.tid \in Others,
         pc'.at \in TermSteps /\ pc'.tid = 0 => pc'.at = "term",
         ip'[0] = 4 <=> pc'.at = "exit" \/ (pc'.at \in TermSteps /\ pc'.tid = 0),
         activeThreads' =
           CASE pc'.at = "spawn_new" -> Others \cup {pc'.tid}
             [] pc'.at \in TermSteps -> Others \ {pc'.tid}
             [] OTHER -> Others
  PROVE  TInv'
<1>1. MainAt' = pc'
  BY DEF MainAt, TermSteps, StaySteps, SchedLabels
<1>2. Others' = Others
  BY DEF Others, Contain
<1>3. MainQueued'
  BY DEF TInv, MainQueued, TermSteps, StaySteps, SchedLabels, Contain
<1>4. OnlyMainCalls'
  BY <1>2 DEF TInv, OnlyMainCalls
<1>5. MainFollows'
  BY <1>1, <1>2, OtherFacts DEF MainFollows, Leaving, TermSteps, StaySteps, CodeType
<1>6. ThreadsTracked'
  BY <1>1, <1>2 DEF ThreadsTracked, TermSteps, StaySteps
<1> QED
  BY <1>3, <1>4, <1>5, <1>6 DEF TInv

LEMMA PushTInv ==
  ASSUME Inv, TInv, SpawnPush \/ ResumePush, UNCHANGED testVars
  PROVE  TInv'
<1>1. pc.at \in { "spawn_push", "resume_push" }
  BY DEF SpawnPush, ResumePush
<1>2. /\ cur = 0 /\ MainAt = pc /\ ip[0] # 1 /\ pc.tid \in Others
      /\ activeThreads = Others
  BY <1>1, MainCalls DEF CallLabels, TInv, ThreadsTracked, StaySteps, TermSteps
<1>3. Range(fifo') = Range(fifo) \cup { queue[pc.tid] }
  <2>1. fifo \in Seq(Obj \cup {NoObj}) /\ queue[pc.tid] \in Obj \cup {NoObj}
    BY <1>2, OtherFacts DEF Inv, TypeOK
  <2>2. fifo' = Append(fifo, queue[pc.tid])
    BY DEF SpawnPush, ResumePush
  <2> QED
    BY <2>1, <2>2, RangeAppend
<1>4. NoObj \notin Range(fifo')
  BY <1>2, <1>3, OtherFacts DEF TInv, MainQueued
<1>5. pc'.at = "user"
  BY DEF SpawnPush, ResumePush, Return, User, At
<1>6. UNCHANGED << queue, mutex, cur, tidOf, ctx, state >>
  BY DEF SpawnPush, ResumePush, thread
<1>7. /\ UNCHANGED << test, failed, code, ip, activeThreads >>
      /\ CodeType' /\ code[0] = "main" /\ ip[0] # 4
  BY <1>1, <1>2
  DEF testVars, statics, TInv, CodeType, MainFollows, Leaving, TermSteps, StaySteps
<1>8. \A t \in Others : code[t] = "f" /\ ip[t] = 1
  BY DEF TInv, OnlyMainCalls
<1>9. state[queue[0]] # BLOCKED
  BY DEF TInv, MainQueued
<1> QED
  BY <1>1, <1>2, <1>4, <1>5, <1>6, <1>7, <1>8, <1>9, MainMoves DEF TermSteps, StaySteps

LEMMA TermTInv ==
  ASSUME Inv, TInv, TermStart \/ TermTest, UNCHANGED testVars
  PROVE  TInv'
<1>1. pc.at \in { "term", "term_test" }
  BY DEF TermStart, TermTest
<1>2. /\ cur = 0 /\ MainAt = pc /\ ip[0] # 1 /\ pc.tid \in Tid
      /\ pc.tid # 0 => pc.tid \in Others
      /\ activeThreads = Others \ {pc.tid}
      /\ pc.tid = 0 => pc.at = "term"
      /\ pc.tid = 0 <=> ip[0] = 4
  BY <1>1, MainCalls
  DEF CallLabels, TInv, MainFollows, ThreadsTracked, Leaving, StaySteps, TermSteps
<1>3. /\ pc'.at \in { "exit", "term_test", "term_clear" }
      /\ pc'.at = "exit" <=> pc.tid = 0
      /\ pc'.at # "exit" => pc'.tid = pc.tid
  BY <1>1, <1>2 DEF TermStart, TermTest, Goto, At, TInv, MainQueued, Tid, NoTid
<1>4. UNCHANGED << queue, mutex, cur, tidOf, ctx, state, fifo >>
  BY DEF TermStart, TermTest, thread, lists
<1>5. /\ UNCHANGED << test, failed, code, ip, activeThreads >>
      /\ CodeType' /\ code[0] = "main"
  BY DEF testVars, statics, TInv, CodeType, MainFollows
<1>6. \A t \in Others : code[t] = "f" /\ ip[t] = 1
  BY DEF TInv, OnlyMainCalls
<1>7. state[queue[0]] # BLOCKED /\ NoObj \notin Range(fifo)
  BY DEF TInv, MainQueued
<1>8. 0 \notin Others
  BY DEF Others
<1> QED
  BY <1>1, <1>2, <1>3, <1>4, <1>5, <1>6, <1>7, <1>8, MainMoves DEF TermSteps, StaySteps

LEMMA SetTInv ==
  ASSUME Inv, TInv, BlockSet \/ ResumeSet, UNCHANGED testVars
  PROVE  TInv'
<1>1. pc.at \in { "block_set", "resume_set" }
  BY DEF BlockSet, ResumeSet
<1>2. /\ cur = 0 /\ MainAt = pc /\ ip[0] # 1 /\ pc.tid \in Others
      /\ activeThreads = Others
  BY <1>1, MainCalls DEF CallLabels, TInv, ThreadsTracked, StaySteps, TermSteps
<1>3. Contain(pc.tid) /\ pc.tid # cur
  BY <1>2, OtherFacts DEF Contain
<1>4. \E s \in {READY, BLOCKED} : state' = [ state EXCEPT ![queue[pc.tid]] = s ]
  BY <1>3 DEF BlockSet, ResumeSet
<1>5. state'[queue[0]] # BLOCKED /\ NoObj \notin Range(fifo)
  BY <1>2, <1>4, OtherFacts DEF TInv, MainQueued, Inv, TypeOK
<1>6. pc'.at = "user" \/ (pc'.at = "resume_push" /\ pc'.tid = pc.tid)
  BY <1>1, <1>3 DEF BlockSet, ResumeSet, Return, Goto, User, At
<1>7. UNCHANGED << queue, mutex, cur, tidOf, ctx, fifo >>
  BY DEF BlockSet, ResumeSet, lists
<1>8. /\ UNCHANGED << test, failed, code, ip, activeThreads >>
      /\ CodeType' /\ code[0] = "main" /\ ip[0] # 4
  BY <1>1, <1>2
  DEF testVars, statics, TInv, CodeType, MainFollows, Leaving, TermSteps, StaySteps
<1>9. \A t \in Others : code[t] = "f" /\ ip[t] = 1
  BY DEF TInv, OnlyMainCalls
<1> QED
  BY <1>1, <1>2, <1>5, <1>6, <1>7, <1>8, <1>9, MainMoves DEF TermSteps, StaySteps

LEMMA SpawnNewTInv ==
  ASSUME Inv, TInv, SpawnNew, UNCHANGED testVars
  PROVE  TInv'
<1>1. /\ cur = 0 /\ MainAt = pc /\ ip[0] # 1 /\ pc.tid \in Tid \ {0} /\ pc.tid \notin Others
      /\ code[pc.tid] = "f" /\ ip[pc.tid] = 1
      /\ activeThreads = Others \cup {pc.tid}
  BY MainCalls
  DEF SpawnNew, CallLabels, TInv, MainFollows, ThreadsTracked, StaySteps, TermSteps
<1>2. PICK o \in Obj \ Reachable :
        /\ queue' = [ queue EXCEPT ![pc.tid] = o ]
        /\ state' = [ state EXCEPT ![o] = READY ]
        /\ ctx' = [ ctx EXCEPT ![o] = User ]
  BY DEF SpawnNew
<1>3. /\ UNCHANGED << fifo, mutex, cur, test, failed, code, ip, activeThreads >>
      /\ pc'.at = "spawn_push" /\ pc'.tid = pc.tid
  BY DEF SpawnNew, lists, Goto, At, testVars, statics
<1>4. /\ queue \in [ Tid -> Obj \cup {NoObj} ]
      /\ state \in [ Obj -> {READY, RUNNING, BLOCKED} ]
      /\ ctx \in [ Obj -> Continuation ]
      /\ o # NoObj
  BY DEF Inv, TypeOK, Obj, NoObj
<1>5. \A t \in Tid : queue[t] # NoObj => queue[t] # o
  BY <1>2, <1>4 DEF Reachable, Live
<1>6. /\ Others' = Others \cup {pc.tid}
      /\ queue'[0] = queue[0] /\ queue'[pc.tid] = o
      /\ \A t \in Others : queue'[t] = queue[t]
      /\ queue[0] # o
  BY <1>1, <1>2, <1>4, <1>5, OtherFacts DEF Others, Contain
<1>7. MainAt' = pc'
  BY <1>1, <1>3 DEF MainAt, SchedLabels
<1>8. MainQueued'
  BY <1>1, <1>2, <1>3, <1>4, <1>6, OtherFacts DEF TInv, MainQueued, SchedLabels, Contain
<1>9. OnlyMainCalls'
  <2> SUFFICES ASSUME NEW t \in Others \cup {pc.tid}
               PROVE  code[t] = "f" /\ ip[t] = 1 /\ ctx'[queue'[t]].at = "user"
    BY <1>1, <1>3, <1>6 DEF OnlyMainCalls
  <2>1. CASE t \in Others
    <3>1. queue'[t] = queue[t] /\ queue[t] \in Obj /\ queue[t] # o
      BY <2>1, <1>5, <1>6, OtherFacts
    <3> QED
      BY <2>1, <3>1, <1>2, <1>4 DEF TInv, OnlyMainCalls
  <2>2. CASE t = pc.tid
    BY <2>2, <1>1, <1>2, <1>4, <1>6 DEF User, At
  <2> QED
    BY <2>1, <2>2
<1>10. MainFollows'
  BY <1>1, <1>3, <1>7 DEF TInv, MainFollows, Leaving, TermSteps, StaySteps, SpawnNew
<1>11. ThreadsTracked'
  BY <1>1, <1>3, <1>6, <1>7 DEF ThreadsTracked, TermSteps, StaySteps
<1> QED
  BY <1>3, <1>8, <1>9, <1>10, <1>11 DEF TInv, CodeType

LEMMA TermClearTInv ==
  ASSUME Inv, TInv, TermClear, UNCHANGED testVars
  PROVE  TInv'
<1>1. /\ cur = 0 /\ MainAt = pc /\ ip[0] # 1 /\ pc.tid \in Tid \ {0} /\ pc.tid \in Others
      /\ activeThreads = Others \ {pc.tid}
  BY MainCalls
  DEF TermClear, CallLabels, TInv, MainFollows, ThreadsTracked, StaySteps, TermSteps
<1>2. queue' = [ queue EXCEPT ![pc.tid] = NoObj ]
  BY DEF TermClear
<1>3. /\ UNCHANGED << fifo, mutex, cur, ctx, state, test, failed, code, ip, activeThreads >>
      /\ pc'.at = "user"
  BY <1>1 DEF TermClear, lists, thread, Return, User, At, testVars, statics
<1>4. queue \in [ Tid -> Obj \cup {NoObj} ]
  BY DEF Inv, TypeOK
<1>5. /\ Others' = Others \ {pc.tid}
      /\ queue'[0] = queue[0]
      /\ \A t \in Others \ {pc.tid} : queue'[t] = queue[t]
  BY <1>1, <1>2, <1>4, OtherFacts DEF Others, Contain
<1>6. MainAt' = pc'
  BY <1>1, <1>3 DEF MainAt, SchedLabels
<1>7. MainQueued'
  BY <1>1, <1>3, <1>5, OtherFacts DEF TInv, MainQueued, SchedLabels, Contain
<1>8. OnlyMainCalls'
  BY <1>1, <1>3, <1>5 DEF TInv, OnlyMainCalls
<1>9. MainFollows'
  BY <1>1, <1>3, <1>6 DEF TInv, MainFollows, Leaving, TermSteps, StaySteps, TermClear
<1>10. ThreadsTracked'
  BY <1>1, <1>3, <1>5, <1>6 DEF ThreadsTracked, TermSteps, StaySteps
<1> QED
  BY <1>3, <1>7, <1>8, <1>9, <1>10 DEF TInv, CodeType

\* The scheduler erases entries that are not main's.
LEMMA EraseTInv ==
  ASSUME Inv, TInv, PurgeDead \/ DropBlocked, UNCHANGED testVars
  PROVE  TInv'
<1>1. PICK i \in DOMAIN fifo :
        /\ fifo' = RemoveAt(fifo, i)
        /\ Gone(fifo[i]) \/ state[fifo[i]] = BLOCKED
  BY DEF PurgeDead, DropBlocked
<1>2. fifo[i] # queue[0]
  BY <1>1, OtherFacts DEF Gone, TInv, MainQueued, NoObj, Obj
<1>3. /\ NoObj \notin Range(fifo')
      /\ queue[0] \in Range(fifo) => queue[0] \in Range(fifo')
  BY <1>1, <1>2, RangeRemoveAt DEF Inv, TypeOK, TInv, MainQueued
<1>4. /\ UNCHANGED << queue, mutex, cur, total, ctx, state, pc >>
      /\ UNCHANGED << test, failed, code, ip, activeThreads >>
  BY DEF PurgeDead, DropBlocked, counters, thread, testVars, statics
<1>5. MainAt' = MainAt /\ Others' = Others
  BY <1>4 DEF MainAt, Others, Contain
<1>6. MainQueued'
  BY <1>3, <1>4 DEF TInv, MainQueued, Contain
<1>7. OnlyMainCalls' /\ MainFollows' /\ ThreadsTracked'
  BY <1>4, <1>5
  DEF TInv, OnlyMainCalls, MainFollows, ThreadsTracked, Leaving
<1> QED
  BY <1>4, <1>6, <1>7 DEF TInv, CodeType

LEMMA DispatchTInv ==
  ASSUME QuantaWrap > 1, Inv, TInv, Dispatch, UNCHANGED testVars
  PROVE  TInv'
<1>1. PICK i \in DOMAIN fifo :
        /\ IsNext(i)
        /\ fifo' = RemoveAt(fifo, i)
        /\ cur' = tidOf[fifo[i]]
  BY DEF Dispatch
<1>2. /\ pc.at \in SchedLabels /\ ~HasNull /\ ~HasGone
      /\ MainAt = ctx[queue[0]] /\ queue[0] \in Range(fifo)
  BY DEF Dispatch, InScheduler, MainAt, TInv, MainQueued
<1>3. /\ fifo \in Seq(Obj \cup {NoObj})
      /\ queue \in [ Tid -> Obj \cup {NoObj} ]
      /\ tidOf \in [ Obj -> Tid ]
      /\ state \in [ Obj -> {READY, RUNNING, BLOCKED} ]
  BY DEF Inv, TypeOK
<1>4. fifo[i] \in Obj
  BY <1>1, <1>2, <1>3 DEF HasNull
<1>5. cur' \in Tid /\ queue[cur'] # NoObj
  BY <1>1, <1>2, <1>3, <1>4 DEF HasGone, Gone
<1>6. /\ UNCHANGED << queue, mutex, ctx, test, failed, code, ip, activeThreads >>
      /\ state' = [ state EXCEPT ![queue[cur']] = RUNNING ]
      /\ total' = Incr(total)
      /\ pc' = IF pc.at = "sched_vtalrm" THEN ctx[queue[cur']] ELSE At("jump", NoTid)
  BY DEF Dispatch, testVars, statics
<1>7. Others' = Others
  BY <1>6 DEF Others, Contain
<1>8. ip[0] = 1 => pc.at = "sched_int" /\ total = 0 /\ cur' = 0
  BY <1>2, <1>5, OtherFacts DEF TInv, MainFollows, SchedLabels
<1>9. /\ cur' # 0 => cur' \in Others /\ pc'.at = "user"
      /\ cur' = 0 => pc' = MainAt \/ (ip[0] = 1 /\ pc'.at = "jump")
  BY <1>2, <1>5, <1>6, <1>8, OtherFacts
  DEF TInv, OnlyMainCalls, MainFollows, At, SchedLabels
<1>10. MainAt.at \notin SchedLabels \cup { "jump", "spin", "segv" }
  BY DEF TInv, MainFollows, TermSteps, StaySteps, SchedLabels
<1>11. MainAt' = MainAt
  BY <1>2, <1>6, <1>9, <1>10 DEF MainAt
<1>12. MainQueued'
  <2>1. NoObj \notin Range(fifo')
    BY <1>1, <1>3, RangeRemoveAt DEF TInv, MainQueued
  <2>2. cur' # 0 => queue[0] \in Range(fifo')
    BY <1>1, <1>2, <1>3, OtherFacts, RangeRemoveAt
  <2>3. pc'.at \notin SchedLabels
    BY <1>9, <1>10 DEF SchedLabels
  <2>4. state'[queue[0]] # BLOCKED
    BY <1>3, <1>6, OtherFacts DEF TInv, MainQueued, RUNNING, BLOCKED
  <2> QED
    BY <1>5, <1>6, <2>1, <2>2, <2>3, <2>4, OtherFacts DEF TInv, MainQueued, Contain
<1>13. OnlyMainCalls'
  BY <1>6, <1>7, <1>9 DEF TInv, OnlyMainCalls
<1>14. ip[0] = 1 => total' = 1
  BY <1>6, <1>8, UthreadsAssumption DEF Incr
<1>15. MainFollows'
  BY <1>6, <1>7, <1>8, <1>9, <1>10, <1>11, <1>14
  DEF TInv, MainFollows, Leaving, SchedLabels
<1>16. ThreadsTracked'
  BY <1>6, <1>7, <1>11 DEF TInv, ThreadsTracked
<1> QED
  BY <1>6, <1>12, <1>13, <1>15, <1>16 DEF TInv, CodeType

LEMMA JumpTInv ==
  ASSUME Inv, TInv, Jump, UNCHANGED testVars
  PROVE  TInv'
<1>1. pc.at = "jump" /\ cur = 0 /\ ip[0] = 1 /\ MainAt = ctx[queue[0]] /\ MainAt.at = "user"
  BY DEF Jump, TInv, MainFollows, MainAt
<1>2. /\ UNCHANGED << queue, fifo, mutex, cur, total, ctx, state >>
      /\ UNCHANGED << test, failed, code, ip, activeThreads >>
      /\ pc' = MainAt
  BY <1>1 DEF Jump, Self, lists, counters, thread, testVars, statics
<1>3. MainAt' = MainAt /\ Others' = Others
  BY <1>1, <1>2 DEF MainAt, Others, Contain
<1>4. MainQueued' /\ OnlyMainCalls'
  BY <1>1, <1>2, <1>3 DEF TInv, MainQueued, OnlyMainCalls, Contain, SchedLabels
<1>5. MainFollows' /\ ThreadsTracked'
  BY <1>1, <1>2, <1>3 DEF TInv, MainFollows, ThreadsTracked, Leaving
<1> QED
  BY <1>2, <1>4, <1>5 DEF TInv, CodeType

\* The quantum ends, in the loop of a thread or anywhere in the code of main.
LEMMA QuantumEndsTInv ==
  ASSUME Inv, TInv, QuantumEnds
  PROVE  TInv'
<1>1. /\ EnterScheduler(SIGVTALRM, pc)
      /\ pc.at \in ClientLabels \cup CallLabels
      /\ UNCHANGED << test, failed, code, ip, activeThreads >>
      /\ ip[0] # 1
  BY DEF QuantumEnds, Timer, Asserted, testVars, statics, TInv, MainFollows
<1>2. pc.at # "jump" /\ pc.at \notin SchedLabels
  BY <1>1 DEF TInv, MainFollows, ClientLabels, CallLabels, SchedLabels
<1>3. /\ fifo' = Append(fifo, Self)
      /\ ctx' = [ ctx EXCEPT ![Self] = pc ]
      /\ state' = [ state EXCEPT ![Self] = Stopped(Self) ]
      /\ pc'.at = "sched_vtalrm"
      /\ UNCHANGED << queue, mutex, cur, total >>
  BY <1>1 DEF EnterScheduler, Requeue, Goto, At, TInv, MainQueued, counters
<1>4. /\ fifo \in Seq(Obj \cup {NoObj}) /\ Self \in Obj
      /\ ctx \in [ Obj -> Continuation ]
      /\ state \in [ Obj -> {READY, RUNNING, BLOCKED} ]
  BY OtherFacts DEF Inv, TypeOK, Self
<1>5. MainAt' = MainAt
  BY <1>2, <1>3, <1>4, OtherFacts DEF MainAt, Self, SchedLabels
<1>6. Others' = Others
  BY <1>3 DEF Others, Contain
<1>7. MainQueued'
  <2>1. Range(fifo') = Range(fifo) \cup {Self}
    BY <1>3, <1>4, RangeAppend
  <2>2. NoObj \notin Range(fifo') /\ queue[0] \in Range(fifo')
    BY <1>4, <2>1 DEF TInv, MainQueued, Self, Obj, NoObj
  <2>3. state'[queue[0]] # BLOCKED
    BY <1>3, <1>4, OtherFacts DEF TInv, MainQueued, Stopped, READY, BLOCKED
  <2> QED
    BY <1>3, <2>2, <2>3 DEF TInv, MainQueued, Contain
<1>8. OnlyMainCalls'
  <2> SUFFICES ASSUME NEW t \in Others PROVE ctx'[queue[t]].at = "user"
    BY <1>1, <1>3, <1>6 DEF TInv, OnlyMainCalls
  <2>1. CASE t = cur
    BY <2>1, <1>2, <1>3, <1>4, OtherFacts DEF TInv, OnlyMainCalls, Self, SchedLabels
  <2>2. CASE t # cur
    <3>1. queue[t] # Self
      BY <2>2, OtherFacts DEF Self
    <3> QED
      BY <3>1, <1>3, <1>4, OtherFacts DEF TInv, OnlyMainCalls
  <2> QED
    BY <2>1, <2>2
<1>9. MainFollows' /\ ThreadsTracked'
  BY <1>1, <1>3, <1>5, <1>6 DEF TInv, MainFollows, ThreadsTracked, Leaving
<1> QED
  BY <1>1, <1>7, <1>8, <1>9 DEF TInv, CodeType

LEMMA LibraryTInv ==
  ASSUME QuantaWrap > 1, Inv, TInv, Library, UNCHANGED testVars
  PROVE  TInv'
<1>1. CASE pc.at \in SchedLabels
  <2>1. ~SchedulerFault
    <3> SUFFICES ASSUME SchedulerFault PROVE FALSE
      OBVIOUS
    <3>1. queue[0] \in Range(fifo) /\ state[queue[0]] # BLOCKED /\ ~HasNull
      BY <1>1 DEF TInv, MainQueued, HasNull, Range
    <3>2. state[queue[0]] # RUNNING
      BY <1>1, OtherFacts DEF Inv, RunningIsCurrent, NoObj, Obj
    <3>3. state[queue[0]] = READY
      BY <3>1, <3>2, OtherFacts DEF Inv, TypeOK
    <3> QED
      BY <3>1, <3>3 DEF SchedulerFault, Range, READY, RUNNING
  <2>2. PurgeDead \/ DropBlocked \/ Dispatch
    BY <1>1, <2>1
    DEF Library, SchedLabels, SpawnNew, SpawnPush, TermStart, TermTest, TermClear, Segv, Jump,
        BlockSet, BlockRaise, ResumeSet, ResumePush, LockTest, LockPush, LockBlock, LockRaise,
        LockTake, UnlockFree, UnlockWake, UnlockClear
  <2> QED
    BY <2>2, EraseTInv, DispatchTInv
<1>2. CASE pc.at = "jump"
  <2>1. Jump
    BY <1>2
    DEF Library, SpawnNew, SpawnPush, TermStart, TermTest, TermClear, Segv, PurgeDead,
        DropBlocked, Dispatch, SchedulerFault, InScheduler, SchedLabels,
        BlockSet, BlockRaise, ResumeSet, ResumePush, LockTest, LockPush, LockBlock, LockRaise,
        LockTake, UnlockFree, UnlockWake, UnlockClear
  <2> QED
    BY <2>1, JumpTInv
<1>3. CASE pc.at \notin SchedLabels \cup {"jump"}
  <2>1. pc.at \in CallLabels \ {"jump"}
    BY <1>3
    DEF Library, SpawnNew, SpawnPush, TermStart, TermTest, TermClear, Segv, PurgeDead, Jump,
        DropBlocked, Dispatch, SchedulerFault, InScheduler, SchedLabels, CallLabels,
        BlockSet, BlockRaise, ResumeSet, ResumePush, LockTest, LockPush, LockBlock, LockRaise,
        LockTake, UnlockFree, UnlockWake, UnlockClear
  <2>2. pc.at \in TermSteps \cup StaySteps \cup {"spawn_new"}
    BY <2>1, MainCalls
  <2>3. \/ SpawnNew \/ TermClear \/ SpawnPush \/ ResumePush
        \/ TermStart \/ TermTest \/ BlockSet \/ ResumeSet
    BY <2>2
    DEF Library, Segv, PurgeDead, Jump, TermSteps, StaySteps,
        DropBlocked, Dispatch, SchedulerFault, InScheduler, SchedLabels,
        BlockRaise, LockTest, LockPush, LockBlock, LockRaise,
        LockTake, UnlockFree, UnlockWake, UnlockClear
  <2> QED
    BY <2>3, SpawnNewTInv, TermClearTInv, PushTInv, TermTInv, SetTInv
<1> QED
  BY <1>1, <1>2, <1>3

\* The thread that runs calls nothing unless it is main.
LEMMA TestStepsOfMain ==
  ASSUME Inv, TInv, TestStep
  PROVE  /\ pc.at = "user" /\ cur = 0 /\ MainAt = pc /\ activeThreads = Others
         /\ \/ /\ OtherCall
               /\ \/ ip[0] = 1 /\ Op = uthread_get_total_quantums(1)
                  \/ ip[0] = 3 /\ Op = Exit
            \/ ip[0] = 2 /\ (RandomSpawn \/ RandomCall \/ RandomDone)
<1>1. InClient
  BY DEF TestStep, SpawnCall, OtherCall, Sleep, Wake, SetFlag, CheckFlag, Note, Compare, Load,
     Store, Await, RandomSpawn, RandomCall, RandomDone, Doing
<1>2. cur = 0
  <2> SUFFICES ASSUME cur # 0 PROVE FALSE
    OBVIOUS
  <2>1. Op.op = "forever"
    <3>1. Op = Do("forever")
      BY <1>1, Test6Op
    <3>2. Do("forever").op = "forever"
      BY DEF Do, Operation
    <3> QED
      BY <3>1, <3>2
  <2> QED
    BY <2>1, UthreadsAssumption
    DEF TestStep, SpawnCall, OtherCall, Sleep, Wake, SetFlag, CheckFlag, Note, Compare, Load,
        Store, Await, RandomSpawn, RandomCall, RandomDone, Doing, Getters
<1>3. MainAt = pc /\ pc.at = "user"
  BY <1>1, <1>2 DEF InClient, MainAt, SchedLabels
<1>4. activeThreads = Others
  BY <1>3 DEF TInv, ThreadsTracked, TermSteps
<1>5. \/ ip[0] = 1 /\ Op = uthread_get_total_quantums(1) /\ Op.op = "total"
      \/ ip[0] = 2 /\ Op.op = "doOperation"
      \/ ip[0] = 3 /\ Op = Exit /\ Op.op = "terminate"
  <2>1. /\ uthread_get_total_quantums(1).op = "total"
        /\ Do("doOperation").op = "doOperation"
        /\ Exit.op = "terminate"
    BY DEF uthread_get_total_quantums, Do, Exit, uthread_terminate, Operation
  <2> QED
    BY <1>1, <1>2, <2>1, Test6Op
<1>6. \/ OtherCall /\ ip[0] # 2
      \/ ip[0] = 2 /\ (RandomSpawn \/ RandomCall \/ RandomDone)
  BY <1>5, UthreadsAssumption
  DEF TestStep, SpawnCall, OtherCall, Sleep, Wake, SetFlag, CheckFlag, Note, Compare, Load,
      Store, Await, RandomSpawn, RandomCall, RandomDone, Doing, Getters
<1> QED
  BY <1>2, <1>3, <1>4, <1>5, <1>6

\* What the calls of Test6 return.
LEMMA Returns ==
  ASSUME Inv, TInv
  PROVE  /\ ReturnValue(uthread_get_total_quantums(1)) = total
         /\ ReturnValue(Exit) = 0
         /\ \A t \in Others : /\ ReturnValue(uthread_terminate(t, 0)) = 0
                              /\ ReturnValue(uthread_block(t, 0)) = 0
                              /\ ReturnValue(uthread_resume(t, 0)) = 0
<1>1. ASSUME NEW e, e.op = "total" PROVE ReturnValue(e) = total
  BY <1>1 DEF ReturnValue
<1>2. ASSUME NEW e, e.op \in { "terminate", "resume" }, Exists(Id(e))
      PROVE  ReturnValue(e) = 0
  BY <1>2 DEF ReturnValue, Status
<1>3. ASSUME NEW e, e.op = "block", Exists(Id(e)), Id(e) \in Blockable
      PROVE  ReturnValue(e) = 0
  BY <1>3 DEF ReturnValue, Status
<1>4. \A t \in Others \cup {0} : Exists(t) /\ t # Own /\ t \in Tid
  BY OtherFacts, UthreadsAssumption DEF Exists, Others, TInv, MainQueued, Tid, Own
<1>5. Others \subseteq Blockable
  BY DEF Others, Blockable
<1>6. ASSUME NEW op, NEW t \in Others \cup {0}, NEW text, NEW rc
      PROVE  Id(Operation(op, t, text, rc)) = t /\ Operation(op, t, text, rc).op = op
  BY <1>4 DEF Id, Operation
<1>7. ReturnValue(uthread_get_total_quantums(1)) = total
  BY <1>1 DEF uthread_get_total_quantums, Operation
<1>8. ASSUME NEW t \in Others \cup {0} PROVE ReturnValue(uthread_terminate(t, 0)) = 0
  <2>1. Id(uthread_terminate(t, 0)) = t /\ uthread_terminate(t, 0).op = "terminate"
    BY <1>6 DEF uthread_terminate
  <2> QED
    BY <1>2, <1>4, <2>1
<1>9. ASSUME NEW t \in Others PROVE ReturnValue(uthread_resume(t, 0)) = 0
  <2>1. Id(uthread_resume(t, 0)) = t /\ uthread_resume(t, 0).op = "resume"
    BY <1>6 DEF uthread_resume
  <2> QED
    BY <1>2, <1>4, <2>1
<1>10. ASSUME NEW t \in Others PROVE ReturnValue(uthread_block(t, 0)) = 0
  <2>1. Id(uthread_block(t, 0)) = t /\ uthread_block(t, 0).op = "block"
    BY <1>6 DEF uthread_block
  <2> QED
    BY <1>3, <1>4, <1>5, <2>1
<1> QED
  BY <1>7, <1>8, <1>9, <1>10 DEF Exit

\* While the set of Test6 is not full, uthread_spawn returns the least free ID.
LEMMA SpawnReturns ==
  ASSUME Inv, TInv, Cardinality(Others) < MaxThreadNum - 1
  PROVE  /\ ReturnValue(uthread_spawn("f", 0)) \in Tid \ {0}
         /\ \A t \in Tid \ {0} : FreeTid(t) => ReturnValue(uthread_spawn("f", 0)) = t
<1> DEFINE Free == { t \in Tid \ {0} : ~Contain(t) }
           F == { t \in Tid \ {0} : FreeTid(t) }
<1>1. MaxThreadNum \in Nat /\ Tid \ {0} = 1 .. MaxThreadNum - 1 /\ Tid \subseteq Nat
  BY UthreadsAssumption DEF Tid
<1>2. Free # {}
  <2> SUFFICES ASSUME Free = {} PROVE FALSE
    OBVIOUS
  <2>1. Others = 1 .. MaxThreadNum - 1
    BY <1>1 DEF Others
  <2>2. Cardinality(Others) = MaxThreadNum - 1
    BY <1>1, <2>1, UthreadsAssumption, FS_Interval
  <2> QED
    BY <1>1, <2>2
<1>3. PICK n \in Free : \A m \in Free : n <= m
  <2>1. Free \in SUBSET Nat
    BY <1>1
  <2> HIDE DEF Free
  <2> QED
    BY <1>2, <2>1, LeastElement
<1>4. n \in F
  BY <1>1, <1>3 DEF FreeTid, Contain
<1>5. \A t, u \in F : t = u
  BY <1>1 DEF FreeTid
<1>6. ReturnValue(uthread_spawn("f", 0)) = Max({Error} \cup F)
  BY DEF ReturnValue, uthread_spawn, Operation
<1>7. \A x \in {Error} \cup F : x <= n
  BY <1>1, <1>4, <1>5 DEF Error
<1>8. Max({Error} \cup F) = n
  <2>1. n \in {Error} \cup F /\ n \in Nat
    BY <1>1, <1>4
  <2>2. \A x \in {Error} \cup F : (\A y \in {Error} \cup F : x >= y) => x = n
    BY <1>1, <1>4, <1>5, <2>1 DEF Error
  <2>3. \A y \in {Error} \cup F : n >= y
    BY <1>1, <1>7, <2>1 DEF Error
  <2> HIDE DEF F
  <2> QED
    BY <2>1, <2>2, <2>3 DEF Max
<1> QED
  BY <1>4, <1>5, <1>6, <1>8

\* Main begins a call, or goes on to its next operation.
LEMMA TestStepTInv ==
  ASSUME QuantaWrap > 1, Inv, TInv, TestStep
  PROVE  TInv'
<1>1. pc.at = "user" /\ cur = 0 /\ MainAt = pc /\ activeThreads = Others
  BY TestStepsOfMain
<1>2. /\ 0 \in Tid /\ 0 \notin Others /\ Others \subseteq Tid
      /\ code \in [ Tid -> { "main", "f" } ] /\ ip \in [ Tid -> 1 .. 4 ]
      /\ code[0] = "main" /\ Tests[test] = Test6 /\ failed = {}
      /\ \A t \in Others : code[t] = "f" /\ ip[t] = 1
      /\ state[queue[0]] # BLOCKED /\ NoObj \notin Range(fifo)
  BY OtherFacts DEF Others, TInv, CodeType, MainFollows, OnlyMainCalls, MainQueued
\* Where main goes on without a call.
<1>3. ASSUME ip[0] < 3, ip' = [ ip EXCEPT ![0] = @ + 1 ],
             UNCHANGED << vars, test, code, activeThreads, failed >>
      PROVE  TInv'
  <2>1. UNCHANGED << queue, mutex, cur, tidOf, ctx, state, fifo, pc >>
    BY <1>3 DEF vars
  <2>2. /\ CodeType' /\ ip'[0] \in { 2, 3 }
        /\ \A t \in Others : ip'[t] = 1
    BY <1>2, <1>3 DEF CodeType
  <2> QED
    BY <1>1, <1>2, <1>3, <2>1, <2>2, MainMoves DEF TermSteps, StaySteps
\* Where main calls a function about a thread.
<1>4. ASSUME NEW t \in Others, NEW l \in { "term", "block_set", "resume_set" },
             pc'.at = l, pc'.tid = t, ip[0] = 2,
             UNCHANGED << queue, lists, mutex, cur, thread >>,
             UNCHANGED << test, code, ip, failed >>,
             activeThreads' = IF l = "term" THEN Others \ {t} ELSE Others
      PROVE  TInv'
  <2>1. UNCHANGED << queue, mutex, cur, tidOf, ctx, state, fifo >>
    BY <1>4 DEF thread, lists
  <2>2. CodeType'
    BY <1>2, <1>4 DEF CodeType
  <2> QED
    BY <1>1, <1>2, <1>4, <2>1, <2>2, MainMoves DEF TermSteps, StaySteps
<1>5. CASE OtherCall /\ ip[0] = 1 /\ Op = uthread_get_total_quantums(1)
  <2>1. Op.op \in Getters /\ Op.expected = 1
    BY <1>5 DEF uthread_get_total_quantums, Operation, Getters
  <2>2. total = 1
    BY <1>1, <1>5 DEF TInv, MainFollows
  <2>3. failed' = failed
    BY <1>5, <2>1, <2>2, Returns DEF OtherCall, Expect
  <2>4. UNCHANGED << vars, test, code, activeThreads >> /\ ip' = [ ip EXCEPT ![0] = @ + 1 ]
    BY <1>1, <1>5, <2>1 DEF OtherCall, Advance, statics
  <2> QED
    BY <1>3, <1>5, <2>3, <2>4
<1>6. CASE OtherCall /\ ip[0] = 3 /\ Op = Exit
  <2>1. Op.op = "terminate" /\ Op.expected = 0 /\ Id(Op) = 0
    <3>1. Exit.op = "terminate" /\ Exit.expected = 0 /\ Exit.tid = 0
      BY DEF Exit, uthread_terminate, Operation
    <3>2. Id(Exit) = 0
      BY <3>1 DEF Id, Own
    <3> QED
      BY <1>6, <3>1, <3>2
  <2>2. failed' = failed
    BY <1>6, <2>1, Returns DEF OtherCall, Expect
  <2>3. Begin(Op) /\ ip' = [ ip EXCEPT ![0] = @ + 1 ] /\ UNCHANGED << test, code, activeThreads >>
    BY <1>1, <1>6, <2>1, Returns DEF OtherCall, Advance, statics, Getters, Error
  <2>4. Terminate /\ pc'.tid = 0
    BY <2>1, <2>3 DEF Begin
  <2>5. /\ UNCHANGED << queue, mutex, cur, tidOf, ctx, state, fifo >>
        /\ pc'.at = "term"
    BY <2>4 DEF Terminate, Goto, At, lists, thread
  <2>6. /\ CodeType' /\ ip'[0] = 4
        /\ \A t \in Others : ip'[t] = 1
    BY <1>2, <1>6, <2>3 DEF CodeType
  <2> QED
    BY <1>1, <1>2, <2>2, <2>3, <2>4, <2>5, <2>6, MainMoves DEF TermSteps, StaySteps
<1>7. CASE RandomSpawn /\ ip[0] = 2
  <2> DEFINE r == ReturnValue(uthread_spawn("f", 0))
  <2>1. Cardinality(Others) < MaxThreadNum - 1
    BY <1>1, <1>7 DEF RandomSpawn
  <2>2. r \in Tid \ {0} /\ r > 0 /\ r # Error /\ \A t \in Tid \ {0} : FreeTid(t) => r = t
    BY <2>1, SpawnReturns, UthreadsAssumption DEF Tid, Error
  <2>3. /\ Expect(r > 0) /\ activeThreads' = Others \cup {r} /\ UNCHANGED test
        /\ Spawn
        /\ code' = [ code EXCEPT ![pc'.tid] = "f" ]
        /\ ip' = [ ip EXCEPT ![pc'.tid] = 1 ]
    BY <1>1, <1>7, <2>2 DEF RandomSpawn
  <2>4. failed' = failed
    BY <2>2, <2>3 DEF Expect
  <2>5. /\ pc'.at = "spawn_new" /\ pc'.tid = r /\ r \notin Others
        /\ UNCHANGED << queue, mutex, cur, tidOf, ctx, state, fifo >>
    <3>1. PICK t \in Tid \ {0} : FreeTid(t) /\ Goto("spawn_new", t)
      BY <2>3 DEF Spawn
    <3>2. t = r
      BY <2>2, <3>1
    <3>3. t \notin Others
      BY <3>1 DEF FreeTid, Others, Contain
    <3> HIDE DEF r
    <3> QED
      BY <2>3, <3>1, <3>2, <3>3 DEF Spawn, Goto, At, lists, thread
  <2> HIDE DEF r
  <2>6. /\ CodeType' /\ ip'[0] = 2 /\ code'[0] = "main"
        /\ \A t \in Others \cup {r} : ip'[t] = 1 /\ code'[t] = "f"
    BY <1>2, <1>7, <2>2, <2>3, <2>5 DEF CodeType
  <2> QED
    BY <1>1, <1>2, <2>2, <2>3, <2>4, <2>5, <2>6, MainMoves DEF TermSteps, StaySteps
<1>8. CASE RandomCall /\ ip[0] = 2
  <2>0. PICK t \in Others :
          \E e \in { uthread_terminate(t, 0), uthread_block(t, 0), uthread_resume(t, 0) } :
            /\ Expect(ReturnValue(e) = e.expected)
            /\ activeThreads' = Erased(e)
            /\ IF ReturnValue(e) = Error THEN UNCHANGED vars ELSE Begin(e)
    BY <1>1, <1>8 DEF RandomCall
  <2>1. PICK e \in { uthread_terminate(t, 0), uthread_block(t, 0), uthread_resume(t, 0) } :
          /\ Expect(ReturnValue(e) = e.expected)
          /\ activeThreads' = Erased(e)
          /\ IF ReturnValue(e) = Error THEN UNCHANGED vars ELSE Begin(e)
    BY <2>0
  <2>2. ReturnValue(e) = 0
    BY Returns
  <2>3. UNCHANGED << test, code, ip >>
    BY <1>8 DEF RandomCall
  <2>4. t # Own /\ t \in Tid
    BY <1>2, UthreadsAssumption DEF Tid, Own
  <2>5. /\ e.expected = 0 /\ Id(e) = t /\ e.tid = t
        /\ e.op \in { "terminate", "block", "resume" }
    <3>1. /\ uthread_terminate(t, 0).expected = 0 /\ uthread_terminate(t, 0).tid = t
          /\ uthread_terminate(t, 0).op = "terminate"
      BY DEF uthread_terminate, Operation
    <3>2. /\ uthread_block(t, 0).expected = 0 /\ uthread_block(t, 0).tid = t
          /\ uthread_block(t, 0).op = "block"
      BY DEF uthread_block, Operation
    <3>3. /\ uthread_resume(t, 0).expected = 0 /\ uthread_resume(t, 0).tid = t
          /\ uthread_resume(t, 0).op = "resume"
      BY DEF uthread_resume, Operation
    <3>4. e.expected = 0 /\ e.tid = t /\ e.op \in { "terminate", "block", "resume" }
      BY <3>1, <3>2, <3>3
    <3>5. Id(e) = t
      BY <3>4, <2>4 DEF Id
    <3> QED
      BY <3>4, <3>5
  <2>6. Begin(e) /\ failed' = failed
    BY <2>1, <2>2, <2>5 DEF Error, Expect
  <2>7. \/ e.op = "terminate" /\ Terminate /\ pc'.tid = t
        \/ e.op = "block" /\ Block /\ pc'.tid = t
        \/ e.op = "resume" /\ Resume /\ pc'.tid = t
    BY <2>5, <2>6 DEF Begin
  <2>8. activeThreads' = IF e.op = "terminate" THEN Others \ {t} ELSE Others
    BY <1>1, <2>1, <2>5 DEF Erased
  <2>9. UNCHANGED << queue, lists, mutex, cur, thread >>
    BY <2>7 DEF Terminate, Block, Resume
  <2>10. CASE e.op = "terminate"
    <3>1. pc'.at = "term"
      BY <2>7, <2>10 DEF Terminate, Goto, At
    <3> QED
      BY <1>4, <1>8, <2>3, <2>6, <2>7, <2>8, <2>9, <2>10, <3>1
  <2>11. CASE e.op = "block"
    <3>1. pc'.at = "block_set"
      BY <2>7, <2>11 DEF Block, Goto, At
    <3> QED
      BY <1>4, <1>8, <2>3, <2>6, <2>7, <2>8, <2>9, <2>11, <3>1
  <2>12. CASE e.op = "resume"
    <3>1. pc'.at = "resume_set"
      BY <2>7, <2>12 DEF Resume, Goto, At
    <3> QED
      BY <1>4, <1>8, <2>3, <2>6, <2>7, <2>8, <2>9, <2>12, <3>1
  <2> QED
    BY <2>7, <2>10, <2>11, <2>12
<1>9. CASE RandomDone /\ ip[0] = 2
  <2>1. ip' = [ ip EXCEPT ![0] = @ + 1 ] /\ UNCHANGED << vars, test, code, activeThreads, failed >>
    BY <1>1, <1>9 DEF RandomDone, Advance, statics
  <2> QED
    BY <1>3, <1>9, <2>1
<1> QED
  BY <1>5, <1>6, <1>7, <1>8, <1>9, TestStepsOfMain

LEMMA InitTInv == TestsInit /\ Tests[test] = Test6 => TInv
<1> SUFFICES ASSUME TestsInit, Tests[test] = Test6 PROVE TInv
  OBVIOUS
<1>1. 0 \in Tid /\ 1 \in Obj
  BY UthreadsAssumption DEF Tid, Obj
<1>2. /\ queue[0] = 1 /\ cur = 0 /\ pc.at = "sched_int" /\ Others = {} /\ MainAt.at = "user"
      /\ Range(fifo) = {1} /\ state[1] = READY /\ mutex = NoTid /\ total = 0
  BY <1>1 DEF TestsInit, Init, At, User, Others, Contain, MainAt, SchedLabels, NoObj, Range
<1>3. CodeType /\ code[0] = "main" /\ ip[0] = 1 /\ activeThreads = {} /\ failed = {}
  BY <1>1 DEF TestsInit, CodeType
<1> QED
  BY <1>2, <1>3
  DEF TInv, MainQueued, OnlyMainCalls, MainFollows, ThreadsTracked, Leaving, TermSteps,
      StaySteps, SchedLabels, Contain, NoObj, READY, BLOCKED

LEMMA NextTInv ==
  ASSUME QuantaWrap > 1
  PROVE  Inv /\ TInv /\ [TestsNext]_allVars => TInv'
<1> SUFFICES ASSUME Inv, TInv, [TestsNext]_allVars PROVE TInv'
  OBVIOUS
<1>1. CASE UNCHANGED allVars
  BY <1>1
  DEF allVars, vars, testVars, statics, TInv, CodeType, MainQueued, OnlyMainCalls, MainFollows,
      ThreadsTracked, Leaving, MainAt, Others, Contain
<1>2. CASE LibraryStep
  BY <1>2, LibraryTInv DEF LibraryStep
<1> QED
  BY <1>1, <1>2, TestStepTInv, QuantumEndsTInv DEF TestsNext, Over

\* Test6 calls the library at random, and its quantum ends anywhere.  Between
\* two calls of main its set of threads is that of the library: no call is lost
\* or done twice when it is interrupted; and every call returns what it expects.
THEOREM RandomTestCorrect ==
  ASSUME QuantaWrap > 1
  PROVE  TestsSpec /\ Tests[test] = Test6 => [](ActiveThreadsLive /\ ExpectationsHold)
<1>1. TestsSpec => []Inv
  BY TestsAreClients, SpecInv, PTL
<1>2. TestsSpec /\ Tests[test] = Test6 => []TInv
  BY <1>1, InitTInv, NextTInv, PTL DEF TestsSpec
<1>3. Inv /\ TInv => ActiveThreadsLive /\ ExpectationsHold
  <2> SUFFICES ASSUME Inv, TInv, Doing("doOperation") PROVE activeThreads = Others
    BY DEF ActiveThreadsLive, ExpectationsHold, TInv, Others
  <2>1. InClient /\ Op.op = "doOperation"
    BY DEF Doing
  <2>2. cur = 0
    <3> SUFFICES ASSUME cur # 0 PROVE FALSE
      OBVIOUS
    <3>1. Op = Do("forever")
      BY <2>1, Test6Op
    <3>2. Do("forever").op = "forever"
      BY DEF Do, Operation
    <3> QED
      BY <2>1, <3>1, <3>2
  <2>3. MainAt = pc /\ pc.at = "user"
    BY <2>1, <2>2 DEF InClient, MainAt, SchedLabels
  <2> QED
    BY <2>3 DEF TInv, ThreadsTracked, TermSteps
<1> QED
  BY <1>1, <1>2, <1>3, PTL
=============================================================================
