---------------------------- MODULE UthreadsTests ----------------------------
(***************************************************************************)
(* The tests of exercise 2 (ex2/tests_to_be_ran_separately.cpp) as client  *)
(* programs of the threads library.  A test is a set of functions, each a  *)
(* sequence of operations; a thread that runs a function does its          *)
(* operations one by one and notes the expectations that do not hold.      *)
(*                                                                         *)
(* Quanta are long (100 ms, 1 ms in Test2) where a test counts them: one   *)
(* ends only in a thread that waits in a loop.  The tests with a quantum   *)
(* of 1 us are interrupted anywhere after their first assertion.           *)
(***************************************************************************)
EXTENDS Uthreads

CONSTANTS
  RandomEntries   \* bound: entries of the lists when doOperation adds some

VARIABLES
  test,           \* the test that runs
  code,           \* code[t], the function of the thread
  ip,             \* ip[t], the position of its next operation
  local,          \* local[t], "end" of threadQuantumSleep while it sleeps, or
                  \* the register that ++ranAtLeastOnce loads
  flags,          \* the static flags that are true
  quantumsToTids, \* the map of Test3
  ranAtLeastOnce, \* the counter of Test4
  activeThreads,  \* the set of Test6
  failed          \* the expectations that did not hold

statics == << flags, quantumsToTids, ranAtLeastOnce, activeThreads >>
testVars == << test, code, ip, local, statics, failed >>
allVars == << vars, testVars >>

Own == -2                       \* uthread_get_tid() as an argument
Error == -1
-----------------------------------------------------------------------------
(***************************************************************************)
(* The operations: what is called, with which ID and which function or     *)
(* flag, and what EXPECT_EQ or EXPECT_TRUE expects.                        *)
(***************************************************************************)
Operation(op, tid, text, expected) ==
  [ op |-> op, tid |-> tid, text |-> text, expected |-> expected ]

uthread_spawn(f, tid) == Operation("spawn", NoTid, f, tid)
uthread_terminate(tid, rc) == Operation("terminate", tid, "", rc)
uthread_block(tid, rc) == Operation("block", tid, "", rc)
uthread_resume(tid, rc) == Operation("resume", tid, "", rc)
uthread_mutex_lock(rc) == Operation("lock", NoTid, "", rc)
uthread_mutex_unlock(rc) == Operation("unlock", NoTid, "", rc)
uthread_get_tid(tid) == Operation("tid", NoTid, "", tid)
uthread_get_quantums(tid, n) == Operation("quantums", tid, "", n)
uthread_get_total_quantums(n) == Operation("total", NoTid, "", n)
threadQuantumSleep(n) == Operation("sleep", NoTid, "", n)
EXPECT_TRUE(flag) == Operation("flag", NoTid, flag, TRUE)
EXPECT_FALSE(flag) == Operation("flag", NoTid, flag, FALSE)
Set(flag) == Operation("set", NoTid, flag, TRUE)
Do(op) == Operation(op, NoTid, "", 0)

EndSelf == uthread_terminate(Own, 0)
\* The parameter of ASSERT_EXIT, with which a test ends.
Exit == uthread_terminate(0, 0)
initializeWithPriorities == << uthread_get_total_quantums(1) >>

LONG == "long"
SHORT == "short"
-----------------------------------------------------------------------------
Test1 ==
  [ quantum |-> LONG,
    main |-> initializeWithPriorities \o
      << uthread_block(0, Error), uthread_get_quantums(0, 1),
         uthread_spawn("t1", 1), uthread_get_total_quantums(1),
         uthread_get_quantums(0, 1), threadQuantumSleep(1),
         EXPECT_TRUE("ran"), uthread_get_quantums(0, 2),
         uthread_get_total_quantums(3), uthread_get_quantums(1, Error),
         uthread_block(1, Error), uthread_resume(1, Error),
         uthread_terminate(1, Error), Exit >>,
    t1 |->
      << uthread_get_tid(1), uthread_get_quantums(1, 1),
         uthread_get_quantums(0, 1), uthread_get_total_quantums(2),
         Set("ran"), uthread_terminate(1, 0) >> ]

Test2 ==
  [ quantum |-> LONG,
    main |-> initializeWithPriorities \o
      << uthread_spawn("f", 1), uthread_spawn("g", 2), uthread_block(1, 0),
         threadQuantumSleep(1), Set("reached_middle"), threadQuantumSleep(1),
         EXPECT_TRUE("reached_f"), uthread_get_total_quantums(5), Exit >>,
    f |-> << EXPECT_TRUE("reached_middle"), Set("reached_f"),
             uthread_terminate(1, 0) >>,
    g |-> << uthread_resume(1, 0), uthread_terminate(2, 0) >> ]

expectedQuantumsToTids ==
  { <<1, 0>>, <<2, 1>>, <<3, 2>>, <<4, 0>>, <<5, 2>>, <<6, 1>>, <<7, 0>>,
    <<8, 2>>, <<9, 1>>, <<10, 0>>, <<11, 2>>, <<12, 1>>, <<13, 0>> }

Test3 ==
  [ quantum |-> LONG,
    main |-> initializeWithPriorities \o
      << uthread_spawn("t", 1), uthread_spawn("t", 2) >> \o
      FlattenSeq([ i \in 1 .. 4 |->
        << uthread_get_tid(0), uthread_resume(2, 0), uthread_resume(1, 0),
           uthread_get_quantums(0, i), Do("note"), threadQuantumSleep(1) >> ])
      \o << uthread_get_total_quantums(13), Do("note"), Do("compare"), Exit >>,
    t |-> FlattenSeq([ i \in 1 .. 4 |->
            << uthread_get_quantums(Own, i), Do("note"),
               uthread_block(Own, 0) >> ]) \o << EndSelf >> ]

SPAWN_COUNT == MaxThreadNum - 1

\* The threads to remove are the first of a random order.
Test4(threadsToRemove) ==
  [ quantum |-> SHORT,
    main |-> initializeWithPriorities \o
      [ i \in 1 .. SPAWN_COUNT |-> uthread_spawn("f", i) ] \o
      << Do("await"), uthread_spawn("f", Error) >> \o
      [ i \in DOMAIN threadsToRemove |->
          uthread_terminate(threadsToRemove[i], 0) ] \o
      [ i \in DOMAIN threadsToRemove |->
          uthread_spawn("f", SetToSortSeq(Range(threadsToRemove), <)[i]) ] \o
      << Exit >>,
    f |-> << Do("load"), Do("store"), Do("forever") >> ]
Removals ==
  { s \in [ 1 .. SPAWN_COUNT \div 3 -> 1 .. SPAWN_COUNT ] : IsInjective(s) }

Test6 ==
  [ quantum |-> SHORT,
    main |-> initializeWithPriorities \o << Do("doOperation"), Exit >>,
    f |-> << Do("forever") >> ]

\* The first quantum of thread 1 in the tests of the mutex.
FirstQuantum ==
  << uthread_get_tid(1), uthread_get_quantums(1, 1),
     uthread_get_quantums(0, 1), uthread_get_total_quantums(2) >>

Test7 ==
  [ quantum |-> LONG,
    main |-> initializeWithPriorities \o
      << uthread_spawn("t1", 1), uthread_get_total_quantums(1),
         uthread_get_quantums(0, 1), threadQuantumSleep(1),
         EXPECT_TRUE("ran"), uthread_get_quantums(0, 2),
         uthread_get_total_quantums(3), Exit >>,
    t1 |-> FirstQuantum \o
      << uthread_mutex_lock(0), uthread_mutex_unlock(0), Set("ran"),
         EndSelf >> ]

Test8 ==
  [ quantum |-> LONG,
    main |-> initializeWithPriorities \o
      << uthread_spawn("t1", 1), uthread_spawn("t2", 2),
         threadQuantumSleep(1), EXPECT_TRUE("ran"), Exit >>,
    t1 |-> FirstQuantum \o
      << uthread_mutex_lock(0), uthread_mutex_lock(Error), Set("ran"),
         EndSelf >>,
    t2 |-> << uthread_get_tid(2), uthread_mutex_lock(0), EndSelf >> ]

Test9 ==
  [ quantum |-> LONG,
    main |-> initializeWithPriorities \o
      << uthread_spawn("t1", 1), uthread_spawn("t2", 2),
         threadQuantumSleep(1), Exit >>,
    t1 |-> FirstQuantum \o
      << uthread_mutex_lock(0), threadQuantumSleep(1), EndSelf >>,
    t2 |-> << uthread_get_tid(2), uthread_mutex_lock(0),
              EXPECT_TRUE("false"), EndSelf >> ]

Test10 ==
  [ quantum |-> LONG,
    main |-> initializeWithPriorities \o
      << uthread_spawn("t1", 1), uthread_spawn("t2", 2),
         threadQuantumSleep(1), threadQuantumSleep(1), threadQuantumSleep(1),
         EXPECT_TRUE("ran"), Exit >>,
    t1 |-> FirstQuantum \o
      << uthread_mutex_lock(0), threadQuantumSleep(1),
         uthread_mutex_unlock(0), EndSelf >>,
    t2 |-> << uthread_get_tid(2), uthread_mutex_lock(0), Set("ran"),
              EndSelf >> ]

Test11 ==
  [ quantum |-> LONG,
    main |-> initializeWithPriorities \o
      << uthread_spawn("t1", 1), uthread_spawn("t2", 2),
         uthread_spawn("t3", 3) >> \o
      [ i \in 1 .. 8 |-> threadQuantumSleep(1) ] \o
      << EXPECT_TRUE("ran"), EXPECT_TRUE("ran2"),
         uthread_mutex_unlock(Error), Exit >>,
    t1 |-> FirstQuantum \o
      << uthread_mutex_lock(0), threadQuantumSleep(1),
         uthread_mutex_unlock(0), EndSelf >>,
    t2 |-> << uthread_get_tid(2), uthread_mutex_lock(0), Set("ran"),
              threadQuantumSleep(1), EndSelf >>,
    t3 |-> << uthread_get_tid(3), uthread_mutex_unlock(Error),
              uthread_mutex_lock(0), Set("ran2"), EndSelf >> ]

Test12 ==
  [ quantum |-> LONG,
    main |-> initializeWithPriorities \o
      << uthread_spawn("t1", 1), uthread_spawn("t2", 2),
         uthread_spawn("t3", 3) >> \o
      [ i \in 1 .. 4 |-> threadQuantumSleep(1) ] \o
      << uthread_spawn("t4", 1), threadQuantumSleep(1),
         threadQuantumSleep(1), EXPECT_TRUE("ran"), EXPECT_TRUE("ran2"),
         Exit >>,
    t1 |-> FirstQuantum \o
      << uthread_mutex_lock(0), threadQuantumSleep(1),
         uthread_mutex_unlock(0), EndSelf >>,
    t2 |-> << uthread_get_tid(2), uthread_mutex_lock(0), uthread_block(3, 0),
              Set("ran"), threadQuantumSleep(1), EndSelf >>,
    t3 |-> << uthread_get_tid(3), uthread_mutex_lock(0), Set("ran2"),
              EndSelf >>,
    t4 |-> << uthread_resume(3, 0), EndSelf >> ]

Test13 ==
  [ quantum |-> LONG,
    main |-> initializeWithPriorities \o
      << uthread_spawn("t1", 1), uthread_spawn("t2", 2),
         uthread_spawn("t3", 3) >> \o
      [ i \in 1 .. 4 |-> threadQuantumSleep(1) ] \o
      << EXPECT_TRUE("ran"), Exit >>,
    t1 |-> << uthread_get_tid(1), uthread_mutex_lock(0), uthread_block(2, 0),
              threadQuantumSleep(1), uthread_mutex_unlock(0),
              uthread_resume(2, 0), EndSelf >>,
    t2 |-> << uthread_get_tid(2), uthread_mutex_lock(0), EXPECT_TRUE("ran2"),
              Set("ran"), EndSelf >>,
    t3 |-> << uthread_get_tid(3), uthread_mutex_lock(0), Set("ran2"),
              EndSelf >> ]

Test14 ==
  [ quantum |-> LONG,
    main |-> initializeWithPriorities \o
      << uthread_spawn("t1", 1), uthread_spawn("t2", 2),
         uthread_spawn("t3", 3) >> \o
      [ i \in 1 .. 4 |-> threadQuantumSleep(1) ] \o
      << EXPECT_TRUE("ran2"), Exit >>,
    t1 |-> << uthread_get_tid(1), uthread_mutex_lock(0), uthread_block(2, 0),
              threadQuantumSleep(1), uthread_resume(2, 0),
              uthread_mutex_unlock(0), EndSelf >>,
    t2 |-> << uthread_get_tid(2), uthread_mutex_lock(0), Set("ran"),
              uthread_mutex_unlock(0), EndSelf >>,
    t3 |-> << uthread_get_tid(3), uthread_mutex_lock(0), EXPECT_TRUE("ran"),
              Set("ran2"), uthread_mutex_unlock(0), EndSelf >> ]

Test15 ==
  [ quantum |-> LONG,
    main |-> initializeWithPriorities \o
      << uthread_spawn("t1", 1), uthread_spawn("t2", 2),
         uthread_mutex_lock(0), threadQuantumSleep(1), EXPECT_FALSE("ran2"),
         EXPECT_TRUE("ran"), uthread_mutex_unlock(0), threadQuantumSleep(1),
         EXPECT_TRUE("ran2"), EXPECT_TRUE("ran"), Exit >>,
    t1 |-> << uthread_get_tid(1), uthread_mutex_unlock(Error),
              uthread_mutex_lock(0), Set("ran2"), uthread_mutex_unlock(0),
              EndSelf >>,
    t2 |-> << uthread_get_tid(2), uthread_mutex_unlock(Error), Set("ran"),
              EndSelf >> ]

Test16 ==
  [ quantum |-> LONG,
    main |-> initializeWithPriorities \o
      << uthread_spawn("t1", 1), uthread_spawn("t2", 2),
         threadQuantumSleep(1), EXPECT_FALSE("ran2"), EXPECT_TRUE("ran"),
         uthread_mutex_lock(0), EXPECT_TRUE("ran2"), EXPECT_TRUE("ran"),
         uthread_spawn("t3", 1), threadQuantumSleep(1),
         uthread_mutex_unlock(0), threadQuantumSleep(1), EXPECT_TRUE("ran2"),
         EXPECT_TRUE("ran"), EXPECT_TRUE("ran3"), Exit >>,
    t1 |-> << uthread_get_tid(1), uthread_mutex_lock(0), Set("ran"),
              threadQuantumSleep(1), uthread_mutex_lock(Error),
              uthread_mutex_unlock(0), EndSelf >>,
    t2 |-> << uthread_get_tid(2), uthread_mutex_lock(0), Set("ran2"),
              uthread_mutex_unlock(0), EndSelf >>,
    t3 |-> << uthread_get_tid(1), uthread_mutex_lock(0), Set("ran3"),
              uthread_mutex_unlock(0), EndSelf >> ]

Tests ==
  << Test1, Test2, Test3, Test6, Test7, Test8, Test9, Test10, Test11, Test12,
     Test13, Test14, Test15, Test16 >> \o
  SetToSeq({ Test4(s) : s \in Removals })
-----------------------------------------------------------------------------
(***************************************************************************)
(* What a call returns, before it changes anything.                        *)
(***************************************************************************)
Id(e) == IF e.tid = Own THEN cur ELSE e.tid
Exists(t) == t < MaxThreadNum /\ Contain(t)
Status(ok) == IF ok THEN 0 ELSE Error

ReturnValue(e) ==
  CASE e.op = "spawn" ->
         Max({Error} \cup { t \in Tid \ {0} : FreeTid(t) })
    [] e.op \in {"terminate", "resume"} -> Status(Exists(Id(e)))
    [] e.op = "block" -> Status(Exists(Id(e)) /\ Id(e) \in Blockable)
    [] e.op = "lock" -> Status(mutex # cur)
    [] e.op = "unlock" -> Status(mutex = cur)
    [] e.op = "tid" -> cur
    [] e.op = "quantums" -> IF Exists(Id(e)) THEN quanta[queue[Id(e)]]
                                             ELSE Error
    [] e.op = "total" -> total

\* The library accepts the call and goes to work on it.
Begin(e) ==
  \/ e.op = "spawn" /\ Spawn
  \/ e.op = "terminate" /\ Terminate /\ pc'.tid = Id(e)
  \/ e.op = "block" /\ Block /\ pc'.tid = Id(e)
  \/ e.op = "resume" /\ Resume /\ pc'.tid = Id(e)
  \/ e.op = "lock" /\ Lock
  \/ e.op = "unlock" /\ Unlock
Getters == { "tid", "quantums", "total" }
-----------------------------------------------------------------------------
(***************************************************************************)
(* The thread that runs does the next operation of its function.  A call   *)
(* that the library refuses changes nothing.                               *)
(***************************************************************************)
Op == Tests[test][code[cur]][ip[cur]]
Doing(op) == InClient /\ Op.op = op
Advance == ip' = [ ip EXCEPT ![cur] = @ + 1 ]
Expect(holds) ==
  failed' = IF holds THEN failed ELSE failed \cup { << code[cur], ip[cur] >> }

SpawnCall ==
  /\ Doing("spawn")
  /\ Expect(ReturnValue(Op) = Op.expected)
  /\ \/ /\ ReturnValue(Op) = Error
        /\ Advance
        /\ UNCHANGED << vars, code >>
     \/ /\ ReturnValue(Op) # Error
        /\ Spawn
        /\ code' = [ code EXCEPT ![pc'.tid] = Op.text ]
        /\ ip' = [ ip EXCEPT ![pc'.tid] = 1, ![cur] = @ + 1 ]
  /\ UNCHANGED << test, local, statics >>

OtherCall ==
  /\ InClient
  /\ Op.op \in (Ops \cup Getters) \ {"spawn"}
  /\ Expect(ReturnValue(Op) = Op.expected)
  /\ IF Op.op \in Getters \/ ReturnValue(Op) = Error
       THEN UNCHANGED vars
       ELSE Begin(Op)
  /\ Advance
  /\ UNCHANGED << test, code, local, statics >>

\* threadQuantumSleep: the loop ends when the quantum counter of the thread
\* has exactly the value computed before the loop.
Sleep ==
  /\ Doing("sleep")
  /\ local[cur] = 0
  /\ local' = [ local EXCEPT ![cur] = quanta[Self] + Op.expected ]
  /\ UNCHANGED << vars, test, code, ip, statics, failed >>

Wake ==
  /\ Doing("sleep")
  /\ local[cur] = quanta[Self]
  /\ local' = [ local EXCEPT ![cur] = 0 ]
  /\ Advance
  /\ UNCHANGED << vars, test, code, statics, failed >>

SetFlag ==
  /\ Doing("set")
  /\ flags' = flags \cup {Op.text}
  /\ Advance
  /\ UNCHANGED << vars, test, code, local, quantumsToTids, ranAtLeastOnce,
                  activeThreads, failed >>

CheckFlag ==
  /\ Doing("flag")
  /\ Expect((Op.text \in flags) = Op.expected)
  /\ Advance
  /\ UNCHANGED << vars, test, code, local, statics >>
-----------------------------------------------------------------------------
(***************************************************************************)
(* Test3: which thread had which quantum.                                  *)
(***************************************************************************)
Note ==
  /\ Doing("note")
  /\ quantumsToTids' =
       { p \in quantumsToTids : p[1] # total } \cup { << total, cur >> }
  /\ Advance
  /\ UNCHANGED << vars, test, code, local, flags, ranAtLeastOnce,
                  activeThreads, failed >>

Compare ==
  /\ Doing("compare")
  /\ Expect(quantumsToTids = expectedQuantumsToTids)
  /\ Advance
  /\ UNCHANGED << vars, test, code, local, statics >>
-----------------------------------------------------------------------------
(***************************************************************************)
(* Test4: ++ranAtLeastOnce, a load and a store of a volatile, and the loop *)
(* of main that waits for the counter.                                     *)
(***************************************************************************)
Load ==
  /\ Doing("load")
  /\ local' = [ local EXCEPT ![cur] = ranAtLeastOnce ]
  /\ Advance
  /\ UNCHANGED << vars, test, code, statics, failed >>

Store ==
  /\ Doing("store")
  /\ ranAtLeastOnce' = local[cur] + 1
  /\ local' = [ local EXCEPT ![cur] = 0 ]
  /\ Advance
  /\ UNCHANGED << vars, test, code, flags, quantumsToTids, activeThreads,
                  failed >>

Await ==
  /\ Doing("await")
  /\ ranAtLeastOnce = SPAWN_COUNT
  /\ Advance
  /\ UNCHANGED << vars, test, code, local, statics, failed >>
-----------------------------------------------------------------------------
(***************************************************************************)
(* Test6: random operations on the threads that the test takes for live.   *)
(***************************************************************************)
RandomSpawn ==
  /\ Doing("doOperation")
  /\ Cardinality(activeThreads) < MaxThreadNum - 1
  /\ Entries < RandomEntries            \* bound
  /\ Expect(ReturnValue(uthread_spawn("f", 0)) > 0)
  /\ activeThreads' = activeThreads \cup {ReturnValue(uthread_spawn("f", 0))}
  /\ \/ /\ ReturnValue(uthread_spawn("f", 0)) = Error
        /\ UNCHANGED << vars, code, ip >>
     \/ /\ ReturnValue(uthread_spawn("f", 0)) # Error
        /\ Spawn
        /\ code' = [ code EXCEPT ![pc'.tid] = "f" ]
        /\ ip' = [ ip EXCEPT ![pc'.tid] = 1 ]
  /\ UNCHANGED << test, local, flags, quantumsToTids, ranAtLeastOnce >>

\* Mutant: a terminated thread is not erased from the set.
ErasedNot(e) == activeThreads
Erased(e) == IF e.op = "terminate" THEN activeThreads \ {e.tid}
             ELSE activeThreads

RandomCall ==
  /\ Doing("doOperation")
  /\ \E tid \in activeThreads :
     \E e \in { uthread_terminate(tid, 0), uthread_block(tid, 0),
                uthread_resume(tid, 0) } :
       /\ e.op = "resume" => Entries < RandomEntries    \* bound
       /\ Expect(ReturnValue(e) = e.expected)
       /\ activeThreads' = Erased(e)
       /\ IF ReturnValue(e) = Error THEN UNCHANGED vars ELSE Begin(e)
  /\ UNCHANGED << test, code, ip, local, flags, quantumsToTids,
                  ranAtLeastOnce >>

\* The iterations are done.
RandomDone ==
  /\ Doing("doOperation")
  /\ Advance
  /\ UNCHANGED << vars, test, code, local, statics, failed >>
-----------------------------------------------------------------------------
\* The thread that runs waits for the end of its quantum: in a loop of
\* threadQuantumSleep, or in that of SIGSEGVHandler.
Idle ==
  \/ pc.at = "spin"
  \/ Doing("sleep") /\ local[cur] \notin {0, quanta[Self]}

\* A quantum is a tick of the timer at least: the first one lasts until the
\* assertion that follows uthread_init.
Asserted == ip[0] > 1

QuantumEnds ==
  /\ Asserted
  /\ Tests[test].quantum = LONG => Idle
  /\ Timer
  /\ UNCHANGED testVars

LibraryStep == Library /\ UNCHANGED testVars

\* The process has ended.
Over == pc.at = "exit" /\ UNCHANGED allVars

TestsInit ==
  /\ Init
  /\ test \in DOMAIN Tests
  /\ code = [ t \in Tid |-> "main" ]
  /\ ip = [ t \in Tid |-> 1 ]
  /\ local = [ t \in Tid |-> 0 ]
  /\ flags = {}
  /\ quantumsToTids = {}
  /\ ranAtLeastOnce = 0
  /\ activeThreads = {}
  /\ failed = {}

TestStep ==
  \/ SpawnCall \/ OtherCall \/ Sleep \/ Wake \/ SetFlag \/ CheckFlag
  \/ Note \/ Compare \/ Load \/ Store \/ Await
  \/ RandomSpawn \/ RandomCall \/ RandomDone

TestsNext == TestStep \/ LibraryStep \/ QuantumEnds \/ Over

TestsSpec == TestsInit /\ [][TestsNext]_allVars
-----------------------------------------------------------------------------
\* Every EXPECT and ASSERT of every test holds.
ExpectationsHold == failed = {}

\* The tests with long quanta come to an end, before total would wrap.
EndsInTime == Tests[test].quantum = LONG => total < QuantaWrap - 2

\* Between two operations Test6 knows which threads the library has.
ActiveThreadsLive ==
  Doing("doOperation") =>
    activeThreads = { t \in Tid \ {0} : Contain(t) }
=============================================================================
