---------------------------- MODULE SampleClient ----------------------------
(***************************************************************************)
(* The tests and sample programs of the map-reduce framework as its        *)
(* clients (ex3/SampleClient.cpp, ex3/SampleClientTest.cpp and             *)
(* ex3/Sample Client/SampleClient.cpp).  A program is a sequence of        *)
(* operations, each a function of the framework or a look at the output.   *)
(* Jobs share nothing, so that a program with several is shown as one of   *)
(* them sees it.  MtLevel threads stand for the 3 to 200 of the programs;  *)
(* outputTestOneThreadOnly has one.                                        *)
(***************************************************************************)
EXTENDS MapReduce, SequencesExt

CONSTANTS
  Content     \* Content[i], the letters of the string of item i

VARIABLES
  test,       \* the program that runs
  ip,         \* the position of its next operation
  last,       \* last_state
  waiter,     \* the next operation of the second thread of the program
  missing,    \* the threads that pthread_create failed to create
  fails       \* the FAILs of the program

testVars == << test, ip, last, waiter, missing, fails >>
allVars == << vars, testVars >>
-----------------------------------------------------------------------------
(***************************************************************************)
(* The client's functions: map counts the letters of a string, reduce adds *)
(* the counts of one letter up.  A letter is a key.                        *)
(***************************************************************************)
Counts(i, k) == Cardinality({ j \in DOMAIN Content[i] : Content[i][j] = k })
MapEmits(i) == { k \in Keys : Counts(i, k) # 0 }
ReduceCount(pairs) ==
  MapThenFoldSet(+, 0, LAMBDA p : Counts(p[2], p[1]),
                 LAMBDA S : CHOOSE p \in S : TRUE, pairs)

ASSUME SampleAssumption ==
  /\ Content \in [ Items -> Seq(Keys) ]
  /\ \A i \in Items : Emits[i] = MapEmits(i)
-----------------------------------------------------------------------------
(***************************************************************************)
(* The programs.                                                           *)
(***************************************************************************)
waitAndCloseTest ==
  << "startMapReduceJob", "getJobState", "waitForJob", "closeJobHandle" >>

errorMessageTest == << "startMapReduceJob", "ASSERT_EXIT" >>

outputTestFunc ==
  << "startMapReduceJob", "pollUntilReduced", "closeJobHandle", "checkOutput" >>

\* The thread that the test starts, and what the main thread does after that.
waiterThread == << "waitForJob", "checkOutput" >>
mainThread == << "waitForJob", "checkOutput", "join" >>
outputTestWaitFromTwoThreads ==
  << "startMapReduceJob", "getJobState", "thread" >> \o mainThread

\* Three jobs are started and closed, and then their outputs are looked at in
\* turn: the program as each of the three sees it.
outputTest3Clients == << "startMapReduceJob", "closeJobHandle" >>
client1 == outputTest3Clients \o << "checkOutput" >>
client2 == outputTest3Clients \o << "checkOther", "checkOutput" >>
client3 == outputTest3Clients \o << "checkOther", "checkOther", "checkOutput" >>

outputTestOneThreadOnly ==
  << "startMapReduceJob", "pollUntilReduced", "closeJobHandle", "checkOutput" >>

progressTest ==
  << "startMapReduceJob", "pollAndCheck", "closeJobHandle" >>

deadlockTest ==
  << "startMapReduceJob", "pollUntilReduced", "closeJobHandle" >>

randbody ==
  << "startMapReduceJob", "pollAndCheckLast", "pollAgain", "closeJobHandle" >>

\* main of the sample programs: the output is printed.
main ==
  << "startMapReduceJob", "pollUntilReduced", "closeJobHandle", "print" >>

Programs ==
  [ waitAndCloseTest |-> waitAndCloseTest,
    errorMessageTest |-> errorMessageTest,
    outputTestFunc |-> outputTestFunc,
    outputTestWaitFromTwoThreads |-> outputTestWaitFromTwoThreads,
    client1 |-> client1,
    client2 |-> client2,
    client3 |-> client3,
    outputTestOneThreadOnly |-> outputTestOneThreadOnly,
    progressTest |-> progressTest,
    deadlockTest |-> deadlockTest,
    randbody |-> randbody,
    main |-> main ]
Program == Programs[test]
Op == Program[ip]
Doing(op) == ip <= Len(Program) /\ Op = op
Advance == ip' = ip + 1
-----------------------------------------------------------------------------
(***************************************************************************)
(* startMapReduceJob: the threads are created one by one, and a failure of *)
(* pthread_create, as when there are too many threads, is ignored.         *)
(***************************************************************************)
Exists(t) == pc[t] # "none" \/ t \in missing
FirstUncreated(t) == ~Exists(t) /\ \A u \in 0 .. t - 1 : Exists(u)

StartJob ==
  /\ Doing("startMapReduceJob")
  /\ \E t \in Threads :
       /\ FirstUncreated(t)
       /\ \/ Goto(t, "start") /\ UNCHANGED missing
          \/ /\ test = "errorMessageTest"
             /\ missing' = missing \cup {t}
             /\ UNCHANGED pc
       /\ IF t = MtLevel - 1 THEN Advance /\ cpc' = "poll"
                             ELSE UNCHANGED << ip, cpc >>
  /\ UNCHANGED << barrierVars, owner, stage, data, results, polled, calls,
                  test, last, waiter, fails >>
-----------------------------------------------------------------------------
(***************************************************************************)
(* getJobState, and what the programs do with the state it returns.        *)
(***************************************************************************)
Polls == { "getJobState", "pollUntilReduced", "pollAndCheck",
           "pollAndCheckLast", "pollAgain" }
InProgram == ip <= Len(Program)

GetJobState ==
  /\ InProgram
  /\ Op \in Polls
  /\ PollLock \/ ReadProgress
  /\ UNCHANGED testVars

\* The comparison of a state with the last one, where they differ.
Failures(state) ==
  { f \in { "percentage", "smaller", "stage" } :
      /\ state # last
      /\ CASE f = "percentage" -> state.percent \notin 0 .. 100
           [] f = "smaller" -> /\ last.stage = state.stage
                               /\ state.percent < last.percent
           [] f = "stage" -> last.stage > state.stage }

\* FAIL() leaves the test.
Judge(found, next) ==
  /\ fails' = fails \cup found
  /\ ip' = IF found = {} THEN next ELSE Len(Program) + 1

Returned ==
  CASE Op = "getJobState" -> Judge({}, ip + 1) /\ UNCHANGED last
    [] Op = "pollUntilReduced" ->
         Judge({}, IF report' = AllReduced THEN ip + 1 ELSE ip)
         /\ UNCHANGED last
    [] Op = "pollAndCheck" ->
         IF report' = AllReduced
           THEN Judge({}, ip + 1) /\ UNCHANGED last
           ELSE Judge(Failures(report'), ip) /\ last' = report'
    [] Op = "pollAndCheckLast" ->
         IF report'.stage = REDUCE_STAGE /\ last.percent = 100
           THEN Judge({}, ip + 2) /\ UNCHANGED last
           ELSE Judge(Failures(report'), ip + 1) /\ last' = report'
    [] Op = "pollAgain" -> Judge({}, ip - 1) /\ UNCHANGED last

GetJobStateReturns ==
  /\ InProgram
  /\ Op \in Polls
  /\ cpc = "report"
  /\ report' = [ stage |-> stage, percent |-> percent ]
  /\ owner' = Free
  /\ percent' = 0
  /\ cpc' = "poll"
  /\ Returned
  /\ UNCHANGED << barrierVars, pc, stage, data, results, calls, test, waiter,
                  missing >>
-----------------------------------------------------------------------------
(***************************************************************************)
(* waitForJob and closeJobHandle return at once, and the output is looked  *)
(* at as it is: each of its pairs has to be expected, and none missed.     *)
(***************************************************************************)
Returns ==
  /\ \/ Doing("waitForJob") \/ Doing("closeJobHandle") \/ Doing("print")
  /\ Advance
  /\ UNCHANGED << vars, test, last, waiter, missing, fails >>

\* expectedOutput: the letters of all strings, with how often they occur.  The
\* count of a pair is that of the group that reduce was called with.
Occurrences(k) ==
  Cardinality({ p \in Items \X (1 .. Max({ Len(Content[i]) : i \in Items })) :
                  p[2] <= Len(Content[p[1]]) /\ Content[p[1]][p[2]] = k })
Expected(k) ==
  /\ Occurrences(k) > 0
  /\ \A pairs \in Range(given[k]) : ReduceCount(pairs) = Occurrences(k)
Places(k) == { j \in DOMAIN output : output[j] = k }
OutputFailures ==
  { f \in { "unexpected", "missed" } :
      CASE f = "unexpected" ->
             \E k \in Range(output) \ {Garbage} :
               ~Expected(k) \/ Cardinality(Places(k)) > 1
        [] f = "missed" ->
             \E k \in Keys : Occurrences(k) > 0 /\ Places(k) = {} }

CheckOutput ==
  /\ Doing("checkOutput")
  /\ Judge(OutputFailures, ip + 1)
  /\ UNCHANGED << vars, test, last, waiter, missing >>

\* The output of another job: where a pair is missing, FAIL leaves the test
\* before the output of this one is looked at.
CheckOther ==
  /\ Doing("checkOther")
  /\ Advance \/ ip' = Len(Program) + 1
  /\ UNCHANGED << vars, test, last, waiter, missing, fails >>

\* The second thread of outputTestWaitFromTwoThreads.
StartThread ==
  /\ Doing("thread")
  /\ waiter' = 1
  /\ Advance
  /\ UNCHANGED << vars, test, last, missing, fails >>

WaiterRuns ==
  /\ waiter \in DOMAIN waiterThread
  /\ waiter' = waiter + 1
  /\ fails' = IF waiterThread[waiter] = "checkOutput"
                THEN fails \cup OutputFailures ELSE fails
  /\ UNCHANGED << vars, test, ip, last, missing >>

Join ==
  /\ Doing("join")
  /\ waiter > Len(waiterThread)
  /\ Advance
  /\ UNCHANGED << vars, test, last, waiter, missing, fails >>

\* ASSERT_EXIT: the process did not exit, the job was started.
AssertExit ==
  /\ Doing("ASSERT_EXIT")
  /\ Judge({"ASSERT_EXIT"}, ip + 1)
  /\ UNCHANGED << vars, test, last, waiter, missing >>
-----------------------------------------------------------------------------
TestsInit ==
  /\ Init
  /\ test \in DOMAIN Programs
  /\ test = "outputTestOneThreadOnly" <=> MtLevel = 1
  /\ ip = 1
  /\ last = [ stage |-> UNDEFINED_STAGE, percent |-> 0 ]
  /\ waiter = 0
  /\ missing = {}
  /\ fails = {}

WorkStep(t) == Work(t) /\ UNCHANGED testVars
LockStep(t) == Locks(t) /\ UNCHANGED testVars

TestStep ==
  \/ StartJob \/ GetJobState \/ GetJobStateReturns \/ Returns \/ CheckOutput
  \/ CheckOther \/ StartThread \/ Join \/ AssertExit

TestsNext == TestStep \/ WaiterRuns \/ \E t \in Threads : WorkStep(t)

TestsSpec == TestsInit /\ [][TestsNext]_allVars

\* As in FairSpec, and the two threads of the program are scheduled.
TestsFairSpec ==
  /\ TestsSpec
  /\ WF_allVars(TestStep)
  /\ WF_allVars(WaiterRuns)
  /\ \A t \in Threads : WF_allVars(WorkStep(t)) /\ SF_allVars(LockStep(t))
-----------------------------------------------------------------------------
\* No test sees a percentage that is none, or the stages in the wrong order,
\* and no output has a pair that the test does not expect or has it twice.
NeverFails ==
  fails \cap { "percentage", "stage", "unexpected" } = {}

\* Every letter is in the output when a test looks at it.
NothingMissed == "missed" \notin fails

\* Without all its threads a job does not come to the shuffle: no thread passes
\* the barrier, and no state but that of the map phase is reported.
NothingReducedWithoutAll ==
  missing # {} =>
    /\ \A t \in Threads : passed[t] = 0
    /\ report.stage \in { UNDEFINED_STAGE, MAP_STAGE }

\* Every program comes to its end, and every job that has its threads.
TestsEnd ==
  <>(ip > Len(Program) /\ waiter \notin DOMAIN waiterThread /\
     (missing = {} => \A t \in Threads : pc[t] = "done"))
=============================================================================
