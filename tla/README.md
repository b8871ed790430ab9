# Models and proofs of the OS course exercises

The repository holds four exercises of an operating systems course: a library for time measurement (ex1), a library of
user-level threads (ex2), a map-reduce framework on POSIX threads (ex3) and a simulated virtual memory (ex4). The three
that keep state are modelled here in TLA+, checked with TLC on small instances, and, where the prover reaches, proved
with TLAPS for every value of the constants; the small programs beside them are proved about only. `PROJECT.json` lists
the runs, their mutants, the source lines behind every definition, the findings, the hazards and the theorems.

## The system

### User-level threads (`ex2/uthreads.cpp`, `ex2/Threads.cpp`)

*State.* `queue[tid]`, the Thread of each ID; `g_fifoQueue`, the ready list, and `g_blockedMutexQueue`, the list of
waiters for the one mutex (both hold pointers that outlive the threads); `g_mutex`, the ID that holds it;
`g_currenttid`; the counters of quanta; in each Thread its ID, state and `sigjmp_buf`.

*Operations.* `uthread_init`, `spawn`, `terminate`, `block`, `resume`, `mutex_lock`, `mutex_unlock`, four getters. The
scheduler, `SchedulerMain`, is the handler of SIGVTALRM (a quantum of the virtual timer ends) and of SIGINT (raised by a
thread that gives up the processor); it saves the context with `sigsetjmp` and leaves with `siglongjmp`. When it runs
off the end of the ready list, the fault handler ends the process or leaves it spinning.

*Hard.* The handler interrupts the calls: `MACRO_BLOCK_SIG` puts the numbers of the signals into the bit set, which
blocks 2, 4 and 5 (by luck SIGINT) but not SIGVTALRM (26). IDs are reused while the lists still name the old threads. A
thread can be ended, blocked or resumed while it waits for the mutex.

*Correct means*: one running thread, one holder of the mutex, and that one alive; every ready thread is in the ready
list and runs again; every waiter is found by the unlock; a blocked thread does not run before its resume; the counters
add up; the scheduler does not run off the list.

### Barrier and map-reduce framework (`ex3/Barrier`, `ex3/MapReduceFramework.cpp`)

*State.* The barrier: a mutex, a condition variable, a counter. The job: input vector, one vector of pairs per thread,
the map with its initial size, `stage`, the output vector, one mutex.

*Operations.* `Barrier::barrier`; `startMapReduceJob`, the threads' `map_reduce_call` (map, barrier, shuffle by thread
0, barrier, reduce), `emit2`, `emit3`, `getJobState`, `waitForJob`, `closeJobHandle`. The client's `map` and `reduce`
are callbacks; its main starts a job, polls `getJobState` or waits, closes the handle and reads the output.

*Hard.* The barrier is used twice in a row. `stage` is written without the mutex by every thread and read twice in one
`getJobState`. `emit3` pushes to the shared output without a mutex. `pthread_tryjoin_np` does not wait.

*Correct means*: rounds of the barrier do not mix; each item is mapped once; then each key is reduced once with its
whole group; the reported state only advances; all threads end; the output is complete when the handle is closed.

### Virtual memory (`ex4/VirtualMemory.cpp`, `ex4/PhysicalMemory.cpp`)

*State.* Only the RAM (words in frames) and the swap file (pages). The page tables are a tree in the RAM with its root
in frame 0; which frames are in use is found by walking the tree.

*Operations.* `VMinitialize`, `VMread`, `VMwrite` over `PMread`, `PMwrite`, `PMevict`, `PMrestore`. `getPAddr` fills
one missing entry after the other: it takes the frame of a clear table (or clear page), else the first unused frame,
else it evicts the page of greatest weight.

*Hard.* No concurrency; long sequences of legal calls. The tree is read back out of words that clients may have
written, the first unused frame is guessed from the size of the tree, tables are found clear and moved, a page of zeros
counts as clear, addresses beyond the memory wrap before they are refused.

*Correct means*: a word that was written is read back; the tree stays a tree over the first frames; the walk ends.

### The tests

The repository's tests are clients of the three libraries, and the closest there is to a statement of what is expected
of them; each is modelled as the program it is.

*ex2*: `tests_to_be_ran_separately.cpp`, fifteen tests that each end the process. Most count quanta exactly and end
them in a loop that watches the own counter; two run with a quantum of 1 µs and are interrupted anywhere.
*ex3*: `SampleClient.cpp`, `SampleClientTest.cpp` and the sample program: jobs started, polled, waited for by one or two
threads, closed, and the output compared with what is expected; one asks for more threads than there can be.
*ex4*: `kb_tests.cpp` with `Common.h`, and `SimpleTest.cpp`: writes and reads in several orders, over a RAM that was
zeroed, filled or left as it was, one after the other in one process, so that the swap file stays.

*Correct means*: every expectation holds, and every test ends.

### The rest

Small programs that come with the exercises, each modelled in a module of its own and proved about, in no run:

* `ex3/Atomic/atomicdemo.cpp`: threads that lose increments of a plain counter on purpose, and none of an atomic one;
  `atomicdemo_multivar.cpp`: threads that keep three counters in one atomic word, printed through masks.
* `ex2/demos/demo_jmp.c`: two functions that jump between their stacks, as the threads library does;
  `demo_itimer.c`: a handler of the virtual timer and a loop share a flag.
* `ex1/osm.cpp`: three measurements, each a loop between two calls of `gettimeofday`; the arithmetic on the two times
  adds a second to the microseconds without taking one off the seconds.

`dMapReduceFramework.cpp` and `cMapReduceFramework.cpp` are the framework again, up to one log line and one `#include`.
`demo_singInt_handler.c` prints a line per signal; `ex2/mytest.cpp` and `src/tests` are empty or test an interface that
the library no longer has. None of these is modelled, nor are the build trees, notes and recorded outputs.

The exercises do not call each other. Within one, all interaction is by shared variables, signals (ex2), a mutex and a
condition variable (ex3), or calls (ex4).

## Modules

| Module | Contents |
| --- | --- |
| `Scheduler` | what the threads library promises: a call is one step |
| `Uthreads` | the threads library, with any client, shown to implement it |
| `UthreadsProofs` | theorems about it: types, current thread, mutex, quanta, the two lists |
| `UthreadsClientProofs` | that it implements `Scheduler`, and theorems about the tests |
| `UthreadsTests` | the tests of ex2, clients of the library |
| `MCUthreads`, `MCUthreadsTests` | state views for TLC |
| `BarrierRounds` | what a barrier promises |
| `Barrier` | `Barrier::barrier`, shown to implement it |
| `BarrierProofs` | theorems about it |
| `MapReduceJob` | what a job promises |
| `MapReduce` | the framework on top of `Barrier`, with a client |
| `MapReduceProofs` | theorems about it |
| `SampleClient` | the tests and sample programs of ex3, clients of the framework |
| `SampleClientProofs` | theorems about them |
| `MCMapReduce`, `MCSampleClient` | the emitted keys of the runs |
| `Memory` | what the virtual memory promises |
| `PhysicalMemory` | RAM and swap file |
| `VirtualMemory` | the virtual memory on top of it |
| `VirtualMemoryTests` | the tests of ex4, clients of the virtual memory |
| `VirtualMemoryProofs` | theorems about the memory and about its tests |
| `AtomicCounter`, `AtomicFields` | the demonstrations of an atomic counter, and of three in one word |
| `JumpDemo`, `IntervalTimer` | the demonstrations of jumps between stacks and of the timer |
| `TimeMeasurement` | the time measurements of ex1 |
| `DemoProofs` | theorems about these five |
| `NaturalLemmas` | quotients, induction over a set of numbers, cardinalities: lemmas that several proofs use |

Definitions whose comment begins with "Mutant:" are versions of the one that follows with a bug in it; they are used to
see that each property notices, and by nothing else.

### Uthreads and the code

A Thread object is a member of `Obj`; objects are never freed in the code, and here one is reused when no pointer
reaches it. Registers and stack are a *continuation*, the label of the code to go on with and the thread ID the call is
about: `pc` is the one the processor runs, `ctx[o]` the one in `o->env`. The environment is a client that makes any
call of `Ops` with any ID whenever it is at `"user"`.

Each call is split at its accesses to shared state, one action each: `uthread_mutex_lock` is `Lock`, `LockTest`,
`LockPush`, `LockBlock`, `LockPush`, `LockRaise`, and after the wake-up `LockTest` again or `LockTake`. Between two of
them `Timer` may start the scheduler, whose own steps are `EnterScheduler` (the part up to the first list
operation), `PurgeDead`, `DropBlocked`, `Dispatch`, `Jump`, or `SchedulerFault`. The window between `Dispatch`
(which sets the timer) and `Jump` is open to the timer.

* One operation of a `std::list`, and the loop of the unlock over the waiters, is one step. A signal inside a list
  operation is undefined behaviour of the library's own and not modelled.
* `BlockSet` writes the state and tests for the own ID; `TermTest` includes the unlock's test of the holder.
* `PreemptibleCalls = FALSE` keeps the timer out of the calls: quanta long enough that one does not end within
  microseconds of library code, which the tests of the repository count on
  (`tests_to_be_ran_separately.cpp:142-149`). `TRUE` is the code as it is.
* For `Scheduler` a thread is `none`, `ready`, `running` or `blocked`, and a call one step. It is what the code does,
  and parts in three places from `uthreads.h`, named in its header: an unlock readies every waiter, also one that
  `uthread_block` was called for (`uthreads.h:88`); `uthread_resume` readies a waiter of the mutex (`uthreads.h:66`);
  and a blocked thread may be run when its ID is in `stale`, that is, when a thread with this ID was ended by another
  one, or while it waited, and the library still has an entry of it (`uthreads.h:53`). Any other blocked thread is never
  run, and without threads that end each other (`EndsOthers`) `stale` is empty. `StaleIds` says when the library has
  such an entry: one of an object that is not the live one of its ID.
* `Statuses`, `Holder` and `Waiters` say at which step of the library a call counts as made: a spawn when the slot is
  filled, a lock when `g_mutex` is set or the waiter is listed, an unlock when the waiters are READY, and a thread has
  stopped once it is about to raise SIGINT or the scheduler has begun. Whatever the library does before and after is a
  stutter.
* `critical`, `suspended` and `retired` are history variables for the properties. No guard reads them.
* Bounds: `NumObj` objects; `MaxEntries` list entries when a call adds some; counters of quanta modulo `QuantaWrap`.
* A negative ID, which `contain` would look up in front of the array, is never passed.

### Barrier, MapReduce and the code

`at[t]`, `holder` and `count` are the barrier's program counters, mutex and counter; `passed` is a history variable.
The condition variable is the set of threads at `"wait"`; the broadcast moves them to `"woken"`. Spurious wake-ups are
left out: the code does not test for them, and would let a thread out early.

In `MapReduce` an intermediate pair is a key and an item. `Work(t)` is one thread, with a step for each access to
shared state (lock, pop, callback, write of `stage`, one context of the shuffle, the two halves of `push_back` in
`emit3`), and the barrier's own actions in between. A `push_back` reads the end of the vector and then writes its slot,
so that two can meet in one. `PollLock`, `ReadProgress` and `Report` are `getJobState`, split where it reads `stage` a
second time; `Wait` and `Close` are the calls that do not wait. The percentage of an empty map is a value `NaN`.
Failures of the mutex and of the condition variable, and the reallocation of the output vector, are left out.

### VirtualMemory and the code

A call is kept in `call` until it returns. `Reclaim`, `Extend` and `Evict` are the three ways round the loop of
`getPAddr`, each with everything the loop body does, `PMrestore` included; `VMread`, `VMwrite` and `Refuse` are what
follows the loop; `VMinitialize` has its own action. Failed assertions, and the endless recursion of `clearTable` over
frames that lead back to themselves, end in the state `Abort`. The uninitialised `max.father` of an eviction that finds
no page is any address.

The recursive walks (`maxFrame`, `findFreeTable`, `findMaxFrameWeight`) are sets of nodes by depth, a node being the
code's `struct PageFrame`; the order of the walk only decides between nodes otherwise equal (`FirstOf`).

A word is a number up to `MaxWord`, which is not smaller than the greatest number of a frame and has no other bound
(a negative `int`, taken for an entry, is a great unsigned number). So what clients write may lead out of the RAM when
it is taken for an entry, and the checks against `RAM_SIZE` are in the model: `Search` stops at an address that is none
of the RAM's, and the call is refused (`IsLegal`, `Refuse`); `IsClear` takes what is outside for zeros, so that
`findFreeTable` takes a word that names no frame for a free table and gives it away: the next walk leads out of the RAM
and is refused, or, below the last tables (`StrayPage`), `PMrestore` fails its assertion (`RestoreFails`). The walks
without such a check (`maxFrame`, `findMaxFrameWeight`) are reached only when no entry is clear, and then none leads out
of the RAM: that is `WalksStayInside`, checked and proved, and with it the assertions of `PMread` and `PMwrite` hold.
`NO_EVICTION_CONSTANTS`, with no table at all, is excluded by the assumptions.

The model was compared with the compiled program on some 300 random sequences of calls, in five sizes of memory and
with words that are numbers of frames: the answers, the RAM at the end and the aborts agree.

`PMread` and `PMwrite` are operators on the RAM, and `PMevict` and `PMrestore` on RAM and swap file.

### The demonstrations and the code

Each has its program counters and the variables of its source. In `AtomicCounter` the increment of the atomic is one
step, that of the plain `int` a load and a store, as the build without optimisation compiles it. In `AtomicFields` an
addition to the word is one step, modulo its width; the widths of its fields are constants, the mask with the bit too
many is in `SecondLine`. In `JumpDemo` a `sigjmp_buf` is a stack and a place; what is printed is counted. In
`IntervalTimer` the handler runs between any two steps of the loop, from the call of `setitimer` on; the intervals are
left out. In `TimeMeasurement` the clock, which is not set back, moves on at any step; the loop does nothing else, and
the division by `iterations` is left out.

### The tests and the code

A test is a sequence of operations (ex2: one sequence for each function that a thread runs), of one kind for each call
or statement that the code's tests are made of; `ip` is the position in it, and `failed` (`fails`) collects the
expectations that did not hold. A call is begun with the library's own actions, which then take it to its end.

`UthreadsTests`.

* What a call returns is computed when it begins (`ReturnValue`): all the code's checks are at the beginning.
* In the tests with long quanta (100 ms, 1 ms in Test2), where the quanta are counted, one ends only in a thread that
  waits: in `threadQuantumSleep` or in the loop of the fault handler. The other operations take microseconds. In Test4
  and Test6, with 1 µs, one ends anywhere after the first assertion, `++ranAtLeastOnce` of a `volatile` included. That
  assertion (`tests_to_be_ran_separately.cpp:56`) expects a total of one quantum: it would fail if the first one had
  ended, and it does not, because a virtual timer expires at a tick of the kernel, milliseconds later (`Asserted`).
* The random orders of Test4 and Test6 are nondeterministic choices. The numbers of threads and of iterations are
  smaller.
* There is no Test5 in the file. The `uthread_init` of Test1 that is refused, and the calls with IDs of no thread, which
  `Tid` does not have, are left out.
* `local`, `code` and `ip` are indexed by thread ID: no two threads of a test have an ID at the same time.

`SampleClient`.

* The programs share nothing but the framework, and jobs share nothing at all. `outputTest3Clients`, which starts and
  closes three jobs and then looks at three outputs, is three programs, as each of the jobs sees it; a check of another
  job may fail and leave the test (`CheckOther`).
* `pthread_create` may fail in `errorMessageTest`, which asks for more threads than a process can have.
* `CheckOutput` is one step, although the vector may grow while the code reads it.
* A string is the sequence of its letters (`Content`) and a letter is a key. `map` counts them (`Counts`, `MapEmits`),
  `reduce` adds up what its group holds (`ReduceCount`), and the tests compare that with the letters of all strings
  (`Occurrences`, `Expected`). The first string of the instances has every letter and one of them twice, the others have
  that one only.

`VirtualMemoryTests`.

* `FlowTest` is compiled only with `TEST_CONSTANTS`, so it is run only in that instance. 1337 and 7331 have the two
  greatest words for stand-ins, which name no frame, as theirs do not (`TestsAssumption`); `FreeValues`, the random
  words and those of the client that calls anything, are any.
* The RAM that `fullyInitialize` fills, and `VMinitialize` then clears but for the rest of frame 0, has there
  `NUM_FRAMES` (`SPECIFIC_FILL_VALUE`), or, for the random words, one that names no frame, as they do with high
  probability.
* Where the root table is shorter than a page and the RAM was not zero (`RootNotZero`), the assertion that all of frame
  0 is zero (`Common.h:163`) fails, as `VMinitialize` clears only the entries of the root. `PassesUnlessEvicted` says
  so: exactly there `failed` has `"root"`, and in no test anything else. It is an `ASSERT_EQ` of a helper, which leaves
  the helper only; the test goes on. `OFFSET_DIFFERENT_FROM_INDEX` is a configuration of the code with such a root.
* The tests whose parameters exceed the instance are skipped, as the code skips them; `SimpleTest`'s addresses above the
  memory are left out. `ErrorChecks` goes on with the RAM as it is, with
  the words that the earlier test left.
* A client that calls anything in any order (`Anything`) runs beside the tests.

## Runs

"Violation" runs show a disagreement between the code and what its own comments or tests say; the quoted line is with
the finding in `PROJECT.json`.

| Run | Instance | Shows |
| --- | --- | --- |
| `uthreads_calls` | 3 IDs, all calls, quanta end between calls; 1.3 M states | `MutualExclusion`, `WaiterIsListed`, `ReadyIsQueued`; `FaultOnlyIfMainWaits`: the scheduler runs off the list only when main waits for the mutex; `SchedulerImplemented` (refinement): a thread that is run was ready, or has the ID of one that another ended |
| `uthreads_tests` | the 15 tests, 4 IDs; 1.6 M states | `ExpectationsHold`: all tests pass; `EndsInTime`: those with long quanta end; `ActiveThreadsLive`, `OneRunning`, `HolderIsLive`, `QuantaAccounted` on their way |
| `uthreads_fair` | 3 IDs, spawn, return, block, resume; 344 k states | `SuspendedIsBlocked`, `QuantaAccounted`, `SchedulerImplemented`, in which no blocked thread ever runs as none ends another, and `ReadyRuns`: no ready thread starves |
| `uthreads_split_lock` | quanta end anywhere | violation of `MutualExclusion`: a quantum between test and assignment of `g_mutex` |
| `uthreads_stale_entry` | terminate and reuse of the ID | violation of `SuspendedIsBlocked`: the old list entry runs the new, blocked thread |
| `uthreads_dead_holder` | a holder ended by another thread | violation of `HolderIsLive`: the mutex stays with the dead ID |
| `mapreduce_job` | 3 threads, 2 items, 1 key; 392 k states | `RoundsImplemented`, `JobImplemented` (refinements), `ReducesWholeGroups`, `ResultComplete`, `StageAdvances`, `ReportsAdvance`, and `JobEnds` |
| `mapreduce_tests` | all programs but the one for one thread, 2 threads, 1 item, 2 keys; 174 k states | `NeverFails`: no bad percentage, stage or pair; `NothingReducedWithoutAll`; `ResultComplete`; `TestsEnd` |
| `mapreduce_torn_state` | 2 threads | violation of `PercentAdvances`: (MAP, 100%) and then (MAP, 0%) |
| `mapreduce_wait` | `outputTestOneThreadOnly` | violation of `NothingMissed`: the test sees 100%, closes the handle, and looks at the output before the last group is reduced |
| `vm_tests` | 4 frames, tables of 4 in a root of 2, words up to 5, two tests in a row or any calls; 24 k states | `PassesUnlessEvicted`, `TestsEnd`; `WalksStayInside`: no walk without a look at the address leaves the RAM; `OnlyEvictionLoses`: with a well formed tree every step but an eviction keeps all words and the form; `StepsGoDown`: and brings the walk closer to its page |
| `vm_lost_page` | the tests with `TEST_CONSTANTS` | violation of `AssertionsHold`: `evict` zeroes the frame before it is stored, and the random test reads zero |

`uthreads_calls`, `mapreduce_job` and `vm_tests` check the type invariant `TypeOK` of their modules as well.

*Why the bounds are enough.* In `uthreads_calls` three thread IDs are main and two others, the least with which one
thread holds the mutex while two compete for it, or one acts on another that waits or is listed twice, and an ID is
reused; three entries let a waiter be in both lists at once. The tests of the library use at most four IDs
(`MaxThreadNum`) at a time, but for Test4 and Test6, which fill the library whatever its size; `NumObj` and
`MaxEntries` are larger than any test needs, so no test is held up by them; `RandomEntries` bounds the entries that
Test6 piles up; `QuantaWrap` is above the quanta of the longest test, and `EndsInTime` says so. Three threads at the
barrier are the least with a fast, a slow and a last one; two items the least with two mappers of one key; the programs
of `mapreduce_tests` run with two keys of one item, so that groups are reduced by different threads. Four frames with a
tree of depth two hold the root, two tables and a page, so clear tables, clear pages, evictions and moved tables all
occur, and the root's width differs from that of the others. `Addrs` and `Values` are those that the tests of the
instance use, of several pages, tables and the first address that is refused; a test that needs others is left out of
`Tests`. `MaxWord = 5` has two words that name no frame, one of them `NUM_FRAMES`; of the `FreeValues` one names a frame
and one none. `FreeAddrs` and `FreeValues` are for the client that calls anything, and for the random test, which writes
`Iterations` words; `MaxTests = 2` lets a test find the swap file of another. `LiveView` and `TestsView` identify states
that differ only in contents of unreachable objects, in contexts that are overwritten before they are read, and in
counters that the test does not read. So the totals of Test4 and Test6, which do not read them, are seen in one state of
several: `QuantaAccounted` is checked there on those that TLC happens to keep.

*Deadlock.* It is checked in `uthreads_tests`, where nothing but the end of the process (`Over`) stops: a test that
hangs with the timer off would be found, and one that spins passes the bound of `EndsInTime`. Elsewhere the process
exits or its threads end, a job ends, an assertion aborts, and deadlock is not checked; `ReadyRuns`, `JobEnds` and
`TestsEnd` are the properties against getting stuck.

*Fairness.* In `Uthreads`, weak fairness of the library's code (one processor that runs on) and strong fairness of the
timer: it counts the process's own time, and, if it may not end a quantum inside a call, it ends one between two. None
for the client. In `MapReduce` and `SampleClient`, weak fairness of each thread and of a client that polls (the kernel
schedules threads), and strong fairness of taking the job's mutex: the client locks and unlocks it in a loop, so a
thread that waits finds it free again and again, but not always. POSIX does not promise this of a default mutex;
`JobEnds` and `TestsEnd` need it, and the hazard list says so. In `VirtualMemoryTests`, weak fairness of the one thread
while it runs a test.

## Proofs

All theorems hold for every value of the constants that satisfies the named assumptions.

`UthreadsProofs`. The inductive invariant `Inv` joins to `TypeOK`: each slot's object has that ID (`SlotMatches`);
code that runs for a thread runs for the live one in the current slot (`CurrentIsLive`); the loop of the fault handler
runs only for a thread that is gone (`LoopIsGone`); no saved context lies in the scheduler or after the end
(`ContextsResume`); and only the current thread is RUNNING, not even that one inside the scheduler
(`RunningIsCurrent`). The last is not inductive by itself: the scheduler takes the state from `queue[g_currenttid]`, so
it has to be known that this is the thread that ran. From `Inv`: `TypeCorrect`, `CurrentLive`, `AtMostOneRunning`, with
preemption anywhere.

With `ASSUME ~PreemptibleCalls`, `MInv` adds that `g_mutex` names the holder (`HoldersNamed`), that what a call in
progress has tested still holds (`CallsAreTimely`), and that threads that do not run stopped between two calls or where
a waiter tests the mutex again (`StoppedOutside`). From it: `MutexCorrect`. Without that assumption
it is false, as `uthreads_split_lock` shows.

For the two lists, with the same assumption: `LInv` says what the two lists hold at every step, not only between
calls: a ready thread has an entry but between the two steps of the call that makes it ready (`ReadyListed`), a waiter
is in its list and the mutex taken but inside the unlock (`WaitersFound`), and no entry is null (`NoNull`). For these to
be inductive it has to be known what a call in progress has already done (`StepsAreTimely`: a thread that is about to
raise SIGINT is listed and BLOCKED, so that the scheduler may leave it out). `MainStays` and `MainBlocks` say that main
never loses its slot and is blocked by nothing but the mutex. From it: `ReadyCorrect`, `WaitersCorrect` and
`FaultCorrect`. `SInv` is for clients that use neither the mutex nor end other threads (`WithoutMutex`): every entry of
the ready list is then that of a live thread, or of one that has just ended and that the scheduler will erase before
anything is spawned (`EntriesLive`), and so a thread is only run when it is itself READY: `SuspendedCorrect`. The
assumption on the client is needed: with `terminate` of another thread it is false (`uthreads_stale_entry`), and the
unlock wakes also a waiter that was blocked.

`QuantaCorrect` and `HolderCorrect` assume it, too. `QInv` says that the total is the number of quanta of all live
threads and of those that are gone, as the cardinality of a set, which is then shown to be what the fold in
`QuantaAccounted` adds up; that a spawn takes the slot of no live thread needs `MInv`. `HInv` says that a thread that is
being ended is the caller and does not hold the mutex any more (`EndsItself`), and that whom the mutex names has locked
it (`HolderHolds`). `HolderCorrect` further assumes that threads do not call `uthread_terminate`: they end by returning
and by faults; with a call that ends the holder it is false (`uthreads_dead_holder`).

These invariants hold of every behaviour in which no quantum ends inside a call (`WholeSpec`), whatever keeps it out:
the signal mask, which is what `~PreemptibleCalls` says, or a quantum that is long enough, as in most of the tests.

`UthreadsClientProofs`. `SchedulerCorrect`, with `~PreemptibleCalls`: every step of the library is one of `Scheduler` or
a stutter. `Inv`, `MInv` and `LInv` do not suffice: `WInv` adds that who runs is not blocked, but for the rest of the
call that blocks it (`RunnerNotBlocked`); that who waits or is about to wait is not the holder (`HolderNotListed`); that
nobody waits for a free mutex but inside the unlock (`FreeIsEmpty`), which has freed it (`GivenBack`); that the timer is
off inside the scheduler; that `uthread_block` never stopped main; and that a spawn took the first free ID. Where
threads do not end each other, `EInv` adds that every entry of the lists is that of a live thread or of one about to be
erased (`EntriesLive`, `WaitersLive`), so that `stale` is empty and only ready threads are run. Where they do, the
abstract scheduler runs a blocked thread if its ID is in `stale` (`uthreads_stale_entry` shows one), and it is proved
that the library has no other way to it: no step makes an entry stale but one that ends its thread (`SmallerStale`,
`TermClearStale`), and the scheduler finds a thread that is not READY only by a stale entry. That nobody waits for a
free mutex, that one thread runs, and that `stale` stays empty where no thread ends another, are then proved of
`Scheduler` alone and hold in the library (`WaitersHaveHolder`).

The tests: `TestsAreClients`, every step of a test is one of the library with its client. So all that is proved for
every client, with preemption anywhere, holds in them; and in a test with long quanta all the rest, too
(`LongTestsCorrect`). In Test6, which calls the library at random and is interrupted anywhere, it does not follow from
the theorems above, since a quantum may end inside any call, that what the test believes about the threads is so.
`RandomTestCorrect` proves it: `TInv` says that only main calls the library (`OnlyMainCalls`), that main is always in
the FIFO or running (`MainQueued`, `MainFollows`) however often the scheduler interrupts it, and that `activeThreads` is
the set of live threads but for the one that main's present call is about (`ThreadsTracked`).

`BarrierProofs`. `BarrierInv` says that there is a round `r` such that the threads still inside `r`, those that left it
and those counted into the next agree with counter and mutex. From it: `RoundsNeverMix`, and `BarrierImplements`, every
step of the barrier is a step of `BarrierRounds` or a stutter. Induction over the number of threads is avoided by
counting with cardinalities of finite sets.

`MapReduceProofs`. `JobInv` joins to `BarrierInv` where each thread is with respect to the two rounds (`Control`),
what `stage` implies (`StageReached`), and what has become of every item and pair: input, in a thread's hand,
in its vector, in the map, being reduced, or reduced (`ItemsMapped`, `PairsEmitted`, `MapMerged`, `GroupsReduced`), with
the counters in range (`CountsBounded`). From it: `JobTypeCorrect`, `StageCorrect`, `ReportsCorrect`, `GroupsWhole`,
`ResultCorrect`, `RoundsCorrect` and the refinement `JobCorrect`.

`SampleClientProofs` takes the programs of `SampleClient` as the clients, in any of their orders, and with threads that
are not created. `TestsInv` joins to the invariant of the job that
nothing is reduced before a thread has passed the second barrier (`NotReducedEarly`), a key in the output was reduced,
is there once and nobody is about to put it there again (`OutputDistinct`), a thread that could not be created runs
nothing (`MissingNone`), and the state that a test remembers is not ahead of the last reported one (`LastReported`).
From it: `NothingWithoutAll`, `TestsResult`, and `TestsNeverFail`, for the last of which what `reduce` counts in a group
has to be what the test counts in the strings. Both are shown to be the number of positions of the letter (`Cells`),
by induction over the number of pairs, whichever pair the fold takes first. `TestsNeverFail` assumes that some string is
not empty (`SomethingToCount`): without it the job emits nothing and reports 0 / 0 for percentage.

`VirtualMemoryProofs`. The walks of the model are recursive functions (`Pow2`, `Levels`, `Path`, `Search`), each shown
to exist and to satisfy its equation before anything else is said about it. `IInv` is `TypeOK` with `SwapIsZero`, that
every page in the swap file is zero: `evict` clears the frame before it stores it. What a RAM holds is any words, so its
tree may lead out of it; the type rests on `TreeInRam`: a tree that leads out of the RAM has an entry which
`findFreeTable` takes for a clear table, so where it finds none all nodes of the tree are frames. The refinement below
needs the zero pages, since restoring one then changes no word, and neither does refusing an address whose page was
mapped without being restored. From it: `TypeCorrect`, `CountedTreesAreInRam` (`WalksStayInside` for every client and
any words), and `EvictedPagesAreZero`, which is the loss of `vm_lost_page` for every client and every size.
`EveryStepGoesDown` and `OnlyEvictionsLose` are about one step from a well formed tree: linking a clear frame at the
missing entry of a path (`Relinking`) leaves the other nodes, their numbers and frames and so every word that a client
can read as they were. `ImplementsMemory` puts the steps together: while nothing is evicted and no `VMinitialize` fails
to return (`Smooth`), `VirtualMemory` implements `Memory` and the tree stays well formed. The last two assume
`PagesFit`: with one level of tables and widths that do not divide, `convert` takes the size of the root for that of a
page, and words meet; the constants of the code have more than one level. The assumption that `VIRTUAL_ADDRESS_WIDTH`
exceeds `OFFSET_WIDTH` excludes `NO_EVICTION_CONSTANTS`.

`MemoryTestsPass` is about the tests. `TestsInv` joins to `IInv` that the call being run is the operation the test is at
(`CallIsOp`) and, while nothing is evicted (`Undisturbed`), that the tree is well formed, but for `ErrorChecks`, which
goes on with any RAM, that every address written by the test holds the value last written to it (`Remembered`), and that
the tables of `Can_Read_And_Write_Memory_Once` are in the frames 1, 2, .. on the way to its address (`OnceRam`, a chain
that one frame is appended to in each step). The programs of the tests are built by folds and concatenations; each is
shown to read at every address what it wrote there last (`ReadsBack`), for any number of frames, pages and iterations.
The theorem assumes `PagesFit` and that `TEST_CONSTANTS` is not set: only then is `FlowTest` built, which puts words of
its own into the swap file. `TestsAssumption` says that the random addresses are those of the memory
(`kb_tests.cpp:359`), or its size, which the client that calls anything tries, that the random values are words, of
which there may be any number above those of the frames, and that the greatest two, which stand for 1337 and 7331, name
no frame. Where the first frame is not all zero after `VMinitialize`, `"root"` is in `failed`, which is the disagreement
with `Common.h:163` above: the theorem says that this assertion fails exactly there and no other one does. `TestsInv`
was checked on the instance of `vm_tests` before it was proved.

`DemoProofs`. In `AtomicCounter` the counters are compared with sets of steps of the loops: the atomic one is the number
of those made (`Counted`), the plain one at most that of those stored (`NeverTooMany`). That it ends at two or more
(`NeverLost`) rests on the last store of all, which is not the first of its thread, and so has loaded no 0. From it:
`CountersCorrect`, for at least two iterations (`CounterAssumption`). In the same way the word of `AtomicFields` is the
sum of three cardinalities (`FieldsAdded`), and `FieldsCorrect` says what is printed, for all numbers of threads and
iterations that the fields have room for (`FieldsFit`, as the program's). `JumpsCorrect` rests on what a buffer leads to
and on who is ahead (`Buffers`, `Turns`); `TimerCorrect` on a flag that is set standing for an expiration not yet
printed; `MeasurementsCorrect` on a time being its seconds and microseconds. No run uses these modules: the theorems are
about all instances, and there is no disagreement to show but the one of `osm.cpp` and the mask of the second line,
which the theorems state as they are.

*How induction is done.* The library's theorems of induction take an operator as a parameter, which the provers cannot
instantiate. `SetInduction` (`NaturalLemmas`) is about a set of numbers in its place, and follows from every set of
numbers that is not empty having a least one. With it recursive functions have a solution, folds over sets are sums,
and walks down a tree of any depth stay in the RAM. The axioms about sequences that tlapm gives the SMT solver take
every function for a sequence, which no function with another domain is; the leaves in which `Len` or `<< >>` occurs
were therefore proved once more from axioms that say it of sequences only.

*Only model-checked.* Liveness (`ReadyRuns`, `JobEnds`, `TestsEnd`), since the prover handles neither fairness nor
ENABLED. `EndsInTime`, `PassesUnlessEvicted` where `TEST_CONSTANTS` is set, and `ExpectationsHold` and
`ActiveThreadsLive` of the tests other than Test6: what these tests expect rests on their numbers and their orders of
calls, one after the other, and not on an invariant. The runs that show a violation.

## Disagreements without a run

Seen while modelling, and in the hazard list where they bite:

* uthreads: `mutex_unlock` wakes all waiters (`uthreads.h:88` says one), also explicitly blocked ones; `resume` of a
  ready or running thread adds a list entry (`uthreads.h:66`: no effect); a wake-up is lost, and a spawned thread
  overwritten, when a quantum ends inside the call; a quantum of a second or more makes `setitimer` fail; a negative ID
  is not refused.
* framework: a missing thread leaves the others at the barrier; a job that emits nothing never reports 100%.
* virtual memory: `VMinitialize` does not clear what the first frame has beside the root table (`Common.h:163` asserts
  it; `PassesUnlessEvicted` says when); a word that names no frame, taken for an entry, fails the assertion of
  `PMrestore` (`RestoreFails`); after an eviction `evict` clears the word whose address is the number of the parent's
  frame; `VMinitialize` of a used memory may not return; a refused address leaves a page mapped without its contents,
  and the later eviction of that page fails an assertion; an eviction from a tree without pages uses an uninitialised
  address. The comment at `VirtualMemory.cpp:362` expects an endless loop for entries of the root; `StepsGoDown` shows
  that there is none while the tree is well formed and nothing is evicted.

## Not modelled

* The getters of the threads library beyond what the tests read, the length of a quantum, IDs below zero; a signal
  inside an operation of `std::list`.
* Spurious wake-ups of `pthread_cond_wait`, which `Barrier.cpp:33` does not test for: with them the barrier lets a
  thread out early and none of the properties of the framework holds.
* The reallocation of the output vector while another thread writes it.
* `NO_EVICTION_CONSTANTS`, under which there is no table; the trace of `PhysicalMemory` that the tests print.
* The copies of the framework, `demo_singInt_handler.c`, and tests of an earlier interface; see "The rest".
* More of the code would add little: what is left of the covered files is output, allocation and error messages.

## What could come next

1. `Barrier`: spurious wake-ups as an option, with the round they break.
