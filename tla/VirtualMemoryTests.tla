------------------------- MODULE VirtualMemoryTests -------------------------
(***************************************************************************)
(* The tests of exercise 4 (ex4/tests/kb_tests.cpp with Common.h, and      *)
(* ex4/SimpleTest.cpp) as client programs of the virtual memory.  They run *)
(* one after the other in one process: each makes the RAM anew, but the    *)
(* swap file stays.  Beside them there is the client of VirtualMemory,     *)
(* which calls anything in any order.                                      *)
(***************************************************************************)
EXTENDS VirtualMemory

CONSTANTS
  FreeAddrs,      \* what the client that calls anything, and the random test,
  FreeValues,     \* read and write
  Iterations,     \* bound: RANDOM_TEST_ITERATIONS_COUNT
  MaxTests        \* bound: tests in one process

ASSUME TestsAssumption ==
  /\ FreeAddrs \subseteq 0 .. VirtualMemorySize
  /\ FreeValues \subseteq Word
  /\ Iterations \in Nat
  /\ MaxWord > NumFrames

VARIABLES
  test,           \* the test that runs
  ip,             \* the position of its next operation
  evicted,        \* whether a page was evicted since the RAM was made anew
  failed,         \* the assertions that failed
  ran             \* how many tests have run

testVars == << test, ip, evicted, failed, ran >>
allVars == << vars, testVars >>
-----------------------------------------------------------------------------
(***************************************************************************)
(* The operations: a call of the virtual memory and what it has to return, *)
(* a look at the RAM, and a page put into the swap file.                   *)
(***************************************************************************)
Operation(op, addr, value, ok) ==
  [ op |-> op, addr |-> addr, value |-> value, ok |-> ok ]
Write(addr, value) == Operation("write", addr, value, TRUE)
Read(addr, value) == Operation("read", addr, value, TRUE)
ExpectWord(addr, value) == Operation("PMread", addr, value, TRUE)
SetPage(page, value) == Operation("swapFile", page, value, TRUE)

\* Bound: stand-ins for the random words, and for 1337 and 7331, which name no
\* frame.
genValue(addr) == (addr + PageOf(addr)) % (MaxWord + 1)
W1337 == MaxWord
W7331 == MaxWord - 1

\* readGottenPhysicalAddressToValueMap, and the comparison with the expected
\* map: pairs of an address and a word.
ExpectRam(map) == [ i \in DOMAIN map |-> ExpectWord(map[i][1], map[i][2]) ]

\* How fullyInitialize fills the RAM before VMinitialize; ErrorChecks goes on
\* with the RAM as it is.
ZeroMemory == "zero"
FillWithSpecificValue == "fill"
RandomizeValues == "randomize"
AsItIs == "as it is"

Program(method, ops) == [ method |-> method, ops |-> ops ]
-----------------------------------------------------------------------------
(***************************************************************************)
(* The tests.  FlowTest is only built with TEST_CONSTANTS.                 *)
(***************************************************************************)
FlowTest ==
  Program(ZeroMemory,
    << Write(13, 3) >> \o
    ExpectRam(<< <<0, 1>>, <<1, 0>>, <<2, 0>>, <<3, 2>>, <<4, 0>>, <<5, 3>>,
                <<6, 4>>, <<7, 0>>, <<9, 3>> >>) \o
    << Read(13, 3), ExpectWord(14, 0), SetPage(3, << W1337, 0 >>),
       Read(6, W1337) >> \o
    ExpectRam(<< <<0, 1>>, <<2, 5>>, <<3, 2>>, <<5, 3>>, <<6, 4>>, <<9, 3>>,
                <<11, 6>>, <<13, 7>>, <<14, W1337>>, <<15, 0>> >>) \o
    << SetPage(15, << W1337, W7331 >>), Read(31, W7331) >> \o
    ExpectRam(<< <<0, 1>>, <<1, 4>>, <<2, 5>>, <<3, 0>>, <<4, 0>>, <<5, 7>>,
                <<6, 0>>, <<7, 2>>, <<8, 0>>, <<9, 3>>, <<10, 0>>, <<11, 6>>,
                <<12, 0>>, <<13, 0>>, <<14, W1337>>, <<15, W7331>> >>))

\* Built with NORMAL_CONSTANTS, of whose address the low bits are taken here:
\* the entry of the table at each depth, and the word, are where the frames
\* that were used one after the other put them.
Can_Read_And_Write_Memory_Once ==
  LET addr == 572275 % VirtualMemorySize IN     \* 0b10001011101101110011
    Program(ZeroMemory,
      << Write(addr, W1337) >> \o
      ExpectRam([ d \in 1 .. TablesDepth |->
                   << Convert(Path(addr)[d - 1], d - 1, d - 1), d >> ]) \o
      << ExpectWord(Convert(addr % PageSize, TablesDepth, 1), W1337),
         Read(addr, W1337) >>)

\* Writes and reads back each address, and then reads them all again.
ReadWriteTest(from, to, increment, method) ==
  LET addrs == [ j \in 1 .. (to - from + increment - 1) \div increment |->
                   from + (j - 1) * increment ]
  IN Program(method,
       FlattenSeq([ j \in DOMAIN addrs |->
                      << Write(addrs[j], genValue(addrs[j])),
                         Read(addrs[j], genValue(addrs[j])) >> ]) \o
       [ j \in DOMAIN addrs |-> Read(addrs[j], genValue(addrs[j])) ])

\* TESTS_PARAMETERS, and which of them are skipped.
Parameters ==
  { << 0, n, 1, method >> :
      n \in { NumFrames, 14 * NumFrames },
      method \in { ZeroMemory, FillWithSpecificValue, RandomizeValues } }
  \cup
  { << 0, VirtualMemorySize, increment, RandomizeValues >> :
      increment \in { PageSize, PageSize \div 2, PageSize \div 4, 1 } }
Skipped(p) == p[3] = 0 \/ p[1] >= p[2] \/ p[2] > VirtualMemorySize
ReadWriteTests ==
  { ReadWriteTest(p[1], p[2], p[3], p[4]) :
      p \in { q \in Parameters : ~Skipped(q) } }

\* The addresses of SimpleTest.cpp, those above the virtual memory skipped.
SimpleAddrs ==
  { i \in 0 .. 2 * NumFrames - 1 : 5 * i * PageSize < VirtualMemorySize }
Simple(op(_, _)) ==
  [ j \in 1 .. Cardinality(SimpleAddrs) |->
      op(5 * (j - 1) * PageSize, j - 1) ]

Can_Read_Then_Write_Memory_Original ==
  Program(ZeroMemory,
    FlattenSeq([ j \in 1 .. Cardinality(SimpleAddrs) |->
                   << Simple(Write)[j], Simple(Read)[j] >> ]) \o Simple(Read))

\* main of SimpleTest.cpp.
SimpleTest == Program(ZeroMemory, Simple(Write) \o Simple(Read))

\* Random writes, and then a read of each address that was written.
Random_Addresses_Random_Values(writes) ==
  LET last(addr) == Max({ j \in DOMAIN writes : writes[j].addr = addr })
      addrs == SetToSeq({ writes[j].addr : j \in DOMAIN writes })
  IN Program(RandomizeValues,
       writes \o [ k \in DOMAIN addrs |->
                     Read(addrs[k], writes[last(addrs[k])].value) ])
RandomTests ==
  { Random_Addresses_Random_Values(writes) :
      writes \in [ 1 .. Iterations ->
                     { Write(a, v) : a \in FreeAddrs \ {VirtualMemorySize},
                                     v \in FreeValues } ] }

ErrorChecks ==
  Program(AsItIs,
    << Operation("write", VirtualMemorySize, W1337, FALSE),
       Operation("read", VirtualMemorySize, 0, FALSE) >>)

TEST_CONSTANTS ==
  /\ OffsetWidth = 1
  /\ PhysicalAddressWidth = 4
  /\ VirtualAddressWidth = 5

AllTests ==
  ReadWriteTests \cup RandomTests \cup
  { Can_Read_And_Write_Memory_Once, Can_Read_Then_Write_Memory_Original,
    SimpleTest, ErrorChecks } \cup
  (IF TEST_CONSTANTS THEN {FlowTest} ELSE {})

\* Bound: the tests that stay with the addresses of the model.
CallsOf(t) ==
  { t.ops[j] : j \in { k \in DOMAIN t.ops : t.ops[k].op \in { "read", "write" } } }
Tests ==
  { t \in AllTests : \A e \in CallsOf(t) : e.addr \in Addrs /\ e.value \in Values }

NoTest == Program(AsItIs, << >>)
Anything == Program("anything", << >>)
-----------------------------------------------------------------------------
(***************************************************************************)
(* A test.                                                                 *)
(***************************************************************************)
Running == ip <= Len(test.ops)
Op == test.ops[ip]
Unless(cond, assertion) == IF cond THEN {} ELSE {assertion}

\* fullyInitialize: the RAM is made anew, and VMinitialize makes it zero, but
\* for what the first frame has beside the root table.  Bound: the random words
\* are all the same one, which names no frame.
SPECIFIC_FILL_VALUE == NumFrames
Refilled(method) ==
  [ a \in 0 .. RamSize - 1 |->
      CASE a \notin RootSize .. PageSize - 1 \/ method = ZeroMemory -> 0
        [] a \in RootSize .. PageSize - 1 /\ method = FillWithSpecificValue ->
             SPECIFIC_FILL_VALUE
        [] OTHER -> MaxWord ]
RootIsZero(r) == \A a \in 0 .. PageSize - 1 : r[a] = 0

BeginTest ==
  /\ call = NoCall
  /\ ~Running
  /\ test # Anything
  /\ ran < MaxTests                                 \* bound
  /\ ran' = ran + 1
  /\ test' \in Tests
  /\ ip' = 1
  /\ IF test'.method = AsItIs
       THEN failed' = {} /\ UNCHANGED << ram, evicted >>
       ELSE /\ evicted' = FALSE
            /\ ram' = Refilled(test'.method)
            /\ failed' = Unless(RootIsZero(ram'), "root")
  /\ UNCHANGED << swapFile, call, answer >>

CallNext ==
  /\ call = NoCall
  /\ Running
  /\ Op.op \in { "read", "write" }
  /\ call' = [ op |-> Op.op, addr |-> Op.addr,
               value |-> IF Op.op = "write" THEN Op.value ELSE 0 ]
  /\ UNCHANGED << ram, swapFile, answer, testVars >>

\* A failed ASSERT leaves the test.
Judge(found) ==
  /\ failed' = failed \cup found
  /\ ip' = IF found = {} THEN ip + 1 ELSE Len(test.ops) + 1

Return ==
  /\ Running
  /\ VMread \/ VMwrite \/ Refuse
  /\ Judge(Unless(answer'.ok = Op.ok, "return") \cup
            Unless(Op.op = "read" => answer'.value = Op.value, "value"))
  /\ UNCHANGED << test, evicted, ran >>

\* The test reads a word of the RAM, or puts a page into the swap file.
Put(s, e) ==
  IF e.op # "swapFile" THEN s
  ELSE [ p \in DOMAIN s \cup {e.addr} |->
           IF p = e.addr THEN [ i \in 0 .. PageSize - 1 |-> e.value[i + 1] ]
                         ELSE s[p] ]

LookAtMemory ==
  /\ Running
  /\ Op.op \in { "PMread", "swapFile" }
  /\ Judge(Unless(Op.op = "PMread" => ram[Op.addr] = Op.value, "ram"))
  /\ swapFile' = Put(swapFile, Op)
  /\ UNCHANGED << ram, call, answer, test, evicted, ran >>

\* getPAddr works for the test.
Work ==
  /\ Running
  /\ \/ (Reclaim \/ Extend) /\ UNCHANGED evicted
     \/ RestoreFails /\ UNCHANGED evicted
     \/ (Evict \/ EvictFails) /\ evicted' = TRUE
  /\ UNCHANGED << test, ip, failed, ran >>

\* The client that calls anything.
FreeCall ==
  /\ Call
  /\ call'.addr \in FreeAddrs
  /\ call'.value \in FreeValues
AnythingNext ==
  /\ test = Anything
  /\ \/ VMinitialize \/ InitializeOverflows \/ FreeCall
     \/ Reclaim \/ RestoreFails \/ Extend \/ Evict \/ EvictFails
     \/ VMread \/ VMwrite \/ Refuse
  /\ UNCHANGED testVars
-----------------------------------------------------------------------------
TestsInit ==
  /\ Init
  /\ test \in { NoTest, Anything }
  /\ ip = 1
  /\ evicted = FALSE
  /\ failed = {}
  /\ ran = 0

TestStep == CallNext \/ Work \/ Return \/ LookAtMemory

TestsNext == BeginTest \/ TestStep \/ AnythingNext

\* The process is scheduled.
TestsSpec == TestsInit /\ [][TestsNext]_allVars /\ WF_allVars(TestStep)
-----------------------------------------------------------------------------
\* As long as no page has been evicted from the RAM that a test uses the process
\* does not abort, also when pages of earlier tests are in the swap file, and of
\* the assertions of the tests one fails: that all words of the first frame are
\* zero after VMinitialize, wherever the root table does not fill the frame and
\* the words beside it were not zero.
RootNotZero ==
  /\ RootSize < PageSize
  /\ test.method \notin { ZeroMemory, AsItIs }
PassesUnlessEvicted ==
  test # Anything /\ ~evicted =>
    /\ call # Abort
    /\ failed = IF RootNotZero THEN {"root"} ELSE {}

\* Every test comes to its end, or the process aborts.
TestsEnd == []<>(~Running \/ call = Abort)

\* Every test reads back what it wrote.
AssertionsHold == failed = {} /\ (test # Anything => call # Abort)
=============================================================================
