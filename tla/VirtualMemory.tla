---------------------------- MODULE VirtualMemory ----------------------------
(***************************************************************************)
(* The virtual memory of exercise 4 (ex4/VirtualMemory.cpp): a tree of     *)
(* page tables in the RAM, with the root table in frame 0 and the pages    *)
(* below the last tables.  VMread and VMwrite walk down the tree; where an *)
(* entry is missing they take a frame for it: that of a clear table, else  *)
(* one not used yet, else that of a page which they evict.                 *)
(***************************************************************************)
EXTENDS PhysicalMemory

CONSTANTS
  Addrs,      \* the addresses that the client program reads and writes
  Values      \* the words that it writes

ASSUME VirtualMemoryAssumption ==
  /\ Addrs \subseteq Nat
  /\ Values \subseteq Word
  /\ TablesDepth < NumFrames

VARIABLES
  call,       \* the call in progress
  answer      \* what the last call returned

vars == << ram, swapFile, call, answer >>

NoCall == [ op |-> "none", addr |-> 0, value |-> 0 ]
Abort == [ op |-> "abort", addr |-> 0, value |-> 0 ]
-----------------------------------------------------------------------------
(***************************************************************************)
(* Addresses and the tree.                                                 *)
(***************************************************************************)
\* The root table has fewer entries when the widths do not divide.
RootSize == IF VirtualAddressWidth % OffsetWidth = 0 THEN PageSize
            ELSE Pow2[VirtualAddressWidth % OffsetWidth]
Neighbors(depth) == IF depth = 0 THEN RootSize ELSE PageSize
Convert(offset, addr, depth) == addr * Neighbors(depth) + offset

PageOf(addr) == addr \div PageSize

\* get_path: the index in the table of each depth.
Path(addr) ==
  [ depth \in 0 .. TablesDepth - 1 |->
      (addr \div Pow2[OffsetWidth * (TablesDepth - depth)])
        % Neighbors(depth) ]

WEIGHT_EVEN == 4
WEIGHT_ODD == 2
Weight(n) == IF n % 2 = 1 THEN WEIGHT_ODD ELSE WEIGHT_EVEN

\* A node of the tree, as findMaxFrameWeight comes to it: the address of the
\* entry that names it, its frame, the number of the page or of the part of
\* the memory below it, and the weight of the way to it.
Root ==
  [ father |-> 0, pAddr |-> 0, pageNum |-> 0, weight |-> WEIGHT_EVEN,
    depth |-> 0 ]
\* Mutant: the number is made from the frame, as the entry is.
ChildNumberedByFrame(r, x, i) ==
  LET entry == Convert(i, x.pAddr, x.depth) IN
    [ father |-> entry,
      pAddr |-> r[entry],
      pageNum |-> entry,
      weight |-> x.weight + Weight(r[entry]),
      depth |-> x.depth + 1 ]
Child(r, x, i) ==
  LET entry == Convert(i, x.pAddr, x.depth) IN
    [ father |-> entry,
      pAddr |-> r[entry],
      pageNum |-> Convert(i, x.pageNum, x.depth),
      weight |-> x.weight + Weight(r[entry]),
      depth |-> x.depth + 1 ]
\* What is no frame has no entries.
Entries(x) == IF x.pAddr \in Frame THEN 0 .. Neighbors(x.depth) - 1 ELSE {}
Children(r, x) ==
  { y \in { Child(r, x, i) : i \in Entries(x) } : y.pAddr # 0 }

\* The nodes at each depth, and all, of the tree in the RAM r.  findFreeTable
\* skips an entry that names its own table.
Levels(r, skipsOwn) ==
  LET level[d \in 0 .. TablesDepth] ==
        IF d = 0 THEN {Root}
        ELSE UNION { { y \in Children(r, x) : skipsOwn => x.pAddr # y.pAddr } :
                       x \in level[d - 1] }
  IN level
Tree(r) == UNION Range(Levels(r, FALSE))
Leaves(r) == Levels(r, FALSE)[TablesDepth]

\* The node of S that a walk through the tree comes to first.
Order(x) == x.pageNum * Pow2[OffsetWidth * (TablesDepth - x.depth)]
FirstOf(S) == CHOOSE x \in S : \A y \in S : Order(x) <= Order(y)
-----------------------------------------------------------------------------
(***************************************************************************)
(* search: down the path of an address, to its page, to the first entry    *)
(* that is missing, or out of the RAM: "missing" is what nextaddr is then, *)
(* and the address is none of the RAM's.                                   *)
(***************************************************************************)
Search(r, addr) ==
  LET frame[d \in 0 .. TablesDepth] ==
        IF d = 0 THEN 0
        ELSE LET entry == Convert(Path(addr)[d - 1], frame[d - 1], d - 1) IN
               IF entry < RamSize THEN r[entry] ELSE 0
      zeros == { d \in 1 .. TablesDepth : frame[d] = 0 }
      depth == Min(zeros \cup {TablesDepth}) - 1
  IN [ missing |-> zeros # {},
       depth |-> depth,
       addr |-> IF zeros = {} THEN frame[TablesDepth]
                ELSE Convert(Path(addr)[depth], frame[depth], depth) ]

Mapped(r, addr) == ~Search(r, addr).missing
\* Mutant: the offset in the page is left out.
LocationOfPage(r, addr) ==
  LET val == Search(r, addr) IN Convert(0, val.addr, val.depth)
Location(r, addr) ==
  LET val == Search(r, addr) IN Convert(addr % PageSize, val.addr, val.depth)

\* What the memory holds at an address: the word in the RAM if the page is
\* there, else the one in the swap file.
Held(addr) ==
  LET val == Search(ram, addr) IN
    CASE ~val.missing /\ Location(ram, addr) < RamSize ->
           ram[Location(ram, addr)]
      [] val.missing /\ PageOf(addr) \in DOMAIN swapFile ->
           swapFile[PageOf(addr)][addr % PageSize]
      [] OTHER -> 0
Image ==
  [ addr \in { a \in Addrs : a < VirtualMemorySize } |-> Held(addr) ]

Flat == INSTANCE Memory WITH Size <- VirtualMemorySize, Words <- Values,
                             mem <- Image
-----------------------------------------------------------------------------
(***************************************************************************)
(* Frames for a missing entry.                                             *)
(***************************************************************************)
ZeroPage == [ i \in 0 .. PageSize - 1 |-> 0 ]
Lacking == Search(ram, call.addr)

\* Mutant: what is outside the RAM is not taken for one of zeros.
IsClearInRam(r, frame) ==
  /\ frame \in Frame
  /\ \A i \in 0 .. PageSize - 1 : r[frame * PageSize + i] = 0

\* findFreeTable: the tables, and pages, of zeros.  Outside the RAM nothing is
\* read, so that a word which names no frame is taken for one of zeros, and is
\* not followed.  While the tree is searched the missing entry names its own
\* table, which is not followed either.
IsClear(r, frame) ==
  \A i \in 0 .. PageSize - 1 :
    LET addr == frame * PageSize + i IN addr < RamSize => r[addr] = 0
Marked == PMwrite(ram, Lacking.addr, Lacking.addr \div PageSize)
\* Mutant: the missing entry is not marked.
UnmarkedFreeTables ==
  LET found == UNION Range(Levels(ram, TRUE))
  IN { x \in found \ {Root} : IsClear(ram, x.pAddr) }

FreeTables ==
  LET found == UNION Range(Levels(Marked, TRUE))
  IN { x \in found \ {Root} : IsClear(Marked, x.pAddr) }

\* maxFrame: how many nodes the tree has.  It, and findMaxFrameWeight, read the
\* tables without a look at their addresses (see WalksStayInside).
TreeSize == Cardinality(Tree(ram))

\* findMaxFrameWeight: the first of the pages that weigh most.  In a tree
\* without pages the father is read uninitialized; anything in the RAM is
\* taken for it, and the frame is that of the root.
PageWeight(x) == x.weight + Weight(x.pageNum)
Victims ==
  LET pages == Leaves(ram)
      heaviest ==
        { x \in pages : \A y \in pages : PageWeight(y) <= PageWeight(x) }
  IN IF pages = {}
       THEN { [ Root EXCEPT !.father = a ] : a \in 0 .. RamSize - 1 }
       ELSE { FirstOf(heaviest) }

\* The rest of evict goes up from the table of the page.  Where a table is
\* clear, it writes a zero to the address that is the number of its frame.
ClearUp(r, x) ==
  LET table(d) == x.father \div Pow2[OffsetWidth * d]
      up[d \in 0 .. TablesDepth] ==
        IF d = 0 THEN r
        ELSE LET below == up[d - 1] IN
               IF \A e \in 1 .. d : IsClear(below, table(e))
                 THEN PMwrite(below, table(d), 0)
                 ELSE below
  IN IF x.depth = 0 THEN r ELSE up[x.depth - 1]

\* Mutant: the frame of a table is not written into the entry.
NewNodeUnlinked(r, s, frame) ==
  LET page == PageOf(call.addr) IN
    IF Lacking.depth < TablesDepth - 1
      THEN ram' = r /\ swapFile' = s
      ELSE /\ ram' = PMrestore(PMwrite(r, Lacking.addr, frame), s, frame, page)
           /\ swapFile' = Restored(s, page)
\* NewNode, with the RAM r and the swap file s: the missing entry of the call
\* gets a frame, and below the last tables the page is restored into it.
NewNode(r, s, frame) ==
  LET linked == PMwrite(r, Lacking.addr, frame)
      page == PageOf(call.addr)
  IN IF Lacking.depth < TablesDepth - 1
       THEN ram' = linked /\ swapFile' = s
       ELSE /\ ram' = PMrestore(linked, s, frame, page)
            /\ swapFile' = Restored(s, page)
-----------------------------------------------------------------------------
Init ==
  /\ PmInit
  /\ call = NoCall
  /\ answer = [ ok |-> FALSE, value |-> 0 ]

\* VMinitialize makes the tables, and then every frame, zero; the swap file
\* stays.  clearTable follows each word that is not zero as if it named a table,
\* and does not return from frames that lead back to themselves.
Cyclic ==
  \E S \in SUBSET (1 .. NumFrames - 1) \ {{}} : \A f \in S :
    \E i \in 0 .. PageSize - 1 : ram[f * PageSize + i] \in S

VMinitialize ==
  /\ call = NoCall
  /\ ~Cyclic
  /\ ram' = [ a \in 0 .. RamSize - 1 |->
                IF a \in RootSize .. PageSize - 1 THEN ram[a] ELSE 0 ]
  /\ UNCHANGED << swapFile, call, answer >>

InitializeOverflows ==
  /\ call = NoCall
  /\ Cyclic
  /\ call' = Abort
  /\ UNCHANGED << ram, swapFile, answer >>

\* The client calls VMread or VMwrite.
Call ==
  /\ call = NoCall
  /\ call' \in Flat!Reads \cup Flat!Writes
  /\ UNCHANGED << ram, swapFile, answer >>

(***************************************************************************)
(* getPAddr adds one missing entry after the other.                        *)
(***************************************************************************)
Lacks ==
  /\ call.op \in { "read", "write" }
  /\ Lacking.missing
  /\ Lacking.addr < RamSize

\* The last table gets a page whose number is that of no frame.
StrayPage ==
  /\ Lacks
  /\ FreeTables # {}
  /\ FirstOf(FreeTables).pAddr \notin Frame
  /\ Lacking.depth = TablesDepth - 1

\* Mutant: the frame stays in the table that it is taken from.
ReclaimLinkedTwice ==
  /\ Lacks
  /\ FreeTables # {}
  /\ NewNode(ram, swapFile, FirstOf(FreeTables).pAddr)
  /\ UNCHANGED << call, answer >>

Reclaim ==
  /\ Lacks
  /\ FreeTables # {}
  /\ ~StrayPage
  /\ LET x == FirstOf(FreeTables) IN
       NewNode(PMwrite(ram, x.father, 0), swapFile, x.pAddr)
  /\ UNCHANGED << call, answer >>

\* The assertion of PMrestore fails.
RestoreFails ==
  /\ StrayPage
  /\ call' = Abort
  /\ UNCHANGED << ram, swapFile, answer >>

Extend ==
  /\ Lacks
  /\ FreeTables = {}
  /\ TreeSize < NumFrames
  /\ NewNode(ram, swapFile, TreeSize)
  /\ UNCHANGED << call, answer >>

\* evict: the frame is made zero before it is stored in the swap file.
Evicts ==
  /\ Lacks
  /\ FreeTables = {}
  /\ TreeSize >= NumFrames

Evict ==
  /\ Evicts
  /\ \E x \in Victims :
       LET cleared == Load(PMwrite(ram, x.father, 0), x.pAddr, ZeroPage) IN
         /\ x.pageNum \notin DOMAIN swapFile
         /\ NewNode(ClearUp(cleared, x),
                    PMevict(cleared, swapFile, x.pAddr, x.pageNum), x.pAddr)
  /\ UNCHANGED << call, answer >>

\* An assertion fails: that of PMevict, or, for an uninitialized father outside
\* the RAM, that of PMwrite.  The RAM of the program that ends is left as it is.
EvictFails ==
  /\ Evicts
  /\ Leaves(ram) = {} \/ \E x \in Victims : x.pageNum \in DOMAIN swapFile
  /\ call' = Abort
  /\ UNCHANGED << ram, swapFile, answer >>

(***************************************************************************)
(* VMread and VMwrite, when getPAddr has returned.  An address above the   *)
(* virtual memory fails only now, and so does one whose way leads out of   *)
(* the RAM.  (One above 2 ^ 32 times the size of the memory, which fails   *)
(* at once, is left out.)                                                  *)
(***************************************************************************)
Found(op) == call.op = op /\ ~Lacks
IsLegal == call.addr < VirtualMemorySize /\ Location(ram, call.addr) < RamSize

VMread ==
  /\ Found("read")
  /\ IsLegal
  /\ answer' = Flat!Success(PMread(ram, Location(ram, call.addr)))
  /\ call' = NoCall
  /\ UNCHANGED << ram, swapFile >>

VMwrite ==
  /\ Found("write")
  /\ IsLegal
  /\ ram' = PMwrite(ram, Location(ram, call.addr), call.value)
  /\ answer' = Flat!Success(0)
  /\ call' = NoCall
  /\ UNCHANGED swapFile

Refuse ==
  /\ Found("read") \/ Found("write")
  /\ ~IsLegal
  /\ answer' = Flat!Failure
  /\ call' = NoCall
  /\ UNCHANGED << ram, swapFile >>
-----------------------------------------------------------------------------
Next ==
  \/ VMinitialize \/ InitializeOverflows \/ Call
  \/ Reclaim \/ RestoreFails \/ Extend \/ Evict \/ EvictFails
  \/ VMread \/ VMwrite \/ Refuse

Spec == Init /\ [][Next]_vars
-----------------------------------------------------------------------------
\* The words of the RAM and of the swap file are words, the pages of the swap
\* file are pages of the virtual memory.
TypeOK ==
  /\ ram \in [ 0 .. RamSize - 1 -> Word ]
  /\ DOMAIN swapFile \subseteq 0 .. NumPages - 1
  /\ \A p \in DOMAIN swapFile : swapFile[p] \in Page
  /\ call \in Flat!Reads \cup Flat!Writes \cup {NoCall, Abort}
  /\ answer.ok \in BOOLEAN /\ answer.value \in Word

\* The frames of the tree are the first ones, none is in the tree twice, and
\* those after them are clear.  maxFrame takes this for granted when the size
\* of the tree is its first unused frame.
WellFormed ==
  LET tree == Tree(ram)
      size == Cardinality(tree)
  IN /\ size <= NumFrames
     /\ { x.pAddr : x \in tree } = 0 .. size - 1
     /\ \A frame \in size .. NumFrames - 1 : IsClear(ram, frame)

\* What the client wrote may be taken for a table, and lead out of the RAM.  But
\* it is taken for a clear table then: where none is found, all that the walks
\* without a look at the addresses read is in the RAM, and the assertions of
\* PMread and PMwrite hold.
WalksStayInside ==
  Lacks /\ FreeTables = {} => \A x \in Tree(ram) : x.pAddr \in Frame

\* With a well formed tree, all steps but an eviction, and a VMinitialize that
\* does not return, leave it well formed and are steps of the memory: extending
\* the tree, or reusing the frame of a clear table or page, changes no word that
\* a client could read.
OnlyEvictionLoses ==
  [][ WellFormed /\ ~Evicts /\ ~InitializeOverflows =>
        [Flat!Next]_(Flat!vars) /\ WellFormed' ]_vars

\* With a well formed tree, every step of getPAddr that evicts no page comes
\* closer to the page of the address: the loop ends.
StepsGoDown ==
  [][ WellFormed /\ Lacks /\ ~Evicts =>
        \/ Mapped(ram', call.addr)
        \/ Search(ram', call.addr).depth > Lacking.depth ]_vars
=============================================================================
