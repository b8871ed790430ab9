--------------------------- MODULE PhysicalMemory ---------------------------
(***************************************************************************)
(* The physical memory of exercise 4 (ex4/PhysicalMemory.cpp): the words   *)
(* of the RAM, in frames of a page each, and the swap file.                *)
(***************************************************************************)
EXTENDS Integers, SequencesExt

CONSTANTS
  OffsetWidth,            \* OFFSET_WIDTH
  PhysicalAddressWidth,   \* PHYSICAL_ADDRESS_WIDTH
  VirtualAddressWidth,    \* VIRTUAL_ADDRESS_WIDTH
  MaxWord                 \* bound: the greatest word

ASSUME WidthAssumption ==
  /\ OffsetWidth \in Nat \ {0}
  /\ PhysicalAddressWidth \in Nat
  /\ VirtualAddressWidth \in Nat
  /\ OffsetWidth < PhysicalAddressWidth
  /\ OffsetWidth < VirtualAddressWidth

\* 1 shifted to the left.
Pow2[n \in Nat] == IF n = 0 THEN 1 ELSE 2 * Pow2[n - 1]

PageSize == Pow2[OffsetWidth]
RamSize == Pow2[PhysicalAddressWidth]
VirtualMemorySize == Pow2[VirtualAddressWidth]
NumFrames == RamSize \div PageSize
NumPages == VirtualMemorySize \div PageSize
TablesDepth == (VirtualAddressWidth - 1) \div OffsetWidth

\* A word as the unsigned number that its bits make, so that a negative one is
\* great.  Only the least words are numbers of frames: any other one, taken for
\* an entry of a table, leads out of the RAM.
Word == 0 .. MaxWord
Frame == 0 .. NumFrames - 1
ASSUME WordAssumption == MaxWord \in Nat /\ Frame \subseteq Word

Page == [ 0 .. PageSize - 1 -> Word ]

VARIABLES
  ram,        \* the word at each physical address
  swapFile    \* the pages in the swap file

PmInit ==
  /\ ram \in [ 0 .. RamSize - 1 -> {0} ]
  /\ swapFile = << >>

\* The word at an address of the RAM r, and the RAM with another one there.  The
\* code asserts that the address is in the RAM.
PMread(r, addr) == r[addr]
PMwrite(r, addr, value) == [ r EXCEPT ![addr] = value ]

Contents(r, frame) == [ i \in 0 .. PageSize - 1 |-> r[frame * PageSize + i] ]

\* The RAM r with a page put into a frame.
Load(r, frame, page) ==
  [ a \in 0 .. RamSize - 1 |-> IF a \div PageSize = frame
                               THEN page[a % PageSize] ELSE r[a] ]

\* The swap file s with a frame of the RAM r stored as a page.  The code asserts
\* that the page is not there yet.
PMevict(r, s, frame, page) ==
  [ p \in DOMAIN s \cup {page} |-> IF p = page THEN Contents(r, frame)
                                   ELSE s[p] ]

\* The RAM with a page of the swap file, which leaves the swap file.  One that
\* is not there leaves the frame as it is.  The code asserts that the frame is
\* one of the RAM.
PMrestore(r, s, frame, page) ==
  IF page \in DOMAIN s THEN Load(r, frame, s[page]) ELSE r
Restored(s, page) == [ p \in DOMAIN s \ {page} |-> s[p] ]
=============================================================================
