SPECIFICATION TestsSpec
CONSTANTS
  OffsetWidth = 1
  PhysicalAddressWidth = 4
  VirtualAddressWidth = 5
  Addrs = {0, 1, 2, 3, 4, 5, 6, 7, 8, 9, 10, 11, 12, 13, 14, 15, 16, 17, 18, 19, 20, 21, 22, 23, 24, 25, 26, 27, 28, 29, 30, 31, 32}
  MaxWord = 9
  Values = {0, 1, 2, 3, 4, 5, 6, 7, 8, 9}
  FreeAddrs = {0, 31}
  FreeValues = {1}
  Iterations = 2
  MaxTests = 1
CHECK_DEADLOCK FALSE
INVARIANTS
  AssertionsHold
