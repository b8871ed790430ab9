SPECIFICATION TestsSpec
CONSTANTS
  OffsetWidth = 2
  PhysicalAddressWidth = 4
  VirtualAddressWidth = 5
  Addrs = {0, 1, 2, 3, 4, 6, 8, 12, 16, 17, 19, 20, 24, 28, 32}
  MaxWord = 5
  Values = {0, 1, 2, 3, 4, 5}
  FreeAddrs = {0, 17, 20, 32}
  FreeValues = {2, 4}
  Iterations = 2
  MaxTests = 2
CHECK_DEADLOCK FALSE
INVARIANTS
  PassesUnlessEvicted
  TypeOK
  WalksStayInside
PROPERTIES
  TestsEnd
  OnlyEvictionLoses
  StepsGoDown
