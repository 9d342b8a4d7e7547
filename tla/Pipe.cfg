CONSTANTS
  Procs = {p1, p2, p3}
  Creator = p1
  IntSize = 2
  PipeBuf = 2
  Capacity = 4
  MaxInts = 1
SPECIFICATION FairSpec
INVARIANTS
  TypeOK
  EofIsFinal
PROPERTIES
  IsChannel
  EofIsSeen
CHECK_DEADLOCK FALSE
