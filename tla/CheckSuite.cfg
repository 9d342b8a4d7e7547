SPECIFICATION Spec
CONSTANTS
  Worlds <- MCWorlds
  MaxArgs = 2
  MaxKills = 1
INVARIANTS
  TypeOK
  RightLibraryPasses
  SuccessMeansRight
  StatusIsOwn
  NothingLeftRunning
PROPERTIES
  SuiteEnds
CHECK_DEADLOCK FALSE
