SPECIFICATION Spec
CONSTANTS
  WordSize = 2
  PageSize = 2
  UserTop = 4
  AbiSpan = 10
  LongSpan = 10
  UintSpan = 9
  MaxByte = 1
  MaxStores = 1
  MaxLen = 4
  Images <- MCImages
  Sources <- MCSources
INVARIANTS
  TypeOK
  WriteIsExact
  WriteResultIsHonest
  AccessibleWriteSucceeds
