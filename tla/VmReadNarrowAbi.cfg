CONSTANTS
  WordSize = 2
  PageSize = 4
  UserTop = 8
  AbiSpan = 8
  LongSpan = 16
  MaxByte = 2
  Images <- MCImages
  MaxStores = 0
  ChunkMax = 2
  MaxLen = 4
  Junk = Junk
SPECIFICATION Spec
INVARIANT AccessibleReadSucceeds
