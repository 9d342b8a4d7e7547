CONSTANTS
  WordSize = 2
  PageSize = 4
  UserTop = 8
  AbiSpan = 10
  LongSpan = 10
  MaxByte = 2
  Images <- MCImages
  MaxStores = 1
  ChunkMax = 2
  MaxLen = 4
  Junk = Junk
  AbiWord = 2
  ArrayJobs <- MCArrayJobs
  SocketJobs <- MCSocketJobs
SPECIFICATION ReadersSpec
INVARIANTS TypeOK BytesAreGenuine ResultIsHonest AccessibleReadSucceeds CrossAttachNulCount StringIsFound
  MemberIsGenuine NullIsReported AddressIsWhole
PROPERTY CallReturns
