CONSTANTS
  NULL = NULL
  FirstShuffled = 4
  LastSpecial = 1
  SpecialBase = 8
  Cmpxchg = 14
  Half = 16
  ShortSpan = 8
  X32Bit = 4
  Sysent <- MCSysent
  Errnoent <- MCErrnoent
  Numbers <- MCNumbers
  Args <- MCArgs
  Returns <- MCReturns
  Values <- MCValues
  Base <- MCBase
  MaxWrites = 2
SPECIFICATION Spec
INVARIANTS
  TypeOK
  CallIsRead
  ReturnIsRead
  SyscallTakesEffectUnlessCut
  NameLeadsBack
