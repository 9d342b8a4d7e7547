\* Run: bindings.
SPECIFICATION Spec
CONSTANTS
  NULL = NULL
  FirstShuffled = 4
  LastSpecial = 1
  SpecialBase = 8
  Cmpxchg = 14
  Tids = {1}
  Groups = {1, 2}
  Builds <- MCBuilds
  OptionSets <- MCOptionSets
  Signums <- MCSignums
  Pids = {0, 1}
  UintSpan = 16
  Shuffled = TRUE
  Tables <- MCTables
  Numbers <- MCNumbers
  Strings <- MCStrings
  Abis <- MCAbis
  Objects = {"o"}
INVARIANTS
  ErrorIsRaised
  OptionsAreThoseAsked
  AdvertisedWorks
  NamesAgree
PROPERTIES
  FailureChangesNothing
  KillStaysInGroup
