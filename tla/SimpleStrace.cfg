SPECIFICATION FairSpec
CONSTANTS
  Scno <- MCScno
  ExitCodes <- MCExitCodes
  MaxSignals = 3
  IndexSpan = 3
INVARIANTS
  TypeOK
  LineMatchesUnlessOdd
  ExitCodeIsTheTracees
PROPERTIES
  StopsAreAnswered
  DeathIsNoticed
