SPECIFICATION FairSpec
CONSTANTS
  MaxSurface = 2
  MaxQueue = 3
INVARIANTS
  NoHiddenSession
PROPERTIES
  NeverStale
  ClosedPanesEnd
