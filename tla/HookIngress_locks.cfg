SPECIFICATION FairSpec
CONSTANTS
  Sessions = {a, b}
  Surfaces = {s1}
  Threads = {t1, t2}
  Clocks = {boot}
  NoSession = NoSession
  NoSurface = NoSurface
  NoClock = NoClock
  Orders = {1}
  Capacity = 1
  MaxRequests = 2
INVARIANTS
  LearnedTargetsLive
PROPERTIES
  RequestsReturn
CHECK_DEADLOCK FALSE
