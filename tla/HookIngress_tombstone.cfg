SPECIFICATION FairSpec
CONSTANTS
  Sessions = {a}
  Surfaces = {s1}
  Threads = {t1}
  Clocks = {boot}
  NoSession = NoSession
  NoSurface = NoSurface
  NoClock = NoClock
  Orders = {0}
  Capacity = 1
  MaxRequests = 3
PROPERTIES
  SuspendedIsTombstone
CHECK_DEADLOCK FALSE
