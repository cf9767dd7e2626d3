SPECIFICATION Spec
CONSTANTS
  Sessions = {a, b}
  Surfaces = {s1}
  Threads = {t1, t2}
  Clocks = {boot}
  NoSession = NoSession
  NoSurface = NoSurface
  NoClock = NoClock
  Orders = {1, 2}
  Capacity = 2
  MaxRequests = 3
SYMMETRY Symmetry
PROPERTIES
  LateHooksAreInert
  AppliedInOrder
  TakeoversAreGranted
CHECK_DEADLOCK FALSE
