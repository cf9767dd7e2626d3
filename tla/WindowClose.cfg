SPECIFICATION FairSpec
CONSTANTS
  Clients = {a, b}
  MaxConnections = 1
  MaxSubscribers = 1
  User = User
  Pump = Pump
  NoOne = NoOne
  Base = Base
  Absent = Absent
  Torn = Torn
  MaxLaunches = 1
INVARIANTS
  TypeOK
  AdmittedIsSaved
  DeferredNotSaved
PROPERTIES
  NeverTorn
  WorkStays
  CloseCompletes
CHECK_DEADLOCK FALSE
