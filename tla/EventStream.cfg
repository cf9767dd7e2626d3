SPECIFICATION Spec
CONSTANTS
  Clients = {c}
  Workspaces = {w1, w2}
  Surfaces = {s1, s2, s3}
  Values = {x, y}
  None = None
  First = w1
  FirstTab = s1
  Capacity = 2
  MaxChanges = 3
INVARIANTS
  DiffExact
  EventsAreTrue
