SPECIFICATION FairSpec
CONSTANTS
  Surfaces = {s1, s2}
  Workspaces = {w1, w2}
  NoSurface = NoSurface
  NoWorkspace = NoWorkspace
PROPERTIES
  GuardIsReleased
  ReconciliationConverges
