SPECIFICATION Spec
CONSTANTS
  Surfaces = {s1, s2, s3, s4}
  Workspaces = {w1, w2}
  NoSurface = NoSurface
  NoWorkspace = NoWorkspace
  MaxSplitDepth = 1
  MaxNotifications = 2
  MaxMarks = 2
  FewSurfaces = 2
SYMMETRY Symmetry
INVARIANTS
  SessionSurvivesRestart
  AttentionExact
