SPECIFICATION Spec
CONSTANTS
  Surfaces = {s1, s2, s3}
  Workspaces = {w1, w2}
  NoSurface = NoSurface
  NoWorkspace = NoWorkspace
SYMMETRY Symmetry
INVARIANTS
  ModelSound
PROPERTIES
  OrphansAreKeptSpares
  ProcessEndsFirst
  CreationSettles
