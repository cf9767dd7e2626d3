SPECIFICATION Spec
CONSTANTS
  Branches = {b1}
  Workspaces = {w1, w2}
  Panes = {p1, p2}
  FirstPane = p1
  UserBranches = {main}
  NoBranch = NoBranch
  NoWorkspace = NoWorkspace
SYMMETRY Symmetry
INVARIANTS
  TypeOK
  ProvisionalNotSaved
  ShownOnce
  NoPoisonLeft
  MergeSettles
PROPERTIES
  RemovalIsAtomic
  OnlyCleanIsDeleted
  BranchesStay
