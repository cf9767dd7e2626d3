SPECIFICATION FairSpec
CONSTANTS
  Branches = {b1}
  Workspaces = {w1, w2}
  Panes = {p1}
  FirstPane = p1
  UserBranches = {}
  NoBranch = NoBranch
  NoWorkspace = NoWorkspace
PROPERTIES
  TransactionsEnd
