------------------------- MODULE MCWorkspaceModel -------------------------
EXTENDS WorkspaceModel, TLC

Symmetry == Permutations(Surfaces) \cup Permutations(Workspaces)
=============================================================================
