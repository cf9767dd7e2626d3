----------------------- MODULE MCWorktreeTransactions -----------------------
(* WorktreeTransactions for TLC: workspaces are interchangeable.           *)
EXTENDS WorktreeTransactions, TLC

Symmetry == Permutations(Workspaces)
=============================================================================
