----------------------- MODULE MCSurfaceTransactions -----------------------
(* SurfaceTransactions for TLC. *)
EXTENDS SurfaceTransactions, TLC

(* Ids are only compared, and the choice of a fresh one is free. *)
Symmetry == Permutations(Surfaces) \cup Permutations(Workspaces)
=============================================================================
