--------------------------- MODULE MCHookIngress ---------------------------
(* HookIngress for TLC. *)
EXTENDS HookIngress, TLC

(* All of these are only compared with their like. *)
Symmetry == Permutations(Sessions) \cup Permutations(Surfaces) \cup Permutations(Threads)
=============================================================================
