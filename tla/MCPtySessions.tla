---------------------------- MODULE MCPtySessions ----------------------------
(* PtySessions for TLC; ids are ordered, so that there is no symmetry.     *)
EXTENDS PtySessions
=============================================================================
