--------------------------- MODULE MCWindowClose ---------------------------
(* WindowClose for TLC. *)
EXTENDS WindowClose, TLC
=============================================================================
