--------------------------- MODULE MCEventStream ---------------------------
(* EventStream for TLC: one subscriber, as receivers share nothing. *)
EXTENDS EventStream
=============================================================================
