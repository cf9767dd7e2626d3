------------------------- MODULE MCTerminalBackend -------------------------
(* TerminalBackend for TLC: one surface, as surfaces share no state but    *)
(* the queue, and two calls that race on it.                               *)
EXTENDS TerminalBackend
=============================================================================
