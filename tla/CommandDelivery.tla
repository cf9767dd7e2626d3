--------------------------- MODULE CommandDelivery ---------------------------
(***************************************************************************)
(* What a socket thread is promised when it hands text to a terminal       *)
(* through the GTK thread: the text reaches the terminal at most once, the *)
(* answer says truthfully whether it did, and a caller that was told its   *)
(* request timed out can rely on it never running afterwards.              *)
(* TerminalBackend is shown to implement this.                             *)
(***************************************************************************)
CONSTANT Calls

VARIABLES
  fate,   \* what became of the call's text
  told    \* what the caller has been told

vars == <<fate, told>>

Fate == {"none", "pending", "delivered", "refused", "abandoned"}
Told == {"nothing", "ok", "err", "timeout"}

TypeOK ==
  /\ fate \in [Calls -> Fate]
  /\ told \in [Calls -> Told]

Init ==
  /\ fate = [c \in Calls |-> "none"]
  /\ told = [c \in Calls |-> "nothing"]

(* The caller submits one text. *)
Submit(c) ==
  /\ fate[c] = "none"
  /\ told[c] = "nothing"
  /\ fate' = [fate EXCEPT ![c] = "pending"]
  /\ UNCHANGED told

(* The terminal takes the text, or turns it away. *)
Resolve(c) ==
  /\ fate[c] = "pending"
  /\ \E f \in {"delivered", "refused"} : fate' = [fate EXCEPT ![c] = f]
  /\ UNCHANGED told

(* Giving up and being told so are one step: nothing can run in between.   *)
(* The caller hears of a timeout, or that the GTK thread is gone.          *)
Abandon(c) ==
  /\ fate[c] = "pending"
  /\ fate' = [fate EXCEPT ![c] = "abandoned"]
  /\ \E t \in {"timeout", "err"} : told' = [told EXCEPT ![c] = t]

Answer(c) ==
  /\ told[c] = "nothing"
  /\ \/ fate[c] = "delivered" /\ told' = [told EXCEPT ![c] = "ok"]
     \/ fate[c] = "refused" /\ told' = [told EXCEPT ![c] = "err"]
  /\ UNCHANGED fate

(* The caller is told at once that the surface cannot take text. *)
Reject(c) ==
  /\ fate[c] = "none"
  /\ told[c] = "nothing"
  /\ fate' = [fate EXCEPT ![c] = "refused"]
  /\ told' = [told EXCEPT ![c] = "err"]

(* An answered call slot is used for a new request. *)
Reuse(c) ==
  /\ told[c] # "nothing"
  /\ fate' = [fate EXCEPT ![c] = "none"]
  /\ told' = [told EXCEPT ![c] = "nothing"]

Next ==
  \E c \in Calls :
    Submit(c) \/ Resolve(c) \/ Abandon(c) \/ Answer(c) \/ Reject(c) \/ Reuse(c)

Spec == Init /\ [][Next]_vars
=============================================================================
