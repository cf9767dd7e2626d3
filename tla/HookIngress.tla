----------------------------- MODULE HookIngress -----------------------------
(***************************************************************************)
(* Agent hooks against closing and hibernating the surfaces they report on *)
(* (forktty-socket: hook_session.rs, metadata_runtime.rs, agent_runtime.rs)*)
(*                                                                         *)
(* Each hook of a coding agent is a process of its own that sends commands *)
(* over its own connection, so that the events of one agent session arrive *)
(* concurrently, late, reordered or twice.  An ingress record per session  *)
(* serialises them and keeps the order of the last one applied; a gate per *)
(* surface keeps the check that a session still owns its surface and the   *)
(* mutation in one piece.  Lock order: registry of records (not kept),     *)
(* record, gate.  Closing takes the gates, releases them, and then takes   *)
(* the registry and the records in it to forget the closed surfaces.       *)
(*                                                                         *)
(* All sessions are of one provider; prompts, statuses and the discovery   *)
(* of unscoped Codex processes are left out.  A session's clock is the     *)
(* hook_clock of its events, which orders are only compared within.        *)
(***************************************************************************)
EXTENDS FiniteSets, Naturals

CONSTANTS
  Sessions,      \* provider session ids
  Surfaces,
  Threads,       \* connections that serve hook commands
  Clocks,
  NoSession, NoSurface, NoClock,
  Orders,        \* bound: the orders hooks come with, 0 for none
  Capacity,      \* HOOK_SESSION_TARGET_CAPACITY
  MaxRequests    \* bound on hook commands, closes, hibernations and agents
                 \* forgotten together

ASSUME NoneAssumption ==
  NoSession \notin Sessions /\ NoSurface \notin Surfaces /\ NoClock \notin Clocks
ASSUME BoundAssumption ==
  Orders \subseteq Nat /\ Capacity \in Nat \ {0} /\ MaxRequests \in Nat

VARIABLES
  modelled,    \* surfaces in the workspace model
  agent,       \* the agent session bound to a surface
  runtime,     \* the terminal of a surface
  toast,       \* the agent session a toast still offers to put back
  registered,  \* sessions with an ingress record
  ingress,     \* the record of a session, the default one if not registered
  req,         \* hook commands being served
  topo,        \* the operation that holds the surface-set guard
  requests,    \* hook commands, closes, hibernations and agents forgotten
  putBack      \* history: surfaces whose session a toast has put back since
               \* the last hook was checked on them

modelVars == <<modelled, agent, runtime>>
panelVars == <<toast, putBack>>
vars == <<modelled, agent, runtime, toast, registered, ingress, req, topo,
          requests, putBack>>

Stamp == [clock : Clocks \cup {NoClock}, order : Orders \cup {0}]
NoStamp == [clock |-> NoClock, order |-> 0]

(* The lifecycle an event reports; needs_input and unknown are as running. *)
Reports == [start |-> "running", stop |-> "idle", end |-> "ended"]
Agent == [session : Sessions, life : {"running", "idle", "suspended", "ended"}]
NoAgent == [session |-> NoSession, life |-> "ended"]

(* The commands one event sends: the primary status, the clearing of it or *)
(* of another key at session-end, and what leaves the agent session alone. *)
Commands == [start |-> {"status", "log"}, stop |-> {"status", "log"},
             end |-> {"clearStatus", "clearOther"}]
Event == {e \in [session : Sessions, name : DOMAIN Reports, clock : Clocks, order : Orders,
                 command : UNION {Commands[n] : n \in DOMAIN Commands},
                 surface : Surfaces \cup {NoSurface}] : e.command \in Commands[e.name]}

NoTakeover == [from |-> NoSession, name |-> "none", stamp |-> NoStamp]
Takeover == [from : Sessions, name : DOMAIN Reports, stamp : Stamp]
Ingress == [target : Surfaces \cup {NoSurface}, watermark : Stamp,
            takeover : Takeover \cup {NoTakeover}]
NewIngress == [target |-> NoSurface, watermark |-> NoStamp, takeover |-> NoTakeover]

Request == [at : {"entered", "resolved", "checked"}, event : Event,
            target : Surfaces \cup {NoSurface}]
NoRequest == [at |-> "idle"]

Topo == [op : {"close", "gtkClose", "hibernate"},
         at : {"gates", "commit", "closing", "evict", "evicting"},
         surfaces : SUBSET Surfaces, gates : SUBSET Surfaces,
         todo : SUBSET Sessions]
NoTopo == [op |-> "none", at |-> "idle", surfaces |-> {}, gates |-> {}, todo |-> {}]

TypeOK ==
  /\ modelled \subseteq Surfaces
  /\ agent \in [Surfaces -> Agent \cup {NoAgent}]
  /\ runtime \in [Surfaces -> {"none", "running", "exited"}]
  /\ toast \in [Surfaces -> Agent \cup {NoAgent}]
  /\ registered \subseteq Sessions
  /\ ingress \in [Sessions -> Ingress]
  /\ req \in [Threads -> Request \cup {NoRequest}]
  /\ topo \in Topo \cup {NoTopo}
  /\ requests \in 0 .. MaxRequests
  /\ putBack \subseteq Surfaces

(* A launch begins without records; agents are as the session had them.    *)
Init ==
  /\ modelled = Surfaces
  /\ agent \in [Surfaces -> {NoAgent} \cup [session : Sessions, life : {"running", "idle"}]]
  /\ runtime = [s \in Surfaces |-> "running"]
  /\ toast = [s \in Surfaces |-> NoAgent]
  /\ registered = {}
  /\ ingress = [k \in Sessions |-> NewIngress]
  /\ req = [t \in Threads |-> NoRequest]
  /\ topo = NoTopo
  /\ requests = 0
  /\ putBack = {}

-----------------------------------------------------------------------------
(* Locks.                                                                  *)

Serving(t, k) == req[t].at # "idle" /\ req[t].event.session = k
RegistryFree == topo.at # "evicting"

(* A bug: the record is not kept locked until the event is applied. *)
IngressUnlocked(k) == TRUE
IngressFree(k) == \A t \in Threads : Serving(t, k) => req[t].at = "entered"

(* A bug: events do not take the gate of their surface. *)
GateIgnored(s) == TRUE
GateFree(s) ==
  /\ s \notin topo.gates
  /\ \A t \in Threads : req[t].at = "checked" => req[t].target # s

(* An event without a target takes no gate. *)
GateTakable(s) == s = NoSurface \/ GateFree(s)

-----------------------------------------------------------------------------
(* A hook command.                                                         *)

(* evict_idle_entries_for_insert: records nobody serves go until there is  *)
(* room; the code takes the least recently used ones.                      *)
Evicted(k) ==
  LET idle == {j \in registered : \A t \in Threads : ~ Serving(t, j)}
      excess == Cardinality(registered) - (Capacity - 1)
  IN IF k \in registered \/ Cardinality(registered) < Capacity THEN {{}}
     ELSE {E \in SUBSET idle : \/ Cardinality(E) = excess
                               \/ (E = idle /\ Cardinality(E) < excess)}

Enter(t, e) ==
  /\ req[t] = NoRequest
  /\ requests < MaxRequests
  /\ RegistryFree
  /\ \E E \in Evicted(e.session) :
       LET reset == E \cup ({e.session} \ registered)
       IN /\ registered' = (registered \ E) \cup {e.session}
          /\ ingress' = [k \in Sessions |-> IF k \in reset THEN NewIngress ELSE ingress[k]]
  /\ req' = [req EXCEPT ![t] = [at |-> "entered", event |-> e, target |-> NoSurface]]
  /\ requests' = requests + 1
  /\ UNCHANGED <<modelVars, topo, panelVars>>

Return(t) == req' = [req EXCEPT ![t] = NoRequest]

(* resolve_hook_session_target: the surface named if it is live, else the  *)
(* one learned, else the one whose directory is the session's.  Without    *)
(* any, or with several, only some commands go on.                         *)
Targets(e) ==
  IF e.surface \in modelled THEN {e.surface}
  ELSE IF ingress[e.session].target \in modelled THEN {ingress[e.session].target}
  ELSE modelled \cup {NoSurface}

Resolve(t) ==
  LET e == req[t].event
  IN /\ req[t].at = "entered"
     /\ IngressFree(e.session)
     /\ \E s \in Targets(e) :
          \/ /\ s # NoSurface \/ (e.surface = NoSurface /\ e.command # "status")
             /\ req' = [req EXCEPT ![t] = [@ EXCEPT !.at = "resolved", !.target = s]]
          \/ s = NoSurface /\ Return(t)
     /\ UNCHANGED <<modelVars, registered, ingress, topo, requests, panelVars>>

Stamped(e) == [clock |-> e.clock, order |-> e.order]

(* A session may take a surface over when nothing of it has been applied.  *)
OpensTakeover(k) ==
  ingress[k].takeover = NoTakeover /\ ingress[k].watermark = NoStamp

(* ... and the other commands of the same event may follow.                *)
ContinuesTakeover(e, owner) ==
  ingress[e.session].takeover = [from |-> owner, name |-> e.name, stamp |-> Stamped(e)]

(* hook_ingress_decision: within a clock, orders do not decrease.          *)
Stale(e) ==
  LET w == ingress[e.session].watermark
  IN e.order # 0 /\ w # NoStamp /\ w.clock = e.clock /\ e.order < w.order

(* hook_session_is_superseded, then the decision, under the gate.          *)
Check(t) ==
  LET e == req[t].event
      s == req[t].target
      k == e.session
      owner == IF s \in modelled THEN agent[s] ELSE NoAgent
      contested == owner # NoAgent /\ owner.session # k /\ owner.life # "ended"
      takes == OpensTakeover(k) \/ ContinuesTakeover(e, owner.session)
      inert == owner.life = "suspended" \/ (contested /\ ~ takes)
  IN /\ req[t].at = "resolved"
     /\ GateTakable(s)
     /\ ingress' = IF inert \/ owner = NoAgent THEN ingress
                   ELSE [ingress EXCEPT ![k].takeover =
                     IF contested
                     THEN [from |-> owner.session, name |-> e.name, stamp |-> Stamped(e)]
                     ELSE NoTakeover]
     /\ IF inert \/ Stale(e)
        THEN Return(t) /\ UNCHANGED putBack
        ELSE req' = [req EXCEPT ![t].at = "checked"] /\ putBack' = putBack \ {s}
     /\ UNCHANGED <<modelVars, toast, registered, topo, requests>>

(* What the mutation of a command makes of the agent session of s.         *)
Mutated(e, s) ==
  CASE e.command = "status" /\ s \in modelled ->
         {[session |-> e.session, life |-> Reports[e.name]], agent[s]}
    [] e.command = "clearStatus" /\ e.name = "end" /\ s \in modelled
       /\ agent[s].session = e.session ->
         {[agent[s] EXCEPT !.life = "ended"], agent[s]}
    [] OTHER -> {agent[s]}

Commit(e, s, i) ==
  [i EXCEPT !.target = IF e.command = "clearOther" /\ e.name = "end" THEN NoSurface
                       ELSE IF s # NoSurface THEN s ELSE @,
            !.watermark = IF e.order # 0 THEN Stamped(e) ELSE @]

(* The mutation and, if it succeeded, the learned target and watermark.    *)
(* The model may refuse the status and it fails for a surface that is gone *)
(* or parameters that are invalid.                                         *)
Apply(t) ==
  LET e == req[t].event
      s == req[t].target
      k == e.session
  IN /\ req[t].at = "checked"
     /\ Return(t)
     /\ \/ UNCHANGED <<agent, ingress>>
        \/ /\ IF s = NoSurface THEN UNCHANGED agent
              ELSE \E a \in Mutated(e, s) : agent' = [agent EXCEPT ![s] = a]
           /\ ingress' = [ingress EXCEPT ![k] = Commit(e, s, @)]
     /\ UNCHANGED <<modelled, runtime, registered, topo, requests, panelVars>>

-----------------------------------------------------------------------------
(* Closing surfaces: surface.close, workspace.close and worktree removal   *)
(* take the gates; the closes of the GTK thread do not.                    *)

TopoAt(ops, at) == topo.op \in ops /\ topo.at = at
TopoGoes(at) == topo' = [topo EXCEPT !.at = at]
TopoDone == topo' = NoTopo

BeginClose(S, op) ==
  /\ topo = NoTopo
  /\ requests < MaxRequests
  /\ S \subseteq modelled /\ S # {}
  /\ op \in {"close", "gtkClose"}
  /\ topo' = [op |-> op, at |-> IF op = "close" THEN "gates" ELSE "commit",
              surfaces |-> S, gates |-> {}, todo |-> {}]
  /\ requests' = requests + 1
  /\ UNCHANGED <<modelVars, registered, ingress, req, panelVars>>

(* lock_hook_target_gates, one after the other. *)
LockGate ==
  /\ TopoAt({"close", "hibernate"}, "gates")
  /\ \E s \in topo.surfaces \ topo.gates :
       /\ GateFree(s)
       /\ topo' = [topo EXCEPT !.gates = @ \cup {s},
                               !.at = IF topo.surfaces = topo.gates \cup {s}
                                      THEN "commit" ELSE @]
  /\ UNCHANGED <<modelVars, registered, ingress, req, requests, panelVars>>

(* A bug: the gates are held until the records have been cleaned. *)
GatesKept == topo.gates

(* drop(target_guards): the gates held while the records are cleaned. *)
GatesWhileEvicting == {}

(* The terminals are closed, or their close fails and nothing is done.     *)
CommitClose ==
  /\ TopoAt({"close", "gtkClose"}, "commit")
  /\ \/ /\ modelled' = modelled \ topo.surfaces
        /\ agent' = [s \in Surfaces |-> IF s \in topo.surfaces THEN NoAgent ELSE agent[s]]
        /\ runtime' = [s \in Surfaces |-> IF s \in topo.surfaces THEN "none" ELSE runtime[s]]
        /\ topo' = [topo EXCEPT !.at = "evict", !.gates = GatesWhileEvicting]
     \/ TopoDone /\ UNCHANGED modelVars
  /\ UNCHANGED <<registered, ingress, req, requests, panelVars>>

LockRegistry ==
  /\ topo.at = "evict"
  /\ topo' = [topo EXCEPT !.at = "evicting", !.todo = registered]
  /\ UNCHANGED <<modelVars, registered, ingress, req, requests, panelVars>>

(* A bug: a record in use is cleaned without waiting for its lock. *)
CleanableAtOnce(k) == TRUE
Cleanable(k) == IngressFree(k)

(* remove_surface: each record in turn, locked, forgets a closed target.   *)
CleanRecord ==
  /\ topo.at = "evicting"
  /\ \E k \in topo.todo :
       /\ Cleanable(k)
       /\ ingress' = IF ingress[k].target \in topo.surfaces
                     THEN [ingress EXCEPT ![k].target = NoSurface] ELSE ingress
       /\ topo' = [topo EXCEPT !.todo = @ \ {k}]
  /\ UNCHANGED <<modelVars, registered, req, requests, panelVars>>

EndClose ==
  /\ topo.at = "evicting"
  /\ topo.todo = {}
  /\ TopoDone
  /\ UNCHANGED <<modelVars, registered, ingress, req, requests, panelVars>>

-----------------------------------------------------------------------------
(* agent.hibernate, of which agent.reclaim is a series.                    *)

BeginHibernate(s) ==
  /\ topo = NoTopo
  /\ requests < MaxRequests
  /\ s \in modelled
  /\ topo' = [op |-> "hibernate", at |-> "gates", surfaces |-> {s}, gates |-> {},
              todo |-> {}]
  /\ requests' = requests + 1
  /\ UNCHANGED <<modelVars, registered, ingress, req, panelVars>>

(* set_surface_agent_session_lifecycle. *)
WithLifecycle(s, life) ==
  IF agent[s] = NoAgent THEN agent ELSE [agent EXCEPT ![s].life = life]

(* An idle agent is marked; any other, one active lately and one that      *)
(* cannot be resumed are refused.                                          *)
Suspend ==
  /\ TopoAt({"hibernate"}, "commit")
  /\ \E s \in topo.surfaces :
       \/ /\ agent[s].life = "idle"
          /\ agent' = WithLifecycle(s, "suspended")
          /\ TopoGoes("closing")
       \/ TopoDone /\ UNCHANGED agent
  /\ UNCHANGED <<modelled, runtime, registered, ingress, req, requests, panelVars>>

(* Its terminal is closed; if that fails the mark is taken back.           *)
CloseHibernated ==
  /\ topo.at = "closing"
  /\ \E s \in topo.surfaces :
       \/ runtime' = [runtime EXCEPT ![s] = "none"] /\ UNCHANGED agent
       \/ /\ runtime[s] # "none"
          /\ agent' = WithLifecycle(s, "idle")
          /\ UNCHANGED runtime
  /\ TopoDone
  /\ UNCHANGED <<modelled, registered, ingress, req, requests, panelVars>>

-----------------------------------------------------------------------------
(* What takes neither guard nor gate.                                      *)

(* A terminal's child exits: apply_embedded_child_exit.                    *)
ChildExit(s) ==
  /\ s \in modelled
  /\ runtime[s] = "running"
  /\ runtime' = [runtime EXCEPT ![s] = "exited"]
  /\ agent' = WithLifecycle(s, "ended")
  /\ UNCHANGED <<modelled, registered, ingress, req, topo, requests, panelVars>>

(* Reconciliation starts a terminal for a surface without one, with the    *)
(* resume command of its agent unless that is suspended.                   *)
Respawn(s) ==
  /\ topo = NoTopo
  /\ s \in modelled
  /\ runtime[s] = "none"
  /\ agent[s].life # "suspended"
  /\ runtime' = [runtime EXCEPT ![s] = "running"]
  /\ UNCHANGED <<modelled, agent, registered, ingress, req, topo, requests, panelVars>>

(* The agents panel forgets an agent session, and its toast offers to undo  *)
(* it.  Bound: of the toasts of a surface one, any of them, is kept.       *)
Forget(s) ==
  /\ agent[s] # NoAgent
  /\ requests < MaxRequests
  /\ agent' = [agent EXCEPT ![s] = NoAgent]
  /\ \/ toast' = [toast EXCEPT ![s] = agent[s]]
     \/ toast[s] # NoAgent /\ UNCHANGED toast
  /\ requests' = requests + 1
  /\ UNCHANGED <<modelled, runtime, registered, ingress, req, topo, putBack>>

(* restore_surface_agent_session: only for a surface that exists and has   *)
(* got no other agent; the toast goes either way.                          *)
Restorable(s) == s \in modelled /\ agent[s] = NoAgent

(* Undo, without guard or gate: restore_forgotten_agent_surface.           *)
UndoForget(s) ==
  /\ toast[s] # NoAgent
  /\ toast' = [toast EXCEPT ![s] = NoAgent]
  /\ IF Restorable(s)
     THEN agent' = [agent EXCEPT ![s] = toast[s]] /\ putBack' = putBack \cup {s}
     ELSE UNCHANGED <<agent, putBack>>
  /\ UNCHANGED <<modelled, runtime, registered, ingress, req, topo, requests>>

-----------------------------------------------------------------------------
HookStep(t) == Resolve(t) \/ Check(t) \/ Apply(t)

TopoStep ==
  \/ LockGate \/ CommitClose \/ LockRegistry \/ CleanRecord \/ EndClose
  \/ Suspend \/ CloseHibernated

Next ==
  \/ \E t \in Threads : HookStep(t) \/ \E e \in Event : Enter(t, e)
  \/ TopoStep
  \/ \E S \in SUBSET Surfaces, op \in {"close", "gtkClose"} : BeginClose(S, op)
  \/ \E s \in Surfaces : BeginHibernate(s) \/ ChildExit(s) \/ Respawn(s)
                         \/ Forget(s) \/ UndoForget(s)

Spec == Init /\ [][Next]_vars

(* Every thread keeps running whenever the lock it wants is free.  Requests*)
(* are bounded, so that no lock is contended for ever.                     *)
FairSpec == Spec /\ WF_vars(TopoStep) /\ \A t \in Threads : WF_vars(HookStep(t))

-----------------------------------------------------------------------------
(* Properties.                                                             *)

(* A hook event never changes a suspended agent session, even if the       *)
(* hibernation comes between the event's check and its mutation.  Only a   *)
(* suspended session that the panel's Undo puts back in between is not     *)
(* spared: Undo takes no gate and the mutation does not look again.        *)
LateHooksAreInert ==
  [][\A t \in Threads, s \in Surfaces :
       (Apply(t) /\ agent[s].life = "suspended" /\ s \notin putBack)
          => agent'[s] = agent[s]]_vars

(* The events of a session that are applied do not go back in order while  *)
(* its record is kept: deciding, mutating and moving the watermark are one *)
(* step to the other events of the session.                                *)
AppliedInOrder ==
  [][\A k \in Sessions :
       LET before == ingress[k].watermark
           after == ingress'[k].watermark
       IN after # NoStamp /\ after.clock = before.clock
          => after.order >= before.order]_vars

(* A surface passes from one live session to another only if its takeover  *)
(* from that very owner was granted: no session slips in between the check *)
(* of ownership and the mutation, and Undo never puts one over another.    *)
(* Only an owner that Undo put back in that gap is replaced ungranted.     *)
TakeoversAreGranted ==
  [][\A s \in Surfaces :
       LET k == agent'[s].session
       IN (/\ k # agent[s].session /\ k # NoSession
           /\ agent[s].life \in {"running", "idle"} /\ s \notin putBack)
          => ingress[k].takeover.from = agent[s].session]_vars

(* When no close is under way, every learned target is a surface that      *)
(* exists: no event that was in flight teaches a record a closed surface.  *)
LearnedTargetsLive ==
  /\ TypeOK
  /\ topo.op = "none" => \A k \in registered : ingress[k].target \in modelled \cup {NoSurface}

(* Events, closes and hibernations all return: the registry, the records   *)
(* and the gates are taken in orders that cannot deadlock.                 *)
RequestsReturn ==
  /\ \A t \in Threads : req[t] # NoRequest ~> req[t] = NoRequest
  /\ topo # NoTopo ~> topo = NoTopo

(* SPEC.md:499: Suspended is a tombstone that only an explicit resume      *)
(* replaces.  Taking back a failed hibernation, and forgetting the session *)
(* or its surface, are granted.                                            *)
SuspendedIsTombstone ==
  [][\A s \in Surfaces :
       agent[s].life = "suspended" =>
         \/ agent'[s] \in {agent[s], NoAgent}
         \/ topo.at = "closing" /\ topo' = NoTopo]_vars
=============================================================================
