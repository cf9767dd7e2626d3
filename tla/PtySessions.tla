------------------------------ MODULE PtySessions ------------------------------
(***************************************************************************)
(* Terminal processes that survive the application (forktty-core,          *)
(* pty_persistence.rs; forktty-ui-gtk, controller.rs, embedded_spawn.rs,   *)
(* app.rs and settings_dialog.rs).                                         *)
(*                                                                         *)
(* With the setting on, the shell of a plain terminal runs under a broker  *)
(* whose socket is named after the surface id.  The broker outlives the    *)
(* application; what ties it to a pane of the next launch is that id       *)
(* alone, so that everything rests on which ids a launch may hand out and  *)
(* on which sessions are ended before an id comes back.                    *)
(*                                                                         *)
(* A transaction and one turn of the GTK thread are one step each; their   *)
(* interleaving inside, and terminals that do not close, are the business  *)
(* of SurfaceTransactions.  Which workspace is shown, hence which missing  *)
(* terminals a layout rebuild starts, and which surfaces failed before are *)
(* left open.  The broker is installed, and its processes obey signals.    *)
(***************************************************************************)
EXTENDS Naturals, Sequences, FiniteSets

CONSTANTS
  MaxSurface,  \* bound on surface ids
  MaxQueue     \* bound on the commands queued for one surface

ASSUME PtyAssumption == MaxSurface \in Nat \ {0} /\ MaxQueue \in Nat

Ids == 1..MaxSurface

VARIABLES
  persist,    \* general.persist_terminal_processes
  app,        \* the process; "closing" once it has read the setting to go by
  keep,       \* the setting as read by the close
  surfaces,   \* plain terminals of the model
  agents,     \* those of them that have an agent session
  next,       \* next_surface
  queue,      \* GTK commands of each surface, in order
  pane,       \* surfaces with a pane
  attached,   \* panes that show a broker session
  session,    \* ids with a broker, its socket and its process tree
  saved,      \* what the session file says of surfaces, agents and next
  discarded,  \* history: sessions of surfaces closed, restarted or lost
  missed,     \* history: those of them that the program does not end
  preserved   \* history: sessions kept at a turn-off that no pane showed

modelVars == <<surfaces, agents, next>>
paneVars == <<pane, attached, session>>
appVars == <<persist, app, keep>>
history == <<discarded, missed, preserved>>
vars == <<appVars, modelVars, queue, paneVars, saved, history>>

Command == {"create", "spawn", "close"}
SessionData == [surfaces : SUBSET Ids, agents : SUBSET Ids, next : Nat]

TypeOK ==
  /\ persist \in BOOLEAN /\ app \in {"off", "running", "closing"}
  /\ keep \in BOOLEAN
  /\ surfaces \subseteq Ids /\ agents \subseteq surfaces /\ next \in 0..MaxSurface
  /\ queue \in [Ids -> Seq(Command)]
  /\ session \subseteq Ids /\ pane \subseteq Ids /\ attached \subseteq pane \cap session
  /\ saved \in SessionData
  /\ discarded \subseteq session /\ missed \subseteq discarded /\ preserved \subseteq session

NoCommands == [s \in Ids |-> <<>>]
NoFile == [surfaces |-> {}, agents |-> {}, next |-> 0]

Init ==
  /\ persist \in BOOLEAN /\ app = "off" /\ keep = FALSE
  /\ surfaces = {} /\ agents = {} /\ next = 0
  /\ queue = NoCommands /\ pane = {} /\ attached = {} /\ session = {}
  /\ saved = NoFile /\ discarded = {} /\ missed = {} /\ preserved = {}

-----------------------------------------------------------------------------
(* What the steps share.                                                   *)

UiAlive == app # "off"

(* A creation keeps the surface-set guard until its terminal is made. *)
GuardFree == \A s \in Ids : \A i \in DOMAIN queue[s] : queue[s][i] # "create"

(* The runtime map: the newest command says whether an entry is current. *)
HasEntry(q, panes, s) ==
  IF q[s] = <<>> THEN s \in panes ELSE q[s][Len(q[s])] # "close"

(* next_surface_id: ids grow, and skip what is taken. *)
FreshIds(n, taken) ==
  {i \in Ids : i > n /\ i \notin taken /\ \A j \in n + 1..i - 1 : j \in taken}

(* spawn_active_surfaces_if_needed, which gives up when the guard is held: *)
(* of the terminals that are missing, those of one workspace are queued.   *)
Rebuilt(q, panes, shown, free) ==
  LET missing == {s \in shown : s \notin panes /\ ~HasEntry(q, panes, s)}
  IN {[s \in Ids |-> IF s \in some THEN Append(q[s], "spawn") ELSE q[s]] :
        some \in SUBSET (IF free THEN missing ELSE {})}

Snapshot == [surfaces |-> surfaces, agents |-> agents, next |-> next]

(* A save may be skipped or fail. *)
MaySave == saved' \in {saved, Snapshot'}

(* cleanup_managed_sessions and cleanup_managed_session: brokers, their    *)
(* process trees and their sockets go.                                     *)
EndSessions(ended) ==
  /\ session' = session \ ended
  /\ discarded' = discarded \ ended /\ missed' = missed \ ended
  /\ preserved' = preserved \ ended

Enqueue(s, commands) ==
  /\ Len(queue[s]) + Len(commands) <= MaxQueue
  /\ queue' = [queue EXCEPT ![s] = @ \o commands]

-----------------------------------------------------------------------------
(* Transactions; each of them needs the surface-set guard.                 *)

Create ==
  /\ UiAlive /\ GuardFree
  /\ \E s \in FreshIds(next, surfaces) :
       /\ surfaces' = surfaces \cup {s} /\ next' = s
       /\ Enqueue(s, <<"create">>)
  /\ UNCHANGED <<appVars, agents, paneVars, saved, history>>

(* The surface goes; when it is all that its workspace shows, another one  *)
(* comes in its place, or in that of a workspace that was the last.  A     *)
(* terminal without an entry is not there to be closed.                    *)
Close(s) ==
  LET closed == IF HasEntry(queue, pane, s)
                  THEN [queue EXCEPT ![s] = Append(@, "close")] ELSE queue
  IN
  /\ UiAlive /\ GuardFree /\ s \in surfaces
  /\ Len(closed[s]) <= MaxQueue
  /\ \/ /\ surfaces # {s}
        /\ surfaces' = surfaces \ {s} /\ next' = next
        /\ queue' = closed
     \/ \E new \in FreshIds(next, surfaces) :
          /\ surfaces' = (surfaces \ {s}) \cup {new} /\ next' = new
          /\ queue' = [closed EXCEPT ![new] = Append(@, "spawn")]
  /\ agents' = agents \ {s}
  /\ discarded' = discarded \cup ({s} \cap session) /\ missed' = missed \ {s}
  /\ UNCHANGED <<appVars, paneVars, saved, preserved>>

(* restart_surface_transaction.  The session of a surface goes with its    *)
(* pane: where there is none yet, nothing ends it.                         *)
Restart(s) ==
  /\ UiAlive /\ GuardFree /\ s \in surfaces
  /\ Enqueue(s, IF HasEntry(queue, pane, s) THEN <<"close", "spawn">> ELSE <<"spawn">>)
  /\ discarded' = discarded \cup ({s} \cap session)
  /\ missed' = (missed \ {s}) \cup (({s} \cap session) \ pane)
  /\ UNCHANGED <<appVars, modelVars, paneVars, saved, preserved>>

-----------------------------------------------------------------------------
(* The GTK thread: one command of a surface at a time.                     *)

(* pty_persistence_plan: plain terminals only, and the setting of now. *)
Plan(s) == persist /\ s \in surfaces /\ s \notin agents

(* The command as wrapped for the broker: attach to the session of the id, *)
(* or make it.  It is the session of that surface from now on.             *)
AttachOrCreate(s) ==
  /\ attached' = attached \cup {s}
  /\ session' = session \cup {s}
  /\ discarded' = discarded \ {s} /\ missed' = missed \ {s} /\ preserved' = preserved \ {s}

(* A spawn whose incarnation has been closed since, or that finds a pane,  *)
(* is dropped.                                                             *)
Dropped(s) == Len(queue[s]) > 1 \/ s \in pane

TakeSpawn(s) ==
  /\ UiAlive /\ queue[s] # <<>> /\ Head(queue[s]) # "close"
  /\ UNCHANGED <<appVars, modelVars>>
  /\ queue' = [queue EXCEPT ![s] = Tail(@)]
  /\ \/ /\ Dropped(s)
        /\ UNCHANGED <<paneVars, saved, history>>
     \/ /\ ~Dropped(s)
        /\ pane' = pane \cup {s}
        /\ IF Plan(s) THEN AttachOrCreate(s) ELSE UNCHANGED <<attached, session, history>>
        /\ IF Head(queue[s]) = "create" THEN MaySave ELSE UNCHANGED saved

(* The terminal cannot be made: its entry is closed, a creation is undone, *)
(* and the layout is rebuilt.                                              *)
TakeSpawnFails(s) ==
  LET creation == queue[s] = <<"create">>
  IN
  /\ UiAlive /\ queue[s] # <<>> /\ Head(queue[s]) # "close" /\ ~Dropped(s)
  /\ surfaces' = IF creation THEN surfaces \ {s} ELSE surfaces
  /\ agents' = agents \cap surfaces' /\ next' = next
  /\ IF creation THEN MaySave ELSE UNCHANGED saved
  /\ queue' \in Rebuilt([queue EXCEPT ![s] = <<"close">>], pane, surfaces' \ {s},
                        creation \/ GuardFree)
  /\ UNCHANGED <<appVars, paneVars, history>>

(* A mutant: with the setting off, a closed pane leaves its session.       *)
EndOfPaneIfOn(s) ==
  /\ pane' = pane \ {s} /\ attached' = attached \ {s}
  /\ EndSessions(IF persist THEN {s} ELSE {})

(* The pane goes, and with it the session of its surface. *)
EndOfPane(s) ==
  /\ pane' = pane \ {s} /\ attached' = attached \ {s}
  /\ EndSessions({s})

(* A close that finds no pane is one of a spawn that was dropped. *)
TakeClose(s) ==
  LET rest == [queue EXCEPT ![s] = Tail(@)]
  IN
  /\ UiAlive /\ queue[s] # <<>> /\ Head(queue[s]) = "close"
  /\ \/ /\ s \notin pane
        /\ queue' = rest
        /\ UNCHANGED <<paneVars, history>>
     \/ /\ s \in pane
        /\ EndOfPane(s)
        /\ queue' \in Rebuilt(rest, pane', surfaces, GuardFree)
  /\ UNCHANGED <<appVars, modelVars, saved>>

(* The periodic refresh of the layout. *)
Reconcile ==
  /\ UiAlive
  /\ queue' \in Rebuilt(queue, pane, surfaces, GuardFree)
  /\ UNCHANGED <<appVars, modelVars, paneVars, saved, history>>

(* A hook reports an agent that was started in a terminal, perhaps in one  *)
(* that this launch does not show yet.                                     *)
HookLearns(s) ==
  /\ UiAlive /\ s \in surfaces \cap (pane \cup session)
  /\ agents' = agents \cup {s}
  /\ UNCHANGED <<appVars, surfaces, next, queue, paneVars, saved, history>>

-----------------------------------------------------------------------------
(* The setting.                                                            *)

TurnOn ==
  /\ UiAlive /\ ~persist
  /\ persist' = TRUE
  /\ UNCHANGED <<app, keep, modelVars, queue, paneVars, saved, history>>

(* The sessions of all surfaces of the model are kept until these close,   *)
(* those of surfaces that no pane shows yet, too; all others end.          *)
TurnOff ==
  /\ UiAlive /\ persist
  /\ persist' = FALSE
  /\ session' = session \cap surfaces /\ attached' = attached \cap surfaces
  /\ discarded' = discarded \cap surfaces /\ missed' = missed \cap surfaces
  /\ preserved' = (preserved \cap surfaces) \cup (session' \ pane)
  /\ UNCHANGED <<app, keep, modelVars, queue, pane, saved>>

-----------------------------------------------------------------------------
(* The application, its session file, and the processes themselves.        *)

Autosave ==
  /\ UiAlive /\ GuardFree
  /\ saved' = Snapshot
  /\ UNCHANGED <<appVars, modelVars, queue, paneVars, history>>

(* The close reads the setting once its server has drained, then waits for *)
(* the guard to save; the GTK thread runs meanwhile.                       *)
CloseWindow ==
  /\ app = "running"
  /\ app' = "closing" /\ keep' = persist
  /\ UNCHANGED <<persist, modelVars, queue, paneVars, saved, history>>

Down ==
  /\ app' = "off" /\ keep' = FALSE
  /\ surfaces' = {} /\ agents' = {} /\ next' = 0
  /\ queue' = NoCommands /\ pane' = {} /\ attached' = {}
  /\ UNCHANGED persist

Finish ==
  /\ app = "closing" /\ GuardFree
  /\ Down
  /\ saved' \in {saved, Snapshot}
  /\ EndSessions(IF keep THEN {} ELSE Ids)

(* The process dies, but not its brokers. *)
Kill ==
  /\ UiAlive
  /\ Down
  /\ UNCHANGED <<session, saved, history>>

(* A mutant: restored ids alone say where the next one begins. *)
HighWaterOfSurfaces(data) ==
  CHOOSE n \in {0} \cup data.surfaces : \A s \in data.surfaces : s <= n

(* restore_session: ids begin after those ever handed out. *)
HighWater(data) ==
  CHOOSE n \in {data.next} \cup data.surfaces :
    \A m \in {data.next} \cup data.surfaces : m <= n

(* A mutant: nothing is ended at the start. *)
EndedAtStartNone == {}

(* Old sessions end at the start when the setting is off. *)
EndedAtStart == IF persist THEN {} ELSE Ids

(* Without a session file, the first workspace is made.  Sessions whose    *)
(* surface is not restored are lost; what the file does not even know of,  *)
(* ids that were never handed out, it seems, may be handed out again.      *)
Launch ==
  /\ app = "off" /\ app' = "running"
  /\ session' = session \ EndedAtStart
  /\ discarded' = session' \ saved.surfaces /\ preserved' = {}
  /\ \/ /\ saved.surfaces # {}
        /\ surfaces' = saved.surfaces /\ agents' = saved.agents
        /\ next' = HighWater(saved)
        /\ queue' \in Rebuilt(NoCommands, {}, surfaces', TRUE)
        /\ missed' = {s \in discarded' : s > saved.next}
     \/ /\ saved.surfaces = {}
        /\ \E s \in FreshIds(0, {}) :
             /\ surfaces' = {s} /\ agents' = {} /\ next' = s
             /\ queue' = [NoCommands EXCEPT ![s] = <<"spawn">>]
        /\ missed' = discarded'
  /\ UNCHANGED <<persist, keep, pane, attached, saved>>

(* A shell ends, or the machine goes down with all of them, one by one. *)
WorkloadEnds(s) ==
  /\ s \in session
  /\ EndSessions({s})
  /\ attached' = attached \ {s}
  /\ UNCHANGED <<appVars, modelVars, queue, pane, saved>>

GtkTakes(s) == TakeSpawn(s) \/ TakeSpawnFails(s) \/ TakeClose(s)

Next ==
  \/ Create \/ Reconcile \/ TurnOn \/ TurnOff \/ Autosave
  \/ CloseWindow \/ Finish \/ Kill \/ Launch
  \/ \E s \in Ids :
       \/ Close(s) \/ Restart(s) \/ HookLearns(s) \/ WorkloadEnds(s)
       \/ TakeSpawn(s) \/ TakeSpawnFails(s) \/ TakeClose(s)

Spec == Init /\ [][Next]_vars

(* The timer of the GTK thread handles commands as long as the UI lives. *)
FairSpec == Spec /\ \A s \in Ids : WF_vars(GtkTakes(s))

-----------------------------------------------------------------------------
(* No pane comes to attach to the session of a surface that was closed or  *)
(* restarted in this launch, nor to one whose surface the session file did *)
(* not bring back: not by an id that is handed out again, not by a spawn   *)
(* that overtakes.  The two exceptions, both against SPEC.md:151-154, are  *)
(* the sessions in missed: that of a surface restarted while it had no     *)
(* pane, to which the new spawn attaches; and at a launch, those of ids    *)
(* above the mark in the session file, made and perhaps closed after the   *)
(* last save before a kill, or of any id when there is no session file.    *)
(* Closing or restarting a surface that the file then brings back is       *)
(* undone by a kill, and its session is its own again.                     *)
NeverStale ==
  [][\A s \in Ids :
       s \in attached' \ attached /\ s \in session => s \notin discarded \ missed]_vars

(* A live session is not left running behind a second shell in the pane of *)
(* its own surface, except for one in which an agent was started, one      *)
(* whose end is already queued, and one that was kept when the setting was *)
(* turned off although no pane showed it: SPEC.md:154-155 has only visible *)
(* surfaces keep theirs, the code all of the model, and such a surface     *)
(* gets a plain shell when it is shown.                                    *)
NoHiddenSession ==
  TypeOK /\ (pane \cap session) \ (agents \cup preserved \cup (discarded \ missed)) \subseteq attached

(* Closing or restarting a surface that has a pane ends its session,       *)
(* whatever the setting has become in the meantime and whatever else is    *)
(* queued, as long as the application runs.                                *)
ClosedPanesEnd ==
  \A s \in Ids :
    s \in (discarded \ missed) \cap pane ~> s \notin session \/ ~UiAlive
=============================================================================
