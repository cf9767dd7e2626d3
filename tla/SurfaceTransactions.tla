------------------------ MODULE SurfaceTransactions ------------------------
(***************************************************************************)
(* The topology transactions: creating, closing, selecting and restarting  *)
(* surfaces and workspaces (forktty-socket, surface_lifecycle.rs and its   *)
(* neighbours) over the workspace model (forktty-core, model.rs) and the   *)
(* terminal backend.                                                       *)
(*                                                                         *)
(* A transaction edits two structures that no lock covers together: the    *)
(* model, behind a mutex, and the backend's runtime map.  The surface-set  *)
(* guard serialises the transactions, and a creation hands its guard over  *)
(* to the compensation that travels with the spawn command, so that the    *)
(* guard is released when GTK has built the terminal or the creation has   *)
(* been undone.  Focus, tab selection and tab moves take no guard.         *)
(*                                                                         *)
(* Each action is one critical section of the model mutex or one backend   *)
(* call.  The GTK variants of the transactions (gtk_app/workspace_ops.rs,  *)
(* workspace_dialogs.rs) follow the same protocol.  A pane tree is         *)
(* abstracted to its leaves: who is next to whom is a free choice.  The    *)
(* runtime map is the one TerminalBackend describes in detail; here a      *)
(* runtime entry is none, queued (its Spawn is in the channel) or live.    *)
(***************************************************************************)
EXTENDS FiniteSets, Naturals

CONSTANTS
  Surfaces,        \* surface ids; allocation stops when all have been used
  Workspaces,      \* workspace ids, likewise
  NoSurface, NoWorkspace

ASSUME NoIdAssumption ==
  /\ NoSurface \notin Surfaces /\ NoWorkspace \notin Workspaces
  /\ Workspaces \cap {"fresh", "allocated"} = {}

VARIABLES
  home,            \* workspace of a modelled surface, or the state of the id
  layout,          \* pane tree and focus of each open workspace
  active,          \* workspaces marked active
  freshWorkspaces, \* workspace ids not allocated yet
  blocked,         \* surfaces with a red status: no automatic spawn
  runtime,         \* the backend's entry of a surface
  txn,             \* the transaction that holds the surface-set guard
  handler,         \* the compensation that holds it, until it runs or is disarmed
  gtk              \* what the GTK thread does with a Spawn command

modelVars == <<home, layout, active, freshWorkspaces>>
vars == <<home, layout, active, freshWorkspaces, blocked, runtime, txn, handler,
          gtk>>

Open == DOMAIN layout
Modelled == {s \in Surfaces : home[s] \in Workspaces}
SurfacesOf(w) == {s \in Surfaces : home[s] = w}
FreshSurfaces == {s \in Surfaces : home[s] = "fresh"}

Leaf == [tabs : SUBSET Surfaces, active : Surfaces]
Tree == [leaves : SUBSET Leaf, focus : Surfaces]
Txn == [op : {"none", "create", "closeSurface", "closeWorkspace", "select", "focus", "restart"},
        at : {"idle", "spawn", "drop", "spawnSpare", "close", "restore",
              "closeSpare", "spareKept", "undo", "commit", "ensure", "spawnFocused",
              "respawn"},
        surface : Surfaces \cup {NoSurface}, workspace : Workspaces \cup {NoWorkspace},
        spare : Surfaces \cup {NoSurface}, spareWorkspace : Workspaces \cup {NoWorkspace},
        todo : SUBSET Surfaces, closed : SUBSET Surfaces,
        prevActive : Workspaces \cup {NoWorkspace}, prevFocus : Surfaces \cup {NoSurface}]
Idle == [op |-> "none", at |-> "idle", surface |-> NoSurface, workspace |-> NoWorkspace,
         spare |-> NoSurface, spareWorkspace |-> NoWorkspace, todo |-> {}, closed |-> {},
         prevActive |-> NoWorkspace, prevFocus |-> NoSurface]
NoHandler == [kind |-> "none"]
Handler == [kind : {"surface"}, surface : Surfaces, workspace : Workspaces, snapshot : Tree]
           \cup [kind : {"workspace"}, surface : Surfaces, workspace : Workspaces,
                 prevActive : Workspaces]
Gtk == [at : {"idle", "building", "failed", "rollback"},
        surface : Surfaces \cup {NoSurface}, current : BOOLEAN]
GtkIdle == [at |-> "idle", surface |-> NoSurface, current |-> FALSE]

TypeOK ==
  /\ home \in [Surfaces -> Workspaces \cup {"fresh", "allocated"}]
  /\ Open \subseteq Workspaces \ freshWorkspaces
  /\ \A w \in Open : layout[w] \in Tree
  /\ active \subseteq Open
  /\ freshWorkspaces \subseteq Workspaces
  /\ blocked \subseteq Surfaces
  /\ runtime \in [Surfaces -> {"none", "queued", "live"}]
  /\ txn \in Txn
  /\ handler \in Handler \cup {NoHandler}
  /\ gtk \in Gtk

Tabs(S, s) == [leaves |-> {[tabs |-> S, active |-> s]}, focus |-> s]
Single(s) == Tabs({s}, s)

(* A restored session has no runtimes, a bootstrapped one spawns its only  *)
(* surface.  Restored panes start as tabs: running makes the other trees.  *)
Init ==
  /\ home \in [Surfaces -> Workspaces \cup {"fresh"}]
  /\ Modelled # {}
  /\ layout \in [{home[s] : s \in Modelled} ->
                   UNION {{Tabs(S, s) : s \in S} : S \in SUBSET Modelled}]
  /\ \A w \in Open : \E s \in SurfacesOf(w) : layout[w] = Tabs(SurfacesOf(w), s)
  /\ \E w \in Open : active = {w}
  /\ freshWorkspaces = Workspaces \ Open
  /\ blocked = {}
  /\ \/ runtime = [s \in Surfaces |-> "none"]
     \/ /\ Cardinality(Modelled) = 1
        /\ runtime = [s \in Surfaces |-> IF s \in Modelled THEN "queued" ELSE "none"]
  /\ txn = Idle
  /\ handler = NoHandler
  /\ gtk = GtkIdle

-----------------------------------------------------------------------------
(* Pane trees, as sets of leaves.                                          *)

LeafOf(t, s) == CHOOSE l \in t.leaves : s \in l.tabs
InTree(t, s) == \E l \in t.leaves : s \in l.tabs
WithLeaf(t, l, m) == [t EXCEPT !.leaves = (@ \ {l}) \cup {m}]

(* split_with: the new surface gets a leaf of its own and the focus. *)
Split(t, n) == [leaves |-> t.leaves \cup Single(n).leaves, focus |-> n]

(* add_tab: the new surface becomes the active tab of the leaf of s. *)
AddTab(t, s, n) ==
  LET l == LeafOf(t, s)
  IN [WithLeaf(t, l, [tabs |-> l.tabs \cup {n}, active |-> n]) EXCEPT !.focus = n]

(* select_tab and focus_surface: s becomes the active tab of its leaf. *)
Focus(t, s) ==
  LET l == LeafOf(t, s)
  IN [WithLeaf(t, l, [l EXCEPT !.active = s]) EXCEPT !.focus = s]

(* A bug: the active tab is not chosen anew. *)
WithoutStaleActive(l, s) == {[tabs |-> l.tabs \ {s}, active |-> l.active]}

(* The leaves l may become when the tab s leaves it: the next active tab   *)
(* is a neighbour in tab order.                                            *)
Without(l, s) ==
  {[tabs |-> l.tabs \ {s}, active |-> a] :
     a \in IF l.active = s THEN l.tabs \ {s} ELSE {l.active}}

(* close_surface: the trees t may become.  The focus of a closed surface   *)
(* goes to the next active tab, or to the active tab of another leaf.      *)
AfterClose(t, s) ==
  LET l == LeafOf(t, s)
      rest == t.leaves \ {l}
  IN IF l.tabs # {s}
     THEN {[leaves |-> rest \cup {m}, focus |-> IF t.focus = s THEN m.active ELSE t.focus] :
             m \in Without(l, s)}
     ELSE {[leaves |-> rest, focus |-> f] :
             f \in IF t.focus = s THEN {m.active : m \in rest} ELSE {t.focus}}

(* move_tab_between_leaves: a leaf keeps at least one tab; the focus of    *)
(* the workspace is left alone.                                            *)
AfterMove(t, a, b) ==
  LET l == LeafOf(t, a)
      m == LeafOf(t, b)
      n == [tabs |-> m.tabs \cup {a}, active |-> IF l.active = a THEN a ELSE m.active]
  IN {[t EXCEPT !.leaves = (@ \ {l, m}) \cup {k, n}] : k \in Without(l, a)}

IsRoot(t, s) == t.leaves = Single(s).leaves

-----------------------------------------------------------------------------
(* The workspace model, one operator per method.                           *)

Model(h, l, a) == home' = h /\ layout' = l /\ active' = a

AddSurface(s, w, tree) ==
  /\ Model([home EXCEPT ![s] = w], [layout EXCEPT ![w] = tree], active)
  /\ UNCHANGED freshWorkspaces

CreateWorkspace(w, s) ==
  /\ Model([home EXCEPT ![s] = w],
           [v \in Open \cup {w} |-> IF v = w THEN Single(s) ELSE layout[v]], {w})
  /\ freshWorkspaces' = freshWorkspaces \ {w}

(* close_surface, for a surface that is not the only one of its workspace. *)
CloseSurface(s) ==
  \E t \in AfterClose(layout[home[s]], s) :
    /\ Model([home EXCEPT ![s] = "allocated"], [layout EXCEPT ![home[s]] = t], active)
    /\ blocked' = blocked \ {s}
    /\ UNCHANGED freshWorkspaces

(* close_surface_with_replacement, for the only surface of its workspace. *)
CloseWithReplacement(s, r) ==
  /\ Model([home EXCEPT ![s] = "allocated", ![r] = home[s]],
           [layout EXCEPT ![home[s]] = Single(r)], active)
  /\ blocked' = blocked \ {s}
  /\ UNCHANGED freshWorkspaces

(* The first workspace in sidebar order takes over; users reorder it. *)
ActiveAfterClose(w) ==
  IF w \in active /\ Open # {w} THEN {{v} : v \in Open \ {w}} ELSE {active \ {w}}

(* close_workspace, then select_workspace of prev if prev is still there. *)
CloseWorkspaceAndSelect(w, prev) ==
  /\ \E a \in ActiveAfterClose(w) :
       Model([s \in Surfaces |-> IF home[s] = w THEN "allocated" ELSE home[s]],
             [v \in Open \ {w} |-> layout[v]],
             IF prev \in Open \ {w} THEN {prev} ELSE a)
  /\ blocked' = blocked \ SurfacesOf(w)
  /\ UNCHANGED freshWorkspaces

(* rollback_added_surface: close the surface, then restore the captured    *)
(* tree if all its leaves still belong to the workspace.                   *)
RollbackAddedSurface(h) ==
  LET w == h.workspace
      homes == [home EXCEPT ![h.surface] = "allocated"]
      restorable ==
        /\ InTree(h.snapshot, h.snapshot.focus)
        /\ \A l \in h.snapshot.leaves : \A s \in l.tabs : homes[s] = w
  IN \E t \in IF restorable THEN {h.snapshot} ELSE AfterClose(layout[w], h.surface) :
       /\ Model(homes, [layout EXCEPT ![w] = t], active)
       /\ blocked' = blocked \ {h.surface}
       /\ UNCHANGED freshWorkspaces

(* The compensation of a creation, under one lock of the model.            *)
Compensate(h) ==
  IF h.kind = "surface" THEN RollbackAddedSurface(h)
                        ELSE CloseWorkspaceAndSelect(h.workspace, h.prevActive)

-----------------------------------------------------------------------------
(* The backend, as the transactions see it.                                *)

Enter(s, state) == runtime' = [runtime EXCEPT ![s] = state]

(* spawn fails when the surface has an entry, or for the backend's reasons. *)
SpawnAccepted(s) == runtime[s] = "none" /\ Enter(s, "queued")

(* A bug: a failed spawn leaves no red status. *)
Unrecorded(s) == UNCHANGED blocked

(* record_terminal_spawn_failure: the red status of s. *)
RecordSpawnFailure(s) == blocked' = blocked \cup {s}

SpawnRejected(s) == RecordSpawnFailure(s) /\ UNCHANGED runtime

(* Remove the entry of s: a Spawn of s that GTK has begun is now stale. *)
RemoveRuntime(s) ==
  /\ Enter(s, "none")
  /\ gtk' = IF gtk.surface = s THEN [gtk EXCEPT !.current = FALSE] ELSE gtk

(* Neither close nor forget_surface gets past the leases on s in time. *)
KeepRuntime(s) == runtime[s] # "none" /\ UNCHANGED <<runtime, gtk>>

-----------------------------------------------------------------------------
(* The surface-set guard.                                                  *)

(* The guard is with a transaction, or with the compensation of one. *)
GuardFree == txn = Idle /\ handler = NoHandler

Step(at) == txn' = [txn EXCEPT !.at = at]
Done == txn' = Idle
At(op, at) == txn.op = op /\ txn.at = at

-----------------------------------------------------------------------------
(* Creations: surface.split, surface.new_tab, workspace.create.            *)

BeginCreate(s, h) ==
  /\ GuardFree
  /\ handler' = h
  /\ txn' = [Idle EXCEPT !.op = "create", !.at = "spawn", !.surface = s]
  /\ UNCHANGED <<blocked, runtime, gtk>>

CreateSurface(s, source) ==
  LET w == home[source]
  IN /\ home[s] = "fresh"
     /\ source \in Modelled
     /\ BeginCreate(s, [kind |-> "surface", surface |-> s, workspace |-> w,
                        snapshot |-> layout[w]])
     /\ \E t \in {Split(layout[w], s), AddTab(layout[w], source, s)} : AddSurface(s, w, t)

CreateWorkspaceRequest(w, s) ==
  /\ home[s] = "fresh"
  /\ w \in freshWorkspaces
  /\ \E prev \in active :
       BeginCreate(s, [kind |-> "workspace", surface |-> s, workspace |-> w,
                       prevActive |-> prev])
  /\ CreateWorkspace(w, s)

(* spawn_surface_terminal_inner: the request's owner of the compensation   *)
(* is dropped when the backend has accepted the command, which owns the    *)
(* other, or when the rejection has been recorded.                         *)
CreateSpawn ==
  /\ At("create", "spawn")
  /\ \/ SpawnAccepted(txn.surface) /\ Done /\ UNCHANGED blocked
     \/ SpawnRejected(txn.surface) /\ Step("drop")
  /\ UNCHANGED <<modelVars, handler, gtk>>

(* The last owner is dropped: roll back, release the guard.                *)
CreateDrop ==
  /\ At("create", "drop")
  /\ Compensate(handler)
  /\ handler' = NoHandler
  /\ Done
  /\ UNCHANGED <<runtime, gtk>>

-----------------------------------------------------------------------------
(* surface.close.                                                          *)

(* close_surface_request: the only surface of a workspace is replaced. *)
CloseSurfaceRequest(s) ==
  LET root == IsRoot(layout[home[s]], s)
  IN /\ GuardFree
     /\ s \in Modelled
     /\ \E r \in IF root THEN FreshSurfaces ELSE {NoSurface} :
          /\ txn' = [Idle EXCEPT !.op = "closeSurface", !.surface = s, !.spare = r,
                                 !.at = IF root THEN "spawnSpare" ELSE "close"]
          /\ home' = [t \in Surfaces |-> IF t = r THEN "allocated" ELSE home[t]]
     /\ UNCHANGED <<layout, active, freshWorkspaces, blocked, runtime, handler, gtk>>

CloseSpawnSpare ==
  /\ At("closeSurface", "spawnSpare")
  /\ \/ SpawnAccepted(txn.spare) /\ Step("close") /\ UNCHANGED blocked
     \/ SpawnRejected(txn.spare) /\ Done
  /\ UNCHANGED <<modelVars, handler, gtk>>

(* A bug: any failure to close is taken for NotFound. *)
CloseTerminalIgnoringFailure ==
  /\ At("closeSurface", "close")
  /\ RemoveRuntime(txn.surface) \/ UNCHANGED <<runtime, gtk>>
  /\ Step("commit")
  /\ UNCHANGED <<modelVars, blocked, handler>>

(* A terminal that is gone already (NotFound) counts as closed. *)
CloseTerminal ==
  /\ At("closeSurface", "close")
  /\ \/ RemoveRuntime(txn.surface) /\ Step("commit")
     \/ /\ runtime[txn.surface] # "none"
        /\ txn' = IF txn.spare = NoSurface THEN Idle ELSE [txn EXCEPT !.at = "closeSpare"]
        /\ UNCHANGED <<runtime, gtk>>
  /\ UNCHANGED <<modelVars, blocked, handler>>

(* A bug: the request fails without cleaning up the replacement. *)
CloseSpareKept ==
  /\ At("closeSurface", "closeSpare")
  /\ Done
  /\ UNCHANGED <<modelVars, blocked, runtime, handler, gtk>>

(* close_replacement_terminal_surface_if_present: closed, forgotten, or    *)
(* neither; the request fails in any case.                                 *)
CloseSpare ==
  /\ At("closeSurface", "closeSpare")
  /\ \/ RemoveRuntime(txn.spare) /\ Done
     \/ KeepRuntime(txn.spare) /\ Step("spareKept")
  /\ UNCHANGED <<modelVars, blocked, handler>>

(* The guard goes, the replacement's runtime stays for Reconcile. *)
LeaveSpare ==
  /\ At("closeSurface", "spareKept")
  /\ Done
  /\ UNCHANGED <<modelVars, blocked, runtime, handler, gtk>>

CloseCommit ==
  /\ At("closeSurface", "commit")
  /\ IF txn.spare = NoSurface
     THEN CloseSurface(txn.surface) /\ Step("ensure")
     ELSE CloseWithReplacement(txn.surface, txn.spare) /\ Done
  /\ UNCHANGED <<runtime, handler, gtk>>

-----------------------------------------------------------------------------
(* workspace.close.                                                        *)

(* The last workspace is replaced by a new one, created before it goes. *)
CloseWorkspaceRequest(w) ==
  LET begun == [Idle EXCEPT !.op = "closeWorkspace", !.workspace = w,
                            !.todo = SurfacesOf(w)]
  IN /\ GuardFree
     /\ w \in Open
     /\ IF Open = {w}
        THEN \E v \in freshWorkspaces, s \in FreshSurfaces, prev \in active :
               /\ CreateWorkspace(v, s)
               /\ txn' = [begun EXCEPT !.at = "spawnSpare", !.spare = s,
                                       !.spareWorkspace = v, !.prevActive = prev]
        ELSE txn' = [begun EXCEPT !.at = "close"] /\ UNCHANGED modelVars
     /\ UNCHANGED <<blocked, runtime, handler, gtk>>

CloseWorkspaceSpawnSpare ==
  /\ At("closeWorkspace", "spawnSpare")
  /\ \/ SpawnAccepted(txn.spare) /\ Step("close") /\ UNCHANGED blocked
     \/ SpawnRejected(txn.spare) /\ Step("undo")
  /\ UNCHANGED <<modelVars, handler, gtk>>

(* close_terminal_surfaces_or_restore: on a failure, respawn those closed. *)
CloseNextTerminal ==
  /\ At("closeWorkspace", "close")
  /\ \E s \in txn.todo :
       \/ /\ RemoveRuntime(s)
          /\ txn' = [txn EXCEPT !.todo = @ \ {s},
                                !.closed = IF runtime[s] = "none" THEN @ ELSE @ \cup {s}]
       \/ /\ runtime[s] # "none"
          /\ Step("restore")
          /\ UNCHANGED <<runtime, gtk>>
  /\ UNCHANGED <<modelVars, blocked, handler>>

RestoreNextTerminal ==
  /\ At("closeWorkspace", "restore")
  /\ \E s \in txn.closed :
       /\ (SpawnAccepted(s) /\ UNCHANGED blocked) \/ SpawnRejected(s)
       /\ txn' = [txn EXCEPT !.closed = @ \ {s}]
  /\ UNCHANGED <<modelVars, handler, gtk>>

(* Nothing is left to restore: the replacement goes too, its terminal first. *)
CloseWorkspaceSpare ==
  /\ At("closeWorkspace", "restore")
  /\ txn.closed = {}
  /\ IF txn.spare = NoSurface
     THEN Done /\ UNCHANGED <<runtime, gtk>>
     ELSE \/ RemoveRuntime(txn.spare) /\ Step("undo")
          \/ KeepRuntime(txn.spare) /\ Step("spareKept")
  /\ UNCHANGED <<modelVars, blocked, handler>>

(* rollback_workspace_creation, whether the spare's terminal is gone or not. *)
CloseWorkspaceUndo ==
  /\ txn.op = "closeWorkspace" /\ txn.at \in {"undo", "spareKept"}
  /\ CloseWorkspaceAndSelect(txn.spareWorkspace, txn.prevActive)
  /\ Done
  /\ UNCHANGED <<runtime, handler, gtk>>

CloseWorkspaceCommit ==
  /\ At("closeWorkspace", "close")
  /\ txn.todo = {}
  /\ CloseWorkspaceAndSelect(txn.workspace, NoWorkspace)
  /\ IF txn.spare = NoSurface THEN Step("ensure") ELSE Done
  /\ UNCHANGED <<runtime, handler, gtk>>

-----------------------------------------------------------------------------
(* workspace.select, surface.focus, and the terminal both of them and the  *)
(* closes ensure: ensure_terminal_for_active_workspace.                    *)

SelectRequest(w) ==
  /\ GuardFree
  /\ w \in Open
  /\ active' = {w}
  /\ \E prev \in active :
       txn' = [Idle EXCEPT !.op = "select", !.at = "ensure", !.prevActive = prev]
  /\ UNCHANGED <<home, layout, freshWorkspaces, blocked, runtime, handler, gtk>>

FocusRequest(s) ==
  LET w == home[s]
  IN /\ GuardFree
     /\ s \in Modelled
     /\ Model(home, [layout EXCEPT ![w] = Focus(layout[w], s)], {w})
     /\ \E prev \in active :
          txn' = [Idle EXCEPT !.op = "focus", !.at = "ensure", !.prevActive = prev,
                              !.prevFocus = layout[w].focus]
     /\ UNCHANGED <<freshWorkspaces, blocked, runtime, handler, gtk>>

(* The focus is read under the model's lock, the runtime map after it. *)
EnsureTerminal ==
  /\ txn.at = "ensure"
  /\ \E w \in active :
       txn' = [txn EXCEPT !.at = "spawnFocused", !.spare = layout[w].focus]
  /\ UNCHANGED <<modelVars, blocked, runtime, handler, gtk>>

SpawnFocused ==
  /\ txn.at = "spawnFocused"
  /\ \/ runtime[txn.spare] # "none" /\ Done /\ UNCHANGED <<blocked, runtime>>
     \/ SpawnAccepted(txn.spare) /\ Done /\ UNCHANGED blocked
     \/ /\ runtime[txn.spare] = "none"
        /\ SpawnRejected(txn.spare)
        /\ IF txn.op \in {"select", "focus"} THEN Step("undo") ELSE Done
  /\ UNCHANGED <<modelVars, handler, gtk>>

(* The failed request restores the earlier selection and focus. *)
SelectUndo ==
  /\ txn.op \in {"select", "focus"} /\ txn.at = "undo"
  /\ active' = {txn.prevActive}
  /\ IF txn.op = "focus"
     THEN LET w == home[txn.prevFocus]
          IN layout' = [layout EXCEPT ![w] = Focus(layout[w], txn.prevFocus)]
     ELSE UNCHANGED layout
  /\ Done
  /\ UNCHANGED <<home, freshWorkspaces, blocked, runtime, handler, gtk>>

-----------------------------------------------------------------------------
(* Restarting a terminal: the same surface gets a new incarnation.         *)

Restart(s) ==
  /\ GuardFree
  /\ s \in Modelled
  /\ txn' = [Idle EXCEPT !.op = "restart", !.at = "close", !.surface = s]
  /\ UNCHANGED <<modelVars, blocked, runtime, handler, gtk>>

RestartClose ==
  /\ At("restart", "close")
  /\ \/ RemoveRuntime(txn.surface) /\ Step("commit") /\ UNCHANGED blocked
     \/ /\ runtime[txn.surface] # "none"
        /\ RecordSpawnFailure(txn.surface)
        /\ Done
        /\ UNCHANGED <<runtime, gtk>>
  /\ UNCHANGED <<modelVars, handler>>

RestartCommit ==
  /\ At("restart", "commit")
  /\ LET w == home[txn.surface]
     IN Model(home, [layout EXCEPT ![w] = Focus(layout[w], txn.surface)], active)
  /\ blocked' = blocked \ {txn.surface}
  /\ Step("respawn")
  /\ UNCHANGED <<freshWorkspaces, runtime, handler, gtk>>

RestartSpawn ==
  /\ At("restart", "respawn")
  /\ (SpawnAccepted(txn.surface) /\ UNCHANGED blocked) \/ SpawnRejected(txn.surface)
  /\ Done
  /\ UNCHANGED <<modelVars, handler, gtk>>

-----------------------------------------------------------------------------
(* The GTK thread: Spawn commands and reconciliation.                      *)

GtkAt(at) == gtk.at = at
GtkGoes(at) == gtk' = [gtk EXCEPT !.at = at]

(* A bug: the command is sent without its compensation. *)
Disowned == FALSE

(* The compensation the command in hand owns. *)
Owned == handler # NoHandler /\ handler.surface = gtk.surface

(* Stale commands, which do nothing, are left out. *)
GtkSpawn(s) ==
  /\ GtkAt("idle")
  /\ runtime[s] = "queued"
  /\ gtk' = [at |-> "building", surface |-> s, current |-> TRUE]
  /\ UNCHANGED <<modelVars, blocked, runtime, txn, handler>>

(* The pane is committed if its incarnation is still current; the command  *)
(* succeeds either way and disarms the compensation.                       *)
GtkBuilt ==
  /\ GtkAt("building")
  /\ IF gtk.current
     THEN Enter(gtk.surface, "live") /\ blocked' = blocked \ {gtk.surface}
     ELSE UNCHANGED <<runtime, blocked>>
  /\ handler' = IF Owned THEN NoHandler ELSE handler
  /\ gtk' = GtkIdle
  /\ UNCHANGED <<modelVars, txn>>

GtkBuildFails ==
  /\ GtkAt("building")
  /\ RecordSpawnFailure(gtk.surface)
  /\ GtkGoes("failed")
  /\ UNCHANGED <<modelVars, runtime, txn, handler>>

(* close_for_generation: only the incarnation that failed loses its entry. *)
GtkRemovesFailed ==
  /\ GtkAt("failed")
  /\ IF gtk.current THEN Enter(gtk.surface, "none") ELSE UNCHANGED runtime
  /\ IF Owned THEN GtkGoes("rollback") ELSE gtk' = GtkIdle
  /\ UNCHANGED <<modelVars, blocked, txn, handler>>

(* A bug: the compensation is disarmed although the build has failed. *)
DisarmOnFailure == UNCHANGED <<modelVars, blocked>>

RunCompensation == Compensate(handler)

GtkRollback ==
  /\ GtkAt("rollback")
  /\ RunCompensation
  /\ handler' = NoHandler
  /\ gtk' = GtkIdle
  /\ UNCHANGED <<runtime, txn>>

(* The runtimes of surfaces the model does not have. *)
Orphans == {s \in Surfaces \ Modelled : runtime[s] # "none"}

(* spawn_active_surfaces_if_needed: reap the orphans, as far as closing    *)
(* them succeeds, and spawn the active workspace's surfaces without a      *)
(* runtime.                                                                *)
Reconcile ==
  /\ GtkAt("idle")
  /\ GuardFree
  /\ LET missing == {s \in Surfaces \ blocked : home[s] \in active /\ runtime[s] = "none"}
     IN \E reaped \in SUBSET Orphans, rejected \in SUBSET missing :
          /\ reaped \cup missing # {}
          /\ runtime' = [s \in Surfaces |-> IF s \in reaped THEN "none"
                                           ELSE IF s \in missing \ rejected THEN "queued"
                                           ELSE runtime[s]]
          /\ blocked' = blocked \cup rejected
  /\ UNCHANGED <<modelVars, txn, handler, gtk>>

-----------------------------------------------------------------------------
(* What takes no guard.                                                    *)

(* surface.select_tab on a socket thread; clicks and focus changes in GTK. *)
SelectTab(s) ==
  /\ s \in Modelled
  /\ LET w == home[s]
     IN Model(home, [layout EXCEPT ![w] = Focus(layout[w], s)], active)
  /\ UNCHANGED <<freshWorkspaces, blocked, runtime, txn, handler, gtk>>

(* The ShowSurface command: focus_surface_and_select_workspace. *)
ShowSurface(s) ==
  /\ GtkAt("idle")
  /\ s \in Modelled
  /\ LET w == home[s]
     IN Model(home, [layout EXCEPT ![w] = Focus(layout[w], s)], {w})
  /\ UNCHANGED <<freshWorkspaces, blocked, runtime, txn, handler, gtk>>

MoveTab(a, b) ==
  /\ GtkAt("idle")
  /\ a \in Modelled /\ b \in Modelled /\ home[a] = home[b]
  /\ LET tree == layout[home[a]]
     IN /\ LeafOf(tree, a) # LeafOf(tree, b)
        /\ LeafOf(tree, a).tabs # {a}
        /\ \E t \in AfterMove(tree, a, b) :
             Model(home, [layout EXCEPT ![home[a]] = t], active)
  /\ UNCHANGED <<freshWorkspaces, blocked, runtime, txn, handler, gtk>>

(* metadata.clear_status names any key, the red status of s among them. *)
ClearStatus(s) ==
  /\ s \in blocked
  /\ blocked' = blocked \ {s}
  /\ UNCHANGED <<modelVars, runtime, txn, handler, gtk>>

-----------------------------------------------------------------------------
TxnStep ==
  \/ CreateSpawn \/ CreateDrop
  \/ CloseSpawnSpare \/ CloseTerminal \/ CloseSpare \/ LeaveSpare \/ CloseCommit
  \/ CloseWorkspaceSpawnSpare \/ CloseNextTerminal \/ RestoreNextTerminal
  \/ CloseWorkspaceSpare \/ CloseWorkspaceUndo \/ CloseWorkspaceCommit
  \/ EnsureTerminal \/ SpawnFocused \/ SelectUndo
  \/ RestartClose \/ RestartCommit \/ RestartSpawn

GtkStep ==
  \/ \E s \in Surfaces : GtkSpawn(s)
  \/ GtkBuilt \/ GtkBuildFails \/ GtkRemovesFailed \/ GtkRollback

Request ==
  \/ \E s, source \in Surfaces : CreateSurface(s, source)
  \/ \E w \in Workspaces, s \in Surfaces : CreateWorkspaceRequest(w, s)
  \/ \E s \in Surfaces : CloseSurfaceRequest(s) \/ FocusRequest(s) \/ Restart(s)
  \/ \E w \in Workspaces : CloseWorkspaceRequest(w) \/ SelectRequest(w)

Unguarded ==
  \/ \E s \in Surfaces : SelectTab(s) \/ ShowSurface(s) \/ ClearStatus(s)
  \/ \E a, b \in Surfaces : MoveTab(a, b)

Next == TxnStep \/ GtkStep \/ Reconcile \/ Request \/ Unguarded

Spec == Init /\ [][Next]_vars

(* A request thread runs on; the GTK main loop serves its queue, one       *)
(* command per frame and first come first served, and reconciles on a      *)
(* timer.  A close that is tried at every reconciliation succeeds some     *)
(* time: leases end.  Users do nothing they need not do.                   *)
Reap(s) == Reconcile /\ s \in Orphans /\ runtime'[s] = "none"

FairSpec ==
  /\ Spec
  /\ WF_vars(TxnStep) /\ WF_vars(GtkStep) /\ WF_vars(Reconcile)
  /\ \A s \in Surfaces : SF_vars(GtkSpawn(s)) /\ SF_vars(Reap(s))

-----------------------------------------------------------------------------
(* Properties.                                                             *)

(* The model's two structures agree: the leaves of an open workspace       *)
(* partition its surfaces, the active tab of a leaf is one of its tabs and *)
(* the focus is on one of the surfaces, whatever rolls back meanwhile.     *)
LayoutSound ==
  \A w \in Open :
    LET t == layout[w]
    IN /\ UNION {l.tabs : l \in t.leaves} = SurfacesOf(w)
       /\ \A l, m \in t.leaves : l # m => l.tabs \cap m.tabs = {}
       /\ \A l \in t.leaves : l.active \in l.tabs
       /\ InTree(t, t.focus)

(* Closing the last workspace, undoing that, and undoing a creation all    *)
(* leave exactly one workspace active, hence at least one open.            *)
OneActiveWorkspace == \E w \in Open : active = {w}

(* In the middle of a transaction, too, and after any series of them, the  *)
(* model is what all readers of it without the guard take it to be.        *)
ModelSound == TypeOK /\ LayoutSound /\ OneActiveWorkspace

(* A runtime of a surface the model does not have is the replacement a     *)
(* close at hand has spawned.  The close takes it along or cleans it up,   *)
(* and leaves it behind only when both attempts to remove it have failed;  *)
(* a surface the user had is never orphaned.                               *)
OrphansAreKeptSpares ==
  [][\A s \in Orphans' :
       \/ s \in Orphans \ {txn.spare}
       \/ s = txn'.spare
       \/ s = txn.spare /\ txn.at = "spareKept"]_vars

(* A surface leaves the model only after its process: a close that fails   *)
(* keeps both, and no order of steps leaves the process behind.  The one   *)
(* exception is the replacement of a workspace close that has failed, when *)
(* cleaning it up has failed as well.                                      *)
ProcessEndsFirst ==
  [][\A s \in Modelled \ Modelled' :
       \/ runtime[s] = "none"
       \/ s = txn.spare /\ txn.op = "closeWorkspace" /\ txn.at = "spareKept"]_vars

(* A creation is all or nothing: when its compensation lets go, the        *)
(* surface has a runtime, or it has left the model.                        *)
CreationSettles ==
  [][handler # NoHandler /\ handler' # handler =>
       handler.surface \in Modelled' <=> runtime'[handler.surface] # "none"]_vars

(* The guard is always released again, by the transaction or by the        *)
(* compensation GTK disarms or runs.                                       *)
GuardIsReleased == []<>GuardFree

(* When transactions cease and a workspace stays active, reconciliation    *)
(* gives each of its surfaces a live terminal or a red status, again and   *)
(* again if a client keeps clearing the status: it never spawns in vain    *)
(* for ever.  What a failed clean-up left behind is reaped for good.       *)
Quiet(s) == GuardFree /\ home[s] \in active
ReconciliationConverges ==
  \A s \in Surfaces :
    /\ <>[]Quiet(s) => []<>(runtime[s] = "live" \/ s \in blocked)
    /\ <>[]GuardFree => <>[](s \notin Orphans)
=============================================================================
