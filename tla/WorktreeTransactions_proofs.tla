---------------------- MODULE WorktreeTransactions_proofs ----------------------
(***************************************************************************)
(* Proofs about WorktreeTransactions, for any branches, workspaces and     *)
(* panes: its type invariant and all its safety properties, in three       *)
(* layers, each of which rests on the one before it.                       *)
(***************************************************************************)
EXTENDS WorktreeTransactions, TLAPS

-----------------------------------------------------------------------------
(* The first layer: types, guards, and what no other actor touches.        *)

StoresOK ==
  /\ branches \subseteq Branches \cup UserBranches /\ registered \subseteq Branches
  /\ dir \in [Branches -> Dir] /\ head \in [Branches -> Branches \cup UserBranches]
  /\ Open \subseteq Workspaces /\ active \in Open
  /\ tree \in [Open -> Branches \cup {NoBranch}]
  /\ panes \in [Open -> SUBSET Panes]
  /\ blocked \subseteq Surfaces /\ runtime \subseteq Surfaces

SavedOK ==
  /\ saved = [tree |-> saved.tree, active |-> saved.active]
  /\ DOMAIN saved.tree \subseteq Workspaces /\ saved.active \in DOMAIN saved.tree
  /\ saved.tree \in [DOMAIN saved.tree -> Branches \cup {NoBranch}]

LocksOK ==
  /\ readers \in BOOLEAN /\ poisoned \in BOOLEAN
  /\ surfaceSet \in {"free", "txn", "other"} /\ gates \in {"free", "txn", "hook"}

HasBranch == txn.at # "idle" => txn.b \in Branches

(* While the transaction changes workspaces and files, no other does.      *)
FilesystemAt == {"verify", "delete", "deleting", "unregister"}
GuardedAt == {"find", "inventory", "spawn", "unspawn", "undo", "wantGates", "begin",
              "spawnSpare", "close", "recover"} \cup FilesystemAt
Guarded ==
  /\ txn.w # NoWorkspace \/ txn.at \in GuardedAt \/ At("open", "prepare") => surfaceSet = "txn"
  /\ txn.w # NoWorkspace => txn.at # "idle"

OpenShown == txn.at = "inventory" => txn.w \in Open
SpareThere == txn.at = "spawnSpare" => txn.spare \in Workspaces

(* Only a panic poisons, and only its recovery comes next.                 *)
PoisonedInRecovery == poisoned => txn.at = "recover"

Control ==
  /\ txn \in Txn /\ LocksOK /\ HasBranch /\ Guarded /\ SpareThere /\ PoisonedInRecovery

Typed == StoresOK /\ SavedOK /\ Control /\ OpenShown /\ ProvisionalNotSaved

-----------------------------------------------------------------------------
(* The second layer: branches, merges, and who shows a worktree.           *)

(* A branch counts as created only if it was not there at the beginning,   *)
(* and the one to be deleted is it or one that a program checked out.      *)
BranchesKnown ==
  /\ txn.at \in {"git", "prune"} => txn.branchesBefore \subseteq branches
  /\ txn.branchCreated => txn.op = "open" /\ txn.b \notin txn.branchesBefore
  /\ txn.at \in {"git", "prune"} => txn.doomed = NoBranch
  /\ txn.doomed # NoBranch => txn.branchCreated /\ txn.doomed \in {txn.b} \cup UserBranches

(* A worktree has its own branch checked out, or one that a program chose. *)
HeadsKnown == \A b \in Branches : head[b] \in {b} \cup UserBranches

(* How far each step of a merge has brought the base checkout.             *)
FilesMoved == [Unmerged EXCEPT !.files = "new"]
MergeProgress ==
  /\ txn.at = "checkout" => txn.base = Unmerged
  /\ txn.at = "moveRef" => txn.base = FilesMoved
  /\ txn.at = "setHead" => txn.base = [FilesMoved EXCEPT !.ref = "new"]
  /\ txn.at = "restoreRef" => ~txn.base.pending /\ ~txn.base.broken
  /\ txn.at = "index" =>
       txn.base = Unmerged \/ txn.base = [FilesMoved EXCEPT !.pending = TRUE]
  /\ txn.at = "tidy" => txn.base.files = txn.base.ref
  /\ txn.at \in {"abort", "tidy"} => ~txn.base.broken

(* A worktree that was set up is there until a workspace shows it.         *)
OpenedIsThere == At("open", "wantSurfaces") \/ At("open", "find") => dir[txn.b] # "none"

SavedOnce ==
  \A v, w \in DOMAIN saved.tree :
    saved.tree[v] = saved.tree[w] /\ saved.tree[v] # NoBranch => v = w

Shown == BranchesKnown /\ HeadsKnown /\ MergeProgress /\ MergeSettles /\ OpenedIsThere /\ SavedOnce /\ ShownOnce

-----------------------------------------------------------------------------
(* The third layer: a removal of a worktree that a workspace shows.        *)

Removing == txn.op = "remove" /\ txn.w # NoWorkspace

(* A removal that has not looked for its workspace has done nothing, and   *)
(* one that found none works on the file system only.                      *)
Untouched ==
  /\ txn.op = "remove" /\ txn.at \in {"prepare", "wantSurfaces"} =>
       /\ txn.progress = "prepared" /\ txn.phase = "beforeFilesystemCommit"
       /\ ~txn.recovering /\ txn.spare = NoWorkspace /\ txn.w = NoWorkspace
  /\ txn.op = "remove" /\ txn.w = NoWorkspace =>
       txn.at \in {"prepare", "wantSurfaces"} \cup FilesystemAt

(* Which steps are those of a recovery.                                    *)
AtRecovery ==
  Removing =>
    /\ txn.at \in {"recover", "closeRest", "commitRest", "dropSpare"} => txn.recovering
    /\ txn.at \in {"wantGates", "begin", "spawnSpare", "close", "reopen", "abandon",
                   "rollback", "undoSpare", "commit"} => ~txn.recovering

(* Unless it is being destroyed, the workspace is open as it was found.    *)
TargetOpen ==
  Removing =>
    /\ txn.w \in txn.initial
    /\ txn.surfaces \subseteq {txn.w} \X Panes /\ txn.had \subseteq txn.surfaces
    /\ txn.at \notin {"recover", "closeRest", "commitRest", "ensure"}
         \/ ~Irreversible(txn.progress) =>
       txn.w \in Open /\ tree[txn.w] = txn.b /\ txn.surfaces = SurfacesOf(txn.w)

(* The phase, the progress and the step agree on what is destroyed.        *)
Destroyed ==
  Removing =>
    /\ txn.at \in {"commit", "closeRest", "commitRest", "ensure"} => Irreversible(txn.progress)
    /\ txn.phase \in {"filesystemCommitted", "modelCommitted"} => Irreversible(txn.progress)
    /\ txn.at \in {"wantGates", "begin", "spawnSpare", "close", "reopen", "abandon",
                   "rollback", "undoSpare", "restore", "dropSpare"} =>
         ~Irreversible(txn.progress)
    /\ txn.phase = "filesystemStarted" /\ ~txn.recovering => txn.at \in FilesystemAt
    /\ txn.at = "ensure" => txn.w \notin Open

(* The spare workspace is all that has been added.                         *)
OthersStayOpen ==
  Removing =>
    /\ txn.spare # NoWorkspace => txn.spare \notin txn.initial
    /\ txn.at \in {"wantGates", "begin"} => txn.spare = NoWorkspace
    /\ ~Irreversible(txn.progress) => txn.initial \subseteq Open
    /\ ~Irreversible(txn.progress) /\ ~txn.recovering =>
         Open = txn.initial \cup ({txn.spare} \ {NoWorkspace})
    /\ txn.at = "restore" => Open = txn.initial

(* A terminal that was there at the start is there, marked, or to be       *)
(* opened again by what follows.                                           *)
TerminalsKnown ==
  Removing =>
    /\ txn.at \in {"wantGates", "begin", "spawnSpare"} => txn.had \subseteq runtime
    /\ txn.at = "close" => txn.had \subseteq runtime \cup txn.done
    /\ txn.at \in {"reopen", "restore"} => txn.had \subseteq runtime \cup blocked \cup txn.todo
    /\ txn.at = "abandon" => txn.had \subseteq runtime \cup blocked
    /\ txn.at \in {"rollback", "undoSpare"} => txn.had \subseteq txn.todo

(* No terminal writes into a worktree that is being destroyed.             *)
Quiet == \A v \in Open : tree[v] = txn.b => SurfacesOf(v) \cap runtime = {}
TargetQuiet ==
  /\ txn.op = "remove" /\ txn.at \in FilesystemAt => Quiet
  /\ Removing =>
       /\ txn.at = "close" => SurfacesOf(txn.w) \cap runtime \subseteq txn.todo
       /\ txn.at = "recover" /\ txn.phase = "filesystemStarted" => Quiet
       /\ txn.at \in {"commit", "ensure"} /\ ~txn.recovering =>
            txn.surfaces \cap runtime = {}

TargetClean ==
  txn.op = "remove" /\ txn.at \in {"delete", "deleting"} => dir[txn.b] \in {"clean", "none"}

Removal == /\ Untouched /\ AtRecovery /\ TargetOpen /\ Destroyed /\ OthersStayOpen /\ TerminalsKnown
           /\ TargetQuiet /\ TargetClean
-----------------------------------------------------------------------------
(* Facts about the operators.                                              *)

LEMMA IdleTyped == Idle \in Txn
BY DEF Idle, Txn, Place, Base, Unmerged, Phase, Progress

(* Every update of it that an action makes keeps the record typed.         *)
LEMMA Updates ==
  ASSUME NEW t \in Txn, NEW a \in Place
  PROVE  /\ [t EXCEPT !.at = a] \in Txn
         /\ \A c \in BOOLEAN : [t EXCEPT !.at = a, !.branchCreated = c] \in Txn
         /\ \A c \in BOOLEAN : [t EXCEPT !.at = a, !.recovering = c] \in Txn
         /\ \A c \in BOOLEAN : [t EXCEPT !.at = a, !.created = c] \in Txn
         /\ \A S \in SUBSET Surfaces : [t EXCEPT !.at = a, !.todo = S] \in Txn
         /\ \A w \in Workspaces \cup {NoWorkspace} : [t EXCEPT !.at = a, !.spare = w] \in Txn
         /\ \A f \in Phase : [t EXCEPT !.at = a, !.phase = f] \in Txn
         /\ \A p \in Progress : [t EXCEPT !.at = a, !.progress = p] \in Txn
         /\ \A c \in Base : [t EXCEPT !.base = c, !.at = a] \in Txn
         /\ \A d \in Branches \cup UserBranches \cup {NoBranch} :
              [t EXCEPT !.at = a, !.doomed = d] \in Txn
         /\ \A w, v \in Workspaces \cup {NoWorkspace} :
              /\ [t EXCEPT !.at = a, !.w = w, !.prev = v] \in Txn
              /\ [t EXCEPT !.at = a, !.w = w, !.prev = v, !.spare = w] \in Txn
         /\ \A p \in Progress, f \in Phase, S \in SUBSET Surfaces :
              [[t EXCEPT !.progress = p] EXCEPT !.at = a, !.phase = f, !.todo = S] \in Txn
<1>0. [t EXCEPT !.at = a] \in Txn
  BY DEF Txn
<1>1. ASSUME NEW c \in BOOLEAN PROVE [t EXCEPT !.at = a, !.branchCreated = c] \in Txn
  BY DEF Txn
<1>2. ASSUME NEW c \in BOOLEAN PROVE [t EXCEPT !.at = a, !.recovering = c] \in Txn
  BY DEF Txn
<1>3. ASSUME NEW c \in BOOLEAN PROVE [t EXCEPT !.at = a, !.created = c] \in Txn
  BY DEF Txn
<1>4. ASSUME NEW S \in SUBSET Surfaces PROVE [t EXCEPT !.at = a, !.todo = S] \in Txn
  BY DEF Txn
<1>5. ASSUME NEW w \in Workspaces \cup {NoWorkspace} PROVE [t EXCEPT !.at = a, !.spare = w] \in Txn
  BY DEF Txn
<1>6. ASSUME NEW f \in Phase PROVE [t EXCEPT !.at = a, !.phase = f] \in Txn
  BY DEF Txn
<1>7. ASSUME NEW p \in Progress PROVE [t EXCEPT !.at = a, !.progress = p] \in Txn
  BY DEF Txn
<1>8. ASSUME NEW c \in Base PROVE [t EXCEPT !.base = c, !.at = a] \in Txn
  BY DEF Txn
<1>9. ASSUME NEW w \in Workspaces \cup {NoWorkspace}, NEW v \in Workspaces \cup {NoWorkspace}
      PROVE  [t EXCEPT !.at = a, !.w = w, !.prev = v] \in Txn
  BY DEF Txn
<1>10. ASSUME NEW w \in Workspaces \cup {NoWorkspace}, NEW v \in Workspaces \cup {NoWorkspace}
      PROVE  [t EXCEPT !.at = a, !.w = w, !.prev = v, !.spare = w] \in Txn
  BY DEF Txn
<1>11. ASSUME NEW p \in Progress, NEW f \in Phase, NEW S \in SUBSET Surfaces
      PROVE  [[t EXCEPT !.progress = p] EXCEPT !.at = a, !.phase = f, !.todo = S] \in Txn
  BY DEF Txn
<1>12. ASSUME NEW d \in Branches \cup UserBranches \cup {NoBranch}
      PROVE  [t EXCEPT !.at = a, !.doomed = d] \in Txn
  BY DEF Txn
<1> QED
  BY <1>0, <1>1, <1>2, <1>3, <1>4, <1>5, <1>6, <1>7, <1>8, <1>9, <1>10, <1>11, <1>12

LEMMA TodoUpdates ==
  ASSUME NEW t \in Txn, NEW S \in SUBSET Surfaces, NEW D \in SUBSET Surfaces
  PROVE  [t EXCEPT !.todo = S] \in Txn /\ [t EXCEPT !.todo = S, !.done = D] \in Txn
<1>1. [t EXCEPT !.todo = S] \in Txn
  BY DEF Txn
<1>2. [t EXCEPT !.todo = S, !.done = D] \in Txn
  BY DEF Txn
<1> QED
  BY <1>1, <1>2

LEMMA IdleFields ==
  /\ Idle.op = "none" /\ Idle.at = "idle" /\ Idle.b = NoBranch
  /\ Idle.w = NoWorkspace /\ Idle.spare = NoWorkspace /\ Idle.branchCreated = FALSE
  /\ Idle.doomed = NoBranch
BY DEF Idle

(* What follows the work on the file system.                               *)
GoesOn(p, a, f) ==
  /\ txn.w # NoWorkspace /\ txn.op # "open" /\ UNCHANGED locks
  /\ txn' = [[txn EXCEPT !.progress = p] EXCEPT !.at = a, !.phase = f, !.todo = txn.surfaces]

LEMMA AfterFilesystemDoes ==
  ASSUME txn \in Txn, NEW ok, NEW p \in Progress, AfterFilesystem(ok, p)
  PROVE  \/ Finish /\ (txn.w = NoWorkspace \/ txn.op = "open")
         \/ /\ txn.recovering
            /\ IF ok \/ Irreversible(p) THEN GoesOn(p, "closeRest", txn.phase)
                                        ELSE GoesOn(p, "dropSpare", txn.phase)
         \/ /\ ~txn.recovering
            /\ IF ok \/ Irreversible(p) THEN GoesOn(p, "commit", "filesystemCommitted")
                                        ELSE GoesOn(p, "rollback", "rollbackStarted")
<1>1. txn.recovering \in BOOLEAN /\ txn.phase \in Phase /\ [txn EXCEPT !.progress = p].phase = txn.phase
  BY DEF Txn
<1>2. CASE txn.w = NoWorkspace \/ txn.op = "open"
  BY <1>2 DEF AfterFilesystem
<1>3. CASE ~(txn.w = NoWorkspace \/ txn.op = "open")
  <2>1. CASE txn.recovering /\ (ok \/ Irreversible(p))
    BY <1>1, <1>3, <2>1 DEF AfterFilesystem, GoesOn
  <2>2. CASE txn.recovering /\ ~(ok \/ Irreversible(p))
    BY <1>1, <1>3, <2>2 DEF AfterFilesystem, GoesOn
  <2>3. CASE ~txn.recovering /\ (ok \/ Irreversible(p))
    BY <1>1, <1>3, <2>3 DEF AfterFilesystem, GoesOn
  <2>4. CASE ~txn.recovering /\ ~(ok \/ Irreversible(p))
    BY <1>1, <1>3, <2>4 DEF AfterFilesystem, GoesOn
  <2> QED
    BY <1>1, <2>1, <2>2, <2>3, <2>4
<1> QED
  BY <1>2, <1>3

LEMMA SurfacesOfTyped ==
  ASSUME StoresOK, NEW w \in Open
  PROVE  SurfacesOf(w) \subseteq Surfaces
<1>1. panes[w] \subseteq Panes /\ w \in Workspaces
  BY DEF StoresOK
<1> QED
  BY <1>1 DEF SurfacesOf, Surfaces

LEMMA OpenWorkspaceDoes ==
  ASSUME StoresOK, NEW w \in Workspaces, NEW b \in Branches \cup {NoBranch},
         OpenWorkspace(w, b), UNCHANGED <<branches, registered, dir, head, runtime>>
  PROVE  StoresOK' /\ Open' = Open \cup {w}
<1>1. Open' = Open \cup {w}
  BY DEF OpenWorkspace, Open
<1>2. tree' \in [Open' -> Branches \cup {NoBranch}]
  BY <1>1 DEF OpenWorkspace, StoresOK
<1>3. panes' \in [Open' -> SUBSET Panes]
  BY <1>1, WorktreeAssumption DEF OpenWorkspace, StoresOK
<1> QED
  BY <1>1, <1>2, <1>3 DEF OpenWorkspace, StoresOK, Surfaces

(* Closing workspaces takes them and nothing else.                         *)
LEMMA CloseWorkspacesDoes ==
  ASSUME StoresOK, NEW gone, NEW prev, CloseWorkspaces(gone, prev)
  PROVE  /\ Open' = Open \ gone /\ active' \in Open'
         /\ tree' \in [Open' -> Branches \cup {NoBranch}]
         /\ panes' \in [Open' -> SUBSET Panes]
         /\ blocked' = blocked \ (gone \X Panes)
         /\ \A v \in Open' : tree'[v] = tree[v] /\ panes'[v] = panes[v]
<1>1. Open' = Open \ gone
  BY DEF CloseWorkspaces, Open
<1>2. \A v \in Open' : tree'[v] = tree[v] /\ panes'[v] = panes[v]
  BY <1>1 DEF CloseWorkspaces
<1>3. tree' \in [Open' -> Branches \cup {NoBranch}]
  BY <1>1 DEF CloseWorkspaces, StoresOK
<1>4. panes' \in [Open' -> SUBSET Panes]
  BY <1>1 DEF CloseWorkspaces, StoresOK
<1> QED
  BY <1>1, <1>2, <1>3, <1>4 DEF CloseWorkspaces, StoresOK

LEMMA CloseWorkspacesTyped ==
  ASSUME StoresOK, NEW gone, NEW prev, CloseWorkspaces(gone, prev),
         UNCHANGED <<branches, registered, dir, head>>, runtime' \subseteq Surfaces
  PROVE  StoresOK'
<1> QED
  BY CloseWorkspacesDoes DEF StoresOK, Surfaces

LEMMA SpawnTerminalDoes ==
  ASSUME NEW s \in Surfaces, SpawnTerminal(s), runtime \subseteq Surfaces, blocked \subseteq Surfaces
  PROVE  /\ runtime' \subseteq Surfaces /\ blocked' \subseteq Surfaces
         /\ runtime \subseteq runtime' /\ runtime' \subseteq runtime \cup {s}
         /\ blocked \subseteq blocked' /\ s \in runtime' \cup blocked'
BY DEF SpawnTerminal, Surfaces

-----------------------------------------------------------------------------
(* The first layer.                                                        *)

LEMMA TypedInit == Init => Typed
<1> SUFFICES ASSUME Init PROVE Typed
  OBVIOUS
<1> USE IdleTyped, IdleFields, WorktreeAssumption
<1>1. PICK w \in Workspaces :
        /\ tree = [v \in {w} |-> NoBranch] /\ panes = [v \in {w} |-> {FirstPane}]
        /\ active = w /\ runtime = {<<w, FirstPane>>}
  BY DEF Init
<1>2. Open = {w}
  BY <1>1 DEF Open
<1>3. tree \in [Open -> Branches \cup {NoBranch}] /\ panes \in [Open -> SUBSET Panes]
  BY <1>1, <1>2
<1>4. dir \in [Branches -> Dir]
  BY DEF Init, Dir
<1>5. runtime \subseteq Surfaces
  BY <1>1 DEF Surfaces
<1>6. StoresOK
  BY <1>1, <1>2, <1>3, <1>4, <1>5 DEF Init, StoresOK
<1>7. SavedOK
  BY <1>1 DEF Init, SavedOK, Snapshot
<1>8. Control
  BY DEF Init, Control, LocksOK, HasBranch, Guarded, SpareThere, PoisonedInRecovery,
     GuardedAt, FilesystemAt, At
<1>9. OpenShown /\ ProvisionalNotSaved
  BY DEF Init, OpenShown, ProvisionalNotSaved
<1> QED
  BY <1>6, <1>7, <1>8, <1>9 DEF Typed

(* Whatever an action does, the stores stay typed.                         *)
LEMMA StoresNext == Typed /\ [Next]_vars => StoresOK'
<1> SUFFICES ASSUME Typed, [Next]_vars PROVE StoresOK'
  OBVIOUS
<1> USE WorktreeAssumption DEF Typed
<1>a. ASSUME UNCHANGED <<tree, panes, active>>, UNCHANGED <<branches, registered, dir, head>>,
             blocked' \subseteq Surfaces, runtime' \subseteq Surfaces
      PROVE  StoresOK'
  BY <1>a DEF StoresOK, Open
<1>b. ASSUME UNCHANGED model, UNCHANGED runtime, registered' \subseteq Branches,
             branches' \subseteq Branches \cup UserBranches, dir' \in [Branches -> Dir],
             head' \in [Branches -> Branches \cup UserBranches]
      PROVE  StoresOK'
  BY <1>b DEF StoresOK, Open, model
<1>c. ASSUME UNCHANGED model, UNCHANGED git, runtime' \subseteq Surfaces
      PROVE  StoresOK'
  BY <1>c DEF StoresOK, Open, model, git
<1>d. blocked \subseteq Surfaces /\ runtime \subseteq Surfaces
  BY DEF StoresOK
<1>e. /\ txn.at # "idle" => txn.b \in Branches
      /\ txn.w \in Workspaces \cup {NoWorkspace} /\ txn.spare \in Workspaces \cup {NoWorkspace}
      /\ txn.todo \subseteq Surfaces /\ txn.prev \in Workspaces \cup {NoWorkspace}
  BY DEF Control, HasBranch, Txn
<1>f. ASSUME NEW b \in Branches, NEW d \in Dir PROVE [dir EXCEPT ![b] = d] \in [Branches -> Dir]
  BY <1>f DEF StoresOK
<1>g. /\ branches \subseteq Branches \cup UserBranches /\ registered \subseteq Branches
      /\ dir \in [Branches -> Dir] /\ head \in [Branches -> Branches \cup UserBranches]
  BY DEF StoresOK
<1>0. CASE UNCHANGED vars
  BY <1>0, <1>c, <1>d DEF vars
<1>1. CASE GitOpens
  BY <1>1, <1>b, <1>e, <1>f, <1>g DEF GitOpens, At, SetUp, git, Dir
<1>2. CASE PruneStale
  BY <1>2, <1>b, <1>e, <1>f, <1>g DEF PruneStale, At, Dir
<1>3. CASE GitAdds
  BY <1>3, <1>b, <1>e, <1>f, <1>g DEF GitAdds, At, SetUp, DropCreatedBranch, Dir
<1>4. CASE LockToOpen
  BY <1>4, <1>c, <1>d DEF LockToOpen
<1>5. CASE FindOrCreate
  <2>1. CASE \E w \in Showing(txn.b) : SelectWorkspace(w)
    BY <1>5, <2>1 DEF FindOrCreate, Showing, SelectWorkspace, StoresOK, Open, git
  <2>2. CASE \E w \in Fresh : OpenWorkspace(w, txn.b)
    BY <1>5, <1>e, <2>2, OpenWorkspaceDoes DEF FindOrCreate, At, Fresh, git
  <2>3. CASE UNCHANGED model
    BY <1>5, <1>c, <1>d, <2>3 DEF FindOrCreate
  <2> QED
    BY <1>5, <2>1, <2>2, <2>3 DEF FindOrCreate
<1>6. CASE Inventory
  BY <1>6, <1>c, <1>d DEF Inventory
<1>7. CASE SpawnNext
  <2>1. blocked' \subseteq Surfaces /\ runtime' \subseteq Surfaces
    BY <1>7, <1>d, <1>e, SpawnTerminalDoes DEF SpawnNext
  <2> QED
    BY <1>7, <1>a, <2>1 DEF SpawnNext, git
<1>8. CASE Unspawn
  BY <1>8, <1>c, <1>d DEF Unspawn
<1>9. CASE UndoOpen
  <2>1. CASE SelectWorkspace(txn.prev)
    BY <1>9, <2>1 DEF UndoOpen, SelectWorkspace, StoresOK, Open, git
  <2>2. CASE CloseWorkspaces({txn.spare}, txn.prev)
    BY <1>9, <1>d, <2>2, CloseWorkspacesTyped DEF UndoOpen, git
  <2> QED
    BY <1>9, <2>1, <2>2 DEF UndoOpen
<1>10. CASE Prepare
  BY <1>10, <1>b, <1>e, <1>f, <1>g DEF Prepare, Dir
<1>11. CASE Verify
  BY <1>11, <1>c, <1>d DEF Verify
<1>12. CASE StartDelete
  BY <1>12, <1>c, <1>d DEF StartDelete
<1>13. CASE Delete
  BY <1>13, <1>b, <1>e, <1>f, <1>g DEF Delete, Dir
<1>14. CASE Unregister
  BY <1>14, <1>b, <1>e, <1>f, <1>g DEF Unregister, Prune, BranchAfterRemoval, git
<1>15. CASE LockToRemove
  BY <1>15, <1>c, <1>d DEF LockToRemove
<1>16. CASE LockGates
  BY <1>16, <1>c, <1>d DEF LockGates
<1>17. CASE BeginRemoval
  <2>1. CASE UNCHANGED model
    BY <1>17, <1>c, <1>d, <2>1 DEF BeginRemoval
  <2>2. CASE \E w \in Fresh : OpenWorkspace(w, NoBranch)
    BY <1>17, <2>2, OpenWorkspaceDoes DEF BeginRemoval, Fresh, git
  <2> QED
    BY <1>17, <2>1, <2>2 DEF BeginRemoval
<1>18. CASE SpawnSpare
  <2>1. CASE UNCHANGED model
    <3>1. <<txn.spare, FirstPane>> \in Surfaces
      BY <1>18 DEF SpawnSpare, At, Control, SpareThere, Surfaces
    <3> QED
      BY <1>18, <1>c, <1>d, <2>1, <3>1 DEF SpawnSpare
  <2>2. CASE CloseWorkspaces({txn.spare}, txn.prev) /\ UNCHANGED runtime
    BY <1>18, <1>d, <2>2, CloseWorkspacesTyped DEF SpawnSpare, git
  <2> QED
    BY <1>18, <2>1, <2>2 DEF SpawnSpare
<1>19. CASE CloseNext
  BY <1>19, <1>c, <1>d DEF CloseNext
<1>20. ASSUME NEW at, NEW next, At("remove", at),
              \/ UNCHANGED <<blocked, runtime>>
              \/ \E s \in txn.todo : RestoreTerminal(s),
              UNCHANGED <<git, tree, panes, active, saved>>
       PROVE  StoresOK'
  <2>1. blocked' \subseteq Surfaces /\ runtime' \subseteq Surfaces
    BY <1>20, <1>d, <1>e, SpawnTerminalDoes DEF RestoreTerminal
  <2> QED
    BY <1>20, <1>a, <2>1 DEF git
<1>21. CASE Reopen
  BY <1>20, <1>21 DEF Reopen, RestoreNext
<1>22. CASE Restore
  BY <1>20, <1>22 DEF Restore, RestoreNext
<1>23. ASSUME DropSpareWorkspace, UNCHANGED git PROVE StoresOK'
  BY <1>23, <1>d, CloseWorkspacesTyped DEF DropSpareWorkspace, git
<1>24. CASE Abandon
  BY <1>23, <1>24 DEF Abandon
<1>25. CASE Rollback
  BY <1>25, <1>c, <1>d DEF Rollback
<1>26. CASE UndoSpare
  BY <1>23, <1>26 DEF UndoSpare
<1>27. CASE Commit
  BY <1>27, <1>d, CloseWorkspacesTyped DEF Commit, git
<1>28. CASE Ensure
  <2>1. SurfacesOf(active) \subseteq Surfaces
    BY SurfacesOfTyped DEF StoresOK
  <2> QED
    BY <1>28, <1>c, <1>d, <2>1 DEF Ensure
<1>29. CASE Recover
  BY <1>29, <1>c, <1>d DEF Recover
<1>30. CASE CloseRest
  BY <1>30, <1>c, <1>d DEF CloseRest
<1>31. CASE CommitRest
  BY <1>31, <1>c, <1>d, CloseWorkspacesTyped DEF CommitRest, git
<1>32. CASE DropSpare
  BY <1>32, <1>d, CloseWorkspacesTyped DEF DropSpare, git
<1>33. CASE MergeStep
  BY <1>33, <1>c, <1>d DEF MergeStep, MergeChecks, FastForward, RestoreFastForward, MergeNormally,
     MergeCleansUp, MergeEnds
<1>34. CASE Panic
  BY <1>34, <1>c, <1>d DEF Panic
<1>35. CASE Request
  BY <1>35, <1>c, <1>d DEF Request, Begin
<1>36. ASSUME NEW w \in Open, TerminalWrites(w) PROVE StoresOK'
  <2>1. tree[w] \in Branches
    BY <1>36 DEF TerminalWrites, StoresOK
  <2> QED
    BY <1>36, <1>b, <1>f, <1>g, <2>1 DEF TerminalWrites, Dir
<1>37. ASSUME NEW b \in Branches, OthersChange(b) PROVE StoresOK'
  BY <1>37, <1>b, <1>f, <1>g DEF OthersChange, Dir
<1>43. ASSUME NEW b \in Branches, SwitchBranch(b) PROVE StoresOK'
  BY <1>43, <1>b, <1>g DEF SwitchBranch
<1>38. CASE Read \/ Hook \/ OtherBegins \/ Autosave
  BY <1>38, <1>c, <1>d DEF Read, Hook, OtherBegins, Autosave
<1>39. CASE OtherEnds
  <2>1. CASE UNCHANGED <<model, runtime>>
    BY <1>39, <1>c, <1>d, <2>1 DEF OtherEnds
  <2>2. ASSUME NEW w \in Open, CloseWorkspaces({w}, NoWorkspace), runtime' = runtime \ SurfacesOf(w)
        PROVE  StoresOK'
    BY <1>39, <1>d, <2>2, CloseWorkspacesTyped DEF OtherEnds, git
  <2>3. ASSUME NEW w \in Open, NEW p \in Panes,
               panes' = [panes EXCEPT ![w] = @ \cup {p}], runtime' = runtime \cup {<<w, p>>},
               UNCHANGED <<tree, active, blocked>>
        PROVE  StoresOK'
    <3>1. panes' \in [Open -> SUBSET Panes]
      BY <2>3 DEF StoresOK
    <3>2. runtime' \subseteq Surfaces
      BY <2>3 DEF StoresOK, Surfaces
    <3> QED
      BY <1>39, <2>3, <3>1, <3>2 DEF OtherEnds, StoresOK, Open, git
  <2> QED
    BY <1>39, <2>1, <2>2, <2>3 DEF OtherEnds
<1>40. CASE Reconcile
  <2>1. SurfacesOf(active) \subseteq Surfaces
    BY SurfacesOfTyped DEF StoresOK
  <2>2. blocked' \subseteq Surfaces /\ runtime' \subseteq Surfaces
    BY <1>40, <1>d, <2>1 DEF Reconcile
  <2> QED
    BY <1>40, <1>a, <2>2 DEF Reconcile, git
<1>41. CASE ShowWorkspace
  BY <1>41 DEF ShowWorkspace, SelectWorkspace, StoresOK, Open, git
<1>42. CASE Restart
  <2>1. PICK P \in SUBSET Panes :
          panes' = [w \in DOMAIN tree' |-> IF tree'[w] = NoBranch THEN {FirstPane} ELSE P]
    BY <1>42 DEF Restart
  <2>2. Open' = DOMAIN saved.tree /\ tree' \in [Open' -> Branches \cup {NoBranch}]
    BY <1>42 DEF Restart, RestoredTree, SavedOK, Open
  <2>3. panes' \in [Open' -> SUBSET Panes]
    BY <2>1 DEF Open
  <2> QED
    BY <1>42, <1>g, <2>2, <2>3 DEF Restart, SavedOK, StoresOK, git
<1> QED
  BY <1>0, <1>1, <1>2, <1>3, <1>4, <1>5, <1>6, <1>7, <1>8, <1>9, <1>10, <1>11, <1>12, <1>13,
     <1>14, <1>15, <1>16, <1>17, <1>18, <1>19, <1>21, <1>22, <1>24, <1>25, <1>26, <1>27,
     <1>28, <1>29, <1>30, <1>31, <1>32, <1>33, <1>34, <1>35, <1>36, <1>37, <1>38, <1>39,
     <1>40, <1>41, <1>42, <1>43
  DEF Next, TxnStep, OpenStep, FilesystemStep, RemoveStep, Others

(* So does the transaction's record.                                       *)
LEMMA TxnNext == Typed /\ [Next]_vars => txn' \in Txn
<1> SUFFICES ASSUME Typed, [Next]_vars PROVE txn' \in Txn
  OBVIOUS
<1> USE WorktreeAssumption
<1>t. txn \in Txn
  BY DEF Typed, Control
<1>v. /\ txn.todo \in SUBSET Surfaces /\ txn.done \in SUBSET Surfaces
      /\ txn.surfaces \in SUBSET Surfaces
      /\ txn.progress \in Progress /\ txn.phase \in Phase /\ txn.base \in Base
      /\ txn.base.ref \in {"old", "new"}
  BY <1>t DEF Txn, Base
<1>o. Open \subseteq Workspaces /\ runtime \subseteq Surfaces
      /\ branches \in SUBSET (Branches \cup UserBranches)
      /\ active \in Workspaces
  BY DEF Typed, StoresOK
<1>u. ASSUME NEW a \in Place PROVE [txn EXCEPT !.at = a] \in Txn
  BY <1>t, <1>u, Updates
<1>f. Finish => txn' \in Txn
  BY IdleTyped DEF Finish
<1>d. ASSUME NEW s PROVE txn.todo \ {s} \in SUBSET Surfaces
  BY <1>v
<1>0. CASE UNCHANGED vars
  BY <1>0, <1>t DEF vars
<1>1. CASE GitOpens
  <2>1. ASSUME NEW c \in BOOLEAN PROVE [txn EXCEPT !.at = "add", !.branchCreated = c] \in Txn
    BY <1>t, Updates DEF Place
  <2> QED
    BY <1>1, <1>u, <1>f, <2>1 DEF GitOpens, Step, Place
<1>2. CASE PruneStale
  BY <1>2, <1>u, <1>f DEF PruneStale, Step, Place
<1>3. CASE GitAdds
  <2>1. [txn EXCEPT !.at = "wantSurfaces", !.created = TRUE] \in Txn
    BY <1>t, Updates DEF Place
  <2> QED
    BY <1>3, <1>f, <2>1 DEF GitAdds
<1>4. CASE LockToOpen
  BY <1>4, <1>u DEF LockToOpen, Step, Place
<1>5. CASE FindOrCreate
  <2>1. ASSUME NEW w \in Workspaces
        PROVE  /\ [txn EXCEPT !.at = "inventory", !.w = w, !.prev = active] \in Txn
               /\ [txn EXCEPT !.at = "inventory", !.w = w, !.prev = active, !.spare = w] \in Txn
    BY ZenonT(40), <1>t, <1>o, Updates DEF Place
  <2> QED
    BY ZenonT(40), <1>5, <1>f, <1>o, <2>1 DEF FindOrCreate, Showing, Fresh
<1>6. CASE Inventory
  <2>1. CASE txn' = [txn EXCEPT !.at = "spawn", !.todo = SurfacesOf(txn.w) \ runtime]
    <3>1. SurfacesOf(txn.w) \ runtime \in SUBSET Surfaces
      BY <1>6, SurfacesOfTyped DEF Inventory, At, Typed, OpenShown
    <3> QED
      BY <1>t, <2>1, <3>1, Updates DEF Place
  <2> QED
    BY <1>6, <1>u, <2>1 DEF Inventory, Step, Place
<1>7. CASE SpawnNext
  <2>1. ASSUME NEW s \in txn.todo
        PROVE  [txn EXCEPT !.todo = @ \ {s}, !.done = @ \cup {s}] \in Txn
    BY <1>t, <1>v, <1>d, TodoUpdates
  <2>2. [txn EXCEPT !.at = "unspawn", !.todo = txn.done] \in Txn
    BY <1>t, <1>v, Updates DEF Place
  <2> QED
    BY <1>7, <1>f, <2>1, <2>2 DEF SpawnNext
<1>e. ASSUME NEW s \in txn.todo PROVE [txn EXCEPT !.todo = @ \ {s}] \in Txn
  BY <1>t, <1>v, <1>d, TodoUpdates
<1>8. CASE Unspawn
  BY <1>8, <1>u, <1>e DEF Unspawn, Step, Place
<1>9. CASE UndoOpen
  <2>1. [txn EXCEPT !.at = "prepare", !.spare = NoWorkspace] \in Txn
    BY <1>t, Updates DEF Place
  <2> QED
    BY <1>9, <1>f, <2>1 DEF UndoOpen
<1>10. CASE Prepare
  <2>1. Doomed(txn) \in Branches \cup UserBranches \cup {NoBranch}
    BY <1>10 DEF Prepare, Doomed, Typed, StoresOK, Control, HasBranch
  <2>2. ASSUME NEW a \in Place PROVE [txn EXCEPT !.at = a, !.doomed = Doomed(txn)] \in Txn
    BY <1>t, <2>1, Updates
  <2> QED
    BY <1>10, <1>f, <2>2 DEF Prepare, Place
<1>a. ASSUME NEW ok, NEW p \in Progress, AfterFilesystem(ok, p) PROVE txn' \in Txn
  <2>1. ASSUME NEW a \in Place, NEW f \in Phase, GoesOn(p, a, f) PROVE txn' \in Txn
    BY <1>t, <1>v, <2>1, Updates DEF GoesOn
  <2> QED
    BY <1>a, <1>f, <1>t, <1>v, <2>1, AfterFilesystemDoes DEF Place, Phase
<1>p. "registrationRemoved" \in Progress
  BY DEF Progress
<1>11. CASE Verify
  BY <1>11, <1>a, <1>p, <1>u, <1>v DEF Verify, Step, Place
<1>w. ASSUME NEW a \in Place, NEW p \in Progress PROVE [txn EXCEPT !.at = a, !.progress = p] \in Txn
  BY <1>t, Updates
<1>12. CASE StartDelete
  BY <1>12, <1>w DEF StartDelete, Progress, Place
<1>13. CASE Delete
  <2>1. CASE txn' = [txn EXCEPT !.at = "unregister", !.progress = "targetRemoved"]
    BY <1>w, <2>1 DEF Progress, Place
  <2> QED
    BY <1>13, <1>a, <1>v, <2>1 DEF Delete
<1>14. CASE Unregister
  BY <1>14, <1>a, <1>p, <1>v DEF Unregister
<1>15. CASE LockToRemove
  <2>1. ASSUME NEW w \in Open,
               txn' = [txn EXCEPT !.at = "wantGates", !.w = w, !.prev = active,
                                  !.surfaces = SurfacesOf(w), !.initial = Open,
                                  !.had = SurfacesOf(w) \cap runtime,
                                  !.existed = dir[txn.b] # "none"]
        PROVE  txn' \in Txn
    <3>1. SurfacesOf(w) \in SUBSET Surfaces /\ SurfacesOf(w) \cap runtime \in SUBSET Surfaces
      BY SurfacesOfTyped DEF Typed
    <3>2. w \in Workspaces /\ Open \in SUBSET Workspaces /\ (dir[txn.b] # "none") \in BOOLEAN
      BY <1>o
    <3>3. ASSUME NEW S \in SUBSET Surfaces, NEW H \in SUBSET Surfaces, NEW O \in SUBSET Workspaces,
                 NEW x \in BOOLEAN
          PROVE  [txn EXCEPT !.at = "wantGates", !.w = w, !.prev = active, !.surfaces = S,
                             !.initial = O, !.had = H, !.existed = x] \in Txn
      BY <1>t, <1>o, <3>2 DEF Txn, Place
    <3> QED
      BY <2>1, <3>1, <3>2, <3>3
  <2> QED
    BY <1>15, <1>u, <2>1 DEF LockToRemove, Step, Place
<1>16. CASE LockGates
  BY <1>16, <1>u DEF LockGates, Step, Place
<1>x. ASSUME NEW a \in Place PROVE [txn EXCEPT !.at = a, !.todo = txn.surfaces] \in Txn
  BY <1>t, <1>v, Updates
<1>17. CASE BeginRemoval
  <2>1. ASSUME NEW w \in Fresh PROVE [txn EXCEPT !.at = "spawnSpare", !.spare = w] \in Txn
    BY <1>t, Updates DEF Fresh, Place
  <2> QED
    BY <1>17, <1>f, <1>x, <2>1 DEF BeginRemoval, Place
<1>18. CASE SpawnSpare
  BY <1>18, <1>f, <1>x DEF SpawnSpare, Place
<1>19. CASE CloseNext
  <2>1. [txn EXCEPT !.at = "verify", !.phase = "filesystemStarted"] \in Txn
    BY <1>t, Updates DEF Place, Phase
  <2>2. ASSUME NEW s \in txn.todo
        PROVE  [txn EXCEPT !.todo = @ \ {s},
                           !.done = IF s \in runtime THEN @ \cup {s} ELSE @] \in Txn
    <3>1. (IF s \in runtime THEN txn.done \cup {s} ELSE txn.done) \in SUBSET Surfaces
      BY <1>v
    <3> QED
      BY <1>t, <1>d, <3>1, TodoUpdates
  <2>3. [txn EXCEPT !.at = "reopen", !.todo = txn.done] \in Txn
    BY <1>t, <1>v, Updates DEF Place
  <2> QED
    BY <1>19, <2>1, <2>2, <2>3 DEF CloseNext
<1>21. CASE Reopen
  BY <1>21, <1>e, <1>f, <1>u DEF Reopen, RestoreNext, Step, Place
<1>22. CASE Restore
  BY <1>22, <1>e, <1>f DEF Restore, RestoreNext
<1>24. CASE Abandon
  BY <1>24, <1>f DEF Abandon
<1>25. CASE Rollback
  BY <1>25, <1>u DEF Rollback, Place
<1>26. CASE UndoSpare
  <2>1. [txn EXCEPT !.at = "restore", !.spare = NoWorkspace] \in Txn
    BY <1>t, Updates DEF Place
  <2> QED
    BY <1>26, <2>1 DEF UndoSpare
<1>27. CASE Commit
  <2>1. [txn EXCEPT !.at = "ensure", !.phase = "modelCommitted"] \in Txn
    BY <1>t, Updates DEF Place, Phase
  <2> QED
    BY <1>27, <2>1 DEF Commit
<1>28. CASE Ensure
  BY <1>28, <1>f DEF Ensure
<1>29. CASE Recover
  BY <1>29, <1>x DEF Recover, Place
<1>30. CASE CloseRest
  BY <1>30, <1>u, <1>e DEF CloseRest, Step, Place
<1>31. CASE CommitRest
  BY <1>31, <1>u DEF CommitRest, Step, Place
<1>32. CASE DropSpare
  <2>1. ASSUME NEW missing \in {txn.surfaces, txn.surfaces \ runtime}
        PROVE  [txn EXCEPT !.at = "restore", !.todo = missing] \in Txn
    <3>1. missing \in SUBSET Surfaces
      BY <1>v
    <3> QED
      BY <1>t, <3>1, Updates DEF Place
  <2> QED
    BY <1>32, <2>1 DEF DropSpare
<1>33. CASE MergeStep
  <2>1. ASSUME NEW base \in Base, NEW a \in Place, MergeTo(base, a) PROVE txn' \in Txn
    BY <1>t, <2>1, Updates DEF MergeTo
  <2>2. Unmerged \in Base
    BY DEF Unmerged, Base
  <2>3. ASSUME NEW base \in Base
        PROVE  /\ [base EXCEPT !.files = "new"] \in Base /\ [base EXCEPT !.ref = "new"] \in Base
               /\ [base EXCEPT !.files = "new", !.pending = TRUE] \in Base
               /\ [base EXCEPT !.wedged = TRUE] \in Base /\ [base EXCEPT !.pending = FALSE] \in Base
               /\ [base EXCEPT !.files = base.ref, !.pending = FALSE] \in Base
               /\ \A f \in {"old", "mixed", "new"}, p \in BOOLEAN :
                    [base EXCEPT !.files = f, !.pending = p, !.broken = TRUE] \in Base
               /\ \A r \in {"old", "new"} :
                    /\ [base EXCEPT !.ref = r, !.files = r] \in Base
                    /\ [base EXCEPT !.ref = r, !.wedged = TRUE] \in Base
    BY DEF Base
  <2>4. CASE MergeChecks
    BY <1>f, <2>1, <2>2, <2>4 DEF MergeChecks, Place
  <2>5. CASE FastForward
    BY <1>v, <2>1, <2>2, <2>3, <2>5 DEF FastForward, CheckOut, Broken, Place
  <2>6. CASE RestoreFastForward
    BY <1>v, <2>1, <2>3, <2>6 DEF RestoreFastForward, Place
  <2>7. CASE MergeNormally
    BY <1>v, <2>1, <2>2, <2>3, <2>7 DEF MergeNormally, Broken, Place
  <2>8. CASE MergeCleansUp
    BY <1>v, <2>1, <2>3, <2>8 DEF MergeCleansUp, AbortPendingMerge, Place
  <2>9. CASE MergeEnds
    BY <1>f, <2>9 DEF MergeEnds
  <2> QED
    BY <1>33, <2>4, <2>5, <2>6, <2>7, <2>8, <2>9 DEF MergeStep
<1>34. CASE Panic
  <2>1. [txn EXCEPT !.at = "recover", !.recovering = TRUE] \in Txn
    BY <1>t, Updates DEF Place
  <2> QED
    BY <1>34, <2>1 DEF Panic
<1>35. CASE Request
  <2>1. ASSUME NEW b \in Branches, NEW o \in {"open", "remove", "merge"}, NEW a \in {"git", "prepare"},
               NEW B \in SUBSET (Branches \cup UserBranches)
        PROVE  [[Idle EXCEPT !.op = o, !.at = a, !.b = b] EXCEPT !.branchesBefore = B] \in Txn
    BY ZenonT(40), IdleTyped DEF Txn, Place
  <2> QED
    BY ZenonT(40), <1>35, <1>o, <2>1 DEF Request, Begin
<1>36. CASE Others \/ Reconcile \/ Autosave
  BY <1>36, <1>t DEF Others, TerminalWrites, OthersChange,
     SwitchBranch, Read, Hook, OtherBegins, OtherEnds,
     ShowWorkspace, Reconcile, Autosave
<1>38. CASE Restart
  BY <1>38, IdleTyped DEF Restart
<1> QED
  BY <1>0, <1>1, <1>2, <1>3, <1>4, <1>5, <1>6, <1>7, <1>8, <1>9, <1>10, <1>11, <1>12, <1>13,
     <1>14, <1>15, <1>16, <1>17, <1>18, <1>19, <1>21, <1>22, <1>24, <1>25, <1>26, <1>27,
     <1>28, <1>29, <1>30, <1>31, <1>32, <1>33, <1>34, <1>35, <1>36, <1>38
  DEF Next, TxnStep, OpenStep, FilesystemStep, RemoveStep

(* The guards are the transaction's while it needs them.                   *)
LEMMA ControlNext == Typed /\ [Next]_vars => Control'
<1> SUFFICES ASSUME Typed, [Next]_vars PROVE Control'
  OBVIOUS
<1>t. txn \in Txn /\ txn' \in Txn
  BY TxnNext DEF Typed, Control
<1>h. /\ txn.w # NoWorkspace \/ txn.at \in GuardedAt \/ At("open", "prepare") => surfaceSet = "txn"
      /\ txn.at # "idle" => txn.b \in Branches
      /\ txn.w # NoWorkspace => txn.at # "idle"
      /\ poisoned => txn.at = "recover"
  BY DEF Typed, Control, Guarded, HasBranch, PoisonedInRecovery
<1>o. LocksOK
  BY DEF Typed, Control
<1>s. ASSUME UNCHANGED <<locks, txn>> PROVE Control'
  BY <1>s DEF Typed, Control, LocksOK, HasBranch, Guarded, SpareThere, PoisonedInRecovery, At, locks
<1>f. ASSUME Finish, txn.at # "recover" PROVE Control'
  BY <1>f, <1>t, <1>h, <1>o, IdleFields
  DEF Finish, Control, LocksOK, HasBranch, Guarded, SpareThere, PoisonedInRecovery,
      GuardedAt, FilesystemAt, At
<1>g. ASSUME LocksOK', txn.at # "idle", txn'.b = txn.b, txn'.at # "spawnSpare",
             poisoned' => txn'.at = "recover", txn'.at # "idle",
             \/ surfaceSet' = "txn"
             \/ UNCHANGED surfaceSet /\ txn'.w = txn.w /\ txn'.at \notin GuardedAt \cup {"prepare"}
      PROVE  Control'
  BY <1>g, <1>t, <1>h DEF Control, HasBranch, Guarded, SpareThere, PoisonedInRecovery, At
<1>k. ASSUME UNCHANGED locks, txn.at \notin {"idle", "recover"}, txn'.b = txn.b,
             txn'.at \notin {"idle", "spawnSpare"},
             \/ surfaceSet = "txn"
             \/ txn'.w = txn.w /\ txn'.at \notin GuardedAt \cup {"prepare"}
      PROVE  Control'
  BY <1>g, <1>h, <1>k, <1>o DEF LocksOK, locks
<1>l. ASSUME NEW a, Step(a) PROVE txn'.at = a /\ txn'.b = txn.b /\ txn'.w = txn.w
  BY <1>l, <1>t DEF Step, Txn
<1>m. ASSUME NEW a, NEW S, txn' = [txn EXCEPT !.at = a, !.todo = S]
      PROVE  txn'.at = a /\ txn'.b = txn.b /\ txn'.w = txn.w
  BY <1>m, <1>t DEF Txn
<1>e. ASSUME NEW s, txn' = [txn EXCEPT !.todo = @ \ {s}]
      PROVE  txn'.at = txn.at /\ txn'.b = txn.b /\ txn'.w = txn.w
  BY <1>e, <1>t DEF Txn
<1> USE DEF At, GuardedAt, FilesystemAt
<1>0. CASE UNCHANGED vars
  BY <1>0, <1>s DEF vars
<1>1. CASE GitOpens
  <2>1. ASSUME NEW c, txn' = [txn EXCEPT !.at = "add", !.branchCreated = c]
        PROVE  txn'.at = "add" /\ txn'.b = txn.b /\ txn'.w = txn.w
    BY <1>t, <2>1 DEF Txn
  <2>2. \/ Finish
        \/ UNCHANGED locks /\ txn'.at \in {"prune", "wantSurfaces", "add"} /\ txn'.b = txn.b /\ txn'.w = txn.w
    BY <1>1, <1>l, <2>1 DEF GitOpens
  <2> QED
    BY <1>1, <1>f, <1>k, <2>2 DEF GitOpens
<1>2. CASE PruneStale
  BY <1>2, <1>f, <1>k, <1>l DEF PruneStale
<1>3. CASE GitAdds
  <2>1. ASSUME txn' = [txn EXCEPT !.at = "wantSurfaces", !.created = TRUE]
        PROVE  txn'.at = "wantSurfaces" /\ txn'.b = txn.b /\ txn'.w = txn.w
    BY <1>t, <2>1 DEF Txn
  <2> QED
    BY <1>3, <1>f, <1>k, <2>1 DEF GitAdds
<1>4. CASE LockToOpen
  BY <1>4, <1>g, <1>h, <1>l, <1>o DEF LockToOpen, TakeSurfaceSet, LocksOK
<1>5. CASE FindOrCreate
  <2>1. ASSUME NEW w, txn' = [txn EXCEPT !.at = "inventory", !.w = w, !.prev = active]
        PROVE  txn'.at = "inventory" /\ txn'.b = txn.b
    BY <1>t, <2>1 DEF Txn
  <2>2. ASSUME NEW w,
               txn' = [txn EXCEPT !.at = "inventory", !.w = w, !.prev = active, !.spare = w]
        PROVE  txn'.at = "inventory" /\ txn'.b = txn.b
    BY <1>t, <2>2 DEF Txn
  <2>3. Finish \/ (UNCHANGED locks /\ txn'.at = "inventory" /\ txn'.b = txn.b)
    BY <1>5, <2>1, <2>2 DEF FindOrCreate
  <2>4. txn.at = "find"
    BY <1>5 DEF FindOrCreate
  <2> QED
    BY <1>f, <1>h, <1>k, <2>3, <2>4
<1>6. CASE Inventory
  <2>1. txn.at = "inventory" /\ UNCHANGED locks
    BY <1>6 DEF Inventory
  <2>2. txn'.at \in {"spawn", "undo"} /\ txn'.b = txn.b
    BY <1>6, <1>t DEF Inventory, Step, Txn
  <2> QED
    BY <1>h, <1>k, <2>1, <2>2
<1>7. CASE SpawnNext
  <2>1. CASE Finish
    BY <1>7, <1>f, <2>1 DEF SpawnNext
  <2>2. CASE ~Finish
    <3>1. txn.at = "spawn" /\ UNCHANGED locks
      BY <1>7, <2>2 DEF SpawnNext
    <3>2. PICK s \in txn.todo :
            \/ txn' = [txn EXCEPT !.todo = @ \ {s}, !.done = @ \cup {s}]
            \/ txn' = [txn EXCEPT !.at = "unspawn", !.todo = txn.done]
      BY <1>7, <2>2 DEF SpawnNext
    <3>3. txn'.at \in {"spawn", "unspawn"} /\ txn'.b = txn.b
      BY <1>t, <3>1, <3>2 DEF Txn
    <3> QED
      BY <1>h, <1>k, <3>1, <3>3
  <2> QED
    BY <2>1, <2>2
<1>8. CASE Unspawn
  BY <1>8, <1>h, <1>k, <1>l, <1>e DEF Unspawn
<1>9. CASE UndoOpen
  <2>1. CASE Finish
    BY <1>9, <1>f, <2>1 DEF UndoOpen
  <2>2. CASE ~Finish
    <3>1. /\ txn.at = "undo" /\ UNCHANGED locks
          /\ txn' = [txn EXCEPT !.at = "prepare", !.spare = NoWorkspace]
      BY <1>9, <2>2 DEF UndoOpen
    <3>2. txn'.at = "prepare" /\ txn'.b = txn.b
      BY <1>t, <3>1 DEF Txn
    <3> QED
      BY <1>h, <1>k, <3>1, <3>2
  <2> QED
    BY <2>1, <2>2
<1>10. CASE Prepare
  <2>1. CASE Finish
    BY <1>10, <1>f, <2>1 DEF Prepare
  <2>2. CASE ~Finish
    <3>1. txn.at = "prepare" /\ UNCHANGED locks
      BY <1>10, <2>2 DEF Prepare
    <3>2. PICK a : /\ a = IF txn.op = "open" THEN "verify" ELSE "wantSurfaces"
                   /\ txn' = [txn EXCEPT !.at = a, !.doomed = Doomed(txn)]
      BY <1>10, <2>2 DEF Prepare
    <3>5. txn'.at = a /\ txn'.b = txn.b /\ txn'.w = txn.w
      BY <1>t, <3>2 DEF Txn
    <3>3. CASE txn.op = "open"
      BY <1>h, <1>k, <3>1, <3>2, <3>3, <3>5
    <3>4. CASE txn.op # "open"
      BY <1>k, <3>1, <3>2, <3>4, <3>5
    <3> QED
      BY <3>3, <3>4
  <2> QED
    BY <2>1, <2>2
<1>a. ASSUME NEW ok, NEW p \in Progress, txn.at \in FilesystemAt, AfterFilesystem(ok, p)
      PROVE  Control'
  <2>1. ASSUME NEW a \in {"closeRest", "commit", "dropSpare", "rollback"}, NEW f, GoesOn(p, a, f)
        PROVE  Control'
    <3>1. txn'.at = a /\ txn'.b = txn.b
      BY <1>t, <2>1 DEF GoesOn, Txn
    <3> QED
      BY <1>a, <1>h, <1>k, <2>1, <3>1 DEF GoesOn
  <2> QED
    BY <1>a, <1>f, <1>t, <2>1, AfterFilesystemDoes
<1>p. txn.progress \in Progress /\ "registrationRemoved" \in Progress
  BY <1>t DEF Txn, Progress
<1>w. ASSUME NEW a, NEW p, txn' = [txn EXCEPT !.at = a, !.progress = p]
      PROVE  txn'.at = a /\ txn'.b = txn.b
  BY <1>t, <1>w DEF Txn
<1>11. CASE Verify
  <2>1. ASSUME NEW a \in {"unregister", "delete"}, Step(a), UNCHANGED locks PROVE Control'
    <3>1. txn.at = "verify"
      BY <1>11 DEF Verify
    <3> QED
      BY <1>h, <1>k, <1>l, <2>1, <3>1
  <2>2. \/ \E p \in Progress, ok \in BOOLEAN : AfterFilesystem(ok, p)
        \/ \E a \in {"unregister", "delete"} : Step(a) /\ UNCHANGED locks
    BY <1>11, <1>p DEF Verify
  <2>3. txn.at \in FilesystemAt
    BY <1>11 DEF Verify
  <2> QED
    BY <1>a, <2>1, <2>2, <2>3
<1>12. CASE StartDelete
  BY <1>12, <1>h, <1>k, <1>w DEF StartDelete
<1>13. CASE Delete
  <2>1. CASE AfterFilesystem(FALSE, txn.progress)
    BY <1>13, <1>a, <1>p, <2>1 DEF Delete
  <2>2. CASE ~AfterFilesystem(FALSE, txn.progress)
    <3>1. /\ txn.at = "deleting" /\ UNCHANGED locks
          /\ txn' = [txn EXCEPT !.at = "unregister", !.progress = "targetRemoved"]
      BY <1>13, <2>2 DEF Delete
    <3>2. txn'.at = "unregister" /\ txn'.b = txn.b
      BY <1>w, <3>1
    <3> QED
      BY <1>h, <1>k, <3>1, <3>2
  <2> QED
    BY <2>1, <2>2
<1>14. CASE Unregister
  BY <1>14, <1>a, <1>p DEF Unregister
<1>15. CASE LockToRemove
  <2>1. ASSUME NEW w,
               txn' = [txn EXCEPT !.at = "wantGates", !.w = w, !.prev = active,
                                  !.surfaces = SurfacesOf(w), !.initial = Open,
                                  !.had = SurfacesOf(w) \cap runtime,
                                  !.existed = dir[txn.b] # "none"]
        PROVE  txn'.at = "wantGates" /\ txn'.b = txn.b
    BY <1>t, <2>1 DEF Txn
  <2>2. txn'.b = txn.b /\ txn'.at \in {"wantGates", "verify"}
    BY <1>15, <1>l, <2>1 DEF LockToRemove
  <2> QED
    BY <1>15, <1>g, <1>h, <1>o, <2>2 DEF LockToRemove, TakeSurfaceSet, LocksOK
<1>16. CASE LockGates
  BY <1>16, <1>g, <1>h, <1>l, <1>o DEF LockGates, TakeGates, LocksOK
<1>17. CASE BeginRemoval
  <2>0. txn.at = "begin" /\ surfaceSet = "txn"
    BY <1>17, <1>h DEF BeginRemoval
  <2>1. ASSUME NEW w \in Fresh, txn' = [txn EXCEPT !.at = "spawnSpare", !.spare = w], UNCHANGED locks
        PROVE  Control'
    <3>1. txn'.at = "spawnSpare" /\ txn'.b = txn.b /\ txn'.w = txn.w /\ txn'.spare \in Workspaces
      BY <1>t, <2>1 DEF Txn, Fresh
    <3>2. LocksOK' /\ UNCHANGED <<surfaceSet, poisoned>>
      BY <1>o, <2>1 DEF LocksOK, locks
    <3> QED
      BY <1>h, <1>t, <2>0, <3>1, <3>2
      DEF Control, HasBranch, Guarded, SpareThere, PoisonedInRecovery
  <2>2. ASSUME txn' = [txn EXCEPT !.at = "close", !.todo = txn.surfaces], UNCHANGED locks
        PROVE  Control'
    BY <1>k, <1>m, <2>0, <2>2
  <2> QED
    BY <1>17, <1>f, <2>0, <2>1, <2>2 DEF BeginRemoval
<1>18. CASE SpawnSpare
  <2>0. txn.at = "spawnSpare" /\ surfaceSet = "txn"
    BY <1>18, <1>h DEF SpawnSpare
  <2>1. ASSUME txn' = [txn EXCEPT !.at = "close", !.todo = txn.surfaces], UNCHANGED locks
        PROVE  Control'
    <3>1. txn'.at = "close" /\ txn'.b = txn.b
      BY <1>m, <2>1
    <3> QED
      BY <1>k, <2>0, <2>1, <3>1
  <2> QED
    BY <1>18, <1>f, <2>0, <2>1 DEF SpawnSpare
<1>19. CASE CloseNext
  <2>0. txn.at = "close" /\ surfaceSet = "txn" /\ ~poisoned
    BY <1>19, <1>h DEF CloseNext
  <2>2. ASSUME NEW s, txn' = [txn EXCEPT !.todo = @ \ {s},
                                         !.done = IF s \in runtime THEN @ \cup {s} ELSE @]
        PROVE  txn'.at = txn.at /\ txn'.b = txn.b
    BY <1>t, <2>2 DEF Txn
  <2>3. txn'.at \in {"verify", "close", "reopen"} /\ txn'.b = txn.b
    <3>1. CASE \E s \in txn.todo :
                 txn' = [txn EXCEPT !.todo = @ \ {s},
                                    !.done = IF s \in runtime THEN @ \cup {s} ELSE @]
      BY <2>0, <2>2, <3>1
    <3>2. CASE txn' = [txn EXCEPT !.at = "verify", !.phase = "filesystemStarted"]
      BY <1>t, <3>2 DEF Txn
    <3>3. CASE txn' = [txn EXCEPT !.at = "reopen", !.todo = txn.done]
      BY <1>m, <3>3
    <3> QED
      BY <1>19, <3>1, <3>2, <3>3 DEF CloseNext
  <2>4. DropGates \/ UNCHANGED locks
    BY <1>19 DEF CloseNext
  <2>5. LocksOK' /\ UNCHANGED <<surfaceSet, poisoned>>
    BY <1>o, <2>4 DEF DropGates, LocksOK, locks
  <2> QED
    BY <1>g, <2>0, <2>3, <2>5
<1>21. CASE Reopen
  BY <1>21, <1>e, <1>f, <1>k, <1>l DEF Reopen, RestoreNext
<1>22. CASE Restore
  BY <1>22, <1>e, <1>f, <1>k DEF Restore, RestoreNext
<1>24. CASE Abandon
  BY <1>24, <1>f DEF Abandon
<1>25. CASE Rollback
  <2>1. txn'.b = txn.b /\ txn'.w = txn.w /\ txn'.at \in {"restore", "undoSpare"}
    BY <1>25, <1>t DEF Rollback, Txn
  <2> QED
    BY <1>25, <1>g, <1>o, <2>1 DEF Rollback, TakeGates, LocksOK
<1>26. CASE UndoSpare
  <2>1. txn'.b = txn.b /\ txn'.w = txn.w /\ txn'.at = "restore"
    BY <1>26, <1>t DEF UndoSpare, Txn
  <2> QED
    BY <1>26, <1>k, <2>1 DEF UndoSpare
<1>27. CASE Commit
  <2>1. txn'.b = txn.b /\ txn'.w = txn.w /\ txn'.at = "ensure"
    BY <1>27, <1>t DEF Commit, Txn
  <2> QED
    BY <1>27, <1>g, <1>o, <2>1 DEF Commit, TakeGates, LocksOK
<1>28. CASE Ensure
  BY <1>28, <1>f DEF Ensure
<1>29. CASE Recover
  <2>1. txn'.b = txn.b /\ txn'.at \in {"closeRest", "verify", "dropSpare"}
    BY <1>29, <1>t DEF Recover, Txn
  <2>2. LocksOK' /\ ~poisoned' /\ UNCHANGED surfaceSet /\ txn.at = "recover"
    BY <1>29, <1>o DEF Recover, TakeGates, ClearPoison, LocksOK
  <2> QED
    BY <1>g, <1>h, <2>1, <2>2
<1>30. CASE CloseRest
  BY <1>30, <1>e, <1>k, <1>l DEF CloseRest
<1>31. CASE CommitRest
  <2>1. txn.at = "commitRest" /\ UNCHANGED locks
    BY <1>31 DEF CommitRest
  <2>2. txn'.at = "ensure" /\ txn'.b = txn.b /\ txn'.w = txn.w
    BY <1>31, <1>l DEF CommitRest
  <2> QED
    BY <1>k, <2>1, <2>2
<1>32. CASE DropSpare
  <2>1. txn.at = "dropSpare" /\ UNCHANGED locks
    BY <1>32 DEF DropSpare
  <2>2. txn'.at = "restore" /\ txn'.b = txn.b /\ txn'.w = txn.w
    BY <1>32, <1>m DEF DropSpare
  <2> QED
    BY <1>k, <2>1, <2>2
<1>33. CASE MergeStep
  <2>1. ASSUME NEW base, NEW a \in {"checkout", "index", "setHead", "merged", "moveRef", "restoreRef",
                                    "tidy", "abort"},
               MergeTo(base, a), txn.at \notin {"idle", "recover"}
        PROVE  Control'
    <3>1. txn'.at = a /\ txn'.b = txn.b /\ txn'.w = txn.w
      BY <1>t, <2>1 DEF MergeTo, Txn
    <3> QED
      BY <1>k, <2>1, <3>1 DEF MergeTo
  <2>2. CASE MergeChecks
    BY <1>f, <2>1, <2>2 DEF MergeChecks
  <2>3. CASE FastForward
    BY <2>1, <2>3 DEF FastForward, CheckOut, Broken
  <2>4. CASE RestoreFastForward
    BY <2>1, <2>4 DEF RestoreFastForward
  <2>5. CASE MergeNormally
    BY <2>1, <2>5 DEF MergeNormally, Broken
  <2>6. CASE MergeCleansUp
    BY <2>1, <2>6 DEF MergeCleansUp, AbortPendingMerge
  <2>7. CASE MergeEnds
    BY <1>f, <2>7 DEF MergeEnds
  <2> QED
    BY <1>33, <2>2, <2>3, <2>4, <2>5, <2>6, <2>7 DEF MergeStep
<1>34. CASE Panic
  <2>1. txn'.b = txn.b /\ txn'.at = "recover"
    BY <1>34, <1>t DEF Panic, Txn
  <2>2. LocksOK' /\ UNCHANGED surfaceSet /\ txn.w # NoWorkspace
    BY <1>34, <1>o DEF Panic, LocksOK
  <2> QED
    BY <1>g, <1>h, <2>1, <2>2
<1>35. CASE Request
  <2>1. PICK b \in Branches, o \in {"open", "remove", "merge"}, a \in {"git", "prepare"} :
          /\ txn' = [[Idle EXCEPT !.op = o, !.at = a, !.b = b] EXCEPT !.branchesBefore = branches]
          /\ UNCHANGED locks /\ WriteGuardFree /\ ~(o = "open" /\ a = "prepare")
    BY <1>35 DEF Request, Begin
  <2>2. txn'.at = a /\ txn'.op = o /\ txn'.b = b /\ txn'.w = NoWorkspace
    BY <2>1 DEF Idle
  <2>3. LocksOK' /\ ~poisoned'
    BY <1>h, <1>o, <2>1, IdleFields DEF WriteGuardFree, LocksOK, locks
  <2> QED
    BY <1>t, <2>1, <2>2, <2>3 DEF Control, HasBranch, Guarded, SpareThere, PoisonedInRecovery
<1>36. CASE Others
  <2>1. UNCHANGED <<txn, poisoned>> /\ readers' \in BOOLEAN
    BY <1>36, <1>o DEF Others, TerminalWrites, OthersChange,
       SwitchBranch, Read, Hook, OtherBegins, OtherEnds,
       ShowWorkspace, locks, LocksOK
  <2>2. gates' \in {"free", "txn", "hook"}
    BY <1>36, <1>o DEF Others, TerminalWrites, OthersChange,
       SwitchBranch, Read, Hook, OtherBegins, OtherEnds,
       ShowWorkspace, locks, LocksOK
  <2>3. surfaceSet' \in {"free", "txn", "other"} /\ (surfaceSet = "txn" => surfaceSet' = "txn")
    BY <1>36, <1>o DEF Others, TerminalWrites, OthersChange,
       SwitchBranch, Read, Hook, OtherBegins, OtherEnds,
       ShowWorkspace, locks, LocksOK
  <2> QED
    BY <1>h, <1>o, <1>t, <2>1, <2>2, <2>3
    DEF Typed, Control, LocksOK, HasBranch, Guarded, SpareThere, PoisonedInRecovery
<1>37. CASE Reconcile \/ Autosave
  BY <1>37, <1>s DEF Reconcile, Autosave
<1>38. CASE Restart
  BY <1>38, <1>t, IdleFields
  DEF Restart, Control, LocksOK, HasBranch, Guarded, SpareThere, PoisonedInRecovery
<1> QED
  BY <1>0, <1>1, <1>2, <1>3, <1>4, <1>5, <1>6, <1>7, <1>8, <1>9, <1>10, <1>11, <1>12, <1>13,
     <1>14, <1>15, <1>16, <1>17, <1>18, <1>19, <1>21, <1>22, <1>24, <1>25, <1>26, <1>27,
     <1>28, <1>29, <1>30, <1>31, <1>32, <1>33, <1>34, <1>35, <1>36, <1>37, <1>38
  DEF Next, TxnStep, OpenStep, FilesystemStep, RemoveStep

(* A session is saved when no transaction is at work.                      *)
LEMMA SavedByAutosave == [Next]_vars => Autosave \/ UNCHANGED saved
BY DEF Next, TxnStep, OpenStep, FilesystemStep, RemoveStep, MergeStep, Others, vars, GitOpens,
   PruneStale, GitAdds, LockToOpen, FindOrCreate, Inventory, SpawnNext, Unspawn, UndoOpen, Prepare,
   Verify, StartDelete, Delete, Unregister, LockToRemove, LockGates, BeginRemoval, SpawnSpare,
   CloseNext, Reopen, Abandon, Rollback, UndoSpare, Restore, RestoreNext, Commit, Ensure, Recover,
   CloseRest, CommitRest, DropSpare, MergeChecks, FastForward, RestoreFastForward, MergeNormally,
   MergeCleansUp, MergeEnds, Panic, Request, Begin, TerminalWrites, OthersChange,
   SwitchBranch, Read, Hook,
   OtherBegins, OtherEnds, ShowWorkspace, Reconcile, Restart

(* Who else acts leaves the transaction alone, and what it guards.         *)
LEMMA OthersKeep ==
  ASSUME Others \/ Reconcile \/ Autosave \/ UNCHANGED vars
  PROVE  /\ UNCHANGED <<txn, branches, registered>>
         /\ surfaceSet = "txn" => UNCHANGED <<tree, panes, blocked, runtime>>
<1>1. CASE UNCHANGED vars
  BY <1>1 DEF vars, git, model
<1>2. CASE Others
  BY <1>2 DEF Others, TerminalWrites, OthersChange,
     SwitchBranch, Read, Hook, OtherBegins, OtherEnds,
     ShowWorkspace, SelectWorkspace, git, model
<1>3. CASE Reconcile \/ Autosave
  BY <1>3 DEF Reconcile, Autosave, git, model
<1> QED
  BY <1>1, <1>2, <1>3

(* Where the transaction goes: within a removal or an open, mostly, with   *)
(* its task unchanged.                                                     *)
MergeAt == {"checkout", "moveRef", "setHead", "restoreRef", "index", "tidy", "abort", "merged"}
SameTask ==
  /\ txn'.op = txn.op /\ txn'.b = txn.b /\ txn'.branchesBefore = txn.branchesBefore
  /\ txn'.branchCreated = txn.branchCreated
  /\ txn'.doomed = txn.doomed \/ (txn.at = "prepare" /\ txn'.doomed = Doomed(txn))
Goes ==
  /\ SameTask
  /\ txn'.at \notin MergeAt \cup {"git", "prune", "inventory"}
  /\ txn'.at = "wantSurfaces" => txn'.op # "open" \/ GitAdds
  /\ txn'.at = "find" => LockToOpen
  /\ txn'.spare \in {txn.spare, NoWorkspace}

LEMMA Moves ==
  ASSUME txn \in Txn, [Next]_vars
  PROVE  \/ Others \/ Reconcile \/ Autosave \/ UNCHANGED vars
         \/ txn' = Idle \/ Request \/ MergeStep
         \/ GitOpens \/ PruneStale \/ FindOrCreate \/ BeginRemoval \/ Goes
<1>1. ASSUME NEW a, Step(a), a \notin MergeAt \cup {"git", "prune", "inventory", "find", "wantSurfaces"}
      PROVE  Goes
  BY <1>1 DEF Step, Goes, SameTask, Txn
<1>2. ASSUME NEW a, NEW S, txn' = [txn EXCEPT !.at = a, !.todo = S],
             a \notin MergeAt \cup {"git", "prune", "inventory", "find", "wantSurfaces"}
      PROVE  Goes
  BY <1>2 DEF Goes, SameTask, Txn
<1>3. ASSUME NEW s, txn' = [txn EXCEPT !.todo = @ \ {s}],
             txn.at \notin MergeAt \cup {"git", "prune", "inventory", "find", "wantSurfaces"}
      PROVE  Goes
  BY <1>3 DEF Goes, SameTask, Txn
<1>4. Finish => txn' = Idle
  BY DEF Finish
<1>5. ASSUME NEW ok, NEW p \in Progress, AfterFilesystem(ok, p) PROVE txn' = Idle \/ Goes
  <2>1. ASSUME NEW a \in {"closeRest", "commit", "dropSpare", "rollback"}, NEW f, GoesOn(p, a, f)
        PROVE  Goes
    BY <2>1 DEF GoesOn, Goes, SameTask, MergeAt, Txn
  <2> QED
    BY <1>4, <1>5, <2>1, AfterFilesystemDoes
<1>6. txn.progress \in Progress /\ "registrationRemoved" \in Progress
  BY DEF Txn, Progress
<1> USE DEF At
<1>7. CASE OpenStep
  <2>1. CASE GitAdds
    <3>1. CASE txn' = [txn EXCEPT !.at = "wantSurfaces", !.created = TRUE]
      BY <2>1, <3>1 DEF Goes, SameTask, MergeAt, Txn
    <3> QED
      BY <1>4, <2>1, <3>1 DEF GitAdds
  <2>2. CASE LockToOpen
    BY <2>2 DEF LockToOpen, Step, Goes, SameTask, MergeAt, Txn
  <2>3. CASE Inventory
    BY <1>1, <1>2, <2>3 DEF Inventory, MergeAt
  <2>4. CASE SpawnNext
    <3>1. ASSUME NEW s, txn' = [txn EXCEPT !.todo = @ \ {s}, !.done = @ \cup {s}], txn.at = "spawn"
          PROVE  Goes
      BY <3>1 DEF Goes, SameTask, MergeAt, Txn
    <3> QED
      BY <1>2, <1>4, <2>4, <3>1 DEF SpawnNext, MergeAt
  <2>5. CASE Unspawn
    BY <1>1, <1>3, <2>5 DEF Unspawn, MergeAt
  <2>6. CASE UndoOpen
    <3>1. CASE txn' = [txn EXCEPT !.at = "prepare", !.spare = NoWorkspace]
      BY <3>1 DEF Goes, SameTask, MergeAt, Txn
    <3> QED
      BY <1>4, <2>6, <3>1 DEF UndoOpen
  <2> QED
    BY <1>7, <2>1, <2>2, <2>3, <2>4, <2>5, <2>6 DEF OpenStep
<1>8. CASE FilesystemStep
  <2>1. CASE Prepare
    <3>1. ASSUME NEW a, a = IF txn.op = "open" THEN "verify" ELSE "wantSurfaces",
                 txn' = [txn EXCEPT !.at = a, !.doomed = Doomed(txn)]
          PROVE  Goes
      <4>1. /\ txn'.at = a /\ txn'.doomed = Doomed(txn) /\ txn'.spare = txn.spare
            /\ txn'.op = txn.op /\ txn'.b = txn.b /\ txn'.branchesBefore = txn.branchesBefore
            /\ txn'.branchCreated = txn.branchCreated
        BY <3>1 DEF Txn
      <4> QED
        BY <2>1, <3>1, <4>1 DEF Prepare, Goes, SameTask, MergeAt
    <3> QED
      BY <1>4, <2>1, <3>1 DEF Prepare
  <2>2. CASE Verify
    BY <1>1, <1>5, <1>6, <2>2 DEF Verify, MergeAt
  <2>3. ASSUME NEW a, NEW p, txn' = [txn EXCEPT !.at = a, !.progress = p], a \in {"deleting", "unregister"}
        PROVE  Goes
    BY <2>3 DEF Goes, SameTask, MergeAt, Txn
  <2>4. CASE StartDelete \/ Delete
    BY <1>5, <1>6, <2>3, <2>4 DEF StartDelete, Delete
  <2>5. CASE Unregister
    BY <1>5, <1>6, <2>5 DEF Unregister
  <2> QED
    BY <1>8, <2>1, <2>2, <2>4, <2>5 DEF FilesystemStep
<1>9. CASE RemoveStep
  <2>1. CASE LockToRemove
    <3>1. ASSUME NEW w, txn' = [txn EXCEPT !.at = "wantGates", !.w = w, !.prev = active,
                                  !.surfaces = SurfacesOf(w), !.initial = Open,
                                  !.had = SurfacesOf(w) \cap runtime,
                                  !.existed = dir[txn.b] # "none"]
          PROVE  Goes
      BY <3>1 DEF Goes, SameTask, MergeAt, Txn
    <3> QED
      BY <1>1, <2>1, <3>1 DEF LockToRemove, MergeAt
  <2>2. CASE LockGates \/ CommitRest
    BY <1>1, <2>2 DEF LockGates, CommitRest, MergeAt
  <2>3. CASE SpawnSpare \/ Recover \/ DropSpare
    BY <1>2, <1>4, <2>3 DEF SpawnSpare, Recover, DropSpare, MergeAt
  <2>4. CASE CloseNext
    <3>1. ASSUME NEW s, txn' = [txn EXCEPT !.todo = @ \ {s},
                                           !.done = IF s \in runtime THEN @ \cup {s} ELSE @],
                 txn.at = "close"
          PROVE  Goes
      BY <3>1 DEF Goes, SameTask, MergeAt, Txn
    <3>2. ASSUME txn' = [txn EXCEPT !.at = "verify", !.phase = "filesystemStarted"] PROVE Goes
      BY <3>2 DEF Goes, SameTask, MergeAt, Txn
    <3> QED
      BY <1>2, <2>4, <3>1, <3>2 DEF CloseNext, MergeAt
  <2>5. CASE Reopen \/ Restore
    BY <1>1, <1>3, <1>4, <2>5 DEF Reopen, Restore, RestoreNext, MergeAt
  <2>6. CASE Abandon \/ Ensure
    BY <1>4, <2>6 DEF Abandon, Ensure
  <2>7. CASE Rollback
    BY <2>7 DEF Rollback, Goes, SameTask, MergeAt, Txn
  <2>9. CASE UndoSpare
    BY <2>9 DEF UndoSpare, Goes, SameTask, MergeAt, Txn
  <2>10. CASE Commit
    BY <2>10 DEF Commit, Goes, SameTask, MergeAt, Txn
  <2>8. CASE CloseRest
    BY <1>1, <1>3, <2>8 DEF CloseRest, MergeAt
  <2> QED
    BY <1>9, <2>1, <2>2, <2>3, <2>4, <2>5, <2>6, <2>7, <2>8, <2>9, <2>10
    DEF RemoveStep
<1>10. CASE Panic
  BY <1>10 DEF Panic, Goes, SameTask, MergeAt, Txn
<1>11. CASE Restart
  BY <1>11 DEF Restart
<1> QED
  BY <1>7, <1>8, <1>9, <1>10, <1>11 DEF Next, TxnStep

LEMMA RequestDoes ==
  ASSUME Request
  PROVE  /\ WriteGuardFree /\ UNCHANGED <<git, model, runtime, locks, saved>>
         /\ txn'.at \in {"git", "prepare"} /\ txn'.op \in {"open", "remove", "merge"}
         /\ txn'.at = "prepare" <=> txn'.op = "remove"
         /\ txn'.b \in Branches /\ txn'.branchesBefore = branches /\ ~txn'.branchCreated
         /\ txn'.doomed = NoBranch
         /\ txn'.w = NoWorkspace /\ txn'.spare = NoWorkspace
         /\ txn'.progress = "prepared" /\ txn'.phase = "beforeFilesystemCommit" /\ ~txn'.recovering
<1>1. PICK b \in Branches, o \in {"open", "remove", "merge"}, a \in {"git", "prepare"} :
        /\ txn' = [[Idle EXCEPT !.op = o, !.at = a, !.b = b] EXCEPT !.branchesBefore = branches]
        /\ WriteGuardFree /\ UNCHANGED <<git, model, runtime, locks, saved>>
        /\ a = "prepare" <=> o = "remove"
  BY DEF Request, Begin
<1> QED
  BY <1>1 DEF Idle

LEMMA TypedNext == Typed /\ [Next]_vars => Typed'
<1> SUFFICES ASSUME Typed, [Next]_vars PROVE Typed'
  OBVIOUS
<1>1. StoresOK' /\ Control'
  BY StoresNext, ControlNext
<1>t. txn \in Txn /\ txn' \in Txn
  BY <1>1 DEF Typed, Control
<1>2. SavedOK'
  <2>1. CASE Autosave
    BY <2>1 DEF Autosave, Snapshot, SavedOK, Typed, StoresOK, Open
  <2>2. CASE UNCHANGED saved
    BY <2>2 DEF SavedOK, Typed
  <2> QED
    BY <2>1, <2>2, SavedByAutosave
<1>3. OpenShown' /\ ProvisionalNotSaved'
  <2>0. UNCHANGED saved \/ txn = Idle
    BY SavedByAutosave DEF Autosave, Settled, WriteGuardFree
  <2>1. CASE Others \/ Reconcile \/ Autosave \/ UNCHANGED vars
    <3>1. txn' = txn
      BY <2>1, OthersKeep
    <3>2. OpenShown'
      BY <2>1, <3>1, OthersKeep DEF Typed, Control, Guarded, GuardedAt, OpenShown, Open
    <3>3. ProvisionalNotSaved'
      BY <2>0, <3>1, IdleFields DEF Typed, ProvisionalNotSaved
    <3> QED
      BY <3>2, <3>3
  <2>2. CASE txn' = Idle
    BY <2>2, IdleFields DEF OpenShown, ProvisionalNotSaved
  <2>3. CASE Request
    <3>1. txn'.at \in {"git", "prepare"} /\ txn'.spare = NoWorkspace
      BY <2>3, RequestDoes
    <3> QED
      BY <3>1 DEF OpenShown, ProvisionalNotSaved
  <2>4. CASE MergeStep
    <3>1. ASSUME NEW base, NEW a, MergeTo(base, a) PROVE txn'.at = a /\ txn'.spare = txn.spare
      BY <1>t, <3>1 DEF MergeTo, Txn
    <3>4. ASSUME NEW states, Broken(states) PROVE txn'.at = "merged" /\ txn'.spare = txn.spare
      BY <3>1, <3>4 DEF Broken
    <3>2. txn' = Idle \/ (txn'.at # "inventory" /\ txn'.spare = txn.spare)
      BY <2>4, <3>1, <3>4 DEF MergeStep, MergeChecks, FastForward, RestoreFastForward, MergeNormally,
         MergeCleansUp, MergeEnds, AbortPendingMerge, CheckOut, Finish
    <3>3. saved' = saved
      BY <2>4 DEF MergeStep, MergeChecks, FastForward, RestoreFastForward, MergeNormally,
         MergeCleansUp, MergeEnds
    <3> QED
      BY <2>2, <3>2, <3>3 DEF Typed, OpenShown, ProvisionalNotSaved
  <2>5. CASE GitOpens \/ PruneStale
    <3>1. txn' = Idle \/ (txn'.at # "inventory" /\ txn'.spare = txn.spare)
      BY <1>t, <2>5 DEF GitOpens, PruneStale, Finish, Step, Txn
    <3>2. saved' = saved
      BY <2>5 DEF GitOpens, PruneStale
    <3> QED
      BY <2>2, <3>1, <3>2 DEF Typed, OpenShown, ProvisionalNotSaved
  <2>6. CASE FindOrCreate
    <3>1. saved' = saved
      BY <2>6 DEF FindOrCreate
    <3>2. ASSUME NEW w \in Showing(txn.b), SelectWorkspace(w),
                 txn' = [txn EXCEPT !.at = "inventory", !.w = w, !.prev = active]
          PROVE  OpenShown' /\ ProvisionalNotSaved'
      <4>1. txn'.w = w /\ txn'.spare = txn.spare
        BY <1>t, <3>2 DEF Txn
      <4> QED
        BY <3>1, <3>2, <4>1 DEF Typed, OpenShown, ProvisionalNotSaved, SelectWorkspace, Showing, Open
    <3>3. ASSUME NEW w \in Fresh, OpenWorkspace(w, txn.b),
                 txn' = [txn EXCEPT !.at = "inventory", !.w = w, !.prev = active, !.spare = w]
          PROVE  OpenShown' /\ ProvisionalNotSaved'
      <4>1. txn'.w = w /\ txn'.spare = w
        BY <1>t, <3>3 DEF Txn, Fresh
      <4>2. w \in Open'
        BY <3>3 DEF OpenWorkspace, Open
      <4> QED
        BY <3>1, <3>3, <4>1, <4>2 DEF OpenShown, ProvisionalNotSaved, Fresh
    <3> QED
      BY <2>2, <2>6, <3>2, <3>3 DEF FindOrCreate, Finish
  <2>7. CASE BeginRemoval
    <3>1. saved' = saved
      BY <2>7 DEF BeginRemoval
    <3>2. CASE txn' = [txn EXCEPT !.at = "close", !.todo = txn.surfaces]
      <4>1. txn'.at = "close" /\ txn'.spare = txn.spare
        BY <1>t, <3>2 DEF Txn
      <4> QED
        BY <3>1, <4>1 DEF Typed, OpenShown, ProvisionalNotSaved
    <3>3. ASSUME NEW w \in Fresh, txn' = [txn EXCEPT !.at = "spawnSpare", !.spare = w]
          PROVE  OpenShown' /\ ProvisionalNotSaved'
      <4>1. txn'.at = "spawnSpare" /\ txn'.spare = w
        BY <1>t, <3>3 DEF Txn, Fresh
      <4> QED
        BY <3>1, <3>3, <4>1 DEF OpenShown, ProvisionalNotSaved, Fresh
    <3> QED
      BY <2>2, <2>7, <3>2, <3>3 DEF BeginRemoval, Finish
  <2>8. CASE Goes
    <3>1. saved' = saved \/ txn.spare = NoWorkspace
      BY <2>0, IdleFields
    <3> QED
      BY <2>8, <3>1 DEF Goes, Typed, OpenShown, ProvisionalNotSaved
  <2> QED
    BY <1>t, <2>1, <2>2, <2>3, <2>4, <2>5, <2>6, <2>7, <2>8, Moves
<1> QED
  BY <1>1, <1>2, <1>3 DEF Typed

-----------------------------------------------------------------------------
(* The second layer, one invariant at a time.                              *)

LEMMA MergeToDoes ==
  ASSUME txn \in Txn, NEW base, NEW a, MergeTo(base, a)
  PROVE  SameTask /\ txn'.at = a /\ txn'.base = base /\ txn'.spare = txn.spare
BY DEF MergeTo, SameTask, Txn

LEMMA MergeMoves ==
  ASSUME txn \in Txn, MergeStep
  PROVE  /\ txn' = Idle \/ (SameTask /\ txn'.at \in MergeAt)
         /\ UNCHANGED <<git, model, runtime, saved>>
<1>1. UNCHANGED <<git, model, runtime, saved>>
  BY DEF MergeStep, MergeChecks, FastForward, RestoreFastForward, MergeNormally, MergeCleansUp,
     MergeEnds
<1>2. txn' = Idle \/ (SameTask /\ txn'.at \in MergeAt)
  BY MergeToDoes DEF MergeStep, MergeChecks, FastForward, RestoreFastForward, MergeNormally,
     MergeCleansUp, MergeEnds, AbortPendingMerge, CheckOut, Broken, Finish, MergeAt
<1> QED
  BY <1>1, <1>2

(* HEADs change by other programs, and when a registration goes.           *)
LEMMA HeadsMove ==
  ASSUME [Next]_vars
  PROVE  \/ UNCHANGED head
         \/ \E b \in Branches : SwitchBranch(b)
         \/ head' = [head EXCEPT ![txn.b] = txn.b]
BY DEF Next, TxnStep, OpenStep, FilesystemStep, RemoveStep, MergeStep, Others, vars, git, GitOpens,
   PruneStale, GitAdds, LockToOpen, FindOrCreate, Inventory, SpawnNext, Unspawn, UndoOpen, Prepare,
   Verify, StartDelete, Delete, Unregister, Prune, LockToRemove, LockGates, BeginRemoval, SpawnSpare,
   CloseNext, Reopen, Abandon, Rollback, UndoSpare, Restore, RestoreNext, Commit, Ensure, Recover,
   CloseRest, CommitRest, DropSpare, MergeChecks, FastForward, RestoreFastForward, MergeNormally,
   MergeCleansUp, MergeEnds, Panic, Request, Begin, TerminalWrites, OthersChange, Read, Hook,
   OtherBegins, OtherEnds, ShowWorkspace, Reconcile, Autosave, Restart

LEMMA HeadsKnownNext == Typed /\ HeadsKnown /\ [Next]_vars => HeadsKnown'
<1> SUFFICES ASSUME Typed, HeadsKnown, [Next]_vars PROVE HeadsKnown'
  OBVIOUS
<1>t. head \in [Branches -> Branches \cup UserBranches]
  BY DEF Typed, StoresOK
<1>1. CASE UNCHANGED head
  BY <1>1 DEF HeadsKnown
<1>2. ASSUME NEW b \in Branches, SwitchBranch(b) PROVE HeadsKnown'
  BY <1>2, <1>t DEF SwitchBranch, HeadsKnown
<1>3. CASE head' = [head EXCEPT ![txn.b] = txn.b]
  BY <1>3, <1>t DEF HeadsKnown
<1> QED
  BY <1>1, <1>2, <1>3, HeadsMove

LEMMA BranchesKnownNext == Typed /\ BranchesKnown /\ HeadsKnown /\ [Next]_vars => BranchesKnown'
<1> SUFFICES ASSUME Typed, BranchesKnown, HeadsKnown, [Next]_vars PROVE BranchesKnown'
  OBVIOUS
<1>t. txn \in Txn /\ (txn.at # "idle" => txn.b \in Branches)
  BY DEF Typed, Control, HasBranch
<1>k. ASSUME SameTask, txn'.at \notin {"git", "prune"} PROVE BranchesKnown'
  <2>1. CASE txn'.doomed = txn.doomed
    BY <1>k, <2>1 DEF SameTask, BranchesKnown
  <2>2. CASE txn.at = "prepare" /\ txn'.doomed = Doomed(txn)
    BY <1>k, <1>t, <2>2 DEF SameTask, BranchesKnown, HeadsKnown, Doomed
  <2> QED
    BY <1>k, <2>1, <2>2 DEF SameTask
<1>1. CASE Others \/ Reconcile \/ Autosave \/ UNCHANGED vars
  BY <1>1, OthersKeep DEF BranchesKnown
<1>2. CASE txn' = Idle
  BY <1>2, IdleFields DEF BranchesKnown
<1>3. CASE Request
  BY <1>3, RequestDoes DEF BranchesKnown, git
<1>4. CASE MergeStep
  BY <1>2, <1>4, <1>k, <1>t, MergeMoves DEF MergeAt
<1>5. CASE GitOpens
  <2>1. CASE txn' = [txn EXCEPT !.at = "add", !.branchCreated = txn.b \notin branches]
    <3>1. /\ txn'.at = "add" /\ txn'.branchCreated = (txn.b \notin branches)
          /\ txn'.b = txn.b /\ txn'.branchesBefore = txn.branchesBefore
          /\ txn'.op = txn.op /\ txn'.doomed = txn.doomed
      BY <1>t, <2>1 DEF Txn
    <3> QED
      BY <1>5, <3>1 DEF GitOpens, At, BranchesKnown
  <2>2. CASE Step("prune") /\ UNCHANGED branches
    BY <1>5, <1>t, <2>2 DEF GitOpens, At, Step, BranchesKnown, Txn
  <2>3. CASE Step("wantSurfaces")
    BY <1>t, <2>3 DEF Step, BranchesKnown, Txn
  <2> QED
    BY <1>2, <1>5, <2>1, <2>2, <2>3 DEF GitOpens, Finish, git
<1>6. CASE PruneStale
  BY <1>2, <1>6, <1>t DEF PruneStale, Finish, At, Step, BranchesKnown, Txn
<1>7. CASE FindOrCreate
  <2>1. txn' = Idle \/ (SameTask /\ txn'.at = "inventory")
    BY <1>7, <1>t DEF FindOrCreate, Finish, SameTask, Txn
  <2> QED
    BY <1>2, <1>k, <2>1
<1>8. CASE BeginRemoval
  <2>1. txn' = Idle \/ (SameTask /\ txn'.at \in {"close", "spawnSpare"})
    BY <1>8, <1>t DEF BeginRemoval, Finish, SameTask, Txn
  <2> QED
    BY <1>2, <1>k, <2>1
<1>9. CASE Goes
  BY <1>9, <1>k DEF Goes
<1> QED
  BY <1>t, <1>1, <1>2, <1>3, <1>4, <1>5, <1>6, <1>7, <1>8, <1>9, Moves

(* The base checkout, step by step.                                        *)
LEMMA MergeProgressNext ==
  Typed /\ MergeProgress /\ MergeSettles /\ [Next]_vars => MergeProgress' /\ MergeSettles'
<1> SUFFICES ASSUME Typed, MergeProgress, MergeSettles, [Next]_vars
             PROVE  MergeProgress' /\ MergeSettles'
  OBVIOUS
<1>t. txn \in Txn /\ txn.base \in Base
  BY DEF Typed, Control, Txn
<1>k. ASSUME txn'.at \notin MergeAt PROVE MergeProgress' /\ MergeSettles'
  BY <1>k DEF MergeAt, MergeProgress, MergeSettles
<1>1. CASE txn' = txn
  BY <1>1 DEF MergeProgress, MergeSettles
<1>2. CASE txn' = Idle
  BY <1>2, <1>k, IdleFields DEF MergeAt
<1>3. CASE Request
  BY <1>3, <1>k, RequestDoes DEF MergeAt
<1>4. CASE MergeStep
  <2>k. ASSUME NEW base, NEW a, MergeTo(base, a) PROVE txn'.at = a /\ txn'.base = base
    BY <1>t, <2>k, MergeToDoes
  <2>b. ASSUME NEW states, Broken(states) PROVE MergeProgress' /\ MergeSettles'
    <3>1. PICK f, p : MergeTo([Unmerged EXCEPT !.files = f, !.pending = p, !.broken = TRUE], "merged")
      BY <2>b DEF Broken
    <3>2. txn'.at = "merged" /\ txn'.base = [Unmerged EXCEPT !.files = f, !.pending = p, !.broken = TRUE]
      BY <2>k, <3>1
    <3>3. txn'.base.broken /\ txn'.base.ref = "old"
      BY <3>2 DEF Unmerged
    <3> QED
      BY <3>2, <3>3 DEF MergeProgress, MergeSettles
  <2>1. CASE MergeChecks
    <3>1. txn' = Idle \/ (txn'.at \in {"checkout", "index"} /\ txn'.base = Unmerged)
      BY <2>1, <2>k DEF MergeChecks, Finish
    <3> QED
      BY <1>2, <3>1 DEF MergeProgress, MergeSettles
  <2>2. CASE FastForward
    <3>1. CASE txn.at = "checkout"
      <4>1. \/ txn'.at = "moveRef" /\ txn'.base = FilesMoved
            \/ Broken({FALSE})
        BY <2>2, <2>k, <3>1 DEF FastForward, CheckOut, FilesMoved, MergeProgress
      <4> QED
        BY <2>b, <4>1 DEF MergeProgress, MergeSettles, Unmerged
    <3>2. CASE txn.at = "moveRef"
      <4>1. \/ txn'.at = "setHead" /\ txn'.base = [FilesMoved EXCEPT !.ref = "new"]
            \/ txn'.at = "restoreRef" /\ txn'.base = FilesMoved
        BY <2>2, <2>k, <3>2 DEF FastForward, MergeProgress
      <4> QED
        BY <4>1 DEF MergeProgress, MergeSettles, FilesMoved, Unmerged
    <3>3. CASE txn.at = "setHead"
      <4>1. txn'.at \in {"merged", "restoreRef"} /\ txn'.base = [FilesMoved EXCEPT !.ref = "new"]
        BY <2>2, <2>k, <3>3 DEF FastForward, MergeProgress
      <4> QED
        BY <4>1 DEF MergeProgress, MergeSettles, FilesMoved, Unmerged
    <3> QED
      BY <2>2, <3>1, <3>2, <3>3 DEF FastForward
  <2>3. CASE RestoreFastForward
    <3>1. ~txn.base.pending /\ ~txn.base.broken /\ txn'.at = "merged"
      BY <2>3, <2>k DEF RestoreFastForward, MergeProgress, At
    <3>2. PICK r \in {"old", txn.base.ref} :
            \/ txn'.base = [txn.base EXCEPT !.ref = r, !.files = r]
            \/ txn'.base = [txn.base EXCEPT !.ref = r, !.wedged = TRUE]
      BY <2>3, <2>k DEF RestoreFastForward
    <3> QED
      BY <1>t, <3>1, <3>2 DEF MergeProgress, MergeSettles, Base
  <2>4. CASE MergeNormally
    <3>0. txn.base = Unmerged \/ txn.base = [FilesMoved EXCEPT !.pending = TRUE]
      BY <2>4 DEF MergeNormally, MergeProgress, At
    <3>1. CASE ~txn.base.pending
      <4>1. txn.base = Unmerged
        BY <3>0, <3>1 DEF FilesMoved, Unmerged
      <4>2. \/ txn'.at = "index" /\ txn'.base = [Unmerged EXCEPT !.files = "new", !.pending = TRUE]
            \/ Broken(BOOLEAN)
        BY <2>4, <2>k, <3>1, <4>1 DEF MergeNormally
      <4> QED
        BY <2>b, <4>2 DEF MergeProgress, MergeSettles, FilesMoved, Unmerged
    <3>2. CASE txn.base.pending
      <4>1. txn.base = [FilesMoved EXCEPT !.pending = TRUE]
        BY <3>0, <3>2 DEF FilesMoved, Unmerged
      <4>2. \/ txn'.at = "tidy" /\ txn'.base = [txn.base EXCEPT !.ref = "new"]
            \/ txn'.at = "abort" /\ txn'.base = txn.base
        BY <2>4, <2>k, <3>2 DEF MergeNormally
      <4> QED
        BY <4>1, <4>2 DEF MergeProgress, MergeSettles, FilesMoved, Unmerged
    <3> QED
      BY <3>1, <3>2
  <2>5. CASE MergeCleansUp
    <3>1. txn'.at = "merged" /\ ~txn.base.broken
      BY <2>5, <2>k DEF MergeCleansUp, AbortPendingMerge, MergeProgress
    <3>2. \/ txn'.base = [txn.base EXCEPT !.files = txn.base.ref, !.pending = FALSE]
          \/ txn'.base = [txn.base EXCEPT !.wedged = TRUE]
          \/ txn'.base = [txn.base EXCEPT !.pending = FALSE] /\ txn.base.files = txn.base.ref
      BY <2>5, <2>k DEF MergeCleansUp, AbortPendingMerge, MergeProgress
    <3> QED
      BY <1>t, <3>1, <3>2 DEF MergeProgress, MergeSettles, Base
  <2>6. CASE MergeEnds
    BY <1>2, <2>6 DEF MergeEnds, Finish
  <2> QED
    BY <1>4, <2>1, <2>2, <2>3, <2>4, <2>5, <2>6 DEF MergeStep
<1>5. CASE GitOpens \/ PruneStale
  <2>1. txn' = Idle \/ txn'.at \in {"git", "prune", "wantSurfaces", "add"}
    BY <1>5, <1>t DEF GitOpens, PruneStale, Finish, Step, Txn
  <2> QED
    BY <1>2, <1>k, <2>1 DEF MergeAt
<1>6. CASE FindOrCreate
  <2>1. txn' = Idle \/ txn'.at = "inventory"
    BY <1>6, <1>t DEF FindOrCreate, Finish, Txn
  <2> QED
    BY <1>2, <1>k, <2>1 DEF MergeAt
<1>7. CASE BeginRemoval
  <2>1. txn' = Idle \/ txn'.at \in {"close", "spawnSpare"}
    BY <1>7, <1>t DEF BeginRemoval, Finish, Txn
  <2> QED
    BY <1>2, <1>k, <2>1 DEF MergeAt
<1>8. CASE Goes
  BY <1>8, <1>k DEF Goes
<1> QED
  BY <1>t, <1>1, <1>2, <1>3, <1>4, <1>5, <1>6, <1>7, <1>8, Moves, OthersKeep

LEMMA OpenedIsThereNext == Typed /\ OpenedIsThere /\ [Next]_vars => OpenedIsThere'
<1> SUFFICES ASSUME Typed, OpenedIsThere, [Next]_vars PROVE OpenedIsThere'
  OBVIOUS
<1>t. txn \in Txn /\ dir \in [Branches -> Dir] /\ (txn.at # "idle" => txn.b \in Branches)
  BY DEF Typed, Control, StoresOK, HasBranch
<1>k. ASSUME txn'.op # "open" \/ txn'.at \notin {"wantSurfaces", "find"} PROVE OpenedIsThere'
  BY <1>k DEF OpenedIsThere, At
<1>1. CASE Others \/ Reconcile \/ Autosave \/ UNCHANGED vars
  <2>1. txn' = txn
    BY <1>1, OthersKeep
  <2>2. CASE UNCHANGED dir
    BY <2>1, <2>2 DEF OpenedIsThere, At
  <2>3. ASSUME NEW w \in Open, TerminalWrites(w) PROVE OpenedIsThere'
    <3>1. tree[w] \in Branches
      BY <2>3 DEF TerminalWrites, Typed, StoresOK
    <3>2. \A b \in Branches : dir[b] # "none" => dir'[b] # "none"
      BY <1>t, <2>3, <3>1 DEF TerminalWrites
    <3> QED
      BY <1>t, <2>1, <3>2 DEF OpenedIsThere, At
  <2>4. ASSUME NEW b \in Branches, OthersChange(b) PROVE OpenedIsThere'
    <3>1. txn.op = "open" => \A c \in Branches : dir[c] # "none" => dir'[c] # "none"
      BY <1>t, <2>4 DEF OthersChange
    <3> QED
      BY <1>t, <2>1, <3>1 DEF OpenedIsThere, At
  <2> QED
    BY <1>1, <2>2, <2>3, <2>4
    DEF Others, SwitchBranch, Read, Hook, OtherBegins, OtherEnds, ShowWorkspace, Reconcile,
        Autosave, vars, git
<1>2. CASE txn' = Idle
  BY <1>2, <1>k, IdleFields
<1>3. CASE Request
  BY <1>3, <1>k, RequestDoes
<1>4. CASE MergeStep
  BY <1>2, <1>4, <1>k, <1>t, MergeMoves DEF MergeAt
<1>5. CASE GitOpens
  <2>1. CASE txn'.at # "wantSurfaces"
    <3>1. txn' = Idle \/ txn'.at \in {"prune", "wantSurfaces", "add"}
      BY <1>5, <1>t DEF GitOpens, Finish, Step, Txn
    <3> QED
      BY <1>2, <1>k, <2>1, <3>1
  <2>2. CASE txn'.at = "wantSurfaces"
    <3>0. txn.b \in Branches
      BY <1>5, <1>t DEF GitOpens, At
    <3>1. ~Finish /\ ~Step("prune")
          /\ \A c : txn' # [txn EXCEPT !.at = "add", !.branchCreated = c]
      BY <1>t, <2>2, IdleFields DEF Finish, Step, Txn
    <3>2. SetUp(txn.b, dir[txn.b]) /\ dir[txn.b] \in {"clean", "dirty"} /\ Step("wantSurfaces")
      BY <1>5, <3>1 DEF GitOpens
    <3>3. dir'[txn.b] # "none"
      BY <1>t, <3>0, <3>2 DEF SetUp
    <3>4. txn'.b = txn.b
      BY <1>t, <3>2 DEF Step, Txn
    <3> QED
      BY <3>3, <3>4 DEF OpenedIsThere
  <2> QED
    BY <2>1, <2>2
<1>6. CASE PruneStale
  BY <1>2, <1>6, <1>k, <1>t DEF PruneStale, Finish, Step, Txn
<1>7. CASE FindOrCreate
  <2>1. txn' = Idle \/ txn'.at = "inventory"
    BY <1>7, <1>t DEF FindOrCreate, Finish, Txn
  <2> QED
    BY <1>2, <1>k, <2>1
<1>8. CASE BeginRemoval
  <2>1. txn' = Idle \/ txn'.at \in {"close", "spawnSpare"}
    BY <1>8, <1>t DEF BeginRemoval, Finish, Txn
  <2> QED
    BY <1>2, <1>k, <2>1
<1>9. CASE Goes
  <2>1. CASE txn'.op = "open" /\ txn'.at = "wantSurfaces"
    <3>1. GitAdds /\ txn'.b = txn.b /\ ~Finish
      BY <1>9, <2>1, IdleFields DEF Goes, SameTask, Finish
    <3>2. SetUp(txn.b, "clean") /\ txn.b \in Branches
      BY <1>t, <3>1 DEF GitAdds, At
    <3>3. dir'[txn.b] # "none"
      BY <1>t, <3>2 DEF SetUp
    <3> QED
      BY <3>1, <3>3 DEF OpenedIsThere
  <2>2. CASE txn'.at = "find"
    BY <1>9, <2>2 DEF Goes, SameTask, LockToOpen, OpenedIsThere, At, git
  <2> QED
    BY <1>k, <2>1, <2>2
<1> QED
  BY <1>t, <1>1, <1>2, <1>3, <1>4, <1>5, <1>6, <1>7, <1>8, <1>9, Moves

(* How the set of workspaces changes.                                      *)
Shrinks == Open' \subseteq Open /\ \A v \in Open' : tree'[v] = tree[v]
Grows(b) == \E w \in Fresh : OpenWorkspace(w, b)

LEMMA TreeMoves ==
  ASSUME Typed, [Next]_vars
  PROVE  Shrinks \/ (BeginRemoval /\ Grows(NoBranch)) \/ Restart
         \/ (At("open", "find") /\ Showing(txn.b) = {} /\ Grows(txn.b))
<1>k. ASSUME UNCHANGED tree PROVE Shrinks
  BY <1>k DEF Shrinks, Open
<1>c. ASSUME NEW gone, NEW prev, CloseWorkspaces(gone, prev) PROVE Shrinks
  BY <1>c, CloseWorkspacesDoes DEF Shrinks, Typed
<1>1. CASE FindOrCreate
  BY <1>1, <1>k DEF FindOrCreate, Grows, SelectWorkspace, model
<1>2. CASE UndoOpen \/ SpawnSpare \/ Abandon \/ UndoSpare \/ Commit \/ CommitRest \/ DropSpare
           \/ OtherEnds
  BY <1>2, <1>c, <1>k DEF UndoOpen, SpawnSpare, Abandon, UndoSpare, Commit, CommitRest, DropSpare,
     OtherEnds, DropSpareWorkspace, SelectWorkspace, model
<1>3. CASE BeginRemoval
  BY <1>3, <1>k DEF BeginRemoval, Grows, model
<1>4. CASE \/ GitOpens \/ PruneStale \/ GitAdds \/ LockToOpen \/ Inventory \/ SpawnNext \/ Unspawn
           \/ FilesystemStep \/ LockToRemove \/ LockGates \/ CloseNext \/ Reopen \/ Rollback
           \/ Restore \/ Ensure \/ Recover \/ CloseRest \/ MergeStep \/ Panic \/ Request
           \/ (\E w \in Open : TerminalWrites(w))
           \/ (\E b \in Branches : OthersChange(b) \/ SwitchBranch(b))
           \/ Read \/ Hook \/ OtherBegins \/ ShowWorkspace \/ Reconcile \/ Autosave
           \/ UNCHANGED vars
  <2>1. UNCHANGED tree
    BY <1>4 DEF vars, model, FilesystemStep, MergeStep, GitOpens,
       PruneStale, GitAdds, LockToOpen, Inventory, SpawnNext, Unspawn, Prepare, Verify,
       StartDelete, Delete, Unregister, LockToRemove, LockGates, CloseNext, Reopen, Rollback,
       Restore, RestoreNext, Ensure, Recover, CloseRest, MergeChecks, FastForward,
       RestoreFastForward, MergeNormally, MergeCleansUp, MergeEnds, Panic, Request, Begin,
       TerminalWrites, OthersChange,
       SwitchBranch, Read, Hook, OtherBegins, ShowWorkspace, SelectWorkspace,
       Reconcile, Autosave
  <2> QED
    BY <1>k, <2>1
<1> QED
  BY <1>1, <1>2, <1>3, <1>4 DEF Next, TxnStep, OpenStep, RemoveStep, Others

LEMMA ShownOnceNext ==
  Typed /\ OpenedIsThere /\ SavedOnce /\ ShownOnce /\ [Next]_vars => SavedOnce' /\ ShownOnce'
<1> SUFFICES ASSUME Typed, OpenedIsThere, SavedOnce, ShownOnce, [Next]_vars
             PROVE  SavedOnce' /\ ShownOnce'
  OBVIOUS
<1>1. SavedOnce'
  <2>1. CASE Autosave
    BY <2>1 DEF Autosave, Snapshot, SavedOnce, ShownOnce, Open
  <2>2. CASE UNCHANGED saved
    BY <2>2 DEF SavedOnce
  <2> QED
    BY <2>1, <2>2, SavedByAutosave
<1>2. ShownOnce'
  <2>1. CASE Shrinks
    BY <2>1 DEF Shrinks, ShownOnce
  <2>2. ASSUME NEW b, Grows(b), b = NoBranch \/ \A v \in Open : tree[v] # b PROVE ShownOnce'
    BY <2>2 DEF Grows, Fresh, OpenWorkspace, ShownOnce, Open
  <2>3. CASE At("open", "find") /\ Showing(txn.b) = {} /\ Grows(txn.b)
    BY <2>2, <2>3 DEF OpenedIsThere, Showing
  <2>4. CASE Restart
    <3>1. Open' = DOMAIN saved.tree
      BY <2>4 DEF Restart, RestoredTree, Open
    <3>2. \A v \in Open' : tree'[v] = saved.tree[v] \/ tree'[v] = NoBranch
      BY <2>4, <3>1 DEF Restart, RestoredTree
    <3> QED
      BY <3>1, <3>2 DEF SavedOnce, ShownOnce
  <2> QED
    BY <2>1, <2>2, <2>3, <2>4, TreeMoves
<1> QED
  BY <1>1, <1>2

LEMMA ShownInit == Init => Shown
<1> SUFFICES ASSUME Init PROVE Shown
  OBVIOUS
<1>1. PICK w \in Workspaces : tree = [v \in {w} |-> NoBranch]
  BY DEF Init
<1>2. SavedOnce /\ ShownOnce
  BY <1>1 DEF Init, Snapshot, SavedOnce, ShownOnce, Open
<1> QED
  BY <1>2, IdleFields
  DEF Init, Shown, BranchesKnown, HeadsKnown, MergeProgress, MergeSettles, OpenedIsThere, At

LEMMA ShownNext == Typed /\ Shown /\ [Next]_vars => Shown'
BY BranchesKnownNext, HeadsKnownNext, MergeProgressNext, OpenedIsThereNext, ShownOnceNext DEF Shown

(* Branches are deleted by what rolls an open back, and nothing else.      *)
LEMMA BranchesMove ==
  ASSUME [Next]_vars
  PROVE  \/ branches \subseteq branches'
         \/ txn.branchCreated /\ branches \ {txn.b} \subseteq branches'
         \/ branches \ {txn.doomed} \subseteq branches'
BY DEF Next, TxnStep, OpenStep, FilesystemStep, RemoveStep, MergeStep, Others, vars, git, GitOpens,
   PruneStale, GitAdds, DropCreatedBranch, LockToOpen, FindOrCreate, Inventory, SpawnNext, Unspawn,
   UndoOpen, Prepare, Verify, StartDelete, Delete, Unregister, BranchAfterRemoval, LockToRemove,
   LockGates, BeginRemoval, SpawnSpare,
   CloseNext, Reopen, Abandon, Rollback, UndoSpare, Restore, RestoreNext, Commit, Ensure, Recover,
   CloseRest, CommitRest, DropSpare, MergeChecks, FastForward, RestoreFastForward, MergeNormally,
   MergeCleansUp, MergeEnds, Panic, Request, Begin, TerminalWrites, OthersChange,
   SwitchBranch, Read, Hook,
   OtherBegins, OtherEnds, ShowWorkspace, Reconcile, Autosave, Restart

-----------------------------------------------------------------------------
(* The third layer, one action at a time.                                  *)

LEMMA RemovalInit == Init => Removal
BY IdleFields DEF Init, Removal, Untouched, AtRecovery, Removing, TargetOpen, Destroyed,
   OthersStayOpen, TerminalsKnown, TargetQuiet, TargetClean

(* What can follow when a removal is at work afterwards.                   *)
LEMMA RemovalMoves ==
  ASSUME txn \in Txn, [Next]_vars, txn'.op = "remove"
  PROVE  \/ Request \/ Others \/ Reconcile \/ Autosave \/ UNCHANGED vars
         \/ txn.op = "remove" /\ (FilesystemStep \/ RemoveStep \/ Panic)
<1>1. CASE txn.op = "remove"
  <2>1. ~OpenStep
    BY <1>1 DEF OpenStep, GitOpens, PruneStale, GitAdds, LockToOpen, FindOrCreate, Inventory,
       SpawnNext, Unspawn, UndoOpen, At
  <2>2. ~MergeStep
    BY <1>1 DEF MergeStep, MergeChecks, FastForward, RestoreFastForward, MergeNormally,
       MergeCleansUp, MergeEnds, At
  <2>3. ~Restart
    BY IdleFields DEF Restart
  <2> QED
    BY <1>1, <2>1, <2>2, <2>3 DEF Next, TxnStep
<1>2. CASE txn.op # "remove"
  <2>1. txn' # Idle
    BY IdleFields
  <2>2. ~Goes /\ ~SameTask
    BY <1>2 DEF Goes, SameTask
  <2>3. ~MergeStep
    BY <2>1, <2>2, MergeMoves
  <2>4. ~GitOpens /\ ~PruneStale /\ ~FindOrCreate
    BY <1>2, <2>1 DEF GitOpens, PruneStale, FindOrCreate, Finish, Step, Txn
  <2>5. ~BeginRemoval
    BY <1>2 DEF BeginRemoval, At
  <2> QED
    BY <2>1, <2>2, <2>3, <2>4, <2>5, Moves
<1> QED
  BY <1>1, <1>2

Kept ==
  /\ txn'.op = "remove" /\ txn'.b = txn.b /\ txn'.w = txn.w
  /\ txn'.initial = txn.initial /\ txn'.surfaces = txn.surfaces /\ txn'.had = txn.had

(* Who else acts while a removal of a shown worktree is at work.           *)
LEMMA RemovalAmongOthers ==
  ASSUME Typed, Removal, Others \/ Reconcile \/ Autosave \/ UNCHANGED vars
  PROVE  Removal'
<1>1. txn' = txn /\ (surfaceSet = "txn" => UNCHANGED <<tree, panes, blocked, runtime>>)
  BY OthersKeep
<1>2. Removing \/ txn.at \in FilesystemAt => surfaceSet = "txn"
  BY DEF Typed, Control, Guarded, GuardedAt, Removing
<1>3. Untouched' /\ AtRecovery'
  BY <1>1 DEF Removal, Untouched, AtRecovery, Removing
<1>4. TargetOpen' /\ Destroyed' /\ OthersStayOpen' /\ TerminalsKnown'
  BY <1>1, <1>2 DEF Removal, Removing, TargetOpen, Destroyed, OthersStayOpen, TerminalsKnown,
     Open, SurfacesOf
<1>5. TargetQuiet'
  BY <1>1, <1>2 DEF Removal, Removing, TargetQuiet, Quiet, Open, SurfacesOf
<1>6. TargetClean'
  <2> SUFFICES ASSUME txn.op = "remove", txn.at \in {"delete", "deleting"}
               PROVE  dir'[txn.b] \in {"clean", "none"}
    BY <1>1 DEF TargetClean
  <2>1. Quiet /\ dir[txn.b] \in {"clean", "none"} /\ txn.b \in Branches
        /\ dir \in [Branches -> Dir]
    BY DEF Removal, TargetQuiet, TargetClean, FilesystemAt, Typed, Control, HasBranch, StoresOK
  <2>2. ASSUME NEW w \in Open, TerminalWrites(w) PROVE dir'[txn.b] = dir[txn.b]
    BY <2>1, <2>2 DEF TerminalWrites, Quiet
  <2>3. ASSUME NEW b \in Branches, OthersChange(b) PROVE dir'[txn.b] \in {dir[txn.b], "none"}
    BY <2>1, <2>3 DEF OthersChange
  <2>4. CASE UNCHANGED dir
    BY <2>1, <2>4
  <2> QED
    BY <2>1, <2>2, <2>3, <2>4
    DEF Others, SwitchBranch, Read, Hook, OtherBegins, OtherEnds, ShowWorkspace, Reconcile,
        Autosave, vars, git
<1> QED
  BY <1>3, <1>4, <1>5, <1>6 DEF Removal

(* The work on the file system, which leaves workspaces and terminals.     *)
LEMMA RemovalOfFiles ==
  ASSUME Typed, Shown, Removal, txn.op = "remove", FilesystemStep, txn' # Idle
  PROVE  Removal'
<1>t. txn \in Txn /\ txn.b \in Branches /\ dir \in [Branches -> Dir]
  <2>1. txn.at # "idle"
    BY DEF FilesystemStep, Prepare, Verify, StartDelete, Delete, Unregister
  <2> QED
    BY <2>1 DEF Typed, Control, StoresOK, HasBranch
<1>u. UNCHANGED <<tree, panes, active, blocked, runtime>>
  BY DEF FilesystemStep, Prepare, Verify, StartDelete, Delete, Unregister, model
<1>r. /\ Untouched /\ AtRecovery /\ TargetOpen /\ Destroyed /\ OthersStayOpen /\ TerminalsKnown
      /\ TargetQuiet /\ TargetClean
  BY DEF Removal
<1>q. ASSUME Quiet, txn'.b = txn.b PROVE Quiet'
  BY <1>q, <1>u DEF Quiet, Open, SurfacesOf
(* On to the next step of it.                                              *)
<1>n. ASSUME Kept, UNCHANGED <<txn.phase, txn.recovering, txn.spare>>,
             txn'.progress = txn.progress \/ Irreversible(txn'.progress),
             txn.at \in FilesystemAt, txn'.at \in FilesystemAt,
             txn'.at \in {"delete", "deleting"} => dir'[txn.b] \in {"clean", "none"}
      PROVE  Removal'
  <2>1. Quiet'
    BY <1>n, <1>q, <1>r DEF TargetQuiet, Kept
  <2>2. Untouched' /\ AtRecovery' /\ Destroyed' /\ TargetClean'
    BY <1>n, <1>r DEF Untouched, AtRecovery, Destroyed, TargetClean, Removing, Kept, FilesystemAt,
       Irreversible
  <2>3. TargetOpen' /\ OthersStayOpen' /\ TerminalsKnown'
    BY <1>n, <1>r, <1>u DEF TargetOpen, OthersStayOpen, TerminalsKnown, Removing, Kept,
       FilesystemAt, Irreversible, Open, SurfacesOf
  <2>4. TargetQuiet'
    BY <1>n, <2>1 DEF TargetQuiet, Kept, FilesystemAt
  <2> QED
    BY <2>2, <2>3, <2>4 DEF Removal
(* Or out of it.                                                           *)
<1>o. ASSUME NEW ok, NEW p \in Progress, AfterFilesystem(ok, p), txn.at \in FilesystemAt,
             ok => Irreversible(p), p = txn.progress \/ Irreversible(p)
      PROVE  Removal'
  <2>1. PICK a \in {"closeRest", "dropSpare", "commit", "rollback"},
             f \in {txn.phase, "filesystemCommitted", "rollbackStarted"} :
          /\ GoesOn(p, a, f)
          /\ txn.recovering => a \in {"closeRest", "dropSpare"} /\ f = txn.phase
          /\ ~txn.recovering => a \in {"commit", "rollback"} /\ f # "filesystemStarted"
          /\ a \in {"closeRest", "commit"} <=> Irreversible(p)
          /\ f = "filesystemCommitted" => (Irreversible(p) \/ f = txn.phase)
    <3>1. ~Finish
      BY DEF Finish
    <3>2. CASE txn.recovering /\ Irreversible(p)
      BY <1>o, <1>t, <3>1, <3>2, AfterFilesystemDoes
    <3>3. CASE txn.recovering /\ ~Irreversible(p)
      BY <1>o, <1>t, <3>1, <3>3, AfterFilesystemDoes
    <3>4. CASE ~txn.recovering /\ Irreversible(p)
      BY <1>o, <1>t, <3>1, <3>4, AfterFilesystemDoes
    <3>5. CASE ~txn.recovering /\ ~Irreversible(p)
      BY <1>o, <1>t, <3>1, <3>5, AfterFilesystemDoes
    <3> QED
      BY <3>2, <3>3, <3>4, <3>5
  <2>2. /\ Kept /\ Removing /\ UNCHANGED <<txn.recovering, txn.spare>>
        /\ txn'.at = a /\ txn'.phase = f /\ txn'.progress = p /\ txn'.todo = txn.surfaces
    BY <1>t, <2>1 DEF GoesOn, Kept, Removing, Txn
  <2>3. Untouched' /\ AtRecovery' /\ Destroyed' /\ TargetClean'
    BY <1>o, <1>r, <2>1, <2>2 DEF Untouched, AtRecovery, Destroyed, TargetClean, Removing, Kept,
       FilesystemAt, Irreversible
  <2>4. TargetOpen' /\ OthersStayOpen' /\ TerminalsKnown'
    BY <1>o, <1>r, <1>u, <2>1, <2>2 DEF TargetOpen, OthersStayOpen, TerminalsKnown, Removing, Kept,
       FilesystemAt, Irreversible, Open, SurfacesOf
  <2>5. TargetQuiet'
    <3>1. txn.w \in Open /\ tree[txn.w] = txn.b /\ txn.surfaces = SurfacesOf(txn.w)
      BY <1>o, <1>r, <2>2 DEF TargetOpen, FilesystemAt
    <3>2. txn.surfaces \cap runtime = {}
      BY <1>o, <1>r, <3>1 DEF TargetQuiet, Quiet
    <3> QED
      BY <1>u, <2>1, <2>2, <3>2 DEF TargetQuiet, Kept, FilesystemAt
  <2> QED
    BY <2>3, <2>4, <2>5 DEF Removal
<1>p. txn.progress \in Progress /\ "registrationRemoved" \in Progress
      /\ Irreversible("registrationRemoved")
  BY <1>t DEF Txn, Progress, Irreversible
<1>1. CASE Prepare
  <2>1. txn.at = "prepare" /\ txn' = [txn EXCEPT !.at = "wantSurfaces", !.doomed = Doomed(txn)]
    BY <1>1 DEF Prepare, Finish
  <2>2. /\ Kept /\ UNCHANGED <<txn.progress, txn.phase, txn.recovering, txn.spare>>
        /\ txn'.at = "wantSurfaces"
    BY <1>t, <2>1 DEF Kept, Txn
  <2> QED
    BY <1>r, <2>1, <2>2 DEF Removal, Removing, Kept, Untouched, AtRecovery, TargetOpen, Destroyed,
       OthersStayOpen, TerminalsKnown, TargetQuiet, TargetClean, FilesystemAt
<1>2. CASE Verify
  <2>0. txn.at \in FilesystemAt /\ UNCHANGED dir
    BY <1>2 DEF Verify, FilesystemAt, git
  <2>1. CASE \E p \in {txn.progress, "registrationRemoved"} : AfterFilesystem(FALSE, p)
    BY <1>o, <1>p, <2>0, <2>1
  <2>2. ASSUME NEW a, Step(a), a = IF dir[txn.b] = "none" THEN "unregister" ELSE "delete",
               dir[txn.b] = "none" \/ Removable(dir[txn.b])
        PROVE  Removal'
    <3>1. /\ Kept /\ UNCHANGED <<txn.progress, txn.phase, txn.recovering, txn.spare>>
          /\ txn'.at = a
      BY <1>t, <2>2 DEF Step, Kept, Txn
    <3>2. txn'.at \in FilesystemAt
      BY <2>2, <3>1 DEF FilesystemAt
    <3>3. txn'.at = "delete" => dir'[txn.b] = "clean"
      BY <2>0, <2>2, <3>1 DEF Removable
    <3> QED
      BY <1>n, <2>0, <2>2, <3>1, <3>2, <3>3
  <2> QED
    BY <1>2, <2>1, <2>2 DEF Verify
<1>3. CASE StartDelete
  <2>1. /\ txn.at = "delete" /\ UNCHANGED dir
        /\ txn' = [txn EXCEPT !.at = "deleting", !.progress = "targetRemovalStarted"]
    BY <1>3 DEF StartDelete, git
  <2>2. /\ Kept /\ UNCHANGED <<txn.phase, txn.recovering, txn.spare>>
        /\ txn'.at = "deleting" /\ txn'.progress = "targetRemovalStarted"
    BY <1>t, <2>1 DEF Kept, Txn
  <2>3. dir'[txn.b] \in {"clean", "none"}
    BY <1>r, <2>1 DEF TargetClean
  <2> QED
    BY <1>n, <2>1, <2>2, <2>3 DEF FilesystemAt, Irreversible
<1>4. CASE Delete
  <2>0. txn.at \in FilesystemAt
    BY <1>4 DEF Delete, FilesystemAt
  <2>1. CASE AfterFilesystem(FALSE, txn.progress)
    BY <1>o, <1>p, <2>0, <2>1
  <2>2. CASE txn' = [txn EXCEPT !.at = "unregister", !.progress = "targetRemoved"]
    <3>1. /\ Kept /\ UNCHANGED <<txn.phase, txn.recovering, txn.spare>>
          /\ txn'.at = "unregister" /\ txn'.progress = "targetRemoved"
      BY <1>t, <2>2 DEF Kept, Txn
    <3> QED
      BY <1>n, <2>0, <3>1 DEF FilesystemAt, Irreversible
  <2> QED
    BY <1>4, <2>1, <2>2 DEF Delete
<1>5. CASE Unregister
  <2>0. txn.at \in FilesystemAt
    BY <1>5 DEF Unregister, FilesystemAt
  <2> QED
    BY <1>5, <1>o, <1>p, <2>0 DEF Unregister
<1> QED
  BY <1>1, <1>2, <1>3, <1>4, <1>5 DEF FilesystemStep

(* Its workspace and terminals, and panics.                                *)
LEMMA RemovalOfWorkspace ==
  ASSUME Typed, Shown, Removal, txn.op = "remove", RemoveStep \/ Panic, txn' # Idle
  PROVE  Removal'
<1>t. /\ txn \in Txn /\ StoresOK /\ Open \subseteq Workspaces /\ NoWorkspace \notin Workspaces
      /\ runtime \subseteq Surfaces /\ blocked \subseteq Surfaces
  BY WorktreeAssumption DEF Typed, Control, StoresOK
<1>x. ~Finish
  BY DEF Finish
<1>r. /\ Untouched /\ AtRecovery /\ TargetOpen /\ Destroyed /\ OthersStayOpen /\ TerminalsKnown
      /\ TargetQuiet /\ TargetClean
  BY DEF Removal
<1> USE DEF At
<1>1. CASE LockToRemove
  <2>0. /\ txn.at = "wantSurfaces" /\ txn.progress = "prepared" /\ ~txn.recovering
        /\ txn.phase = "beforeFilesystemCommit" /\ txn.spare = NoWorkspace /\ txn.w = NoWorkspace
        /\ UNCHANGED <<tree, panes, blocked, runtime>>
    BY <1>1, <1>r DEF LockToRemove, Untouched, model
  <2>1. ASSUME \A w \in Open : tree[w] # txn.b, Step("verify") PROVE Removal'
    <3>1. Kept /\ txn'.at = "verify"
      BY <1>1, <1>t, <2>1 DEF LockToRemove, Step, Kept, Txn
    <3>2. Quiet'
      BY <2>0, <2>1, <3>1 DEF Quiet, Kept, Open
    <3> QED
      BY <2>0, <3>1, <3>2 DEF Removal, Removing, Kept, Untouched, AtRecovery, TargetOpen,
         Destroyed, OthersStayOpen, TerminalsKnown, TargetQuiet, TargetClean, FilesystemAt
  <2>2. ASSUME NEW w \in Open, tree[w] = txn.b,
               txn' = [txn EXCEPT !.at = "wantGates", !.w = w, !.prev = active,
                                  !.surfaces = SurfacesOf(w), !.initial = Open,
                                  !.had = SurfacesOf(w) \cap runtime,
                                  !.existed = dir[txn.b] # "none"]
        PROVE  Removal'
    <3>1. /\ txn'.op = "remove" /\ txn'.at = "wantGates" /\ txn'.b = txn.b /\ txn'.w = w
          /\ txn'.surfaces = SurfacesOf(w) /\ txn'.initial = Open
          /\ txn'.had = SurfacesOf(w) \cap runtime
          /\ UNCHANGED <<txn.progress, txn.phase, txn.recovering, txn.spare>>
      BY <1>1, <1>t, <2>2 DEF LockToRemove, Txn
    <3>2. SurfacesOf(w) \subseteq {w} \X Panes
      BY <1>t DEF SurfacesOf, StoresOK
    <3>3. TargetOpen'
      BY <2>0, <2>2, <3>1, <3>2 DEF TargetOpen, Open, SurfacesOf
    <3> QED
      BY <1>t, <2>0, <3>1, <3>3 DEF Removal, Removing, Untouched, AtRecovery, Destroyed,
         OthersStayOpen, TerminalsKnown, TargetQuiet, TargetClean, Irreversible, Open, FilesystemAt
  <2> QED
    BY <1>1, <2>1, <2>2 DEF LockToRemove
<1>w. ~LockToRemove => Removing
  <2>1. txn.at \notin {"wantSurfaces", "prepare"} \cup FilesystemAt \/ LockToRemove \/ Panic
    BY DEF RemoveStep, LockGates, BeginRemoval, SpawnSpare, CloseNext, Reopen, Abandon, Rollback,
       UndoSpare, Restore, RestoreNext, Commit, Ensure, Recover, CloseRest, CommitRest, DropSpare,
       FilesystemAt
  <2> QED
    BY <1>r, <2>1 DEF Panic, Removing, Untouched
(* The workspace is as it was found unless it is being destroyed.          *)
<1>o. ASSUME Removing, txn.at \notin {"recover", "closeRest", "commitRest", "ensure"}
             \/ ~Irreversible(txn.progress)
      PROVE  /\ txn.w \in Open /\ tree[txn.w] = txn.b /\ txn.surfaces = SurfacesOf(txn.w)
             /\ txn.w \in txn.initial
  BY <1>o, <1>r DEF TargetOpen
(* No workspace is touched.                                                *)
<1>k. ASSUME Kept, Removing, UNCHANGED <<tree, panes>>,
             UNCHANGED <<txn.progress, txn.spare>>, txn.recovering => txn'.recovering,
             txn'.at = "restore" => Open = txn.initial,
             txn'.at \in {"wantGates", "begin"} => txn.at \in {"wantGates", "begin"},
             \/ txn.at \notin {"recover", "closeRest", "commitRest", "ensure"}
             \/ ~Irreversible(txn.progress)
             \/ txn'.at \in {"recover", "closeRest", "commitRest", "ensure"}
      PROVE  TargetOpen' /\ OthersStayOpen'
  <2>1. TargetOpen'
    BY <1>k, <1>r DEF TargetOpen, Kept, Removing, Open, SurfacesOf
  <2>2. OthersStayOpen'
    BY <1>k, <1>r DEF OthersStayOpen, Kept, Removing, Open
  <2> QED
    BY <2>1, <2>2
<1>q. ASSUME Kept, Quiet, UNCHANGED <<tree, panes>>, runtime' \subseteq runtime PROVE Quiet'
  BY <1>q DEF Kept, Quiet, Open, SurfacesOf
<1>2. CASE LockGates
  <2>1. /\ Kept /\ txn.at = "wantGates" /\ txn'.at = "begin"
        /\ UNCHANGED <<txn.progress, txn.phase, txn.recovering, txn.spare>>
        /\ UNCHANGED <<tree, panes, blocked, runtime>>
    BY <1>2, <1>t DEF LockGates, Step, Kept, Txn, model
  <2>2. TargetOpen' /\ OthersStayOpen'
    BY <1>2, <1>k, <1>w, <2>1, <1>r DEF LockGates, LockToRemove
  <2> QED
    BY <1>r, <2>1, <2>2 DEF Removal, Removing, Kept, Untouched, AtRecovery, Destroyed,
       TerminalsKnown, TargetQuiet, TargetClean, FilesystemAt
<1>3. CASE BeginRemoval
  <2>0. /\ Removing /\ txn.at = "begin" /\ ~Irreversible(txn.progress) /\ ~txn.recovering
        /\ txn.spare = NoWorkspace /\ Open = txn.initial /\ txn.had \subseteq runtime
        /\ txn.phase # "filesystemStarted" /\ UNCHANGED runtime
    BY <1>3, <1>r, <1>t, <1>w
    DEF BeginRemoval, LockToRemove, AtRecovery, Destroyed, OthersStayOpen, TerminalsKnown,
        FilesystemAt
  <2>1. CASE txn' = [txn EXCEPT !.at = "close", !.todo = txn.surfaces] /\ UNCHANGED model
    <3>1. /\ Kept /\ txn'.at = "close" /\ txn'.todo = txn.surfaces
          /\ UNCHANGED <<txn.progress, txn.phase, txn.recovering, txn.spare>>
          /\ UNCHANGED <<tree, panes, blocked>>
      BY <1>3, <1>t, <2>1 DEF BeginRemoval, Kept, Txn, model
    <3>2. TargetOpen' /\ OthersStayOpen'
      BY <1>k, <2>0, <3>1
    <3>3. TargetQuiet'
      BY <1>o, <2>0, <3>1 DEF TargetQuiet, Kept, FilesystemAt, SurfacesOf
    <3> QED
      BY <2>0, <3>1, <3>2, <3>3 DEF Removal, Removing, Kept, Untouched, AtRecovery, Destroyed,
         TerminalsKnown, TargetClean, FilesystemAt
  <2>2. ASSUME NEW w \in Fresh, OpenWorkspace(w, NoBranch),
               txn' = [txn EXCEPT !.at = "spawnSpare", !.spare = w]
        PROVE  Removal'
    <3>1. /\ Kept /\ txn'.at = "spawnSpare" /\ txn'.spare = w
          /\ UNCHANGED <<txn.progress, txn.phase, txn.recovering>>
      BY <1>3, <1>t, <2>2 DEF BeginRemoval, Kept, Txn
    <3>2. /\ w \notin Open /\ w # NoWorkspace /\ Open' = Open \cup {w}
          /\ \A v \in Open : tree'[v] = tree[v] /\ panes'[v] = panes[v]
      BY <1>t, <2>2 DEF Fresh, OpenWorkspace, Open
    <3>3. TargetOpen'
      BY <1>o, <1>r, <2>0, <3>1, <3>2 DEF TargetOpen, Kept, Removing, SurfacesOf
    <3>4. OthersStayOpen'
      BY <2>0, <3>1, <3>2 DEF OthersStayOpen, Kept, Removing
    <3> QED
      BY <2>0, <3>1, <3>3, <3>4 DEF Removal, Removing, Kept, Untouched, AtRecovery, Destroyed,
         TerminalsKnown, TargetQuiet, TargetClean, FilesystemAt
  <2> QED
    BY <1>3, <1>x, <2>1, <2>2 DEF BeginRemoval
<1>4. CASE SpawnSpare
  <2>0. /\ Removing /\ txn.at = "spawnSpare" /\ ~Irreversible(txn.progress) /\ ~txn.recovering
        /\ txn.had \subseteq runtime /\ txn.phase # "filesystemStarted"
    BY <1>4, <1>r, <1>w
    DEF SpawnSpare, LockToRemove, AtRecovery, Destroyed, TerminalsKnown, FilesystemAt
  <2>1. /\ Kept /\ txn'.at = "close" /\ txn'.todo = txn.surfaces
        /\ UNCHANGED <<txn.progress, txn.phase, txn.recovering, txn.spare>>
        /\ UNCHANGED <<tree, panes, blocked>> /\ runtime \subseteq runtime'
    BY <1>4, <1>t, <1>x DEF SpawnSpare, Kept, Txn, model
  <2>2. TargetOpen' /\ OthersStayOpen'
    BY <1>k, <2>0, <2>1
  <2>3. TargetQuiet'
    BY <1>o, <2>0, <2>1 DEF TargetQuiet, Kept, FilesystemAt, SurfacesOf
  <2> QED
    BY <2>0, <2>1, <2>2, <2>3 DEF Removal, Removing, Kept, Untouched, AtRecovery, Destroyed,
       TerminalsKnown, TargetClean, FilesystemAt
<1>5. CASE CloseNext
  <2>0. /\ Removing /\ txn.at = "close" /\ ~Irreversible(txn.progress) /\ ~txn.recovering
        /\ txn.had \subseteq runtime \cup txn.done /\ txn.phase # "filesystemStarted"
        /\ SurfacesOf(txn.w) \cap runtime \subseteq txn.todo
        /\ UNCHANGED <<tree, panes, blocked>>
    BY <1>5, <1>r, <1>w
    DEF CloseNext, LockToRemove, AtRecovery, Destroyed, TerminalsKnown, TargetQuiet, FilesystemAt,
        model
  <2>1. CASE txn.todo = {} /\ UNCHANGED runtime
             /\ txn' = [txn EXCEPT !.at = "verify", !.phase = "filesystemStarted"]
    <3>1. /\ Kept /\ txn'.at = "verify" /\ txn'.phase = "filesystemStarted"
          /\ UNCHANGED <<txn.progress, txn.recovering, txn.spare>>
      BY <1>5, <1>t, <2>1 DEF CloseNext, Kept, Txn
    <3>2. TargetOpen' /\ OthersStayOpen'
      BY <1>k, <2>0, <3>1
    <3>3. Quiet
      <4>1. \A v \in Open : tree[v] = txn.b => v = txn.w
        BY <1>o, <2>0, WorktreeAssumption DEF Shown, ShownOnce, Typed, Control, HasBranch
      <4> QED
        BY <2>0, <2>1, <4>1 DEF Quiet
    <3>4. Quiet'
      BY <1>q, <2>0, <2>1, <3>1, <3>3
    <3> QED
      BY <2>0, <3>1, <3>2, <3>4 DEF Removal, Removing, Kept, Untouched, AtRecovery, Destroyed,
         TerminalsKnown, TargetQuiet, TargetClean, FilesystemAt
  <2>2. ASSUME NEW s \in txn.todo, runtime' = runtime \ {s},
               txn' = [txn EXCEPT !.todo = @ \ {s},
                                  !.done = IF s \in runtime THEN @ \cup {s} ELSE @]
        PROVE  Removal'
    <3>1. /\ Kept /\ txn'.at = "close" /\ txn'.todo = txn.todo \ {s}
          /\ txn'.done = IF s \in runtime THEN txn.done \cup {s} ELSE txn.done
          /\ UNCHANGED <<txn.progress, txn.phase, txn.recovering, txn.spare>>
      BY <1>5, <1>t, <2>0, <2>2 DEF CloseNext, Kept, Txn
    <3>2. TargetOpen' /\ OthersStayOpen'
      BY <1>k, <2>0, <3>1
    <3>3. TargetQuiet'
      BY <2>0, <2>2, <3>1 DEF TargetQuiet, Kept, FilesystemAt, SurfacesOf
    <3> QED
      BY <2>0, <2>2, <3>1, <3>2, <3>3 DEF Removal, Removing, Kept, Untouched, AtRecovery,
         Destroyed, TerminalsKnown, TargetClean, FilesystemAt
  <2>3. CASE txn' = [txn EXCEPT !.at = "reopen", !.todo = txn.done] /\ UNCHANGED runtime
    <3>1. /\ Kept /\ txn'.at = "reopen" /\ txn'.todo = txn.done
          /\ UNCHANGED <<txn.progress, txn.phase, txn.recovering, txn.spare>>
      BY <1>5, <1>t, <2>3 DEF CloseNext, Kept, Txn
    <3>2. TargetOpen' /\ OthersStayOpen'
      BY <1>k, <2>0, <3>1
    <3> QED
      BY <2>0, <2>3, <3>1, <3>2 DEF Removal, Removing, Kept, Untouched, AtRecovery, Destroyed,
         TerminalsKnown, TargetQuiet, TargetClean, FilesystemAt
  <2> QED
    BY <1>5, <2>1, <2>2, <2>3 DEF CloseNext
(* A terminal, or its mark, comes back.                                    *)
<1>s. ASSUME NEW a \in {"reopen", "restore"}, NEW s \in txn.todo, txn.at = a, Removing,
             RestoreTerminal(s), txn' = [txn EXCEPT !.todo = @ \ {s}], UNCHANGED <<tree, panes>>
      PROVE  Removal'
  <2>1. /\ Kept /\ txn'.at = a /\ txn'.todo = txn.todo \ {s}
        /\ UNCHANGED <<txn.progress, txn.phase, txn.recovering, txn.spare>>
    BY <1>s, <1>t DEF Kept, Removing, Txn
  <2>2. s \in Surfaces
    BY <1>t DEF Txn
  <2>3. runtime \subseteq runtime' /\ blocked \subseteq blocked' /\ s \in runtime' \cup blocked'
    BY <1>s, <1>t, <2>2, SpawnTerminalDoes DEF RestoreTerminal
  <2>4. TargetOpen' /\ OthersStayOpen'
    BY <1>k, <1>r, <1>s, <2>1 DEF OthersStayOpen, Destroyed
  <2>5. TerminalsKnown'
    BY <1>r, <1>s, <2>1, <2>3 DEF TerminalsKnown, Kept, Removing
  <2> QED
    BY <1>r, <1>s, <2>1, <2>4, <2>5 DEF Removal, Removing, Kept, Untouched, AtRecovery, Destroyed,
       TargetQuiet, TargetClean, FilesystemAt
<1>6. CASE Reopen
  <2>0. Removing /\ txn.at = "reopen" /\ UNCHANGED <<tree, panes>>
    BY <1>6, <1>w DEF Reopen, RestoreNext, LockToRemove
  <2>1. CASE txn.todo = {} /\ UNCHANGED <<blocked, runtime>> /\ Step("abandon")
    <3>1. /\ Kept /\ txn'.at = "abandon"
          /\ UNCHANGED <<txn.progress, txn.phase, txn.recovering, txn.spare>>
      BY <1>t, <2>0, <2>1 DEF Step, Kept, Removing, Txn
    <3>2. TargetOpen' /\ OthersStayOpen'
      BY <1>k, <2>0, <3>1
    <3> QED
      BY <1>r, <2>0, <2>1, <3>1, <3>2 DEF Removal, Removing, Kept, Untouched, AtRecovery,
         Destroyed, TerminalsKnown, TargetQuiet, TargetClean, FilesystemAt
  <2>2. ASSUME NEW s \in txn.todo, RestoreTerminal(s), txn' = [txn EXCEPT !.todo = @ \ {s}]
        PROVE  Removal'
    BY <1>s, <2>0, <2>2
  <2> QED
    BY <1>6, <1>x, <2>1, <2>2 DEF Reopen, RestoreNext
<1>7. CASE Restore
  <2>0. Removing /\ txn.at = "restore" /\ UNCHANGED <<tree, panes>>
    BY <1>7, <1>w DEF Restore, RestoreNext, LockToRemove
  <2> QED
    BY <1>7, <1>s, <1>x, <2>0 DEF Restore, RestoreNext
<1>8. CASE Abandon \/ Ensure
  BY <1>8, <1>x DEF Abandon, Ensure
<1>9. CASE Rollback
  <2>0. Removing /\ txn.at = "rollback" /\ ~Irreversible(txn.progress) /\ ~txn.recovering
        /\ UNCHANGED <<tree, panes, blocked, runtime>>
    BY <1>9, <1>r, <1>w DEF Rollback, LockToRemove, AtRecovery, Destroyed, model
  <2>1. /\ Kept /\ txn'.at = IF txn.spare = NoWorkspace THEN "restore" ELSE "undoSpare"
        /\ UNCHANGED <<txn.progress, txn.phase, txn.recovering, txn.spare, txn.todo>>
    BY <1>9, <1>t DEF Rollback, Kept, Txn
  <2>2. txn.spare = NoWorkspace => Open = txn.initial
    BY <1>r, <2>0 DEF OthersStayOpen
  <2>3. TargetOpen' /\ OthersStayOpen'
    BY <1>k, <2>0, <2>1, <2>2
  <2>4. TerminalsKnown'
    BY <1>r, <2>0, <2>1 DEF TerminalsKnown, Kept, Removing
  <2> QED
    BY <1>r, <2>0, <2>1, <2>3, <2>4 DEF Removal, Removing, Kept, Untouched, AtRecovery, Destroyed,
       TargetQuiet, TargetClean, FilesystemAt
<1>10. CASE UndoSpare
  <2>0. Removing /\ txn.at = "undoSpare" /\ ~Irreversible(txn.progress) /\ ~txn.recovering
        /\ txn.initial \subseteq Open /\ Open = txn.initial \cup ({txn.spare} \ {NoWorkspace})
        /\ (txn.spare # NoWorkspace => txn.spare \notin txn.initial)
    BY <1>10, <1>r, <1>w DEF UndoSpare, LockToRemove, AtRecovery, Destroyed, OthersStayOpen
  <2>1. /\ Kept /\ txn'.at = "restore" /\ txn'.spare = NoWorkspace
        /\ UNCHANGED <<txn.progress, txn.phase, txn.recovering, txn.todo>>
    BY <1>10, <1>t DEF UndoSpare, Kept, Txn
  <2>2. Open' = Open \ {txn.spare} /\ \A v \in Open' : tree'[v] = tree[v] /\ panes'[v] = panes[v]
    BY <1>10, <1>t, CloseWorkspacesDoes DEF UndoSpare, DropSpareWorkspace
  <2>3. Open' = txn.initial
    BY <1>t, <2>0, <2>2
  <2>4. TargetOpen' /\ OthersStayOpen'
    BY <1>o, <1>r, <2>0, <2>1, <2>2, <2>3
    DEF TargetOpen, OthersStayOpen, Kept, Removing, SurfacesOf
  <2>5. TerminalsKnown'
    BY <1>r, <2>0, <2>1 DEF TerminalsKnown, Kept, Removing
  <2> QED
    BY <1>r, <2>0, <2>1, <2>4, <2>5 DEF Removal, Removing, Kept, Untouched, AtRecovery, Destroyed,
       TargetQuiet, TargetClean, FilesystemAt
<1>11. CASE Commit
  <2>0. /\ Removing /\ txn.at = "commit" /\ Irreversible(txn.progress) /\ ~txn.recovering
        /\ txn.surfaces \cap runtime = {} /\ UNCHANGED runtime
    BY <1>11, <1>r, <1>w DEF Commit, LockToRemove, AtRecovery, Destroyed, TargetQuiet
  <2>1. /\ Kept /\ txn'.at = "ensure" /\ txn'.phase = "modelCommitted"
        /\ UNCHANGED <<txn.progress, txn.recovering, txn.spare>>
    BY <1>11, <1>t DEF Commit, Kept, Txn
  <2>2. Open' = Open \ {txn.w}
    BY <1>11, <1>t, CloseWorkspacesDoes DEF Commit
  <2>3. TargetOpen' /\ OthersStayOpen'
    BY <1>r, <2>0, <2>1 DEF TargetOpen, OthersStayOpen, Kept, Removing
  <2> QED
    BY <2>0, <2>1, <2>2, <2>3 DEF Removal, Removing, Kept, Untouched, AtRecovery, Destroyed,
       TerminalsKnown, TargetQuiet, TargetClean, FilesystemAt
<1>12. CASE Recover
  <2>0. /\ Removing /\ txn.at = "recover" /\ txn.recovering
        /\ UNCHANGED <<tree, panes, blocked, runtime>>
    BY <1>12, <1>r, <1>w DEF Recover, LockToRemove, AtRecovery, model
  <2>1. /\ Kept /\ txn'.todo = txn.surfaces
        /\ UNCHANGED <<txn.progress, txn.phase, txn.recovering, txn.spare>>
        /\ txn'.at \in {"closeRest", "verify", "dropSpare"}
        /\ txn'.at = "closeRest" => Committed
        /\ txn'.at # "closeRest" => ~Committed
        /\ txn'.at = "verify" => txn.phase = "filesystemStarted"
    BY <1>12, <1>t DEF Recover, Kept, Txn
  <2>2. /\ txn'.at = "closeRest" => Irreversible(txn.progress)
        /\ txn'.at # "closeRest" => ~Irreversible(txn.progress)
    BY <1>r, <2>0, <2>1 DEF Committed, Destroyed
  <2>3. TargetOpen' /\ OthersStayOpen'
    BY <1>k, <2>0, <2>1, <2>2
  <2>4. txn'.at = "verify" => Quiet'
    BY <1>q, <1>r, <2>0, <2>1 DEF TargetQuiet
  <2> QED
    BY <1>r, <2>0, <2>1, <2>2, <2>3, <2>4 DEF Removal, Removing, Kept, Untouched, AtRecovery,
       Destroyed, TerminalsKnown, TargetQuiet, TargetClean, FilesystemAt
<1>13. CASE CloseRest
  <2>0. /\ Removing /\ txn.at = "closeRest" /\ txn.recovering /\ Irreversible(txn.progress)
        /\ UNCHANGED <<tree, panes, blocked>>
    BY <1>13, <1>r, <1>w DEF CloseRest, LockToRemove, AtRecovery, Destroyed, model
  <2>1. /\ Kept /\ txn'.at \in {"closeRest", "commitRest"}
        /\ UNCHANGED <<txn.progress, txn.phase, txn.recovering, txn.spare>>
    BY ZenonT(40), <1>13, <1>t, <2>0 DEF CloseRest, Step, Kept, Txn
  <2>2. TargetOpen' /\ OthersStayOpen'
    BY <1>k, <2>0, <2>1
  <2> QED
    BY <2>0, <2>1, <2>2 DEF Removal, Removing, Kept, Untouched, AtRecovery, Destroyed,
       TerminalsKnown, TargetQuiet, TargetClean, FilesystemAt
<1>14. CASE CommitRest
  <2>0. /\ Removing /\ txn.at = "commitRest" /\ txn.recovering /\ Irreversible(txn.progress)
    BY <1>14, <1>r, <1>w DEF CommitRest, LockToRemove, AtRecovery, Destroyed
  <2>1. /\ Kept /\ txn'.at = "ensure"
        /\ UNCHANGED <<txn.progress, txn.phase, txn.recovering, txn.spare>>
    BY <1>14, <1>t DEF CommitRest, Step, Kept, Txn
  <2>2. txn.w \notin Open'
    <3>1. CASE txn.w \in Open
      BY <1>14, <1>t, <3>1, CloseWorkspacesDoes DEF CommitRest
    <3>2. CASE txn.w \notin Open
      BY <1>14, <3>2 DEF CommitRest, model, Open
    <3> QED
      BY <3>1, <3>2
  <2>3. TargetOpen' /\ OthersStayOpen'
    BY <1>r, <2>0, <2>1 DEF TargetOpen, OthersStayOpen, Kept, Removing
  <2> QED
    BY <2>0, <2>1, <2>2, <2>3 DEF Removal, Removing, Kept, Untouched, AtRecovery, Destroyed,
       TerminalsKnown, TargetQuiet, TargetClean, FilesystemAt
<1>15. CASE DropSpare
  <2>0. /\ Removing /\ txn.at = "dropSpare" /\ txn.recovering /\ ~Irreversible(txn.progress)
        /\ txn.initial \subseteq Open /\ txn.w \in txn.initial
        /\ (txn.spare # NoWorkspace => txn.spare \notin txn.initial)
        /\ txn.surfaces \subseteq {txn.w} \X Panes /\ txn.had \subseteq txn.surfaces
    BY <1>15, <1>r, <1>w DEF DropSpare, LockToRemove, AtRecovery, Destroyed, OthersStayOpen,
       TargetOpen
  <2>1. PICK missing \in {txn.surfaces, txn.surfaces \ runtime} :
          txn' = [txn EXCEPT !.at = "restore", !.todo = missing]
    BY <1>15 DEF DropSpare
  <2>2. /\ Kept /\ txn'.at = "restore" /\ txn'.todo = missing
        /\ UNCHANGED <<txn.progress, txn.phase, txn.recovering, txn.spare>>
    BY <1>15, <1>t, <2>1 DEF DropSpare, Kept, Txn
  <2>3. /\ Open' = Open \ Provisional
        /\ \A v \in Open' : tree'[v] = tree[v] /\ panes'[v] = panes[v]
    BY <1>15, <1>t, CloseWorkspacesDoes DEF DropSpare
  <2>4. Open' = txn.initial
    BY <2>0, <2>3 DEF Provisional
  <2>5. TargetOpen' /\ OthersStayOpen'
    BY <1>o, <2>0, <2>2, <2>3, <2>4 DEF TargetOpen, OthersStayOpen, Kept, Removing, SurfacesOf
  <2>6. txn.surfaces \ missing \subseteq runtime'
    <3>1. (Provisional \X Panes) \cap txn.surfaces = {}
      BY <2>0 DEF Provisional
    <3> QED
      BY <1>15, <2>1, <3>1 DEF DropSpare
  <2>7. TerminalsKnown'
    BY <2>0, <2>2, <2>6 DEF TerminalsKnown, Kept, Removing
  <2> QED
    BY <1>r, <2>0, <2>2, <2>5, <2>7 DEF Removal, Removing, Kept, Untouched, AtRecovery, Destroyed,
       TargetQuiet, TargetClean, FilesystemAt
<1>16. CASE Panic
  <2>0. /\ Removing /\ ~txn.recovering /\ UNCHANGED <<tree, panes, blocked, runtime>>
    BY <1>16, <1>w DEF Panic, Removing, model
  <2>1. /\ Kept /\ txn'.at = "recover" /\ txn'.recovering
        /\ UNCHANGED <<txn.progress, txn.phase, txn.spare>>
    BY <1>16, <1>t DEF Panic, Kept, Txn
  <2>2. TargetOpen' /\ OthersStayOpen'
    BY <1>k, <2>0, <2>1
  <2>3. txn.phase = "filesystemStarted" => Quiet'
    BY <1>q, <1>r, <2>0, <2>1 DEF Destroyed, TargetQuiet, Removing
  <2> QED
    BY <1>r, <2>0, <2>1, <2>2, <2>3 DEF Removal, Removing, Kept, Untouched, AtRecovery,
       Destroyed, TerminalsKnown, TargetQuiet, TargetClean, FilesystemAt
<1> QED
  BY <1>1, <1>2, <1>3, <1>4, <1>5, <1>6, <1>7, <1>8, <1>9, <1>10, <1>11, <1>12, <1>13, <1>14,
     <1>15, <1>16 DEF RemoveStep

LEMMA RemovalNext == Typed /\ Shown /\ Removal /\ [Next]_vars => Removal'
<1> SUFFICES ASSUME Typed, Shown, Removal, [Next]_vars PROVE Removal'
  OBVIOUS
<1>t. txn \in Txn
  BY DEF Typed, Control
<1>1. CASE txn'.op # "remove"
  BY <1>1 DEF Removal, Untouched, AtRecovery, Removing, TargetOpen, Destroyed, OthersStayOpen,
     TerminalsKnown, TargetQuiet, TargetClean
<1>2. CASE Request /\ txn'.op = "remove"
  <2>2. /\ txn'.at = "prepare" /\ txn'.progress = "prepared"
        /\ txn'.phase = "beforeFilesystemCommit" /\ ~txn'.recovering
        /\ txn'.spare = NoWorkspace /\ txn'.w = NoWorkspace
    BY <1>2, RequestDoes
  <2> QED
    BY <2>2 DEF Removal, Untouched, AtRecovery, Removing, TargetOpen, Destroyed, OthersStayOpen,
       TerminalsKnown, TargetQuiet, TargetClean, FilesystemAt
<1>3. CASE Others \/ Reconcile \/ Autosave \/ UNCHANGED vars
  BY <1>3, RemovalAmongOthers
<1>4. CASE txn'.op = "remove" /\ txn.op = "remove" /\ (FilesystemStep \/ RemoveStep \/ Panic)
  BY <1>4, IdleFields, RemovalOfFiles, RemovalOfWorkspace
<1> QED
  BY <1>t, <1>1, <1>2, <1>3, <1>4, RemovalMoves

(* The inductive invariant.                                                *)
IInv == Typed /\ Shown /\ Removal

THEOREM Invariant == Spec => []IInv
<1>1. Init => IInv
  BY TypedInit, ShownInit, RemovalInit DEF IInv
<1>2. IInv /\ [Next]_vars => IInv'
  BY TypedNext, ShownNext, RemovalNext DEF IInv
<1> QED
  BY <1>1, <1>2, PTL DEF Spec

(* How a removal ends, but for the process being killed.                   *)
LEMMA RemovalEnds ==
  ASSUME IInv, Next, txn.op = "remove", txn.w # NoWorkspace, txn' = Idle
  PROVE  HasHappened \/ HasNotHappened \/ Restart
<1>t. /\ txn \in Txn /\ StoresOK /\ Removing /\ Open \subseteq Workspaces
      /\ NoWorkspace \notin Workspaces /\ txn # Idle
  BY IdleFields, WorktreeAssumption DEF IInv, Typed, Control, StoresOK, Removing
<1>r. /\ Untouched /\ AtRecovery /\ TargetOpen /\ Destroyed /\ OthersStayOpen /\ TerminalsKnown
      /\ TargetQuiet
  BY DEF IInv, Removal
<1>i. Idle.at = "idle" /\ Idle.op = "none" /\ Idle.w = NoWorkspace
  BY DEF Idle
<1> USE DEF At
<1>1. ~(Request \/ Others \/ Reconcile \/ Autosave)
  <2>1. ~Request
    BY <1>i, RequestDoes
  <2>2. ~(Others \/ Reconcile \/ Autosave)
    BY <1>t, OthersKeep
  <2> QED
    BY <2>1, <2>2
<1>2. ~OpenStep /\ ~MergeStep /\ ~Panic
  <2>1. ~OpenStep
    BY DEF OpenStep, GitOpens, PruneStale, GitAdds, LockToOpen, FindOrCreate, Inventory,
       SpawnNext, Unspawn, UndoOpen
  <2>2. ~MergeStep
    BY DEF MergeStep, MergeChecks, FastForward, RestoreFastForward, MergeNormally, MergeCleansUp,
       MergeEnds
  <2>3. ~Panic
    BY <1>i, <1>t DEF Panic, Txn
  <2> QED
    BY <2>1, <2>2, <2>3
<1>k. ASSUME NEW a, a # "idle" PROVE ~Step(a)
  BY <1>i, <1>k, <1>t DEF Step, Txn
<1>m. ASSUME NEW a, NEW x, a # "idle"
      PROVE  /\ txn' # [txn EXCEPT !.at = a, !.todo = x] /\ txn' # [txn EXCEPT !.at = a, !.progress = x]
             /\ txn' # [txn EXCEPT !.at = a, !.spare = x] /\ txn' # [txn EXCEPT !.at = a, !.phase = x]
             /\ txn' # [txn EXCEPT !.at = a]
  BY <1>i, <1>m, <1>t DEF Txn
<1>n. ASSUME NEW s PROVE txn' # [txn EXCEPT !.todo = @ \ {s}]
  BY <1>i, <1>n, <1>t DEF Removing, Txn
<1>3. ~FilesystemStep
  <2>1. ASSUME NEW ok, NEW p \in Progress, AfterFilesystem(ok, p) PROVE FALSE
    <3>1. ~GoesOn(p, "closeRest", txn.phase) /\ ~GoesOn(p, "dropSpare", txn.phase)
          /\ ~GoesOn(p, "commit", "filesystemCommitted") /\ ~GoesOn(p, "rollback", "rollbackStarted")
      BY <1>i, <1>t DEF GoesOn, Txn
    <3> QED
      BY <1>t, <2>1, <3>1, AfterFilesystemDoes DEF Removing
  <2>2. txn.progress \in Progress /\ "registrationRemoved" \in Progress
    BY <1>t DEF Txn, Progress
  <2>3. ~Prepare
    BY <1>r, <1>t DEF Prepare, Untouched, Removing
  <2>4. ~Verify
    BY <1>k, <2>1, <2>2 DEF Verify
  <2>5. ~StartDelete /\ ~Delete
    BY <1>m, <2>1, <2>2 DEF StartDelete, Delete
  <2>6. ~Unregister
    BY <2>1, <2>2 DEF Unregister
  <2> QED
    BY <2>3, <2>4, <2>5, <2>6 DEF FilesystemStep
<1>4. ~LockToRemove /\ ~LockGates /\ ~CloseNext /\ ~Rollback /\ ~UndoSpare /\ ~Commit /\ ~Recover
      /\ ~CloseRest /\ ~CommitRest /\ ~DropSpare
  <2>1. ~LockToRemove
    BY <1>r, <1>t DEF LockToRemove, Untouched, Removing
  <2>2. ~LockGates /\ ~CommitRest
    BY <1>k DEF LockGates, CommitRest
  <2>3. ~CloseNext
    <3>1. ASSUME NEW s, txn' = [txn EXCEPT !.todo = @ \ {s},
                                           !.done = IF s \in runtime THEN @ \cup {s} ELSE @]
          PROVE  FALSE
      BY <1>i, <1>t, <3>1 DEF Removing, Txn
    <3> QED
      BY <1>m, <3>1 DEF CloseNext
  <2>4. ~Rollback /\ ~UndoSpare /\ ~Commit /\ ~Recover /\ ~DropSpare
    <3>1. ~Rollback
      BY <1>i, <1>t DEF Rollback, Txn
    <3>2. ~Recover
      BY <1>i, <1>t DEF Recover, Txn
    <3> QED
      BY <1>m, <3>1, <3>2 DEF UndoSpare, Commit, DropSpare
  <2>5. ~CloseRest
    BY <1>k, <1>n DEF CloseRest
  <2> QED
    BY <2>1, <2>2, <2>3, <2>4, <2>5
(* Nothing is destroyed, and Open' is what it was.                         *)
<1>u. ASSUME ~Irreversible(txn.progress), Open' = txn.initial,
             \A v \in Open' : tree'[v] = tree[v], txn.had \subseteq runtime' \cup blocked'
      PROVE  HasNotHappened
  BY <1>r, <1>t, <1>u DEF HasNotHappened, TargetOpen
<1>5. CASE BeginRemoval
  <2>1. UNCHANGED <<model, runtime>> /\ txn.at = "begin"
    <3>1. \A w \in Fresh : txn' # [txn EXCEPT !.at = "spawnSpare", !.spare = w]
      BY <1>m
    <3> QED
      BY <1>5, <1>m, <3>1 DEF BeginRemoval
  <2>2. ~Irreversible(txn.progress) /\ Open = txn.initial /\ txn.had \subseteq runtime
    BY <1>r, <1>t, <2>1 DEF Destroyed, OthersStayOpen, TerminalsKnown, AtRecovery
  <2> QED
    BY <1>u, <2>1, <2>2 DEF model, Open
<1>6. CASE SpawnSpare
  <2>1. CloseWorkspaces({txn.spare}, txn.prev) /\ UNCHANGED runtime /\ txn.at = "spawnSpare"
    BY <1>6, <1>m DEF SpawnSpare
  <2>2. /\ ~Irreversible(txn.progress) /\ txn.had \subseteq runtime
        /\ Open = txn.initial \cup ({txn.spare} \ {NoWorkspace})
        /\ (txn.spare # NoWorkspace => txn.spare \notin txn.initial)
        /\ txn.initial \subseteq Open
    BY <1>r, <1>t, <2>1 DEF Destroyed, OthersStayOpen, TerminalsKnown, AtRecovery
  <2>3. Open' = Open \ {txn.spare} /\ \A v \in Open' : tree'[v] = tree[v]
    BY <1>t, <2>1, CloseWorkspacesDoes
  <2>4. Open' = txn.initial
    BY <1>t, <2>2, <2>3
  <2> QED
    BY <1>u, <2>1, <2>2, <2>3, <2>4
<1>7. CASE Reopen
  <2>1. txn.at = "reopen" /\ txn.todo = {} /\ txn.spare = NoWorkspace
        /\ UNCHANGED <<tree, blocked, runtime>>
    BY <1>7, <1>k, <1>n DEF Reopen, RestoreNext
  <2>2. ~Irreversible(txn.progress) /\ Open = txn.initial /\ txn.had \subseteq runtime \cup blocked
    BY <1>r, <1>t, <2>1 DEF Destroyed, OthersStayOpen, TerminalsKnown, AtRecovery
  <2> QED
    BY <1>u, <2>1, <2>2 DEF Open
<1>8. CASE Restore
  <2>1. txn.at = "restore" /\ txn.todo = {} /\ UNCHANGED <<tree, blocked, runtime>>
    BY <1>8, <1>n DEF Restore, RestoreNext
  <2>2. ~Irreversible(txn.progress) /\ Open = txn.initial /\ txn.had \subseteq runtime \cup blocked
    BY <1>r, <1>t, <2>1 DEF Destroyed, OthersStayOpen, TerminalsKnown
  <2> QED
    BY <1>u, <2>1, <2>2 DEF Open
<1>9. CASE Abandon
  <2>1. txn.at = "abandon" /\ CloseWorkspaces({txn.spare}, txn.prev)
        /\ runtime \ {<<txn.spare, FirstPane>>} \subseteq runtime'
    BY <1>9 DEF Abandon, DropSpareWorkspace
  <2>2. /\ ~Irreversible(txn.progress) /\ txn.had \subseteq runtime \cup blocked
        /\ Open = txn.initial \cup ({txn.spare} \ {NoWorkspace})
        /\ (txn.spare # NoWorkspace => txn.spare \notin txn.initial)
        /\ txn.initial \subseteq Open
    BY <1>r, <1>t, <2>1 DEF Destroyed, OthersStayOpen, TerminalsKnown, AtRecovery
  <2>3. /\ Open' = Open \ {txn.spare} /\ blocked' = blocked \ ({txn.spare} \X Panes)
        /\ \A v \in Open' : tree'[v] = tree[v]
    BY <1>t, <2>1, CloseWorkspacesDoes
  <2>4. Open' = txn.initial
    BY <1>t, <2>2, <2>3
  <2>5. txn.had \subseteq {txn.w} \X Panes /\ txn.w # txn.spare
    BY <1>r, <1>t, <2>2 DEF TargetOpen, Removing
  <2>6. txn.had \subseteq runtime' \cup blocked'
    BY <2>1, <2>2, <2>3, <2>5
  <2> QED
    BY <1>u, <2>2, <2>3, <2>4, <2>6
<1>10. CASE Ensure
  <2>1. /\ txn.at = "ensure" /\ UNCHANGED model
        /\ runtime' \subseteq runtime \cup SurfacesOf(active)
    BY <1>10 DEF Ensure
  <2>2. /\ Irreversible(txn.progress) /\ txn.w \notin Open
        /\ ~txn.recovering => txn.surfaces \cap runtime = {}
        /\ txn.surfaces \subseteq {txn.w} \X Panes
    BY <1>r, <1>t, <2>1 DEF Destroyed, TargetQuiet, TargetOpen
  <2>3. txn.surfaces \cap SurfacesOf(active) = {}
    BY <1>t, <2>2 DEF StoresOK, SurfacesOf
  <2>4. txn.w \notin Open'
    BY <2>1, <2>2 DEF model, Open
  <2> QED
    BY <2>1, <2>2, <2>3, <2>4 DEF HasHappened
<1> QED
  BY <1>1, <1>2, <1>3, <1>4, <1>5, <1>6, <1>7, <1>8, <1>9, <1>10
  DEF Next, TxnStep, RemoveStep

-----------------------------------------------------------------------------
(* What a reader should know of.                                           *)

(* Every variable keeps its type.                                          *)
THEOREM TypeCorrect == Spec => []TypeOK
<1>1. IInv => TypeOK
  BY DEF IInv, Typed, StoresOK, Control, LocksOK, TypeOK
<1> QED
  BY <1>1, Invariant, PTL

(* What an open or a removal may yet take back is not in the session file. *)
THEOREM ProvisionalStaysOut == Spec => []ProvisionalNotSaved
<1>1. IInv => ProvisionalNotSaved
  BY DEF IInv, Typed
<1> QED
  BY <1>1, Invariant, PTL

(* No transaction leaves gates poisoned behind.                            *)
THEOREM PoisonIsCleared == Spec => []NoPoisonLeft
<1>1. IInv => NoPoisonLeft
  BY IdleFields DEF IInv, Typed, Control, PoisonedInRecovery, NoPoisonLeft
<1> QED
  BY <1>1, Invariant, PTL

(* A merge that ends has settled the base checkout, unless Git refused to  *)
(* repair it; one whose first checkout failed has not moved the branch.    *)
THEOREM MergesSettle == Spec => []MergeSettles
<1>1. IInv => MergeSettles
  BY DEF IInv, Shown
<1> QED
  BY <1>1, Invariant, PTL

(* No two workspaces ever show the same worktree.                          *)
THEOREM ShownInOne == Spec => []ShownOnce
<1>1. IInv => ShownOnce
  BY DEF IInv, Shown
<1> QED
  BY <1>1, Invariant, PTL

(* No branch that was there before is lost to a transaction, but for one   *)
(* that a program checked out in a new worktree whose open is rolled back. *)
THEOREM BranchesAreKept == Spec => BranchesStay
<1>1. ASSUME IInv, [Next]_vars
      PROVE  txn.branchesBefore \cap branches \subseteq branches' \cup TakenForCreated
  <2>1. /\ NoBranch \notin branches
        /\ txn.branchCreated => txn.op = "open" /\ txn.b \notin txn.branchesBefore
        /\ txn.doomed # NoBranch => txn.branchCreated /\ txn.doomed \in {txn.b} \cup UserBranches
    BY <1>1, WorktreeAssumption DEF IInv, Typed, StoresOK, Shown, BranchesKnown
  <2> QED
    BY <1>1, <2>1, BranchesMove DEF TakenForCreated
<1> QED
  BY <1>1, Invariant, PTL DEF Spec, BranchesStay

(* A removal happens or does not, whatever fails and whoever else acts.    *)
THEOREM RemovalsAreAtomic == Spec => RemovalIsAtomic
<1>1. ASSUME IInv, [Next]_vars, txn.op = "remove", txn.w # NoWorkspace, txn' = Idle
      PROVE  HasHappened \/ HasNotHappened \/ Restart
  <2>1. ~UNCHANGED vars
    BY <1>1, IdleFields DEF vars
  <2> QED
    BY <1>1, <2>1, RemovalEnds
<1>2. IInv /\ [Next]_vars =>
        [txn.op = "remove" /\ txn.w # NoWorkspace /\ txn' = Idle =>
           HasHappened \/ HasNotHappened \/ Restart]_vars
  BY <1>1
<1> QED
  BY <1>2, Invariant, PTL DEF Spec, RemovalIsAtomic

(* No removal deletes uncommitted work or what is no worktree.             *)
THEOREM WorkIsNotDeleted == Spec => OnlyCleanIsDeleted
<1>1. ASSUME IInv, Next, NEW b \in Branches, txn.op = "remove", dir[b] \in {"dirty", "foreign"},
             dir'[b] = "none"
      PROVE  OthersChange(b)
  <2>t. dir \in [Branches -> Dir] /\ txn.op # "open"
    BY <1>1 DEF IInv, Typed, StoresOK
  <2>1. dir' # dir
    BY <1>1
  <2>2. CASE Delete
    BY <1>1, <2>2, <2>t DEF Delete, IInv, Removal, TargetClean
  <2>3. CASE Prepare
    BY <1>1, <2>3, <2>t DEF Prepare
  <2>4. ASSUME NEW w \in Open, TerminalWrites(w) PROVE FALSE
    BY <1>1, <2>4, <2>t DEF TerminalWrites
  <2>5. ASSUME NEW c \in Branches, OthersChange(c) PROVE OthersChange(b)
    BY <1>1, <2>5, <2>t DEF OthersChange
  <2>6. ~(GitOpens \/ PruneStale \/ GitAdds)
    BY <1>1 DEF GitOpens, PruneStale, GitAdds, At
  <2> QED
    BY <1>1, <2>1, <2>2, <2>3, <2>4, <2>5, <2>6
    DEF Next, TxnStep, OpenStep, FilesystemStep, RemoveStep, MergeStep, Others, git,
        LockToOpen, FindOrCreate, Inventory, SpawnNext, Unspawn, UndoOpen,
        Verify, StartDelete, Unregister, Prune, LockToRemove, LockGates, BeginRemoval, SpawnSpare,
        CloseNext, Reopen, Abandon, Rollback, UndoSpare, Restore, RestoreNext, Commit, Ensure,
        Recover, CloseRest, CommitRest, DropSpare, MergeChecks, FastForward, RestoreFastForward,
        MergeNormally, MergeCleansUp, MergeEnds, Panic, Request, Begin,
        SwitchBranch, Read, Hook, OtherBegins,
        OtherEnds, ShowWorkspace, Reconcile, Autosave, Restart
<1>2. IInv /\ [Next]_vars =>
        [\A b \in Branches :
           txn.op = "remove" /\ dir[b] \in {"dirty", "foreign"} /\ dir'[b] = "none" =>
             OthersChange(b)]_vars
  BY <1>1
<1> QED
  BY <1>2, Invariant, PTL DEF Spec, OnlyCleanIsDeleted
=============================================================================
