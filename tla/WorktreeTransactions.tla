----------------------- MODULE WorktreeTransactions -----------------------
(***************************************************************************)
(* The worktree transactions: opening, removing and merging a Git worktree *)
(* together with the workspace and terminals that show it                  *)
(* (forktty-socket, worktree_runtime.rs and coordinator.rs; forktty-core,  *)
(* worktree.rs).                                                           *)
(*                                                                         *)
(* Such a transaction edits three stores that nothing covers together: Git *)
(* and the file system, the workspace model, and the terminal backend.     *)
(* Any step may fail, a removal may panic at any step and is then          *)
(* recovered by what it recorded of its progress, and the process may be   *)
(* killed.  The transaction takes, in this order, the worktree guard, the  *)
(* surface-set guard and the hook gates of the surfaces it closes.         *)
(* Meanwhile terminals write into their checkout and switch its branch,    *)
(* other programs delete and create directories, hooks hold gates, GTK     *)
(* reconciles and saves.                                                   *)
(*                                                                         *)
(* A worktree is named by the branch it was made for.  The branches that   *)
(* programs check out in it instead are ones nobody asks to open, and the  *)
(* second worktree that the program then makes for the first branch, under *)
(* a name with a number, is left out: the request is refused.  A surface   *)
(* is a workspace and one of Panes.  Ids are never reused by the program;  *)
(* here an id is reused when nothing remembers it, so that behaviours need *)
(* not end.                                                                *)
(***************************************************************************)
EXTENDS FiniteSets

CONSTANTS
  Branches,      \* the branches one may want a worktree of
  Workspaces,    \* workspace ids
  Panes,         \* the surfaces a workspace may have
  FirstPane,     \* the surface it is created with
  UserBranches,  \* other branches, which programs check out in worktrees
  NoBranch, NoWorkspace

ASSUME WorktreeAssumption ==
  /\ FirstPane \in Panes
  /\ UserBranches \cap Branches = {} /\ NoBranch \notin Branches \cup UserBranches
  /\ NoWorkspace \notin Workspaces

VARIABLES
  branches,      \* local branches that exist
  registered,    \* branches with a registered worktree
  dir,           \* what is at the path of each worktree
  head,          \* the branch that the HEAD of each worktree names
  tree,          \* worktree of each open workspace, or NoBranch
  panes,         \* the panes of each open workspace
  active,        \* the active workspace
  blocked,       \* surfaces with a red status: no automatic spawn
  runtime,       \* surfaces with a terminal
  readers,       \* somebody reads under the worktree guard
  surfaceSet,    \* who has the surface-set guard
  gates,         \* who has hook gates the transaction wants
  poisoned,      \* a panic poisoned those gates
  saved,         \* the session file, without the panes it lists
  txn            \* the holder of the worktree guard, in writing

git == <<branches, registered, dir, head>>
model == <<tree, panes, active, blocked>>
locks == <<readers, surfaceSet, gates, poisoned>>
vars == <<git, model, runtime, locks, saved, txn>>

Open == DOMAIN tree
Surfaces == Workspaces \X Panes
SurfacesOf(w) == {w} \X panes[w]
Modelled == UNION {SurfacesOf(w) : w \in Open}

(* A directory is a linked worktree without or with uncommitted changes,   *)
(* or something else: another directory, or what is left of a worktree.    *)
Dir == {"none", "clean", "dirty", "foreign"}

(* The checkout a merge goes to: its ref and its files, before or after    *)
(* the merge or of both, and whether Git has a merge pending.  It is       *)
(* wedged when Git refused to repair it, and broken when the checkout that *)
(* the merge begins with failed.                                           *)
Base == [ref : {"old", "new"}, files : {"old", "mixed", "new"}, pending : BOOLEAN,
         wedged : BOOLEAN, broken : BOOLEAN]
Unmerged == [ref |-> "old", files |-> "old", pending |-> FALSE, wedged |-> FALSE,
             broken |-> FALSE]

Progress == {"prepared", "targetRemovalStarted", "targetRemoved", "registrationRemoved"}
Phase == {"beforeFilesystemCommit", "filesystemStarted", "rollbackStarted",
          "filesystemCommitted", "modelCommitted"}

Place == {"idle", "git", "prune", "add", "wantSurfaces", "find", "inventory",
          "spawn", "unspawn", "undo", "prepare", "wantGates", "begin",
          "spawnSpare", "close", "reopen", "abandon", "verify", "delete",
          "deleting", "unregister", "rollback", "undoSpare", "restore",
          "commit", "ensure", "recover", "dropSpare", "closeRest",
          "commitRest", "checkout", "moveRef", "setHead", "restoreRef",
          "index", "tidy", "abort", "merged"}

Txn == [op : {"none", "open", "remove", "merge"}, at : Place,
        b : Branches \cup {NoBranch}, w : Workspaces \cup {NoWorkspace},
        spare : Workspaces \cup {NoWorkspace}, prev : Workspaces \cup {NoWorkspace},
        surfaces : SUBSET Surfaces, todo : SUBSET Surfaces, done : SUBSET Surfaces,
        initial : SUBSET Workspaces, had : SUBSET Surfaces, existed : BOOLEAN,
        phase : Phase, progress : Progress, recovering : BOOLEAN,
        created : BOOLEAN, branchCreated : BOOLEAN,
        doomed : Branches \cup UserBranches \cup {NoBranch},
        base : Base, branchesBefore : SUBSET (Branches \cup UserBranches)]

Idle == [op |-> "none", at |-> "idle", b |-> NoBranch, w |-> NoWorkspace,
         spare |-> NoWorkspace, prev |-> NoWorkspace, surfaces |-> {}, todo |-> {},
         done |-> {}, initial |-> {}, had |-> {}, existed |-> FALSE,
         phase |-> "beforeFilesystemCommit", progress |-> "prepared",
         recovering |-> FALSE, created |-> FALSE,
         branchCreated |-> FALSE, doomed |-> NoBranch, base |-> Unmerged, branchesBefore |-> {}]

Snapshot == [tree |-> tree, active |-> active]

TypeOK ==
  /\ branches \subseteq Branches \cup UserBranches /\ registered \subseteq Branches
  /\ head \in [Branches -> Branches \cup UserBranches]
  /\ dir \in [Branches -> Dir]
  /\ Open \subseteq Workspaces /\ active \in Open
  /\ tree \in [Open -> Branches \cup {NoBranch}]
  /\ panes \in [Open -> SUBSET Panes]
  /\ blocked \subseteq Surfaces /\ runtime \subseteq Surfaces
  /\ readers \in BOOLEAN /\ poisoned \in BOOLEAN
  /\ surfaceSet \in {"free", "txn", "other"} /\ gates \in {"free", "txn", "hook"}
  /\ txn \in Txn

(* The program has started with one plain workspace and saved it.          *)
Init ==
  /\ \E u \in SUBSET (Branches \cup UserBranches) : branches = u
  /\ registered = {} /\ dir = [b \in Branches |-> "none"] /\ head = [b \in Branches |-> b]
  /\ \E w \in Workspaces :
       /\ tree = [v \in {w} |-> NoBranch] /\ panes = [v \in {w} |-> {FirstPane}]
       /\ active = w /\ runtime = {<<w, FirstPane>>}
  /\ blocked = {} /\ saved = Snapshot
  /\ readers = FALSE /\ surfaceSet = "free" /\ gates = "free" /\ poisoned = FALSE
  /\ txn = Idle

-----------------------------------------------------------------------------
(* The workspace model.                                                    *)

(* Ids the program has not handed out, or that nothing refers to any more. *)
Fresh == {w \in Workspaces \ (Open \cup DOMAIN saved.tree) :
            \A p \in Panes : <<w, p>> \notin runtime \cup blocked}

(* create_workspace, allocate_worktree_workspace: w opens and is active.   *)
OpenWorkspace(w, b) ==
  /\ tree' = [v \in Open \cup {w} |-> IF v = w THEN b ELSE tree[v]]
  /\ panes' = [v \in Open \cup {w} |-> IF v = w THEN {FirstPane} ELSE panes[v]]
  /\ active' = w
  /\ UNCHANGED blocked

(* A bug: the active workspace is not seen to.                             *)
CloseWorkspacesForgettingActive(gone, prev) ==
  LET left == Open \ gone
  IN /\ tree' = [v \in left |-> tree[v]]
     /\ panes' = [v \in left |-> panes[v]]
     /\ blocked' = blocked \ (gone \X Panes)
     /\ active' = IF prev \in left THEN prev ELSE active

(* close_workspace for each of gone; the first workspace left, in an order *)
(* that users change, succeeds an active one.  Then select_workspace of    *)
(* prev, if prev is still there.                                           *)
CloseWorkspaces(gone, prev) ==
  LET left == Open \ gone
  IN /\ tree' = [v \in left |-> tree[v]]
     /\ panes' = [v \in left |-> panes[v]]
     /\ blocked' = blocked \ (gone \X Panes)
     /\ \/ prev \in left /\ active' = prev
        \/ prev \notin left /\ active \in left /\ active' = active
        \/ prev \notin left /\ active \notin left /\ active' \in left

SelectWorkspace(w) ==
  /\ active' = IF w \in Open THEN w ELSE active
  /\ UNCHANGED <<tree, panes, blocked>>

(* spawn_surface_terminal: a refused spawn leaves a red status.            *)
SpawnTerminal(s) ==
  \/ /\ s \notin runtime
     /\ runtime' = runtime \cup {s} /\ UNCHANGED blocked
  \/ runtime' = runtime /\ blocked' = blocked \cup {s}

-----------------------------------------------------------------------------
(* The transaction.                                                        *)

At(op, at) == txn.op = op /\ txn.at = at
Step(at) == txn' = [txn EXCEPT !.at = at]

(* The worker returns: what guards it has are released.                    *)
Finish ==
  /\ txn' = Idle
  /\ surfaceSet' = IF surfaceSet = "txn" THEN "free" ELSE surfaceSet
  /\ gates' = IF gates = "txn" THEN "free" ELSE gates
  /\ UNCHANGED <<readers, poisoned>>

WriteGuardFree == txn = Idle /\ ~readers

Begin(t) ==
  /\ WriteGuardFree
  /\ txn' = [t EXCEPT !.branchesBefore = branches]
  /\ UNCHANGED <<git, model, runtime, locks, saved>>

(* blocking_worktree_surface_transaction.                                  *)
TakeSurfaceSet ==
  /\ surfaceSet = "free"
  /\ surfaceSet' = "txn"
  /\ UNCHANGED <<readers, gates, poisoned>>

-----------------------------------------------------------------------------
(* open_worktree_transaction.                                              *)

(* worktree::create and worktree::attach, as far as they only look: a      *)
(* registered worktree of the branch is used as it is when its directory   *)
(* is there and its HEAD names the branch, and is stale when it is not     *)
(* there.  An advisory setup hook may leave files behind.                  *)
SetUp(b, found) ==
  \E d \in IF found = "clean" THEN {"clean", "dirty"} ELSE {found} :
    dir' = [dir EXCEPT ![b] = d]

GitOpens ==
  /\ At("open", "git")
  /\ LET b == txn.b
     IN \/ /\ b \in registered /\ head[b] = b /\ dir[b] = "none"
           /\ Step("prune") /\ UNCHANGED <<git, locks>>
        \/ /\ b \in registered /\ head[b] = b /\ dir[b] \in {"clean", "dirty"}
           /\ SetUp(b, dir[b]) /\ Step("wantSurfaces")
           /\ UNCHANGED <<branches, registered, head, locks>>
        \/ /\ b \notin registered /\ dir[b] = "none"
           /\ branches' = branches \cup {b}
           /\ txn' = [txn EXCEPT !.at = "add", !.branchCreated = b \notin branches]
           /\ UNCHANGED <<registered, dir, head, locks>>
        \/ Finish /\ UNCHANGED git
  /\ UNCHANGED <<model, runtime, saved>>

(* prune_stale_worktree asks libgit2 to remove the working tree, too: a    *)
(* directory with a .git in it that has come since goes with it.           *)
PruneStale ==
  /\ At("open", "prune")
  /\ \/ /\ registered' = registered \ {txn.b}
        /\ dir' \in {dir, [dir EXCEPT ![txn.b] = "none"]}
        /\ Step("git") /\ UNCHANGED locks
     \/ Finish /\ UNCHANGED <<registered, dir>>
  /\ UNCHANGED <<branches, head, model, runtime, saved>>

DropCreatedBranch == branches' = IF txn.branchCreated THEN branches \ {txn.b} ELSE branches

(* repo.worktree, verify_fresh_worktree_or_rollback and the setup hook.    *)
GitAdds ==
  /\ At("open", "add")
  /\ LET b == txn.b
     IN \/ /\ dir[b] = "none"
           /\ registered' = registered \cup {b}
           /\ SetUp(b, "clean")
           /\ txn' = [txn EXCEPT !.at = "wantSurfaces", !.created = TRUE]
           /\ UNCHANGED <<branches, locks>>
        \/ /\ DropCreatedBranch   \* the worktree is not added
           /\ Finish /\ UNCHANGED <<registered, dir>>
        \/ /\ dir[b] = "none"     \* added, not verified, its directory left
           /\ dir' = [dir EXCEPT ![b] = "foreign"]
           /\ DropCreatedBranch
           /\ Finish /\ UNCHANGED registered
        \/ /\ dir[b] = "none"     \* added, not verified, not rolled back
           /\ dir' = [dir EXCEPT ![b] = "foreign"]
           /\ registered' = registered \cup {b}
           /\ Finish /\ UNCHANGED branches
  /\ UNCHANGED <<head, model, runtime, saved>>

LockToOpen ==
  /\ At("open", "wantSurfaces")
  /\ TakeSurfaceSet
  /\ Step("find")
  /\ UNCHANGED <<git, model, runtime, saved>>

(* A bug: a workspace of the worktree is never found again.                *)
ShowingNone(b) == {}

(* find_worktree_workspace: the workspaces that show the worktree of b, a  *)
(* path that is there.                                                     *)
Showing(b) == {w \in Open : tree[w] = b /\ dir[b] # "none"}

FindOrCreate ==
  /\ At("open", "find")
  /\ \/ \E w \in Showing(txn.b) :
          /\ SelectWorkspace(w)
          /\ txn' = [txn EXCEPT !.at = "inventory", !.w = w, !.prev = active]
          /\ UNCHANGED locks
     \/ /\ Showing(txn.b) = {}
        /\ \E w \in Fresh :
             /\ OpenWorkspace(w, txn.b)
             /\ txn' = [txn EXCEPT !.at = "inventory", !.w = w, !.prev = active,
                                   !.spare = w]
        /\ UNCHANGED locks
     \/ /\ Showing(txn.b) \cup Fresh = {}   \* the bound of Workspaces is reached
        /\ Finish /\ UNCHANGED model
  /\ UNCHANGED <<git, runtime, saved>>

(* The surfaces without a terminal, if the backend tells.                  *)
Inventory ==
  /\ At("open", "inventory")
  /\ \/ txn' = [txn EXCEPT !.at = "spawn", !.todo = SurfacesOf(txn.w) \ runtime]
     \/ Step("undo")
  /\ UNCHANGED <<git, model, runtime, locks, saved>>

SpawnNext ==
  /\ At("open", "spawn")
  /\ \/ /\ txn.todo = {}
        /\ Finish
        /\ UNCHANGED <<blocked, runtime>>
     \/ \E s \in txn.todo :
          /\ SpawnTerminal(s)
          /\ txn' = IF s \in runtime'
                    THEN [txn EXCEPT !.todo = @ \ {s}, !.done = @ \cup {s}]
                    ELSE [txn EXCEPT !.at = "unspawn", !.todo = txn.done]
          /\ UNCHANGED locks
  /\ UNCHANGED <<git, tree, panes, active, saved>>

(* close_created_runtime_surfaces_after_failure: a close may fail.         *)
Unspawn ==
  /\ At("open", "unspawn")
  /\ \/ /\ txn.todo = {} /\ Step("undo") /\ UNCHANGED runtime
     \/ \E s \in txn.todo :
          /\ runtime' \in {runtime, runtime \ {s}}
          /\ txn' = [txn EXCEPT !.todo = @ \ {s}]
  /\ UNCHANGED <<git, model, locks, saved>>

(* rollback_worktree_workspace_after_runtime_failure, and then             *)
(* rollback_created_worktree_after_runtime_failure if Git made it.         *)
UndoOpen ==
  /\ At("open", "undo")
  /\ IF txn.spare # NoWorkspace THEN CloseWorkspaces({txn.spare}, txn.prev)
                                ELSE SelectWorkspace(txn.prev)
  /\ IF txn.created
     THEN txn' = [txn EXCEPT !.at = "prepare", !.spare = NoWorkspace] /\ UNCHANGED locks
     ELSE Finish
  /\ UNCHANGED <<git, runtime, saved>>

-----------------------------------------------------------------------------
(* remove_worktree_transaction: git and the file system.                   *)

(* A bug: any branch of a worktree that is rolled back goes with it.       *)
DoomedAnyway(t) == IF t.op = "open" THEN head[t.b] ELSE NoBranch

(* The branch that goes with the worktree: only for the rollback of an     *)
(* open that created one, and then the one the worktree's HEAD names when  *)
(* the removal is prepared, which need not be the one created.             *)
Doomed(t) == IF t.branchCreated THEN head[t.b] ELSE NoBranch

(* prepare_remove: an existing directory must be the linked worktree,      *)
(* clean before and after the teardown hook, and the hook must succeed.    *)
Prepare ==
  /\ txn.at = "prepare"
  /\ \/ /\ txn.b \in registered /\ dir[txn.b] \in {"none", "clean"}
        /\ txn' = [txn EXCEPT !.at = IF txn.op = "open" THEN "verify" ELSE "wantSurfaces",
                              !.doomed = Doomed(txn)]
        /\ UNCHANGED <<dir, locks>>
     \/ /\ dir' \in {dir, [dir EXCEPT ![txn.b] = IF @ = "clean" THEN "dirty" ELSE @]}
        /\ Finish
  /\ UNCHANGED <<branches, registered, head, model, runtime, saved>>

(* What follows when finish_with_progress has returned with progress p.    *)
Irreversible(p) == p # "prepared"     \* requires_model_commit

AfterFilesystem(ok, p) ==
  LET t == [txn EXCEPT !.progress = p]
      committed == ok \/ Irreversible(p)
  IN CASE txn.w = NoWorkspace \/ txn.op = "open" -> Finish
       [] txn.w # NoWorkspace /\ txn.op # "open" ->
            /\ txn' = [t EXCEPT !.at = CASE txn.recovering /\ committed -> "closeRest"
                                         [] txn.recovering /\ ~committed -> "dropSpare"
                                         [] ~txn.recovering /\ committed -> "commit"
                                         [] OTHER -> "rollback",
                                !.phase = IF txn.recovering THEN @
                                           ELSE IF committed THEN "filesystemCommitted"
                                           ELSE "rollbackStarted",
                                !.todo = txn.surfaces]
            /\ UNCHANGED locks

(* A bug: what was found when the removal was prepared is not looked at    *)
(* again.                                                                  *)
RemovableUnchecked(d) == d \in {"clean", "dirty"}

(* verified_removal_target_for_finish: the linked worktree, without        *)
(* uncommitted changes.                                                    *)
Removable(d) == d = "clean"

Verify ==
  /\ txn.at = "verify"
  /\ LET d == dir[txn.b]
     IN \/ /\ txn.b \notin registered
           /\ AfterFilesystem(FALSE, "registrationRemoved")
        \/ /\ txn.b \in registered /\ (d = "none" \/ Removable(d))
           /\ Step(IF d = "none" THEN "unregister" ELSE "delete")
           /\ UNCHANGED locks
        \/ AfterFilesystem(FALSE, txn.progress)
  /\ UNCHANGED <<git, model, runtime, saved>>

(* remove_verified_worktree_target_with.                                   *)
StartDelete ==
  /\ txn.at = "delete"
  /\ txn' = [txn EXCEPT !.at = "deleting", !.progress = "targetRemovalStarted"]
  /\ UNCHANGED <<git, model, runtime, locks, saved>>

Delete ==
  /\ txn.at = "deleting"
  /\ \/ /\ dir' = [dir EXCEPT ![txn.b] = "none"]
        /\ txn' = [txn EXCEPT !.at = "unregister", !.progress = "targetRemoved"]
        /\ UNCHANGED locks
     \/ /\ dir' \in {dir, [dir EXCEPT ![txn.b] = "foreign"]}
        /\ AfterFilesystem(FALSE, txn.progress)
  /\ UNCHANGED <<branches, registered, head, model, runtime, saved>>

(* prune_worktree_registration.                                            *)
Prune(b) ==
  registered' = registered \ {b} /\ head' = [head EXCEPT ![b] = b] /\ UNCHANGED dir

(* The deletion of the branch may fail unnoticed.                          *)
BranchAfterRemoval == branches' \in {branches, branches \ {txn.doomed}}

Unregister ==
  /\ txn.at = "unregister"
  /\ \/ /\ Prune(txn.b) /\ BranchAfterRemoval
        /\ AfterFilesystem(TRUE, "registrationRemoved")
     \/ /\ Prune(txn.b) /\ UNCHANGED branches
        /\ AfterFilesystem(FALSE, "registrationRemoved")
     \/ /\ AfterFilesystem(FALSE, txn.progress) /\ UNCHANGED git
  /\ UNCHANGED <<model, runtime, saved>>

-----------------------------------------------------------------------------
(* remove_worktree_transaction: workspace and terminals.                   *)

(* modeled_worktree_workspace_for_removal; a missing path still counts.    *)
LockToRemove ==
  /\ At("remove", "wantSurfaces")
  /\ TakeSurfaceSet
  /\ \/ /\ \A w \in Open : tree[w] # txn.b
        /\ Step("verify")
     \/ \E w \in Open :
          /\ tree[w] = txn.b
          /\ txn' = [txn EXCEPT !.at = "wantGates", !.w = w, !.prev = active,
                                !.surfaces = SurfacesOf(w), !.initial = Open,
                                !.had = SurfacesOf(w) \cap runtime,
                                !.existed = dir[txn.b] # "none"]
  /\ UNCHANGED <<git, model, runtime, saved>>

TakeGates ==
  /\ gates = "free"
  /\ gates' = "txn"
  /\ UNCHANGED <<readers, surfaceSet>>

LockGates ==
  /\ At("remove", "wantGates")
  /\ TakeGates
  /\ Step("begin") /\ UNCHANGED poisoned
  /\ UNCHANGED <<git, model, runtime, saved>>

(* The last workspace is replaced by a plain one first.                    *)
BeginRemoval ==
  /\ At("remove", "begin")
  /\ \/ /\ Open # {txn.w}
        /\ txn' = [txn EXCEPT !.at = "close", !.todo = txn.surfaces]
        /\ UNCHANGED <<model, locks>>
     \/ /\ Open = {txn.w}
        /\ \E w \in Fresh :
             /\ OpenWorkspace(w, NoBranch)
             /\ txn' = [txn EXCEPT !.at = "spawnSpare", !.spare = w]
        /\ UNCHANGED locks
     \/ Finish /\ UNCHANGED model     \* its path cannot be resolved any more
  /\ UNCHANGED <<git, runtime, saved>>

SpawnSpare ==
  /\ At("remove", "spawnSpare")
  /\ \/ /\ runtime' = runtime \cup {<<txn.spare, FirstPane>>}
        /\ txn' = [txn EXCEPT !.at = "close", !.todo = txn.surfaces]
        /\ UNCHANGED <<model, locks>>
     \/ /\ CloseWorkspaces({txn.spare}, txn.prev)
        /\ Finish /\ UNCHANGED runtime
  /\ UNCHANGED <<git, saved>>

(* A bug: the gates are kept while the file system is worked on, although  *)
(* they are locked again afterwards.                                       *)
DropGatesNever == UNCHANGED locks

DropGates == gates' = "free" /\ UNCHANGED <<readers, surfaceSet, poisoned>>

(* close_terminal_surfaces_or_restore: stops at the first close that fails *)
(* and opens again what it had closed; then the file system's turn.        *)
CloseNext ==
  /\ At("remove", "close")
  /\ \/ /\ txn.todo = {}
        /\ txn' = [txn EXCEPT !.at = "verify", !.phase = "filesystemStarted"]
        /\ DropGates /\ UNCHANGED runtime
     \/ \E s \in txn.todo :
          /\ runtime' = runtime \ {s}
          /\ txn' = [txn EXCEPT !.todo = @ \ {s},
                                !.done = IF s \in runtime THEN @ \cup {s} ELSE @]
          /\ UNCHANGED locks
     \/ /\ txn.todo \cap runtime # {}
        /\ txn' = [txn EXCEPT !.at = "reopen", !.todo = txn.done]
        /\ UNCHANGED <<runtime, locks>>
  /\ UNCHANGED <<git, model, saved>>

(* restore_terminal_surfaces_after_failure, one surface of it.             *)
RestoreTerminal(s) == SpawnTerminal(s)

RestoreNext(at, next) ==
  /\ At("remove", at)
  /\ \/ /\ txn.todo = {}
        /\ UNCHANGED <<blocked, runtime>>
        /\ next
     \/ \E s \in txn.todo :
          /\ RestoreTerminal(s)
          /\ txn' = [txn EXCEPT !.todo = @ \ {s}]
          /\ UNCHANGED locks
  /\ UNCHANGED <<git, tree, panes, active, saved>>

Reopen == RestoreNext("reopen", IF txn.spare = NoWorkspace THEN Finish
                                ELSE Step("abandon") /\ UNCHANGED locks)

Restore == RestoreNext("restore", Finish)

(* The replacement goes again; neither closing nor forgetting its terminal *)
(* need succeed.                                                           *)
DropSpareWorkspace ==
  /\ CloseWorkspaces({txn.spare}, txn.prev)
  /\ runtime' \in {runtime, runtime \ {<<txn.spare, FirstPane>>}}

Abandon ==
  /\ At("remove", "abandon")
  /\ DropSpareWorkspace
  /\ Finish
  /\ UNCHANGED <<git, saved>>

(* The file system refused before anything was destroyed.                  *)
Rollback ==
  /\ At("remove", "rollback")
  /\ TakeGates /\ poisoned' = FALSE
  /\ txn' = [txn EXCEPT !.at = IF txn.spare = NoWorkspace THEN "restore" ELSE "undoSpare"]
  /\ UNCHANGED <<git, model, runtime, saved>>

UndoSpare ==
  /\ At("remove", "undoSpare")
  /\ DropSpareWorkspace
  /\ txn' = [txn EXCEPT !.at = "restore", !.spare = NoWorkspace]
  /\ UNCHANGED <<git, locks, saved>>

(* Destroyed, at least in part: the model follows.                         *)
Commit ==
  /\ At("remove", "commit")
  /\ TakeGates /\ poisoned' = FALSE
  /\ CloseWorkspaces({txn.w}, NoWorkspace)
  /\ txn' = [txn EXCEPT !.at = "ensure", !.phase = "modelCommitted"]
  /\ UNCHANGED <<git, runtime, saved>>

(* evict_hook_session_targets_for_completion; then, unless a replacement   *)
(* is up, ensure_terminal_for_active_workspace_now for one of the active   *)
(* workspace's surfaces, the focused one.  The gates go before.            *)
Ensure ==
  /\ At("remove", "ensure")
  /\ IF txn.spare # NoWorkspace /\ ~txn.recovering THEN UNCHANGED runtime
     ELSE \E s \in SurfacesOf(active) : runtime' \in {runtime, runtime \cup {s}}
  /\ Finish
  /\ UNCHANGED <<git, model, saved>>

-----------------------------------------------------------------------------
(* Panics, and recover_worktree_removal_after_panic.                       *)

(* The transaction's code unwinds; gates it holds are poisoned.            *)
Panic ==
  /\ txn.op = "remove" /\ txn.w # NoWorkspace /\ ~txn.recovering
  /\ txn.at \notin {"wantGates", "recover"}
  /\ gates' = IF gates = "txn" THEN "free" ELSE gates
  /\ poisoned' = (poisoned \/ gates = "txn")
  /\ txn' = [txn EXCEPT !.at = "recover", !.recovering = TRUE]
  /\ UNCHANGED <<git, model, runtime, readers, surfaceSet, saved>>

(* A bug: only the phase is consulted, not the progress.                   *)
CommittedByPhase == txn.phase \in {"filesystemCommitted", "modelCommitted"}

Committed ==
  \/ txn.phase \in {"filesystemCommitted", "modelCommitted"}
  \/ Irreversible(txn.progress)

(* A bug: the gates stay poisoned.                                         *)
StillPoisoned == UNCHANGED poisoned

(* lock_hook_target_gates_for_completion.                                  *)
ClearPoison == poisoned' = FALSE

Recover ==
  /\ At("remove", "recover")
  /\ TakeGates /\ ClearPoison
  /\ txn' = [txn EXCEPT !.at = CASE Committed -> "closeRest"
                                 [] ~Committed /\ txn.phase = "filesystemStarted"
                                    /\ ~txn.existed -> "verify"
                                 [] OTHER -> "dropSpare",
                        !.todo = txn.surfaces]
  /\ UNCHANGED <<git, model, runtime, saved>>

(* Committed: the terminals go, as far as they can be closed, then the     *)
(* workspace.                                                              *)
CloseRest ==
  /\ At("remove", "closeRest")
  /\ \/ /\ txn.todo = {} /\ Step("commitRest") /\ UNCHANGED runtime
     \/ \E s \in txn.todo :
          /\ runtime' \in {runtime, runtime \ {s}}
          /\ txn' = [txn EXCEPT !.todo = @ \ {s}]
  /\ UNCHANGED <<git, model, locks, saved>>

CommitRest ==
  /\ At("remove", "commitRest")
  /\ IF txn.w \in Open THEN CloseWorkspaces({txn.w}, NoWorkspace) ELSE UNCHANGED model
  /\ Step("ensure")
  /\ UNCHANGED <<git, runtime, locks, saved>>

(* Not committed: a workspace that was not there at the start is ours.     *)
Provisional == Open \ txn.initial

(* Then every surface whose terminal is not known to run is spawned; when  *)
(* the backend does not tell, that is all of them.                         *)
DropSpare ==
  /\ At("remove", "dropSpare")
  /\ CloseWorkspaces(Provisional, txn.prev)
  /\ runtime' \in {runtime, runtime \ (Provisional \X Panes)}
  /\ \E missing \in {txn.surfaces, txn.surfaces \ runtime} :
       txn' = [txn EXCEPT !.at = "restore", !.todo = missing]
  /\ UNCHANGED <<git, locks, saved>>

-----------------------------------------------------------------------------
(* worktree::merge, into the base checkout.                                *)

MergeTo(base, at) ==
  txn' = [txn EXCEPT !.base = base, !.at = at] /\ UNCHANGED locks

(* The base is clean and not up to date, the source, what the worktree has *)
(* checked out, exists and is clean.                                       *)
MergeChecks ==
  /\ At("merge", "git")
  /\ \/ /\ head[txn.b] \in branches
        /\ txn.b \in registered => dir[txn.b] = "clean"
        /\ \E at \in {"checkout", "index"} : MergeTo(Unmerged, at)  \* fast-forward or not
     \/ Finish
  /\ UNCHANGED <<git, model, runtime, saved>>

(* A bug: the ref moves first, and then a safe checkout finds no changes.  *)
CheckOutAfterMove == MergeTo([Unmerged EXCEPT !.ref = "new"], "setHead")

(* A checkout that fails may have written some files, and repo.merge may   *)
(* have left its state: the request ends there, without a repair.          *)
Broken(states) ==
  \E f \in {"old", "mixed", "new"}, p \in states :
    MergeTo([Unmerged EXCEPT !.files = f, !.pending = p, !.broken = TRUE], "merged")

(* The files first, then the ref, then HEAD.                               *)
CheckOut == MergeTo([Unmerged EXCEPT !.files = "new"], "moveRef")

FastForward ==
  /\ txn.op = "merge"
  /\ \/ /\ txn.at = "checkout"
        /\ CheckOut \/ Broken({FALSE})
     \/ /\ txn.at = "moveRef"
        /\ MergeTo([txn.base EXCEPT !.ref = "new"], "setHead") \/ MergeTo(txn.base, "restoreRef")
     \/ /\ txn.at = "setHead"
        /\ MergeTo(txn.base, "merged") \/ MergeTo(txn.base, "restoreRef")
  /\ UNCHANGED <<git, model, runtime, saved>>

(* restore_failed_fast_forward: whatever becomes of the ref, the files     *)
(* follow it.                                                              *)
RestoreFastForward ==
  /\ At("merge", "restoreRef")
  /\ \E r \in {"old", txn.base.ref} :
       \/ MergeTo([txn.base EXCEPT !.ref = r, !.files = r], "merged")
       \/ MergeTo([txn.base EXCEPT !.ref = r, !.wedged = TRUE], "merged")
  /\ UNCHANGED <<git, model, runtime, saved>>

(* repo.merge, then the index and the commit.                              *)
MergeNormally ==
  /\ At("merge", "index")
  /\ IF ~txn.base.pending
     THEN \/ MergeTo([Unmerged EXCEPT !.files = "new", !.pending = TRUE], "index")
          \/ Broken(BOOLEAN)
     ELSE \/ MergeTo([txn.base EXCEPT !.ref = "new"], "tidy")
          \/ MergeTo(txn.base, "abort")
  /\ UNCHANGED <<git, model, runtime, saved>>

(* abort_pending_merge: a forced checkout of HEAD, and cleanup_state.      *)
AbortPendingMerge ==
  \/ MergeTo([txn.base EXCEPT !.files = txn.base.ref, !.pending = FALSE], "merged")
  \/ MergeTo([txn.base EXCEPT !.wedged = TRUE], "merged")

(* After a failure, and when tidying up after a merge that stands fails.   *)
MergeCleansUp ==
  /\ txn.op = "merge"
  /\ \/ txn.at = "abort" /\ AbortPendingMerge
     \/ /\ txn.at = "tidy"
        /\ AbortPendingMerge \/ MergeTo([txn.base EXCEPT !.pending = FALSE], "merged")
  /\ UNCHANGED <<git, model, runtime, saved>>

MergeEnds ==
  /\ At("merge", "merged")
  /\ Finish
  /\ UNCHANGED <<git, model, runtime, saved>>

-----------------------------------------------------------------------------
(* Everybody else.                                                         *)

(* Programs in the terminals of a workspace write and commit.              *)
TerminalWrites(w) ==
  /\ tree[w] # NoBranch /\ SurfacesOf(w) \cap runtime # {}
  /\ dir[tree[w]] \in {"clean", "dirty"}
  /\ dir' = [dir EXCEPT ![tree[w]] = IF @ = "clean" THEN "dirty" ELSE "clean"]
  /\ UNCHANGED <<branches, registered, head, model, runtime, locks, saved, txn>>

(* They, the setup and teardown hooks and other programs check out another *)
(* branch in a worktree, or its own again; one worktree at a time may have *)
(* a branch.                                                               *)
SwitchBranch(b) ==
  /\ b \in registered /\ dir[b] \in {"clean", "dirty"}
  /\ \E u \in (UserBranches \cup {b}) \cap branches :
       /\ \A c \in registered : head[c] # u
       /\ head' = [head EXCEPT ![b] = u]
  /\ UNCHANGED <<branches, registered, dir, model, runtime, locks, saved, txn>>

(* Other programs remove a checkout and create what they like.  That one   *)
(* removes it while it is being opened is left out: the transaction would  *)
(* then show it in a second workspace, until a save merges the two; so is  *)
(* that one replaces it in the instant between its verification and its    *)
(* deletion.                                                               *)
OthersChange(b) ==
  /\ \/ dir[b] # "none" /\ txn.op # "open" /\ dir' = [dir EXCEPT ![b] = "none"]
     \/ dir[b] = "none" /\ txn.at \notin {"delete", "deleting"}
        /\ dir' = [dir EXCEPT ![b] = "foreign"]
  /\ UNCHANGED <<branches, registered, head, model, runtime, locks, saved, txn>>

(* worktree.list and worktree.status, and the checks of a request's cwd.   *)
Read ==
  /\ \/ ~readers /\ txn = Idle /\ readers' = TRUE
     \/ readers /\ readers' = FALSE
  /\ UNCHANGED <<git, model, runtime, surfaceSet, gates, poisoned, saved, txn>>

(* A hook command holds a gate; it refuses to work with a poisoned one.    *)
Hook ==
  /\ \/ gates = "free" /\ ~poisoned /\ txn.op = "remove" /\ gates' = "hook"
     \/ gates = "hook" /\ gates' = "free"
  /\ UNCHANGED <<git, model, runtime, readers, surfaceSet, poisoned, saved, txn>>

(* The transactions of SurfaceTransactions that matter here: a workspace   *)
(* of a worktree gets another surface, or one that is not the last closes. *)
OtherBegins ==
  /\ surfaceSet = "free" /\ surfaceSet' = "other"
  /\ UNCHANGED <<git, model, runtime, readers, gates, poisoned, saved, txn>>

OtherEnds ==
  /\ surfaceSet = "other" /\ surfaceSet' = "free"
  /\ \/ \E w \in Open, p \in Panes :
          /\ tree[w] # NoBranch
          /\ panes' = [panes EXCEPT ![w] = @ \cup {p}]
          /\ runtime' = runtime \cup {<<w, p>>}
          /\ UNCHANGED <<tree, active, blocked>>
     \/ \E w \in Open :
          /\ Open # {w}
          /\ CloseWorkspaces({w}, NoWorkspace)
          /\ runtime' = runtime \ SurfacesOf(w)
     \/ UNCHANGED <<model, runtime>>   \* it was refused
  /\ UNCHANGED <<git, readers, gates, poisoned, saved, txn>>

(* spawn_active_surfaces_if_needed, under the surface-set guard.           *)
Reconcile ==
  /\ surfaceSet = "free"
  /\ LET orphans == runtime \ Modelled
         missing == SurfacesOf(active) \ (runtime \cup blocked)
     IN /\ orphans \cup missing # {}
        /\ \E refused \in SUBSET missing :
             /\ runtime' = (runtime \ orphans) \cup (missing \ refused)
             /\ blocked' = blocked \cup refused
  /\ UNCHANGED <<git, tree, panes, active, locks, saved, txn>>

(* Focusing a surface selects its workspace, under no guard.               *)
ShowWorkspace ==
  /\ \E w \in Open \ {active} : SelectWorkspace(w)
  /\ UNCHANGED <<git, runtime, locks, saved, txn>>

(* A bug: the snapshot is taken whoever is at work.                        *)
Settled0 == TRUE

(* session_data_from_state saves when it gets both guards at once.         *)
Settled == WriteGuardFree /\ surfaceSet = "free"

Autosave ==
  /\ Settled
  /\ saved' = Snapshot
  /\ UNCHANGED <<git, model, runtime, locks, txn>>

(* repair_restored_workspace_paths.                                        *)
RestoredTree(t) ==
  [w \in DOMAIN t |-> IF t[w] # NoBranch /\ dir[t[w]] # "none" THEN t[w] ELSE NoBranch]

(* The process is killed and started again; the terminals of the active    *)
(* workspace come up by and by.                                            *)
Restart ==
  /\ tree' = RestoredTree(saved.tree) /\ active' = saved.active
  /\ \E P \in SUBSET Panes :
       /\ FirstPane \in P
       /\ panes' = [w \in DOMAIN tree' |-> IF tree'[w] = NoBranch THEN {FirstPane} ELSE P]
  /\ runtime' = {} /\ blocked' = {}
  /\ readers' = FALSE /\ surfaceSet' = "free" /\ gates' = "free" /\ poisoned' = FALSE
  /\ txn' = Idle
  /\ UNCHANGED <<git, saved>>

-----------------------------------------------------------------------------
OpenStep == \/ GitOpens \/ PruneStale \/ GitAdds \/ LockToOpen \/ FindOrCreate
            \/ Inventory \/ SpawnNext \/ Unspawn \/ UndoOpen

FilesystemStep == Prepare \/ Verify \/ StartDelete \/ Delete \/ Unregister

RemoveStep == \/ LockToRemove \/ LockGates \/ BeginRemoval \/ SpawnSpare \/ CloseNext
              \/ Reopen \/ Abandon \/ Rollback \/ UndoSpare \/ Restore \/ Commit
              \/ Ensure \/ Recover \/ CloseRest \/ CommitRest \/ DropSpare

MergeStep == MergeChecks \/ FastForward \/ RestoreFastForward \/ MergeNormally
             \/ MergeCleansUp \/ MergeEnds

TxnStep == OpenStep \/ FilesystemStep \/ RemoveStep \/ MergeStep

Request ==
  \E b \in Branches :
    \/ Begin([Idle EXCEPT !.op = "open", !.at = "git", !.b = b])
    \/ Begin([Idle EXCEPT !.op = "remove", !.at = "prepare", !.b = b])
    \/ Begin([Idle EXCEPT !.op = "merge", !.at = "git", !.b = b])

Others ==
  \/ \E w \in Open : TerminalWrites(w)
  \/ \E b \in Branches : OthersChange(b) \/ SwitchBranch(b)
  \/ Read \/ Hook \/ OtherBegins \/ OtherEnds \/ ShowWorkspace

Next == TxnStep \/ Panic \/ Request \/ Others \/ Reconcile \/ Autosave \/ Restart

Spec == Init /\ [][Next]_vars

(* Whoever holds a guard goes on and lets go, and a lock that is free      *)
(* again and again is had in the end: Tokio's and, in practice, the        *)
(* standard library's locks do not starve a waiting thread.                *)
LockStep == LockToOpen \/ LockToRemove \/ LockGates \/ Rollback \/ Commit \/ Recover

FairSpec ==
  /\ Spec
  /\ WF_vars(TxnStep) /\ SF_vars(LockStep)
  /\ WF_vars(gates = "hook" /\ Hook) /\ WF_vars(OtherEnds) /\ WF_vars(readers /\ Read)

-----------------------------------------------------------------------------
(* Properties.                                                             *)

(* When a removal of a worktree that a workspace shows comes to its end,   *)
(* whatever failed or panicked on the way, it has happened or it has not,  *)
(* unless the process is killed.  It has happened: something of the        *)
(* worktree is destroyed, its workspace is gone and, if nothing panicked,  *)
(* so are its terminals.  It has not: nothing is destroyed, the same       *)
(* workspaces are open as before, and the surfaces that had a terminal     *)
(* have one or a red status that says why not.                             *)
HasHappened ==
  /\ Irreversible(txn.progress) /\ txn.w \notin Open'
  /\ ~txn.recovering => txn.surfaces \cap runtime' = {}
HasNotHappened ==
  /\ ~Irreversible(txn.progress)
  /\ Open' = txn.initial /\ tree'[txn.w] = tree[txn.w]
  /\ txn.had \subseteq runtime' \cup blocked'
RemovalIsAtomic ==
  [][txn.op = "remove" /\ txn.w # NoWorkspace /\ txn' = Idle =>
       HasHappened \/ HasNotHappened \/ Restart]_vars

(* Uncommitted work, also of a terminal of the worktree itself that wrote  *)
(* until it was closed, and directories that are something else, also when *)
(* they appear in the course of a removal, are deleted by other programs   *)
(* only.                                                                   *)
OnlyCleanIsDeleted ==
  [][\A b \in Branches :
       txn.op = "remove" /\ dir[b] \in {"dirty", "foreign"} /\ dir'[b] = "none" =>
         OthersChange(b)]_vars

(* No failure and no rollback of a transaction deletes a branch that       *)
(* existed when the transaction began, with one exception, against the     *)
(* comment of WorktreeInfo.branch_created: when an open that created its   *)
(* branch is rolled back and a setup hook or a program in the first        *)
(* terminal has checked out another branch in the new worktree by then,    *)
(* that other branch goes and the one created stays.                       *)
TakenForCreated ==
  IF txn.op = "open" /\ txn.branchCreated THEN {txn.doomed} \cap UserBranches ELSE {}
BranchesStay ==
  [][txn.branchesBefore \cap branches \subseteq branches' \cup TakenForCreated]_vars

(* What a transaction opened and may yet undo never reaches the session    *)
(* file, from which a restart would bring it back.                         *)
ProvisionalNotSaved == txn.spare # NoWorkspace => txn.spare \notin DOMAIN saved.tree

(* A worktree is shown in one workspace, however often it is opened,       *)
(* removed, deleted by others and made anew.                               *)
ShownOnce ==
  \A v, w \in Open : tree[v] = tree[w] /\ tree[v] # NoBranch => v = w

(* Gates poisoned by a panic serve hooks again once it is recovered from.  *)
NoPoisonLeft == txn = Idle => ~poisoned

(* When a merge ends, files and ref of the base checkout agree and no      *)
(* merge is pending, whichever of its later steps failed, unless Git also  *)
(* refused to repair them.  If the very checkout it begins with failed,    *)
(* nothing repairs what that left, but the branch has not moved.           *)
MergeSettles ==
  LET base == txn.base
      settled == base.files = base.ref /\ ~base.pending
  IN txn.at = "merged" =>
       IF base.broken THEN base.ref = "old" ELSE base.wedged \/ settled

(* No transaction keeps the worktree guard for ever: none of its steps     *)
(* waits for a lock it holds, or for one whose holder waits for it.        *)
TransactionsEnd == []<>(txn = Idle)
=============================================================================
