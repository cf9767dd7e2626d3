# ForkTTY: specifications, model checking and proofs

ForkTTY is a GTK terminal multiplexer for coding agents. One GTK thread owns the
windows and terminal widgets; a socket server (one task per connection), agent hook
processes and the GUI all change the same workspace model and start, stop and write to
the same terminals. This project specifies in TLA+ the protocols between these actors
and the data they work on, checks them with TLC on small instances and proves the core
of them with TLAPS for all parameters.

Paths below are relative to `src/`; `gtk_app/` is `crates/forktty-ui-gtk/src/gtk_app/`,
`socket/` is `crates/forktty-socket/src/` and `core/` is `crates/forktty-core/src/`.

## Inventory

| Component | Where | State | Operations | Status |
|---|---|---|---|---|
| Terminal backend | `gtk_app/backend.rs`, `controller.rs`, `controller/embedded_spawn.rs`, `embedded_runtime.rs` | runtime map (generation, ready, leases), command channel, panes, generation counter | spawn, close, forget, send/read text, resize, widget callbacks, scrollback snapshot | `TerminalBackend` (no resize) |
| Surface transactions | `socket/surface_lifecycle.rs`, `surface_runtime.rs`, `workspace_runtime.rs`, `workspace_creation.rs`, `coordinator.rs`; `gtk_app/workspace_ops.rs`, `workspace_dialogs.rs` | surface-set guard, compensations that travel with Spawn commands | create, split, new tab, close, select, focus, restart, reconcile | `SurfaceTransactions` |
| Worktree transactions | `socket/worktree_runtime.rs`, `coordinator.rs`, `core/worktree.rs`, `gtk_app/worktree_dialog.rs` | phase and progress of a removal, worktree guards, rollback of an open, merge in progress | open, remove, merge; recovery from a panic | `WorktreeTransactions` |
| Workspace model | `core/model.rs`, `core/model/pane_tree.rs` | surfaces, workspaces and their order, pane trees, tabs, focus, active workspace | create, split, tab, move, swap, focus, close, undo, collapse, save, restore | `WorkspaceModel`, `PaneTree` |
| Activity | `core/model/activity.rs` | notifications with cap, prompts, unread and attention marks; statuses, progress, logs | create, renew, read, dismiss, resolve, withdraw, clear, recount | notifications and marks in `WorkspaceModel` |
| Hook ingress | `socket/hook_session.rs`, `metadata_runtime.rs` | a record per agent session (learned target, watermark, takeover), a gate per surface | serialised hook commands, eviction | `HookIngress` |
| Agent sessions | `socket/agent_runtime.rs`, `gtk_app/agents_panel.rs` | lifecycle of the agent of a surface | hibernate, reclaim, resume, forget | hibernate, forget, exit in `HookIngress` |
| Socket server | `socket/lib.rs`, `connection.rs`, `gtk_app/socket_server.rs` | connections and subscribers with permits, admission | accept, refuse, read, admit, answer, time out, shut down | `SocketServer` |
| Session persistence | `core/session.rs`, `gtk_app/app.rs` | session file, phases of closing the window | save, autosave, restore, close | `WindowClose`; what a session holds in `WorkspaceModel` |
| Events | `core/events.rs`, `socket/lib.rs`, `connection.rs` | last snapshot, broadcast buffer, subscribers | tick, diff, subscribe, replay, lag | `EventStream` |
| PTY persistence | `core/pty_persistence.rs`, `gtk_app/controller.rs`, `controller/embedded_spawn.rs`, `app.rs`, `settings_dialog.rs` | broker sessions named by surface id, the setting, the ids handed out | attach or create, end with a pane, at a change of the setting, at start and close | `PtySessions` |
| Others | updater, terminal engine, widgets, CLI, import, vendored bindings | | | not modelled; see the end |

How they interact. A request enters over the socket (or from a menu), is admitted by the
server and takes the *surface-set guard*, worktree requests the *worktree guard* before
it; it edits the model under the model mutex, and the runtime map of
the backend under another mutex, never both together. The backend turns spawn and close
into commands on a channel to the GTK thread, which executes one per frame. A creation
hands its guard, inside a compensation, to its Spawn command; the GTK thread disarms the
compensation when the terminal exists and runs it when it cannot be built. Reconciliation
on the GTK thread (only when the guard is free) reaps runtimes without a surface and
spawns missing ones. Hooks bypass the guard: they are serialised by a record per session
and a gate per surface, and closes, hibernation and removals take the gates. Saves need both guards
to be free. A tick compares snapshots of the model and broadcasts the difference. Locks are
taken in the order worktree guard, surface-set guard, gates, model.

What is hard is listed line by line under `hazards` in `PROJECT.json`. The themes: an id
is reused by a later incarnation while commands and callbacks of the earlier one are still
around; a timeout races with a late answer; two or three stores are edited under
different locks and any step in between may fail, panic or be the last before a kill; a
compensation runs on another thread long after the request that armed it; hook events
arrive late, twice and out of order; several kinds of lock nest; the application closes
while all of this goes on; and a layout that grew through any series of legal edits
has to be accepted at the next start.

## Modules

**`TerminalBackend`** is the runtime map, the channel and the GTK thread. `generationOf`,
`ready` and `leases` are the map's entries; `nextGeneration` is the counter with
0 for exhausted; `queue` the channel; `gtk` the command in hand; `pane` the shown widget of
a surface; `built` the generations whose widgets ever existed, since signals of
a widget may fire after it was replaced; `call` the socket threads. One action is one
critical section of the map's mutex or one step of the GTK thread between two of them:
`Spawn`, `BeginClose`/`CloseWaits`/`Close`/`CloseTimesOut`/`Forget`, `BeginSend`/
`EnqueueSend`/`ReceiveReply`/`ReplyTimesOut`/`CancelPending`, and on the other side
`TakeSpawn`/`BuildPane`/`InsertPane`/`BuildFails`, `TakeClose`, `TakeSend`/`LeaseForSend`/
`RunSend`/`Reply`, the callbacks, the snapshot and `Quit`. `SendText` stands for
`ReadText`.

**`CommandDelivery`** is the abstract promise to a caller of `send_text`: the text is
delivered at most once, the answer is true, and after a timeout it never runs.
`DeliveryIsHonest` says that `TerminalBackend` implements it, under the refinement
mapping `FateOf`/`ToldTo`.

**`SurfaceTransactions`** is the transactions over model and runtimes. `home` and `layout`
are the model (a pane tree is the set of its leaves: which neighbour comes next is a free
choice), `runtime` is the map of `TerminalBackend` reduced to none, queued and live,
`txn` is the guard's holder with its program counter, `handler` the compensation with the
guard it carries. Every backend call may fail; a replacement whose clean-up fails as well (place
`spareKept`) stays behind as one of the `Orphans`, which `Reconcile` reaps as far as closing succeeds.
`CloseSpare` and `CloseSurfaceRequest` stand for the closes from the GTK thread too
(`gtk_app/workspace_ops.rs:674`, `777`). What takes no guard (`SelectTab`,
`ShowSurface`, `MoveTab`, `ClearStatus`) may happen between any two steps.

**`WorktreeTransactions`** is the open, removal and merge of Git worktrees. `branches`,
`registered` and `dir` are Git and the file system, `tree`, `panes` and `active` the
model, `runtime` the terminals, `saved` the session file; `txn` is the holder of the
worktree guard with its place and with what the code records for rollback and recovery
(`phase`, `progress`, `had`, `initial`, `spare`). Every Git, hook and backend call may
fail; `Panic` may strike any step of a removal and leaves the gates it holds poisoned;
`Restart` is a kill and the next launch. Terminals write into their checkout, other
programs delete and create directories (`OthersChange`), hooks hold gates, GTK reconciles, saves
and shows workspaces, all in between. `head` is the branch that a worktree's HEAD names: hooks, terminals and
other programs may check out another one in it (`SwitchBranch`, `UserBranches`), and `doomed` is the one that a
rollback is going to delete. A checkout or a `repo.merge` that fails leaves the base checkout in any state
(`Broken`). A workspace without a worktree has one surface. Panes are not kept in the
saved session but chosen anew on restart. Ids are never reused by the program; the model
reuses one when nothing refers to it any more, so that behaviours need not end. Of the locks that a panic poisons
and the recovery clears, only the gates are modelled; the code recovers the model, target and claim locks in the same way
(`worktree_runtime.rs:683-723`). A worktree whose HEAD names another branch is not found when its first branch is
opened again: Git then makes a second one, under a name with a number, which is left out (the request is refused).

**`SocketServer`** is the server of one launch: a connection is at one of the places where
its task can stand, with permits for connections and subscribers, a refusal over capacity,
timeouts at every wait, and the shutdown that first closes admission (`CloseAdmission`)
and only then wakes the tasks (`TellTasks`). **`WindowClose`** extends it with what serving does and with the
application around it: restore or bootstrap, transactions, deferred spawns that keep the
guard until GTK's timer runs them, saves as their system calls (`Flush`, `Rename`,
`SyncDirectory`, failure at each), the phases of closing (`RequestClose`, `AwaitServer`,
`LastSave`, `Finalize`), kills and power failures. `onDisk` is the set of file versions that a power failure
may leave. A session is the set of the clients' changes it contains.

**`EventStream`** is the event feed: `prev` is the snapshot the tick keeps, `Diff` the events between
two snapshots as functions from the keys they are about to values, `queue` what the broadcast
channel holds for each receiver, `view` what a client makes of the events: of several events
about a key the last one counts. `unsure` is a
history variable: the keys about which a client need not be right yet.

**`PtySessions`** is the shells that outlive the application: `session` is the surface ids with a
broker, `attached` the panes that show one, `next` and `saved` what decides which ids come again;
`keep` is the setting as the close has read it. `discarded`, `missed` and `preserved` are
history variables: the sessions of surfaces that were closed, restarted or lost, those of them that the program does
not end, and those kept at a turn-off although no pane showed them. A
transaction and a turn of the GTK thread are one step each (`SurfaceTransactions` takes them apart),
so that the model is about what several launches, changes of the setting (`TurnOn`, `TurnOff`),
kills and queued commands make of the sessions. Each surface has its queue of commands; which
missing terminals a rebuild of the layout starts (`Rebuilt`) is left open. Launches start from the
file (`HighWater` says where ids go on) or bootstrap.

**`PaneTree`** is the pane tree as data, a function from paths to nodes (so that what the code does by
recursion is a statement about paths), and its edits as operators: split beside a pane or in
a split of its own, push, show, move and remove tabs, remove panes with the collapse of
splits, swap panes. **`WorkspaceModel`** is the model over it, one action per operation
under the model's mutex. `transaction` is what the holder of the surface-set guard has yet
to do: confirm or undo a creation (`Commit`, `UndoSurface`, `UndoWorkspace`), or withdraw
the prompts of what it closed (`EvictPrompts`). The flags `unread`, `attention` and `noted` are state of
their own because the code keeps them so: set one by one by `MarkTarget` and `Recount`, and
computed anew by `RecountAll` when notifications go. `Save` is the repair that each save
makes; `ToSessionData`, `ValidSession` and `Restored` are what is written, what a launch
accepts and what it makes of it.

**`HookIngress`** is the hook commands of concurrent connections (`Enter` finds or makes
the record, `Resolve` takes it and picks the target, `Check` takes the gate and decides,
`Apply` mutates and releases both), against closes (`LockGate`, `CommitClose`, then
`LockRegistry` and `CleanRecord`), hibernation (`Suspend`, `CloseHibernated`) and what
takes no lock (`ChildExit`, closes from the GTK thread, `Forget` in the agents panel and the `UndoForget` that
its `toast` offers). Of several toasts of a surface one, any of them, is kept. `putBack` is a history variable: the
surfaces whose session Undo has put back since a hook was last checked on them. The lifecycle of an agent
session is the data the hooks and the operations fight about.

`MC*` modules add the symmetry TLC uses; the `.cfg` files give the constants.
The `*_proofs` modules hold the proofs. Operators introduced by a comment "A bug" or "A mutant" are
not used by the specification: each is a plausible mistake in the operator after it, kept
beside it to show that the properties notice it.

## Runs

| Run | Instance | Shows |
|---|---|---|
| `backend` | 1 surface, 2 calls, 2 generations | types; entries and panes never strand each other; sends implement `CommandDelivery`; leases protect and are counted exactly; observations move forward; every call returns |
| `transactions_safety` | 3 surfaces, 2 workspaces | layouts sound with one active workspace (`ModelSound`), no orphans but replacements whose clean-up failed (`OrphansAreKeptSpares`), processes end before their surfaces leave, creations settle |
| `transactions_liveness` | 2 surfaces, 2 workspaces | the guard is released; reconciliation converges and reaps what was left |
| `hooks_order` | 2 sessions, 1 surface, 2 connections, 3 requests | late hooks inert; order kept; takeovers granted |
| `hooks_locks` | 2 sessions, 1 surface, registry of 1, 2 requests | types; closed surfaces are forgotten; no deadlock |
| `hooks_tombstone` | 1 session, 1 surface, 3 requests | a violation: see below |
| `worktree_safety` | 1 branch and 1 that programs check out, 2 workspaces, 2 panes | types; removals happen wholly or not at all; no uncommitted work is deleted; branches stay; nothing provisional is saved; one workspace per worktree; gates recover; merges settle |
| `worktree_liveness` | 1 branch, 2 workspaces, 1 pane | every worktree transaction ends |
| `window_close` | 2 clients, 1 connection permit, 1 subscriber permit, 1 launch | types; what was admitted is served and saved for good; no half-made surface is saved; the file is never torn; work stays; the close completes |
| `event_stream` | 1 subscriber, 2 workspaces, 3 surfaces, buffer of 2, 3 changes | differences are exact; a client that was not told it lags is right |
| `pty_sessions` | 2 surface ids, 3 commands queued for each | no shell runs on behind another one in its pane; no surface comes back to a session that was to end, but for the cases listed below; closing a pane ends its session |
| `workspace_model` | 4 surfaces, 2 workspaces, split depth 1, 2 notifications | every session that may be saved is accepted and restores the layout; the marks are exact |

Why these bounds. In the backend, every race is between an incarnation and its successor, so two
generations meet all of them, and exhaustion of the counter at `MaxGeneration`, which stands for
`u64::MAX`, is reached too. Two calls give a close against a send or two closes of the same
incarnation; what concerns several surfaces is proved for all of them. In the surface transactions
only one request runs at a time; three surfaces are a surface, a sibling and the new one or the
replacement; two workspaces make both the last and the not-last close. Ids are not reused there, so
the number of surfaces also bounds creations. In the hooks two sessions are an owner and a newcomer;
`MaxRequests` counts commands, closes, hibernations and agents forgotten together, and 3 is the length of the longest
race named in the hazards (a report, a hibernation, a late report). The order and lock runs are
separate because their product does not finish. In the worktrees one transaction runs at a time and
concerns one branch; two workspaces are the one that shows it and another, which is also the spare;
two panes let the second terminal fail to close after the first did; one more branch is enough for a HEAD that does
not name the worktree's own (the liveness run has none: no guard waits for HEAD). In `window_close` the second
client meets a server without a permit; one launch is enough since any flushed file is an initial
state. Three changes let something be made, changed and removed between two ticks, and a buffer of
two is overrun by the events of one of them; receivers share nothing, so one is enough. In
`pty_sessions` two ids are the one of the first workspace and another that could be reused or
skipped, three commands are a spawn, its close and the next spawn; launches and changes of the
setting are unbounded, and the proofs cover any number of ids. In `workspace_model` the limit of
split depth is 1 where the code has 6, and four surfaces are the fewest that could pass it; a list
of two notifications evicts at the third. Four surfaces appear only in a single workspace without
marks and, while the creation of one of them is pending, panes are not rearranged (`FewSurfaces`
bounds both); `MaxMarks` bounds output marks and notifications together. `CHECK_DEADLOCK FALSE`
appears in the hook runs, where the bounded requests end, and in `window_close`, where the last
launch does. Symmetry is never used with liveness.

Fairness. `TerminalBackend`: a thread inside a call goes on and its timed waits end, and
the GTK main loop completes what it has begun (`GtkWork`). That it ever takes the next
command is *not* assumed: the timeouts exist for a GTK thread that is busy.
`SurfaceTransactions`: request threads go on; the GTK thread serves its queue on a frame timer
first come first served (strong fairness per surface stands for the FIFO the model does not
keep) and reconciles on a timer; of the closes of an orphan that it tries again and again one succeeds (strong
fairness for `Reap`), since leases end. `HookIngress`: threads go on when the lock they want is
free; as requests are bounded, no lock is contended for ever. `WorktreeTransactions`: the
transaction goes on (weak), those who hold a guard, a gate or a reader's share let go (weak), and a lock that
is free again and again is had in the end (strong, `LockStep`): Tokio's locks queue, and
the standard library's do not starve a waiter in practice. `WindowClose`: the accept loop, the tasks, user
transactions, a running save and the last phase go on (weak); the guard, a Tokio mutex, is a queue
(strong for `TakeGuard`, `LastSave`), and the main loop gets to its timer and to the
futures it polls although saves may come in between (strong). That the user closes the window is not
assumed. `PtySessions`: the timer handles the next command of a surface as long as the application
lives (weak). `EventStream` has no liveness: the tick uses `try_lock` and may find the model
locked every time.

## What the checks found

`hooks_tombstone` states SPEC.md:499-502, that only an explicit resume replaces
`Suspended`, and TLC refutes it: `apply_embedded_child_exit` sets `Ended` without looking
at the present lifecycle and takes neither gate nor guard, so an agent that exits between
hibernate's mark and the removal of its runtime entry ends up `Ended`, and reconciliation
may start it again. Late *hook* events are inert, as the same paragraph promises
(`LateHooksAreInert`).

Met while modelling:

- The comment of `core/worktree.rs:1022-1025` says that pruning a stale registration never deletes a file-system
  path, but the code sets `working_tree(true)`, with which libgit2 deletes the directory if it is a worktree
  again at that moment: one that another program moves away and back around the check is lost.
  `OnlyCleanIsDeleted` is about removals, where the option is off.
- SPEC.md:151-154 says that closing or restarting a surface ends its broker session, "so a future reused surface
  id cannot attach to stale detached state". Where the surface has no pane yet in this launch the code ends nothing:
  nothing is queued for a terminal without an entry, and the handler of `Close` returns early without a
  pane (`gtk_app/controller.rs:384-427`). After a close the broker runs on, and no surface comes back to it as long as
  the file is saved (`NeverStale`); after a restart (`gtk_app/workspace_ops.rs:423-424`) the new spawn
  attaches to the old shell. `missed` holds the session after such a restart, and `NeverStale` excepts it;
  `ClosedPanesEnd` is about surfaces with a pane.
- A kill before the next save loses the last ids, and a session file that cannot be read all of
  them: a new surface may then attach to the session of the lost one, closed or not. These are in `missed`, too.
- SPEC.md:154-155 and the comment of `cleanup_managed_sessions` (`core/pty_persistence.rs:237-240`) say that turning the
  setting off keeps the sessions of visible surfaces. The code keeps those of all surfaces of the model
  (`gtk_app/app.rs:1164-1176`): one that no pane shows yet runs on, behind the plain shell that its surface gets
  when it is shown. `preserved` holds such sessions, and `NoHiddenSession` excepts exactly them.
- A plain terminal in which an agent was started is brought back without the broker, by the
  provider's resume, while the old agent runs on in its session (`NoHiddenSession` excepts it).
- Undo in the toast "Agent forgotten" puts a session back under no gate and no guard
  (`gtk_app/agents_panel.rs:496-508`). A hook of another session that was let through before mutates after it: it
  replaces a live owner without a takeover, or a suspended one. `TakeoversAreGranted` and `LateHooksAreInert` except
  the surfaces in `putBack`, and hold of all others.
- The comment of `branch_created` (`core/worktree.rs:110-113`) says that a rollback never destroys a branch that was
  there before. The code deletes the branch that HEAD of the worktree names when the removal is prepared
  (`core/worktree.rs:538`, `900-908`, deleted at `282-285`): if a setup hook or a program in the first
  terminal has checked out an older branch by then, that one goes and the one created stays. `BranchesStay` excepts this
  case (`TakenForCreated`) and no other.
- A `checkout_tree` or `repo.merge` that fails (`core/worktree.rs:606`, `627`) leaves by `?` before
  `restore_failed_fast_forward` or `abort_pending_merge`; libgit2 does not write a checkout atomically, so files of both trees
  or a pending merge may stay. `MergeSettles` says that the branch has then not moved, and that every other failure is repaired
  unless Git refuses that.
- A replacement terminal that cannot be cleaned up after a failed close (`socket/surface_lifecycle.rs:616-630`; a lease on it does
  not end in time) runs without a surface until a reconciliation reaps it, in a workspace close even after
  its workspace was rolled back. `OrphansAreKeptSpares` and `ProcessEndsFirst` name it, `ReconciliationConverges` ends it.
- A subscriber to events may keep a view that is wrong for good: the replay shows the model of the moment,
  the tick compares its own snapshots, and what appears before the replay and is
  gone at the next tick is never announced as gone (`socket/connection.rs:374-377` only speaks of duplicates).
  `EventStream` allows for it: `unsure` holds what had changed between the last tick and the replay.
- Moving a tab between panes leaves the workspace's focus where it was, possibly on a
  hidden tab; a save shows it.
- An evicted session record loses its watermark, so order is kept per registration only.
- A replacement whose spawn fails leaves a red status under an id the model never had.
- The rollback of an open deletes a worktree that was made anew at the same path, if it
  is clean, although terminals of an older workspace still run in it; a directory
  that comes and goes during an open may show a worktree twice until the next save repairs it (the
  second is left out of the model). A panic while opening has no recovery (left out).
- A worktree transaction of the user that waits for the guards behind the last save may
  begin after it and is killed by the exit (`UserTransaction`). A kill leaves the
  temporary file behind. A session file that cannot be read leads to a new session, whose
  next save overwrites it.
- Once a panic has poisoned the model's lock, ticks are skipped for ever.
- Repair's renaming of duplicate ids and mending of trees cannot be reached from a session that validation
  accepts or from a model whose invariant `SessionSurvivesRestart` states. A notification about a surface
  that is gone marks its workspace, but only until the next recount. The collapse
  of duplicate worktrees leaves prompt correlations behind; ids never return, so they are inert.

## Proofs

All for every value of the constants, from the named assumptions on them only. Each
proof has one step per action and lemmas for the operators and shapes of step shared by them.

`TerminalBackend_proofs`:

- `TypeCorrect`: `Spec => []TypeOK`, split into the calls (`CallsType`) and the rest.
- `LeasesProtect` and `LeasesCounted`: `Spec => []LeasedIncarnationStays` and
  `[]LeaseCountExact`. The inductive invariant `LeaseInv` adds what neither says: every leased
  incarnation is current, a surface's count is one if it is leased and zero if not, and no
  lease is held in the states where the GTK thread works without one. Without it a release
  could be counted against a successor of the incarnation.
- `ModelMovesForward`: `Spec => ObservationsMoveForward`. `GenerationInv` has three
  parts. `LatestInv`: no pane, observer, built widget, queued Spawn or Spawn in hand has a
  generation later than its surface's entry, nor at or past `nextGeneration` unless that is
  exhausted. `PaneInv`: a pane on screen is the latest incarnation built and observed, and
  there is none while a pane of its surface is being built; this is why the scrollback
  written on closing a pane, which takes no lease, is still in order. `WriterInv`: what the
  GTK thread otherwise writes to the model is about the incarnation it has leased.

`WindowClose_proofs` proves `TypeOK`, `AdmittedIsSaved`, `DeferredNotSaved`, `NeverTorn` and
`WorkStays` from one invariant, `IInv`. `IdleServer`: a server that is off or done has no connections.
`NotUp`: before the session is there, nobody serves and nobody holds the guard, so restoring wipes
nothing. `DeferredHeld`: a surface without its terminal has the guard, so no save begins and
none is running. `SnapshotKept`: a running save writes no more than what is in the model.
`DiskFlushed`: whatever a power failure may leave is flushed, and the visible file is among it;
`Renamed`: before the directory is flushed the file is the new one. `ClosingStopped`: once
the drain is over the server is done, so nothing is admitted or served any more. `LastSaved`: from the last
snapshot on, model and file agree as far as the save has got. `NeverTorn` and `WorkStays`
are about steps and follow from it action by action.

`WorktreeTransactions_proofs` proves all eight safety properties that `worktree_safety` checks, from
an invariant in three layers, each inductive given those before it:

- `Typed`: types of the stores and of the transaction record; which guards are held at which
  place (`Guarded`); that gates are poisoned only while a recovery is due; that what an open or removal
  made provisionally is not in the saved session. From it `TypeCorrect`, `ProvisionalStaysOut` and
  `PoisonIsCleared`.
- `Shown`: what a transaction knows of Git and of the model. `BranchesKnown`: branches there at the
  beginning are still there, and a branch it would delete on rollback was not, unless another was checked out in its place; `HeadsKnown`: which
branch a worktree's HEAD names. `MergeProgress`: what files, ref
  and pending merge are at each place of a merge. `OpenedIsThere` and `SavedOnce`: a worktree
  that is being shown exists, and neither the model nor the saved session shows one twice.
  From it `BranchesAreKept`, `MergesSettle` and `ShownInOne`.
- `Removal`: a removal from begin to recovery. `Untouched`: before its file-system commit nothing is
  destroyed. `TargetOpen`: until the model is committed its workspace is open and shows the
  worktree. `Destroyed`: its recorded progress never claims less than what is gone.
  `OthersStayOpen`: other workspaces are as they were, but for the spare. `TerminalsKnown`,
  `TargetQuiet`: which terminals are closed, and from the last one on nothing runs in the checkout,
  so that (`TargetClean`) what was verified to be clean stays clean until it is deleted.
  `AtRecovery`: a recovery starts only where these let it decide. From it `RemovalsAreAtomic` and
  `WorkIsNotDeleted`.

`PtySessions_proofs` proves `NoHiddenSession` and `NeverStale`. The invariant adds to the types
`MarksHold`: the surfaces, of the model and of the file, are at most the mark from which ids go on;
`DownIsEmpty`: without a process there are only brokers and the file; `DiscardedIsOut`: a discarded
session that is not `missed` is of an id at most the mark and, if its surface is still there, of one with a pane, which
keeps any spawn out until the close has ended it; `OffIsKnown`: with the setting off, a session is of a pane or is
`preserved`; `SpawnsAreModeled`: a surface is there as long as its
newest command would make a terminal; and `Shown`, which is `NoHiddenSession`. A fresh id is thus
never that of a discarded session that the program ends.

On top of the types, leases and generations, `TerminalBackend_proofs` proves:

- `NothingIsStranded`: `Spec => []NoStrandedIncarnation`, with what the channel and the GTK thread hold for
  each entry and each pane.
- `DeliveryProved`: `Spec => DeliveryIsHonest`, the refinement of `CommandDelivery`, step by step: `FateOf` and
  `ToldTo` of every call make a step of the abstract specification or none.

`HookIngress_proofs` proves `TypeOK`, `LearnedTargetsLive`, `LateHooksAreInert`, `TakeoversAreGranted` and
`AppliedInOrder`. `LockInv`: a record serves one event, a gate has one holder, and a close that commits holds the gates of all its
surfaces. `OwnerInv`: what an event saw of the lifecycle and the owner of a surface when it decided is still good
when it mutates, unless the surface is in `putBack`: whoever else takes no gate only ends or forgets a session. `OrderInv`: no event newer than one
that was let through is applied before it. `LearnInv`: a record that has learned a closed surface, or is about to,
is one that the close still has to clean.

`SurfaceTransactions_proofs` proves `ModelSound`, `OrphansAreKeptSpares`, `ProcessEndsFirst` and `CreationSettles`. The
invariant is `ModelInv` (two structures of the model in agreement) with one part for each actor: `GuardInv` (one
transaction or one compensation has the guard, and a creation shares it only until its command is in the
channel), `GtkInv` (what the GTK thread has in hand), `HandlerInv` (a compensation can still undo its creation, and
its command is queued or has failed and left nothing), `SnapshotInv` (the layout that it would put back fits the
surfaces there were before), `FreshInv` (a surface that was never made has no runtime), and
`CloseSurfaceInv`, `CloseWorkspaceInv`, `FocusInv` (what each of these transactions relies on from step to step). For
`OrphansAreKeptSpares`, `SpareGoes` says that a step in which a transaction lets go of a spare without a surface leaves it no
runtime, unless the place is `spareKept`. It assumes only
that ids are no `None` and no words of the program counters (`NoIdAssumption`).

`EventStream_proofs` proves `DiffExact` and `EventsAreTrue`. Its vocabulary is what a sequence of events says of one
key: `Tells` (its last event on the key gives it a value), `Silent`, and `Takes` (who has one value and is told
the sequence has the other). `DiffTakes` follows a key through the eight kinds of events in the
order in which they are listed, each of which comes in any order; the comparison is exact only for worlds in which
nothing hangs on what is not there (`Sound`), which every change of the model keeps. From there
`TruthInv`: what waits in the queue of a client that lost nothing, followed by what is still to be broadcast,
takes its view to the snapshot of the tick, or the client is unsure of the key and is told nothing of it.
The sets of workspaces and surfaces are assumed finite, as a sequence lists them.

`WorkspaceModel_proofs` proves `AttentionExact` and `SessionSurvivesRestart`, for trees of any shape and any depth limit.

- The marks. The invariant `MarkInv` has `ListInv` (no workspace is listed twice, and surfaces belong to
  listed ones), `NotesInv` (a notification about a surface that is there names the workspace of that
  surface), `FlagsInv` (the property, and that `noted`, `output` and `unread` agree) and `PlanInv` (what a
  creation would undo is still there, in the workspace it names).
- The trees. `Sound(t, S)`: the paths of `t` make a tree (`Shape`: each has its `Elders`, the earlier children of
  every split on its way, and its `Ancestors`; `Forks`: no split is too deep, and each has a second child), and each
  surface of `S` is one tab of one pane (`Partition`). One lemma for each edit says for which surfaces the result is
  sound: `PushTabSound`, `RemoveTabSound`, `MoveTabSound`, `SwapSound`, `SplitLeafSound` (a new split under the guard of
  the code, or a place in the split above) and `RemoveLeafSound` (the later panes close the gap, or the last sibling
  takes the place of the split); `NeighborIn` and `FirstLeafIn` say that who inherits the focus stays.
- The layout. `LayoutInv`: the tree of a listed workspace is sound for exactly the surfaces that belong to it, its
  focus is one of them, and one listed workspace is active. `UndoInv`: so is what an undo would bring back, which
  is why undoing needs no repair. `SavedIsValid` and `RestoredIs` take the invariant to the property.

`NoIdAssumption`: the id that stands for none is no id.

Model-checked only: all liveness, which TLAPS cannot prove under fairness.

## Plan

1. `agent.resume` in `HookIngress`.
2. Statuses, progress and logs with their caps; resize in the backend.

## Not modelled, and why

Left out of modelled parts: resize and its size cache; SSH and browser surfaces as kinds of their
own; split ratios, names, working directories, ports and pull requests of workspaces; statuses,
progress and logs except the red status of a failed spawn; broker processes that ignore signals, and
the setting edited in its file by hand; matching a prompt with its answer; desktop notifications;
worktree listing and path checks in detail; older places of the session file, its lock against a
second instance, and what autosave remembers to skip a write; the user's own edits in `WindowClose`,
where restoring at start would wipe edits made in the instant before; notifications in the event
feed (announced, never withdrawn). Poisoning of locks is modelled for the
gates only; the recovery of a worktree removal clears the model, target and claim locks alike.

Left out as a whole: terminal emulation and rendering (foreign code and escape sequences, no protocol between
actors), appearance, dialogs and menus (presentation of modelled state), the
updater (network I/O; it keeps the time of the last check), import of settings and browser data,
command-line front ends and build tasks (sequential I/O), vendored bindings.
