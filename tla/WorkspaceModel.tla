--------------------------- MODULE WorkspaceModel ---------------------------
(***************************************************************************)
(* WorkspaceModel of forktty-core (model.rs and model/activity.rs): the     *)
(* workspaces with their pane trees, the surfaces, and the marks and        *)
(* notifications that ask for the user's attention.  Every operation runs   *)
(* under the model's mutex and is one action.  Operations that add or       *)
(* remove surfaces hold the surface-set guard until their terminals exist   *)
(* or they are undone (transaction); focus, tabs, order and notifications   *)
(* need no guard.  At any time the model may be saved and restored.         *)
(***************************************************************************)
EXTENDS PaneTree, FiniteSets

CONSTANTS Surfaces, Workspaces,  \* ids; one is used again when nothing names it
          NoSurface, NoWorkspace,
          MaxSplitDepth,         \* MAX_SESSION_SPLIT_DEPTH
          MaxNotifications,      \* MAX_NOTIFICATIONS
          MaxMarks,              \* bound on output marks and notifications together
          FewSurfaces            \* bound on surfaces beside marks or a second workspace

ASSUME SizesAssumption == MaxSplitDepth \in Nat /\ MaxNotifications \in Nat \ {0}
ASSUME NoIdAssumption == NoSurface \notin Surfaces /\ NoWorkspace \notin Workspaces

VARIABLES
  order,          \* workspace_order
  active,         \* the workspaces flagged active
  tree, focus,    \* pane_tree and focused_surface_id of each workspace
  worktree,       \* whether the workspace is one of the worktree
  home,           \* the workspace a surface belongs to
  output,         \* output_unread_surface_ids \* of surfaces that exist: ids do not
  noted,          \* notification_unread_surface_ids \* come back
  unread,         \* the surfaces flagged unread, which need attention
  attention,      \* the workspaces flagged needs_attention
  notifications,  \* oldest first; prompt: an agent waits for the answer
  transaction     \* what the holder of the surface-set guard has yet to do

layout == <<order, active, tree, focus, worktree, home>>
activity == <<output, noted, unread, attention, notifications>>
vars == <<layout, activity, transaction>>

Live == {s \in Surfaces : home[s] # NoWorkspace}
FirstListed(W) == order[Min({i \in DOMAIN order : order[i] \in W})]
SurfacesOf(w) == {s \in Surfaces : home[s] = w}
Listed == ToSet(order)
NoTree == <<>>

(* The elements of a sequence at some of its indices, in order.            *)
AtIndices(seq, I) ==
  [k \in 1 .. Cardinality(I) |->
     seq[CHOOSE i \in I : Cardinality({j \in I : j <= i}) = k]]

Idle == [kind |-> "none"]

(* Ids are never given out twice; one is free here when no one could tell. *)
Free(s) == s \notin Live /\ \A i \in DOMAIN notifications : notifications[i].surface # s
FreeWorkspace(w) == w \notin Listed /\ \A i \in DOMAIN notifications : notifications[i].workspace # w
Marks == Cardinality(output) + Len(notifications)
CanMark == Marks < MaxMarks /\ Cardinality(Live) <= FewSurfaces

-----------------------------------------------------------------------------
(* Attention.  The flags are kept up to date one by one as things happen,  *)
(* and counted anew from the list when notifications go.                   *)
Pending(notes) == {notes[i] : i \in {j \in DOMAIN notes : ~notes[j].read}}
ForWorkspace(notes) == {n.workspace : n \in {m \in Pending(notes) : m.surface = NoSurface}}
ForSurface(notes) == {n.surface : n \in Pending(notes)}

(* recompute_workspace_attention, in the state after the step.             *)
Recount(w, flags) ==
  IF \/ \E s \in unread' : home'[s] = w
     \/ w \in ForWorkspace(notifications')
  THEN flags \cup ({w} \cap Listed')
  ELSE flags \ {w}

(* recompute_notification_attention, in the state after the step.          *)
RecountAll ==
  /\ noted' = ForSurface(notifications') \cap {s \in Surfaces : home'[s] # NoWorkspace}
  /\ unread' = output' \cup noted'
  /\ attention' = {w \in Listed' : \/ w \in ForWorkspace(notifications')
                                   \/ \E s \in unread' : home'[s] = w}

(* recompute_notification_attention on a list of notifications.            *)
SetNotifications(notes) == notifications' = notes /\ output' = output /\ RecountAll
Rest == UNCHANGED <<layout, transaction>>

-----------------------------------------------------------------------------
Init ==
  \E w \in Workspaces, s \in Surfaces :
    /\ order = <<w>>
    /\ active = {w}
    /\ tree = [v \in Workspaces |-> IF v = w THEN SingleLeaf(s) ELSE NoTree]
    /\ focus = [v \in Workspaces |-> IF v = w THEN s ELSE NoSurface]
    /\ worktree = [v \in Workspaces |-> FALSE]
    /\ home = [t \in Surfaces |-> IF t = s THEN w ELSE NoWorkspace]
    /\ output = {} /\ noted = {} /\ unread = {} /\ attention = {}
    /\ notifications = <<>>
    /\ transaction = Idle

(* What create_workspace does to the layout.                               *)
AddWorkspace(w, s, isWorktree) ==
  /\ FreeWorkspace(w) /\ Free(s)
  /\ order' = Append(order, w)
  /\ active' = {w}
  /\ tree' = [tree EXCEPT ![w] = SingleLeaf(s)]
  /\ focus' = [focus EXCEPT ![w] = s]
  /\ worktree' = [worktree EXCEPT ![w] = isWorktree]
  /\ home' = [home EXCEPT ![s] = w]

(* What close_workspace does, apart from the flags of what it removes; the *)
(* first workspace becomes active if the closed one was.                   *)
ActiveAfterClose(w, rest) ==
  IF w \in active /\ rest # <<>> THEN (active \ {w}) \cup {Head(rest)} ELSE active \ {w}

RemoveWorkspace(w) ==
  LET rest == Drop(order, w)
  IN  /\ order' = rest
      /\ tree' = [tree EXCEPT ![w] = NoTree]
      /\ focus' = [focus EXCEPT ![w] = NoSurface]
      /\ worktree' = [worktree EXCEPT ![w] = FALSE]
      /\ home' = [s \in Surfaces |-> IF home[s] = w THEN NoWorkspace ELSE home[s]]

DropSurfaces(gone) ==
  /\ output' = output \ gone
  /\ noted' = noted \ gone
  /\ unread' = unread \ gone

CanGrow == transaction = Idle /\ Cardinality(Live) < FewSurfaces

CreateWorkspace(w, s) ==
  /\ CanGrow
  /\ AddWorkspace(w, s, FALSE)
  /\ transaction' = [kind |-> "create workspace", workspace |-> w, previous |-> active]
  /\ UNCHANGED activity

(* A worktree is opened in the workspace that shows it, if that workspace  *)
(* is among those whose path could be resolved, and in a new one if not.   *)
OpenWorktree(w, s, resolved) ==
  LET showing == {v \in resolved : worktree[v]}
  IN  /\ CanGrow
      /\ IF showing = {}
         THEN /\ AddWorkspace(w, s, TRUE)
              /\ transaction' = [kind |-> "create workspace", workspace |-> w, previous |-> active]
         ELSE /\ active' = {FirstListed(showing)}
              /\ UNCHANGED <<order, tree, focus, worktree, home, transaction>>
      /\ UNCHANGED activity

(* Splits and tabs remember the layout that a failure brings back.         *)
Creating(s, w) == [kind |-> "create surface", surface |-> s, workspace |-> w,
                   tree |-> tree[w], focus |-> focus[w]]

AddSurface(s, near, newTree) ==
  /\ transaction = Idle /\ Free(s) /\ near \in Live
  /\ Cardinality(Live) >= FewSurfaces => Marks = 0 /\ Len(order) = 1
  /\ LET w == home[near]
     IN  /\ tree' = [tree EXCEPT ![w] = newTree]
         /\ focus' = [focus EXCEPT ![w] = s]
         /\ home' = [home EXCEPT ![s] = w]
         /\ transaction' = Creating(s, w)
  /\ UNCHANGED <<order, active, worktree, activity>>

(* A mutant: as if the new split were no deeper than the pane it divides.  *)
SplitWouldExceedByOne(near, axis) ==
  LET t == tree[home[near]]
  IN  ~JoinsSplit(t, near, axis) /\ Len(PathTo(t, near)) > MaxSplitDepth + 1

SplitWouldExceedDepth(near, axis) ==
  LET t == tree[home[near]]
  IN  ~JoinsSplit(t, near, axis) /\ Len(PathTo(t, near)) > MaxSplitDepth

SplitSurface(s, near, axis) ==
  /\ near \in Live
  /\ ~SplitWouldExceedDepth(near, axis)
  /\ AddSurface(s, near, SplitLeaf(tree[home[near]], near, axis, s))

AddTab(s, near) ==
  /\ near \in Live
  /\ AddSurface(s, near, PushTab(tree[home[near]], near, s))

(* The terminal exists, or the surface has none: what was made stays.      *)
Commit ==
  /\ transaction.kind \in {"create surface", "create workspace"}
  /\ transaction' = Idle
  /\ UNCHANGED <<layout, activity>>

(* Where the focus goes when a surface goes.                               *)
FocusAfterClose(w, s, newTree) ==
  IF focus[w] = s
  THEN IF Len(LeafWith(tree[w], s).tabs) > 1 THEN Shown(newTree[PathTo(tree[w], s)])
       ELSE Neighbor(tree[w], s)
  ELSE IF Holds(newTree, focus[w]) THEN focus[w] ELSE FirstLeaf(newTree)

IsSoleTab(s) == tree[home[s]] = SingleLeaf(s)

(* What close_surface does to the layout; the only surface of a workspace  *)
(* is replaced.                                                            *)
RemoveSurface(s, replacement) ==
  LET w == home[s]
      newTree == IF IsSoleTab(s) THEN SingleLeaf(replacement)
                 ELSE IF Len(LeafWith(tree[w], s).tabs) > 1 THEN RemoveTab(tree[w], s)
                 ELSE RemoveLeaf(tree[w], s)
  IN  /\ tree' = [tree EXCEPT ![w] = newTree]
      /\ focus' = [focus EXCEPT ![w] = IF IsSoleTab(s) THEN replacement
                                       ELSE FocusAfterClose(w, s, newTree)]
      /\ home' = IF IsSoleTab(s) THEN [home EXCEPT ![s] = NoWorkspace, ![replacement] = w]
                 ELSE [home EXCEPT ![s] = NoWorkspace]
      /\ UNCHANGED <<order, active, worktree>>
      /\ DropSurfaces({s})
      /\ UNCHANGED notifications
      /\ attention' = Recount(w, attention)

CloseSurface(s, replacement) ==
  /\ transaction = Idle
  /\ s \in Live
  /\ IF IsSoleTab(s) THEN Free(replacement) ELSE replacement = s
  /\ RemoveSurface(s, replacement)
  /\ transaction' = [kind |-> "evict", surfaces |-> {s}]

(* rollback_added_surface: the surface goes and the old layout comes back, *)
(* unless it names a surface that is no longer there.                      *)
UndoSurface ==
  LET w == transaction.workspace
      s == transaction.surface
  IN  /\ transaction.kind = "create surface"
      /\ order' = order /\ active' = active /\ worktree' = worktree
      /\ home' = [home EXCEPT ![s] = NoWorkspace]
      /\ tree' = [tree EXCEPT ![w] = transaction.tree]
      /\ focus' = [focus EXCEPT ![w] = transaction.focus]
      /\ DropSurfaces({s})
      /\ UNCHANGED notifications
      /\ attention' = Recount(w, attention)
      /\ transaction' = Idle

(* The only workspace is closed after a replacement has been made for it.  *)
ReplaceWorkspace(w, v, s) ==
  /\ CanGrow
  /\ order = <<w>>
  /\ AddWorkspace(v, s, FALSE)
  /\ transaction' = [kind |-> "replace", workspace |-> v, previous |-> active, closing |-> w]
  /\ UNCHANGED activity

CloseWorkspace(w) ==
  /\ w \in Listed
  /\ \/ transaction = Idle /\ Len(order) > 1
     \/ transaction.kind = "replace" /\ transaction.closing = w
  /\ RemoveWorkspace(w)
  /\ active' = ActiveAfterClose(w, order')
  /\ DropSurfaces(SurfacesOf(w))
  /\ attention' = attention \ {w}
  /\ UNCHANGED notifications
  /\ transaction' = [kind |-> "evict", surfaces |-> SurfacesOf(w)]

UndoWorkspace ==
  LET w == transaction.workspace
  IN  /\ transaction.kind \in {"create workspace", "replace"}
      /\ RemoveWorkspace(w)
      /\ active' = IF transaction.previous \cap Listed' # {} THEN transaction.previous
                   ELSE ActiveAfterClose(w, order')
      /\ DropSurfaces(SurfacesOf(w))
      /\ attention' = attention \ {w}
      /\ UNCHANGED notifications
      /\ transaction' = Idle

(* What a closed surface's agents asked is answered by nobody any more.    *)
Withdrawn(n) == [n EXCEPT !.read = TRUE, !.prompt = FALSE]
WithdrawFrom(surfaces) ==
  [i \in DOMAIN notifications |->
     IF notifications[i].prompt /\ notifications[i].surface \in surfaces
     THEN Withdrawn(notifications[i]) ELSE notifications[i]]

EvictPrompts ==
  /\ transaction.kind = "evict"
  /\ transaction' = Idle
  /\ UNCHANGED layout
  /\ SetNotifications(WithdrawFrom(transaction.surfaces))

-----------------------------------------------------------------------------
(* What needs no guard.                                                    *)
Unguarded == UNCHANGED <<order, worktree, home, activity, transaction>>

SelectWorkspace(w) ==
  /\ w \in Listed
  /\ active' = {w}
  /\ UNCHANGED <<tree, focus>> /\ Unguarded

(* focus_surface and select_tab; the workspace may be selected with it.    *)
FocusSurface(s, select) ==
  /\ s \in Live
  /\ LET w == home[s]
     IN  /\ tree' = [tree EXCEPT ![w] = ShowTab(@, s)]
         /\ focus' = [focus EXCEPT ![w] = s]
         /\ active' = IF select THEN {w} ELSE active
  /\ Unguarded

MoveTab(s, target, position) ==
  /\ s # target /\ {s, target} \subseteq Live
  /\ home[s] = home[target]
  /\ CanMoveTab(tree[home[s]], s, target)
  /\ tree' = [tree EXCEPT ![home[s]] = MoveTabInTree(@, s, target, position)]
  /\ UNCHANGED <<active, focus>> /\ Unguarded

SwapPanes(s, target) ==
  /\ s # target /\ {s, target} \subseteq Live
  /\ home[s] = home[target]
  /\ ~SameLeaf(tree[home[s]], s, target)
  /\ tree' = [tree EXCEPT ![home[s]] = SwapLeaves(@, s, target)]
  /\ UNCHANGED <<active, focus>> /\ Unguarded

MoveWorkspace(w, target, position) ==
  /\ w # target /\ {w, target} \subseteq Listed
  /\ order' = Placed(Drop(order, w), w, target, position)
  /\ UNCHANGED <<active, tree, focus, worktree, home, activity, transaction>>

MarkSurfaceUnread(s, flag) ==
  /\ s \in Live
  /\ flag => CanMark
  /\ output' = IF flag THEN output \cup {s} ELSE output \ {s}
  /\ unread' = IF flag \/ s \in noted THEN unread \cup {s} ELSE unread \ {s}
  /\ UNCHANGED <<noted, notifications>> /\ Rest
  /\ attention' = Recount(home[s], attention)

(* A notification marks what it is about: a surface that exists, and else  *)
(* the workspace.                                                          *)
MarkTarget(w, s) ==
  /\ IF s \in Live
     THEN /\ noted' = noted \cup {s}
          /\ unread' = unread \cup {s}
     ELSE UNCHANGED <<noted, unread>>
  /\ output' = output
  /\ attention' = IF s \in Live THEN Recount(home[s], attention)
                  ELSE attention \cup ({w} \cap Listed)

(* What it is about was looked up before: a surface may be gone by now,    *)
(* unless an agent asks, whose target is held until the prompt is there.   *)
(* A workspace that is gone is marked no more than none at all.            *)
Targets ==
  {[workspace |-> home[s], surface |-> s] : s \in Live}
  \cup {[workspace |-> w, surface |-> s] : w \in Listed, s \in Surfaces \ Live}
  \cup {[workspace |-> w, surface |-> NoSurface] : w \in Listed \cup {NoWorkspace}}

Fresh(target, prompt) ==
  [workspace |-> target.workspace, surface |-> target.surface, read |-> FALSE, prompt |-> prompt]

(* A mutant: what the evicted notification marked stays marked.            *)
NotifyWithoutRecount(target, prompt) ==
  /\ prompt => target.surface \in Live
  /\ Rest
  /\ LET notes == Append(notifications, Fresh(target, prompt))
     IN  /\ Len(notes) > MaxNotifications \/ CanMark
         /\ notifications' = IF Len(notes) > MaxNotifications THEN Tail(notes) ELSE notes
         /\ MarkTarget(target.workspace, target.surface)

(* The oldest notification gives way when there are too many.              *)
Notify(target, prompt) ==
  /\ prompt => target.surface \in Live
  /\ Rest
  /\ LET notes == Append(notifications, Fresh(target, prompt))
     IN  IF Len(notes) > MaxNotifications THEN SetNotifications(Tail(notes))
         ELSE /\ CanMark
              /\ notifications' = notes
              /\ MarkTarget(target.workspace, target.surface)

(* An agent asks again, or a program replaces what it said: the entry is   *)
(* new once more.                                                          *)
Renew(i) ==
  LET n == notifications[i]
  IN  /\ Rest
      /\ notifications' = Append(RemoveAt(notifications, i), [n EXCEPT !.read = FALSE])
      /\ MarkTarget(n.workspace, n.surface)

MarkNotificationsRead ==
  /\ Rest
  /\ SetNotifications([i \in DOMAIN notifications |-> [notifications[i] EXCEPT !.read = TRUE]])

DismissNotification(i) == Rest /\ SetNotifications(RemoveAt(notifications, i))

(* Prompts that were answered, or whose session has ended.                 *)
WithdrawPrompts(P) ==
  /\ \A i \in P : notifications[i].prompt
  /\ Rest
  /\ SetNotifications([i \in DOMAIN notifications |->
                         IF i \in P THEN Withdrawn(notifications[i]) ELSE notifications[i]])

ClearNotifications == Rest /\ SetNotifications(<<>>)

-----------------------------------------------------------------------------
(* A saved session: surfaces stands for any of them, since which ones are  *)
(* written depends on what runs in them.                                   *)
ActiveId == IF active \cap Listed # {} THEN FirstListed(active) ELSE Head(order)

Normalised(w) == IF Holds(tree[w], focus[w]) THEN focus[w] ELSE FirstLeaf(tree[w])

ToSessionData ==
  [workspaces |-> [i \in DOMAIN order |->
                     [id |-> order[i], active |-> order[i] \in active,
                      tree |-> tree[order[i]], focus |-> Normalised(order[i]),
                      worktree |-> worktree[order[i]]]],
   activeId |-> ActiveId,
   surfaces |-> {[id |-> s, workspace |-> home[s]] : s \in Live}]

TabsOf(t) == UNION {ToSet(t[p].tabs) : p \in Panes(t)}
Leaves(data) == UNION {TabsOf(w.tree) : w \in ToSet(data.workspaces)}

(* No surface is listed twice. *)
ListedOnce(data) ==
  \A i, j \in DOMAIN data.workspaces :
    LET t == data.workspaces[i].tree
        u == data.workspaces[j].tree
    IN  \A p \in Panes(t), q \in Panes(u) : \A m \in DOMAIN t[p].tabs, n \in DOMAIN u[q].tabs :
          t[p].tabs[m] = u[q].tabs[n] => i = j /\ p = q /\ m = n

Ids(data) == [i \in DOMAIN data.workspaces |-> data.workspaces[i].id]
Flagged(data) == {w.id : w \in {v \in ToSet(data.workspaces) : v.active}}

(* What a launch accepts; any other file is set aside.                     *)
ValidSession(data) ==
  /\ data.workspaces # <<>>
  /\ IsInjective(Ids(data))
  /\ Flagged(data) \subseteq {data.activeId}
  /\ data.activeId \in ToSet(Ids(data))
  /\ \A w \in ToSet(data.workspaces) :
        ValidTree(w.tree, MaxSplitDepth) /\ Holds(w.tree, w.focus)
  /\ ListedOnce(data)
  /\ \A s \in data.surfaces :
        s.id \in Leaves(data) /\ s.workspace \in ToSet(Ids(data))

(* The layout that restore_session builds before it repairs it.            *)
Entry(data, w) == CHOOSE e \in ToSet(data.workspaces) : e.id = w
Restored(data) ==
  LET ids == ToSet(Ids(data))
  IN  [order    |-> Ids(data),
       active   |-> {data.activeId},
       tree     |-> [w \in Workspaces |-> IF w \in ids THEN ShowTab(Entry(data, w).tree, Entry(data, w).focus)
                                          ELSE NoTree],
       focus    |-> [w \in Workspaces |-> IF w \in ids THEN Entry(data, w).focus ELSE NoSurface],
       worktree |-> [w \in Workspaces |-> w \in ids /\ Entry(data, w).worktree],
       home     |-> [s \in Surfaces |->
                       IF s \in Leaves(data)
                       THEN CHOOSE w \in ids : Holds(Entry(data, w).tree, s) ELSE NoWorkspace]]

(* Workspaces that turn out to show the same worktree, once their paths    *)
(* are resolved, collapse into the active one, or into the first.          *)
Losers(resolved) ==
  LET same == {w \in resolved : worktree[w]}
      winner == IF same \cap active # {} THEN CHOOSE w \in same \cap active : TRUE
                ELSE FirstListed(same)
  IN  IF same = {} THEN {} ELSE same \ {winner}

(* repair_session_invariants, on a model that needs no repair of its trees *)
(* or ids; a loser is not the active workspace.                            *)
Repair(resolved) ==
  LET losers == Losers(resolved)
      gone == UNION {SurfacesOf(w) : w \in losers}
      Kept(n) == n.workspace \notin losers /\ n.surface \notin gone
  IN  /\ order' = AtIndices(order, {i \in DOMAIN order : order[i] \notin losers})
      /\ active' = active \ losers
      /\ tree' = [w \in Workspaces |-> IF w \in losers \/ w \notin Listed THEN NoTree
                                       ELSE ShowTab(tree[w], focus[w])]
      /\ focus' = [w \in Workspaces |-> IF w \in losers THEN NoSurface ELSE focus[w]]
      /\ worktree' = [w \in Workspaces |-> w \notin losers /\ worktree[w]]
      /\ home' = [s \in Surfaces |-> IF s \in gone THEN NoWorkspace ELSE home[s]]
      /\ DropSurfaces(gone)
      /\ attention' = attention \ losers
      /\ notifications' = AtIndices(notifications,
                                   {i \in DOMAIN notifications : Kept(notifications[i])})

Save(resolved) ==
  /\ transaction = Idle
  /\ Repair(resolved)
  /\ UNCHANGED transaction

(* The application ends and starts again from what it saved.               *)
Restart ==
  /\ transaction = Idle
  /\ LET restored == Restored(ToSessionData)
     IN  /\ order' = restored.order /\ active' = restored.active
         /\ tree' = restored.tree /\ focus' = restored.focus
         /\ worktree' = restored.worktree /\ home' = restored.home
  /\ output' = {} /\ noted' = {} /\ unread' = {} /\ attention' = {}
  /\ notifications' = <<>>
  /\ UNCHANGED transaction

-----------------------------------------------------------------------------
Transactions ==
  \/ \E w \in Workspaces, s \in Surfaces :
       \/ CreateWorkspace(w, s)
       \/ \E resolved \in SUBSET Listed : OpenWorktree(w, s, resolved)
       \/ \E v \in Workspaces : ReplaceWorkspace(w, v, s)
  \/ \E s, near \in Surfaces : AddTab(s, near) \/ \E axis \in Axes : SplitSurface(s, near, axis)
  \/ \E s, replacement \in Surfaces : CloseSurface(s, replacement)
  \/ \E w \in Workspaces : CloseWorkspace(w)
  \/ Commit \/ UndoSurface \/ UndoWorkspace \/ EvictPrompts
  \/ \E resolved \in SUBSET Listed : Save(resolved)
  \/ Restart

Arrangement ==
  /\ transaction = Idle \/ Cardinality(Live) <= FewSurfaces
  /\ \/ \E w \in Workspaces : SelectWorkspace(w)
     \/ \E s \in Surfaces, select \in BOOLEAN : FocusSurface(s, select)
     \/ \E s, target \in Surfaces :
          SwapPanes(s, target) \/ \E position \in Positions : MoveTab(s, target, position)
     \/ \E w, target \in Workspaces, position \in Positions : MoveWorkspace(w, target, position)

Attention ==
  \/ \E s \in Surfaces, flag \in BOOLEAN : MarkSurfaceUnread(s, flag)
  \/ \E target \in Targets, prompt \in BOOLEAN : Notify(target, prompt)
  \/ \E i \in DOMAIN notifications : Renew(i) \/ DismissNotification(i)
  \/ \E P \in SUBSET DOMAIN notifications : WithdrawPrompts(P)
  \/ MarkNotificationsRead \/ ClearNotifications

Next == Transactions \/ Arrangement \/ Attention

Spec == Init /\ [][Next]_vars

-----------------------------------------------------------------------------
(* Whatever the user and the agents have done, and in the middle of any    *)
(* change, the session that would be saved is one that a launch accepts    *)
(* (validate_session_data, session.rs:693), and the launch gives the       *)
(* workspaces, panes, tabs and focus back as they were, but for a focused  *)
(* tab that was hidden and now shows: a split that validation would refuse *)
(* must never be made, because the user would lose the whole layout at the *)
(* next start (model.rs:43).                                               *)
SessionSurvivesRestart ==
  LET data == ToSessionData
  IN  /\ ValidSession(data)
      /\ Restored(data) =
           [order |-> order, active |-> active, focus |-> focus, worktree |-> worktree, home |-> home,
            tree |-> [w \in Workspaces |-> IF w \in Listed THEN ShowTab(tree[w], focus[w]) ELSE NoTree]]

(* The marks that the user sees agree with what they stand for, although   *)
(* they are kept one by one and counted anew only now and then: a surface  *)
(* is marked unread while it has output or an unread notification about    *)
(* it, and a workspace asks for attention while one of its surfaces is     *)
(* marked or an unread notification is about the workspace.  Only one      *)
(* about a surface that is gone may still hold a workspace's mark.         *)
Waiting(w) == {n \in Pending(notifications) : n.workspace = w}
AttentionExact ==
  /\ unread = {s \in Live : s \in output \/ s \in ForSurface(notifications)}
  /\ \A w \in Listed :
       LET marked == SurfacesOf(w) \cap unread # {} \/ w \in ForWorkspace(notifications)
       IN  /\ marked => w \in attention
           /\ w \in attention => marked \/ \E n \in Waiting(w) : n.surface \notin Live \cup {NoSurface}
=============================================================================
