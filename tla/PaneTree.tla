------------------------------ MODULE PaneTree ------------------------------
(***************************************************************************)
(* The pane tree of a workspace (crates/forktty-core/src/model/            *)
(* pane_tree.rs) as data, and its edits.  A tree is a function from paths  *)
(* to nodes; a path is the list of child indices from the root to a node,  *)
(* one for each split above it.  A leaf is a pane with its tabs and the    *)
(* index of the one that is shown; a split divides its room along an axis. *)
(* What the code does by recursion is said here of the paths.  The sizes   *)
(* of the children are left out: every edit gives a split as many positive *)
(* ones as it has children.                                                *)
(***************************************************************************)
EXTENDS Naturals, SequencesExt

Axes == {"horizontal", "vertical"}
Positions == {"before", "after"}

Leaf(tabs, active) == [tabs |-> tabs, active |-> active]
SingleLeaf(s) == [p \in {<<>>} |-> Leaf(<<s>>, 1)]
SplitNode(axis) == [axis |-> axis]

IsLeaf(node) == "tabs" \in DOMAIN node
Shown(leaf) == leaf.tabs[leaf.active]
IndexIn(tabs, s) == CHOOSE i \in DOMAIN tabs : tabs[i] = s
AtMost(i, tabs) == IF i > Len(tabs) THEN Len(tabs) ELSE i
LeafShowing(tabs, s) == Leaf(tabs, IndexIn(tabs, s))
Drop(seq, e) == RemoveAt(seq, IndexIn(seq, e))

Panes(t) == {p \in DOMAIN t : IsLeaf(t[p])}
Children(t, p) == {q \in DOMAIN t : Len(q) = Len(p) + 1 /\ Front(q) = p}

Holds(t, s) == \E p \in Panes(t) : s \in ToSet(t[p].tabs)
PathTo(t, s) == CHOOSE p \in Panes(t) : s \in ToSet(t[p].tabs)
LeafWith(t, s) == t[PathTo(t, s)]

(* Every way down from p to its first pane is by first children.           *)
FirstLeafUnder(t, p) ==
  Shown(t[CHOOSE q \in Panes(t) : IsPrefix(p, q) /\ \A i \in Len(p) + 1 .. Len(q) : q[i] = 1])
FirstLeaf(t) == FirstLeafUnder(t, <<>>)

With(t, p, node) == [q \in DOMAIN t \cup {p} |-> IF q = p THEN node ELSE t[q]]
PutLeaf(t, s, leaf) == With(t, PathTo(t, s), leaf)

(* The nodes of some paths of t, each at the path it goes to.              *)
Moved(t, goesTo) ==
  [q \in {goesTo[p] : p \in DOMAIN goesTo} |->
     t[CHOOSE p \in DOMAIN goesTo : goesTo[p] = q]]

(* Whether p is a later sibling of a node at path, or below one.           *)
Later(path, p) ==
  /\ Len(p) >= Len(path) /\ p[Len(path)] > Last(path)
  /\ \A i \in 1 .. Len(path) - 1 : p[i] = path[i]

-----------------------------------------------------------------------------
(* A pane beside that of s: in the split above it if that runs along the   *)
(* same axis, and in a new split in its place otherwise.                   *)
JoinsSplit(t, s, axis) ==
  LET path == PathTo(t, s)
  IN  path # <<>> /\ t[Front(path)].axis = axis

JoinSplit(t, path, leaf) ==
  LET goesTo == [p \in DOMAIN t |->
                   IF Later(path, p) THEN [p EXCEPT ![Len(path)] = @ + 1] ELSE p]
  IN  With(Moved(t, goesTo), [path EXCEPT ![Len(path)] = @ + 1], leaf)

DividePane(t, path, axis, leaf) ==
  With(With(With(t, path, SplitNode(axis)), Append(path, 1), t[path]), Append(path, 2), leaf)

SplitLeaf(t, s, axis, new) ==
  IF JoinsSplit(t, s, axis) THEN JoinSplit(t, PathTo(t, s), SingleLeaf(new)[<<>>])
  ELSE DividePane(t, PathTo(t, s), axis, SingleLeaf(new)[<<>>])

PushTab(t, near, new) ==
  LET tabs == LeafWith(t, near).tabs
  IN  PutLeaf(t, near, Leaf(Append(tabs, new), Len(tabs) + 1))

ShowTab(t, s) == PutLeaf(t, s, LeafShowing(LeafWith(t, s).tabs, s))

(* The pane goes, and a split that is left with one child gives way to it. *)
RemoveLeaf(t, s) ==
  LET path     == PathTo(t, s)
      k        == Len(path)
      siblings == Children(t, Front(path)) \ {path}
      closeUp  == [p \in DOMAIN t \ {path} |->
                     IF Later(path, p) THEN [p EXCEPT ![k] = @ - 1] ELSE p]
      giveWay  == [p \in DOMAIN t \ {path, Front(path)} |->
                     IF IsPrefix(Front(path), p) THEN RemoveAt(p, k) ELSE p]
  IN  Moved(t, IF \E p \in siblings : siblings = {p} THEN giveWay ELSE closeUp)

(* Who inherits the focus of a pane that goes: its neighbour in the split. *)
Neighbor(t, s) ==
  LET path == PathTo(t, s)
      i    == Last(path)
  IN  FirstLeafUnder(t, [path EXCEPT ![Len(path)] = IF i > 1 THEN i - 1 ELSE i + 1])

RemoveTab(t, s) ==
  LET leaf == LeafWith(t, s)
      i    == IndexIn(leaf.tabs, s)
      rest == RemoveAt(leaf.tabs, i)
  IN  PutLeaf(t, s, Leaf(rest, IF leaf.active >= i /\ leaf.active > 1
                               THEN leaf.active - 1 ELSE AtMost(leaf.active, rest)))

-----------------------------------------------------------------------------
Placed(tabs, s, target, position) ==
  InsertAt(tabs, IndexIn(tabs, target) + (IF position = "after" THEN 1 ELSE 0), s)

SameLeaf(t, s, target) == PathTo(t, s) = PathTo(t, target)
CanMoveTab(t, s, target) == SameLeaf(t, s, target) \/ Len(LeafWith(t, s).tabs) > 1

(* The pane that a tab leaves shows the one that takes its place.          *)
WithoutTab(leaf, s) ==
  LET rest == Drop(leaf.tabs, s)
  IN  IF Shown(leaf) = s THEN Leaf(rest, AtMost(leaf.active, rest))
      ELSE LeafShowing(rest, Shown(leaf))

MoveTabInTree(t, s, target, position) ==
  LET from == LeafWith(t, s)
      to   == LeafWith(t, target)
  IN  IF SameLeaf(t, s, target)
      THEN PutLeaf(t, s, LeafShowing(Placed(Drop(from.tabs, s), s, target, position), Shown(from)))
      ELSE With(PutLeaf(t, s, WithoutTab(from, s)), PathTo(t, target),
                LeafShowing(Placed(to.tabs, s, target, position),
                            IF Shown(from) = s THEN s ELSE Shown(to)))

SwapLeaves(t, s, target) ==
  With(PutLeaf(t, s, LeafWith(t, target)), PathTo(t, target), LeafWith(t, s))

-----------------------------------------------------------------------------
(* What session.rs accepts: no split is deeper than so many others, or has *)
(* a single child, and every pane shows one of its tabs.                   *)
ValidTree(t, maxDepth) ==
  /\ t # <<>>
  /\ \A p \in DOMAIN t :
       IF IsLeaf(t[p]) THEN t[p].tabs # <<>> /\ t[p].active \in DOMAIN t[p].tabs
       ELSE Len(p) <= maxDepth /\ \E q, r \in Children(t, p) : q # r
=============================================================================
