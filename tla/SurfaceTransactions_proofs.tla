---------------------- MODULE SurfaceTransactions_proofs ----------------------
(***************************************************************************)
(* Proofs about SurfaceTransactions, for any surfaces and workspaces.      *)
(***************************************************************************)
EXTENDS SurfaceTransactions, TLAPS

-----------------------------------------------------------------------------
(* Pane trees.  The leaves L partition the surfaces S.                     *)

Partition(L, S) ==
  /\ L \subseteq Leaf
  /\ \A x : x \in S <=> \E l \in L : x \in l.tabs
  /\ \A l, m \in L : l # m => l.tabs \cap m.tabs = {}
  /\ \A l \in L : l.active \in l.tabs

TreeSound(t, S) == t \in Tree /\ Partition(t.leaves, S) /\ t.focus \in S

LEMMA SoundIsSound ==
  ASSUME NEW t, NEW S, TreeSound(t, S)
  PROVE  /\ UNION {l.tabs : l \in t.leaves} = S
         /\ \A l, m \in t.leaves : l # m => l.tabs \cap m.tabs = {}
         /\ \A l \in t.leaves : l.active \in l.tabs
         /\ InTree(t, t.focus)
BY DEF TreeSound, Partition, InTree

LEMMA LeafFacts ==
  ASSUME NEW t, NEW S, TreeSound(t, S), NEW s \in S
  PROVE  /\ LeafOf(t, s) \in t.leaves /\ LeafOf(t, s) \in Leaf
         /\ s \in LeafOf(t, s).tabs /\ LeafOf(t, s).tabs \subseteq S
         /\ LeafOf(t, s).active \in LeafOf(t, s).tabs
         /\ S \subseteq Surfaces
<1>1. \E l \in t.leaves : s \in l.tabs
  BY DEF TreeSound, Partition
<1>2. LeafOf(t, s) \in t.leaves /\ s \in LeafOf(t, s).tabs
  BY <1>1 DEF LeafOf
<1> HIDE DEF LeafOf
<1>3. \A x \in S : x \in Surfaces
  BY DEF TreeSound, Partition, Leaf
<1> QED
  BY <1>2, <1>3 DEF TreeSound, Partition

(* A leaf is replaced by another with tabs of no other leaf. *)
LEMMA ReplaceLeaf ==
  ASSUME NEW L, NEW S, Partition(L, S), NEW l \in L, NEW m \in Leaf,
         m.active \in m.tabs, m.tabs \cap (S \ l.tabs) = {}
  PROVE  Partition((L \ {l}) \cup {m}, (S \ l.tabs) \cup m.tabs)
BY DEF Partition

LEMMA RemoveLeaf ==
  ASSUME NEW L, NEW S, Partition(L, S), NEW l \in L
  PROVE  Partition(L \ {l}, S \ l.tabs)
BY DEF Partition

LEMMA JoinLeaf ==
  ASSUME NEW L, NEW S, Partition(L, S), NEW m \in Leaf,
         m.active \in m.tabs, m.tabs \cap S = {}
  PROVE  Partition(L \cup {m}, S \cup m.tabs)
BY DEF Partition

LEMMA SingleSound ==
  ASSUME NEW S \in SUBSET Surfaces, NEW s \in S
  PROVE  TreeSound(Tabs(S, s), S)
<1> DEFINE l == [tabs |-> S, active |-> s]
<1>1. l \in Leaf /\ l.tabs = S /\ l.active = s
  BY DEF Leaf
<1>2. Tabs(S, s) = [leaves |-> {l}, focus |-> s]
  BY DEF Tabs
<1> HIDE DEF l
<1>3. Partition({l}, S)
  BY <1>1 DEF Partition
<1> QED
  BY <1>1, <1>2, <1>3 DEF TreeSound, Tree

LEMMA SplitSound ==
  ASSUME NEW t, NEW S, TreeSound(t, S), NEW n \in Surfaces, n \notin S
  PROVE  TreeSound(Split(t, n), S \cup {n})
<1> DEFINE m == [tabs |-> {n}, active |-> n]
<1>1. m \in Leaf /\ m.tabs = {n} /\ m.active = n
  BY DEF Leaf
<1>2. Split(t, n) = [leaves |-> t.leaves \cup {m}, focus |-> n]
  BY DEF Split, Single, Tabs
<1> HIDE DEF m
<1>3. Partition(t.leaves \cup {m}, S \cup {n})
  BY <1>1, JoinLeaf DEF TreeSound
<1>4. t.leaves \cup {m} \in SUBSET Leaf
  BY <1>1 DEF TreeSound, Tree
<1> QED
  BY <1>2, <1>3, <1>4 DEF TreeSound, Tree

LEMMA WithLeafIs ==
  ASSUME NEW t \in Tree, NEW l, NEW m \in Leaf, NEW n
  PROVE  [WithLeaf(t, l, m) EXCEPT !.focus = n]
           = [leaves |-> (t.leaves \ {l}) \cup {m}, focus |-> n]
<1>0. /\ WithLeaf(t, l, m) \in Tree
      /\ WithLeaf(t, l, m).leaves = (t.leaves \ {l}) \cup {m}
  BY DEF WithLeaf, Tree
<1>1. PICK u \in Tree : u = WithLeaf(t, l, m) /\ u.leaves = (t.leaves \ {l}) \cup {m}
  BY <1>0
<1>2. [u EXCEPT !.focus = n] = [leaves |-> u.leaves, focus |-> n]
  BY <1>1 DEF Tree
<1> QED
  BY <1>1, <1>2

LEMMA AddTabSound ==
  ASSUME NEW t, NEW S, TreeSound(t, S), NEW s \in S, NEW n \in Surfaces, n \notin S
  PROVE  TreeSound(AddTab(t, s, n), S \cup {n})
<1> DEFINE l == LeafOf(t, s)
           m == [tabs |-> l.tabs \cup {n}, active |-> n]
           L == (t.leaves \ {l}) \cup {m}
<1>1. l \in t.leaves /\ l \in Leaf /\ s \in l.tabs /\ l.tabs \subseteq S /\ S \subseteq Surfaces
  BY LeafFacts
<1>2. m \in Leaf /\ m.tabs = l.tabs \cup {n} /\ m.active = n
  BY <1>1 DEF Leaf
<1>3. t.leaves \in SUBSET Leaf
  BY DEF TreeSound, Tree
<1>4. AddTab(t, s, n) = [leaves |-> L, focus |-> n]
  <2> HIDE DEF m
  <2>1. AddTab(t, s, n) = [WithLeaf(t, l, m) EXCEPT !.focus = n]
    BY DEF AddTab, m
  <2> QED
    BY <1>2, <2>1, WithLeafIs DEF TreeSound
<1> HIDE DEF l, m
<1>5. Partition(L, (S \ l.tabs) \cup m.tabs)
  BY <1>1, <1>2, ReplaceLeaf DEF TreeSound
<1>6. (S \ l.tabs) \cup m.tabs = S \cup {n}
  BY <1>1, <1>2
<1>7. L \in SUBSET Leaf
  BY <1>2, <1>3
<1> HIDE DEF L
<1> QED
  BY <1>4, <1>5, <1>6, <1>7 DEF TreeSound, Tree

LEMMA FocusSound ==
  ASSUME NEW t, NEW S, TreeSound(t, S), NEW s \in S
  PROVE  TreeSound(Focus(t, s), S)
<1> DEFINE l == LeafOf(t, s)
           m == [l EXCEPT !.active = s]
           L == (t.leaves \ {l}) \cup {m}
<1>1. l \in t.leaves /\ l \in Leaf /\ s \in l.tabs /\ l.tabs \subseteq S /\ S \subseteq Surfaces
  BY LeafFacts
<1>2. m \in Leaf /\ m.tabs = l.tabs /\ m.active = s
  BY <1>1 DEF Leaf
<1>3. t.leaves \in SUBSET Leaf
  BY DEF TreeSound, Tree
<1>4. Focus(t, s) = [leaves |-> L, focus |-> s]
  <2> HIDE DEF m
  <2>1. Focus(t, s) = [WithLeaf(t, l, m) EXCEPT !.focus = s]
    BY DEF Focus, m
  <2> QED
    BY <1>2, <2>1, WithLeafIs DEF TreeSound
<1> HIDE DEF l, m
<1>5. Partition(L, (S \ l.tabs) \cup m.tabs)
  BY <1>1, <1>2, ReplaceLeaf DEF TreeSound
<1>6. (S \ l.tabs) \cup m.tabs = S
  BY <1>1, <1>2
<1>7. L \in SUBSET Leaf
  BY <1>2, <1>3
<1> HIDE DEF L
<1> QED
  BY <1>1, <1>4, <1>5, <1>6, <1>7 DEF TreeSound, Tree

LEMMA WithoutFacts ==
  ASSUME NEW l \in Leaf, l.active \in l.tabs, NEW s \in l.tabs, NEW m \in Without(l, s)
  PROVE  /\ m \in Leaf /\ m.tabs = l.tabs \ {s}
         /\ l.tabs # {s} => m.active \in m.tabs
BY DEF Without, Leaf

LEMMA AfterCloseSound ==
  ASSUME NEW t, NEW S, TreeSound(t, S), NEW s \in S, NEW u \in AfterClose(t, s)
  PROVE  TreeSound(u, S \ {s})
<1> DEFINE l == LeafOf(t, s)
           rest == t.leaves \ {l}
<1>1. l \in t.leaves /\ l \in Leaf /\ s \in l.tabs /\ l.tabs \subseteq S /\ S \subseteq Surfaces
      /\ l.active \in l.tabs
  BY LeafFacts
<1>2. rest \in SUBSET Leaf /\ t.focus \in S /\ Partition(t.leaves, S)
  BY DEF TreeSound, Tree
<1>3. CASE l.tabs # {s}
  <2>1. PICK m \in Without(l, s) :
          u = [leaves |-> rest \cup {m}, focus |-> IF t.focus = s THEN m.active ELSE t.focus]
    BY <1>3 DEF AfterClose
  <2> DEFINE f == IF t.focus = s THEN m.active ELSE t.focus
  <2> HIDE DEF l
  <2>2. m \in Leaf /\ m.tabs = l.tabs \ {s} /\ m.active \in m.tabs
    BY <1>1, <1>3, WithoutFacts
  <2>3. Partition(rest \cup {m}, (S \ l.tabs) \cup m.tabs)
    BY <1>1, <1>2, <2>2, ReplaceLeaf
  <2>4. (S \ l.tabs) \cup m.tabs = S \ {s}
    BY <1>1, <2>2
  <2>5. f \in S \ {s} /\ f \in Surfaces
    BY <1>1, <1>2, <2>2, <2>4
  <2>6. rest \cup {m} \in SUBSET Leaf
    BY <1>2, <2>2
  <2> HIDE DEF f, rest
  <2> QED
    BY <2>1, <2>3, <2>4, <2>5, <2>6 DEF TreeSound, Tree, f
<1>4. CASE l.tabs = {s}
  <2>1. PICK f \in IF t.focus = s THEN {m.active : m \in rest} ELSE {t.focus} :
          u = [leaves |-> rest, focus |-> f]
    BY <1>4 DEF AfterClose
  <2> HIDE DEF l
  <2>2. Partition(rest, S \ {s})
    BY <1>1, <1>2, <1>4, RemoveLeaf
  <2>3. f \in S \ {s}
    BY <1>2, <2>1, <2>2 DEF Partition
  <2> HIDE DEF rest
  <2> QED
    BY <1>1, <1>2, <2>1, <2>2, <2>3 DEF TreeSound, Tree
<1> QED
  BY <1>3, <1>4

LEMMA AfterMoveSound ==
  ASSUME NEW t, NEW S, TreeSound(t, S), NEW a \in S, NEW b \in S,
         LeafOf(t, a) # LeafOf(t, b), LeafOf(t, a).tabs # {a},
         NEW u \in AfterMove(t, a, b)
  PROVE  TreeSound(u, S)
<1> DEFINE l == LeafOf(t, a)
           m == LeafOf(t, b)
           n == [tabs |-> m.tabs \cup {a}, active |-> IF l.active = a THEN a ELSE m.active]
<1>1. /\ l \in t.leaves /\ l \in Leaf /\ a \in l.tabs /\ l.tabs \subseteq S
      /\ l.active \in l.tabs /\ S \subseteq Surfaces
  BY LeafFacts
<1>2. m \in t.leaves /\ m \in Leaf /\ b \in m.tabs /\ m.tabs \subseteq S /\ m.active \in m.tabs
  BY LeafFacts
<1>3. n \in Leaf /\ n.tabs = m.tabs \cup {a} /\ n.active \in n.tabs
  <2>1. (IF l.active = a THEN a ELSE m.active) \in m.tabs \cup {a}
    BY <1>2
  <2>2. m.tabs \cup {a} \in SUBSET Surfaces
    BY <1>1, <1>2
  <2> QED
    BY <2>1, <2>2 DEF Leaf
<1>4. PICK k \in Without(l, a) : u = [t EXCEPT !.leaves = (@ \ {l, m}) \cup {k, n}]
  BY DEF AfterMove
<1> HIDE DEF l, m, n
<1>5. k \in Leaf /\ k.tabs = l.tabs \ {a} /\ k.active \in k.tabs
  BY <1>1, <1>4, WithoutFacts DEF l
<1>6. Partition(t.leaves, S) /\ l # m /\ l.tabs \cap m.tabs = {}
  BY <1>1, <1>2 DEF TreeSound, Partition, l, m
<1> DEFINE L == (t.leaves \ {l}) \cup {k}
<1>7. Partition(L, S \ {a})
  <2>1. Partition(L, (S \ l.tabs) \cup k.tabs)
    BY <1>1, <1>5, <1>6, ReplaceLeaf
  <2>2. (S \ l.tabs) \cup k.tabs = S \ {a}
    BY <1>1, <1>5
  <2> QED
    BY <2>1, <2>2
<1>8. k # m /\ m \in L
  BY <1>1, <1>2, <1>5, <1>6
<1> DEFINE M == (L \ {m}) \cup {n}
<1>9. Partition(M, S)
  <2>1. n.tabs \cap ((S \ {a}) \ m.tabs) = {}
    BY <1>3
  <2> HIDE DEF L
  <2>2. Partition(M, ((S \ {a}) \ m.tabs) \cup n.tabs)
    BY <1>3, <1>7, <1>8, <2>1, ReplaceLeaf
  <2>3. ((S \ {a}) \ m.tabs) \cup n.tabs = S
    BY <1>1, <1>2, <1>3
  <2> QED
    BY <2>2, <2>3
<1>10. (t.leaves \ {l, m}) \cup {k, n} = M
  BY <1>8
<1>11. M \in SUBSET Leaf /\ t \in Tree /\ t.focus \in S
  BY <1>9 DEF Partition, TreeSound
<1> HIDE DEF M
<1>12. u = [leaves |-> M, focus |-> t.focus]
  BY <1>4, <1>10, <1>11 DEF Tree
<1> QED
  BY <1>1, <1>9, <1>11, <1>12 DEF TreeSound, Tree

-----------------------------------------------------------------------------
(* The methods of the model keep its two structures in agreement.          *)

HomesOpen == \A s \in Modelled : home[s] \in Open

ModelInv ==
  /\ home \in [Surfaces -> Workspaces \cup {"fresh", "allocated"}]
  /\ Open \subseteq Workspaces \ freshWorkspaces
  /\ freshWorkspaces \subseteq Workspaces
  /\ \A w \in Open : TreeSound(layout[w], SurfacesOf(w))
  /\ HomesOpen
  /\ OneActiveWorkspace

LEMMA HomeFacts ==
  ASSUME ModelInv, NEW s \in Modelled
  PROVE  /\ s \in Surfaces /\ home[s] \in Open /\ home[s] \in Workspaces
         /\ s \in SurfacesOf(home[s]) /\ SurfacesOf(home[s]) \subseteq Modelled
         /\ TreeSound(layout[home[s]], SurfacesOf(home[s]))
BY DEF ModelInv, HomesOpen, Modelled, SurfacesOf

(* No surface changes its workspace: a tree or the selection does. *)
LEMMA RetreeSound ==
  ASSUME ModelInv, NEW w \in Open, NEW t, TreeSound(t, SurfacesOf(w)),
         home' = home, freshWorkspaces' = freshWorkspaces,
         layout' = [layout EXCEPT ![w] = t],
         active' = active \/ \E v \in Open : active' = {v}
  PROVE  ModelInv' /\ Open' = Open
<1>1. Open' = Open
  BY DEF Open
<1>2. \A v \in Open : layout'[v] = IF v = w THEN t ELSE layout[v]
  BY DEF Open
<1>3. \A v : SurfacesOf(v)' = SurfacesOf(v)
  BY DEF SurfacesOf
<1>4. ASSUME NEW v \in Open PROVE TreeSound(layout'[v], SurfacesOf(v))
  BY <1>2 DEF ModelInv
<1>5. (\A v \in Open : TreeSound(layout[v], SurfacesOf(v)))'
  BY <1>1, <1>3, <1>4
<1>6. HomesOpen' /\ OneActiveWorkspace'
  BY <1>1 DEF ModelInv, HomesOpen, OneActiveWorkspace, Modelled
<1> QED
  BY <1>1, <1>5, <1>6 DEF ModelInv

LEMMA AddSurfaceSound ==
  ASSUME ModelInv, NEW s \in Surfaces, s \notin Modelled, NEW w \in Open, NEW t,
         TreeSound(t, SurfacesOf(w) \cup {s}), AddSurface(s, w, t)
  PROVE  /\ ModelInv' /\ Open' = Open
         /\ home'[s] = w /\ \A r \in Surfaces \ {s} : home'[r] = home[r]
<1>0. w \in Workspaces
  BY DEF ModelInv
<1>1. Open' = Open /\ \A v \in Open : layout'[v] = IF v = w THEN t ELSE layout[v]
  BY DEF Open, AddSurface, Model
<1>2. /\ home' \in [Surfaces -> Workspaces \cup {"fresh", "allocated"}]
      /\ home'[s] = w /\ \A r \in Surfaces \ {s} : home'[r] = home[r]
  BY <1>0 DEF AddSurface, Model, ModelInv
<1>3. \A v \in Open : SurfacesOf(v)' = IF v = w THEN SurfacesOf(w) \cup {s} ELSE SurfacesOf(v)
  BY <1>2 DEF SurfacesOf, Modelled, ModelInv
<1>4. \A v \in Open : TreeSound(layout'[v], SurfacesOf(v)')
  BY <1>1, <1>3 DEF ModelInv
<1>5. (\A v \in Open : TreeSound(layout[v], SurfacesOf(v)))'
  BY <1>1, <1>4
<1>6. HomesOpen'
  BY <1>1, <1>2 DEF ModelInv, HomesOpen, Modelled
<1>7. OneActiveWorkspace'
  BY <1>1 DEF ModelInv, OneActiveWorkspace, AddSurface, Model
<1>8. freshWorkspaces' = freshWorkspaces
  BY DEF AddSurface
<1> QED
  BY <1>1, <1>2, <1>5, <1>6, <1>7, <1>8 DEF ModelInv

LEMMA CreateWorkspaceSound ==
  ASSUME ModelInv, NEW s \in Surfaces, s \notin Modelled, NEW w \in freshWorkspaces,
         CreateWorkspace(w, s)
  PROVE  /\ ModelInv' /\ Open' = Open \cup {w} /\ w \notin Open /\ SurfacesOf(w)' = {s}
         /\ home'[s] = w /\ \A r \in Surfaces \ {s} : home'[r] = home[r]
<1>0. w \in Workspaces /\ w \notin Open /\ SurfacesOf(w) = {}
  BY DEF ModelInv, HomesOpen, Modelled, SurfacesOf
<1>1. /\ Open' = Open \cup {w}
      /\ \A v \in Open : layout'[v] = layout[v]
      /\ layout'[w] = Single(s)
  BY <1>0 DEF Open, CreateWorkspace, Model
<1>2. /\ home' \in [Surfaces -> Workspaces \cup {"fresh", "allocated"}]
      /\ home'[s] = w /\ \A r \in Surfaces \ {s} : home'[r] = home[r]
  BY <1>0 DEF CreateWorkspace, Model, ModelInv
<1>3. SurfacesOf(w)' = {s} /\ \A v \in Open : SurfacesOf(v)' = SurfacesOf(v)
  BY <1>0, <1>2 DEF SurfacesOf, Modelled, ModelInv
<1>4. TreeSound(Single(s), {s})
  BY SingleSound DEF Single
<1>5. \A v \in Open' : TreeSound(layout'[v], SurfacesOf(v)')
  BY <1>1, <1>3, <1>4 DEF ModelInv
<1>6. (\A v \in Open : TreeSound(layout[v], SurfacesOf(v)))'
  BY <1>5
<1>7. HomesOpen'
  BY <1>1, <1>2 DEF ModelInv, HomesOpen, Modelled
<1>8. OneActiveWorkspace' /\ freshWorkspaces' = freshWorkspaces \ {w}
  BY <1>1 DEF OneActiveWorkspace, CreateWorkspace, Model
<1> QED
  BY <1>0, <1>1, <1>2, <1>3, <1>6, <1>7, <1>8 DEF ModelInv

(* A surface leaves its workspace, whose tree no longer shows it. *)
LEMMA LeaveSound ==
  ASSUME ModelInv, NEW s \in Modelled, NEW w, w = home[s], NEW t,
         TreeSound(t, SurfacesOf(w) \ {s}),
         Model([home EXCEPT ![s] = "allocated"], [layout EXCEPT ![w] = t], active),
         freshWorkspaces' = freshWorkspaces
  PROVE  /\ ModelInv' /\ Open' = Open
         /\ home'[s] = "allocated" /\ \A r \in Surfaces \ {s} : home'[r] = home[r]
<1>0. s \in Surfaces /\ w \in Open /\ "allocated" \notin Workspaces
  BY HomeFacts, NoIdAssumption
<1>1. Open' = Open /\ \A v \in Open : layout'[v] = IF v = w THEN t ELSE layout[v]
  BY DEF Open, Model
<1>2. /\ home' \in [Surfaces -> Workspaces \cup {"fresh", "allocated"}]
      /\ home'[s] = "allocated" /\ \A r \in Surfaces \ {s} : home'[r] = home[r]
  BY <1>0 DEF Model, ModelInv
<1>3. \A v \in Open : SurfacesOf(v)' = IF v = w THEN SurfacesOf(w) \ {s} ELSE SurfacesOf(v)
  BY <1>0, <1>2 DEF SurfacesOf, ModelInv
<1>4. \A v \in Open : TreeSound(layout'[v], SurfacesOf(v)')
  BY <1>1, <1>3 DEF ModelInv
<1>5. (\A v \in Open : TreeSound(layout[v], SurfacesOf(v)))'
  BY <1>1, <1>4
<1>6. HomesOpen'
  BY <1>0, <1>1, <1>2 DEF ModelInv, HomesOpen, Modelled
<1>7. OneActiveWorkspace'
  BY <1>1 DEF ModelInv, OneActiveWorkspace, Model
<1> QED
  BY <1>1, <1>2, <1>5, <1>6, <1>7 DEF ModelInv

LEMMA CloseSurfaceSound ==
  ASSUME ModelInv, NEW s \in Modelled, CloseSurface(s)
  PROVE  /\ ModelInv' /\ Open' = Open
         /\ home'[s] = "allocated" /\ \A r \in Surfaces \ {s} : home'[r] = home[r]
<1>1. PICK w : w = home[s]
  OBVIOUS
<1>2. s \in SurfacesOf(w) /\ TreeSound(layout[w], SurfacesOf(w))
  BY <1>1, HomeFacts
<1>3. PICK t \in AfterClose(layout[w], s) :
        /\ Model([home EXCEPT ![s] = "allocated"], [layout EXCEPT ![w] = t], active)
        /\ freshWorkspaces' = freshWorkspaces
  BY <1>1 DEF CloseSurface
<1>4. TreeSound(t, SurfacesOf(w) \ {s})
  BY <1>2, <1>3, AfterCloseSound
<1> QED
  BY <1>1, <1>3, <1>4, LeaveSound

LEMMA RollbackSound ==
  ASSUME ModelInv, NEW h, h.surface \in Modelled, h.workspace = home[h.surface],
         TreeSound(h.snapshot, SurfacesOf(h.workspace) \ {h.surface}),
         RollbackAddedSurface(h)
  PROVE  /\ ModelInv' /\ Open' = Open
         /\ home'[h.surface] = "allocated"
         /\ \A r \in Surfaces \ {h.surface} : home'[r] = home[r]
<1>1. PICK s, w : s = h.surface /\ w = h.workspace
  OBVIOUS
<1>2. s \in SurfacesOf(w) /\ TreeSound(layout[w], SurfacesOf(w))
  BY <1>1, HomeFacts
<1>3. PICK t \in {h.snapshot} \cup AfterClose(layout[w], s) :
        /\ Model([home EXCEPT ![s] = "allocated"], [layout EXCEPT ![w] = t], active)
        /\ freshWorkspaces' = freshWorkspaces
  BY <1>1 DEF RollbackAddedSurface
<1>4. TreeSound(t, SurfacesOf(w) \ {s})
  BY <1>1, <1>2, <1>3, AfterCloseSound
<1> QED
  BY <1>1, <1>3, <1>4, LeaveSound

LEMMA CloseWithReplacementSound ==
  ASSUME ModelInv, NEW s \in Modelled, NEW r \in Surfaces, r \notin Modelled,
         SurfacesOf(home[s]) = {s}, CloseWithReplacement(s, r)
  PROVE  /\ ModelInv' /\ Open' = Open
         /\ home'[s] = "allocated" /\ home'[r] = home[s]
         /\ \A x \in Surfaces \ {s, r} : home'[x] = home[x]
<1>0. /\ s \in Surfaces /\ home[s] \in Open /\ home[s] \in Workspaces /\ s # r
      /\ "allocated" \notin Workspaces
  BY HomeFacts, NoIdAssumption
<1>1. /\ Open' = Open
      /\ \A v \in Open : layout'[v] = IF v = home[s] THEN Single(r) ELSE layout[v]
  BY DEF Open, CloseWithReplacement, Model
<1>2. /\ home' \in [Surfaces -> Workspaces \cup {"fresh", "allocated"}]
      /\ home'[s] = "allocated" /\ home'[r] = home[s]
      /\ \A x \in Surfaces \ {s, r} : home'[x] = home[x]
  BY <1>0 DEF CloseWithReplacement, Model, ModelInv
<1>3. \A v \in Open : SurfacesOf(v)' = IF v = home[s] THEN {r} ELSE SurfacesOf(v)
  <2>1. \A v \in Open : v # home[s] => r \notin SurfacesOf(v) /\ s \notin SurfacesOf(v)
    BY DEF SurfacesOf, Modelled, ModelInv
  <2>2. \A x \in Surfaces : home[x] = home[s] => x = s
    BY DEF SurfacesOf
  <2>3. \A v \in Open, x \in Surfaces :
          home'[x] = v <=> IF v = home[s] THEN x = r ELSE home[x] = v
    BY <1>0, <1>2, <2>1, <2>2 DEF SurfacesOf, ModelInv
  <2> QED
    BY <2>3 DEF SurfacesOf
<1>4. TreeSound(Single(r), {r})
  BY SingleSound DEF Single
<1>5. \A v \in Open : TreeSound(layout'[v], SurfacesOf(v)')
  BY <1>1, <1>3, <1>4 DEF ModelInv
<1>6. (\A v \in Open : TreeSound(layout[v], SurfacesOf(v)))'
  BY <1>1, <1>5
<1>7. HomesOpen'
  BY <1>0, <1>1, <1>2 DEF ModelInv, HomesOpen, Modelled
<1>8. OneActiveWorkspace' /\ freshWorkspaces' = freshWorkspaces
  BY <1>1 DEF ModelInv, OneActiveWorkspace, CloseWithReplacement, Model
<1> QED
  BY <1>1, <1>2, <1>6, <1>7, <1>8 DEF ModelInv

LEMMA CloseWorkspaceSound ==
  ASSUME ModelInv, NEW w \in Open, NEW prev, prev \in Open \ {w} \/ Open # {w},
         CloseWorkspaceAndSelect(w, prev)
  PROVE  /\ ModelInv' /\ Open' = Open \ {w}
         /\ \A r \in Surfaces : home'[r] = IF home[r] = w THEN "allocated" ELSE home[r]
<1>0. w \in Workspaces /\ "allocated" \notin Workspaces
  BY NoIdAssumption DEF ModelInv
<1>1. PICK a \in ActiveAfterClose(w) :
        active' = IF prev \in Open \ {w} THEN {prev} ELSE a
  BY DEF CloseWorkspaceAndSelect, Model
<1>2. /\ Open' = Open \ {w} /\ \A v \in Open \ {w} : layout'[v] = layout[v]
      /\ freshWorkspaces' = freshWorkspaces
  BY DEF Open, CloseWorkspaceAndSelect, Model
<1>3. /\ home' \in [Surfaces -> Workspaces \cup {"fresh", "allocated"}]
      /\ \A r \in Surfaces : home'[r] = IF home[r] = w THEN "allocated" ELSE home[r]
  BY DEF CloseWorkspaceAndSelect, Model, ModelInv
<1>4. \A v \in Open \ {w} : SurfacesOf(v)' = SurfacesOf(v)
  BY <1>0, <1>3 DEF SurfacesOf, ModelInv
<1>5. \A v \in Open \ {w} : TreeSound(layout'[v], SurfacesOf(v)')
  BY <1>2, <1>4 DEF ModelInv
<1>6. (\A v \in Open : TreeSound(layout[v], SurfacesOf(v)))'
  BY <1>2, <1>5
<1>7. HomesOpen'
  BY <1>0, <1>2, <1>3 DEF ModelInv, HomesOpen, Modelled
<1>8. \E v \in Open \ {w} : active' = {v}
  <2>1. CASE prev \in Open \ {w}
    BY <1>1, <2>1
  <2>2. CASE prev \notin Open \ {w}
    <3>1. PICK x \in Open : active = {x}
      BY DEF ModelInv, OneActiveWorkspace
    <3> QED
      BY <1>1, <2>2, <3>1 DEF ActiveAfterClose
  <2> QED
    BY <2>1, <2>2
<1> QED
  BY <1>2, <1>3, <1>6, <1>7, <1>8 DEF ModelInv, OneActiveWorkspace

-----------------------------------------------------------------------------
(* What holds between the steps of transactions, compensations and GTK.    *)

ActorsType ==
  /\ blocked \subseteq Surfaces
  /\ runtime \in [Surfaces -> {"none", "queued", "live"}]
  /\ txn \in Txn
  /\ handler \in Handler \cup {NoHandler}
  /\ gtk \in Gtk

(* The only surface of w is s. *)
Alone(s, w) == \A r \in Surfaces : home[r] = w <=> r = s

(* The guard is with one transaction, or with one compensation; only a     *)
(* creation shares it, until its command is in the channel.                *)
GuardInv ==
  /\ txn.op = "none" => txn = Idle
  /\ txn.op \notin {"none", "create"} => handler = NoHandler
  /\ txn.op = "create" =>
       /\ txn.at \in {"spawn", "drop"}
       /\ handler # NoHandler /\ handler.surface = txn.surface
       /\ runtime[txn.surface] = "none" /\ gtk.surface # txn.surface

(* What GTK has in hand: a current incarnation is still queued, and a      *)
(* rollback is that of the compensation.                                   *)
GtkInv ==
  /\ gtk.at = "idle" => gtk = GtkIdle
  /\ gtk.at # "idle" => gtk.surface \in Surfaces
  /\ (gtk.at \in {"building", "failed"} /\ gtk.current) => runtime[gtk.surface] = "queued"
  /\ gtk.at = "rollback" => handler # NoHandler /\ handler.surface = gtk.surface

(* A compensation can still undo its creation, and the command it travels  *)
(* with is queued, or has failed and left nothing.                         *)
HandlerInv ==
  handler # NoHandler =>
    /\ handler.workspace \in Open
    /\ home[handler.surface] = handler.workspace
    /\ handler.kind = "workspace" =>
         /\ Alone(handler.surface, handler.workspace)
         /\ handler.prevActive \in Open \ {handler.workspace}
    /\ txn.op = "none" =>
         \/ /\ runtime[handler.surface] = "queued"
            /\ gtk.surface = handler.surface =>
                 gtk.current /\ gtk.at \in {"building", "failed"}
         \/ /\ runtime[handler.surface] = "none"
            /\ gtk.surface = handler.surface /\ gtk.at = "rollback"

(* The tree captured before a creation fits the surfaces there were.       *)
SnapshotInv ==
  (handler # NoHandler /\ handler.kind = "surface") =>
    \E S : /\ TreeSound(handler.snapshot, S)
           /\ \A x : x \in S <=> /\ x \in Surfaces /\ x # handler.surface
                                 /\ home[x] = handler.workspace

(* Neither the backend nor GTK has heard of an id before it is allocated.  *)
FreshInv ==
  \A s \in Surfaces : home[s] = "fresh" => gtk.surface # s /\ runtime[s] = "none"

(* What a transaction relies on from one step to the next.                 *)
CloseSurfaceInv ==
  (txn.op = "closeSurface" /\ txn.at \notin {"ensure", "spawnFocused"}) =>
    /\ txn.at \in {"spawnSpare", "close", "closeSpare", "spareKept", "commit"}
    /\ txn.surface \in Modelled
    /\ txn.at = "commit" => runtime[txn.surface] = "none"
    /\ txn.at \in {"spawnSpare", "closeSpare", "spareKept"} => txn.spare # NoSurface
    /\ txn.at = "spawnSpare" => runtime[txn.spare] = "none"
    /\ txn.spare # NoSurface =>
         home[txn.spare] = "allocated" /\ Alone(txn.surface, home[txn.surface])

CloseWorkspaceInv ==
  (txn.op = "closeWorkspace" /\ txn.at \notin {"ensure", "spawnFocused"}) =>
    /\ txn.at \in {"spawnSpare", "close", "restore", "undo", "spareKept"}
    /\ txn.workspace \in Open /\ Open # {txn.workspace}
    /\ \A s \in txn.closed : home[s] = txn.workspace
    /\ txn.at \in {"spawnSpare", "close"} =>
         /\ \A s \in txn.todo : home[s] = txn.workspace
         /\ \A s \in Surfaces :
              home[s] = txn.workspace => s \in txn.todo \/ runtime[s] = "none"
    /\ txn.at \in {"spawnSpare", "undo"} =>
         txn.spare # NoSurface /\ runtime[txn.spare] = "none"
    /\ txn.at = "spareKept" => txn.spare # NoSurface
    /\ txn.spare # NoSurface =>
         /\ txn.prevActive = txn.workspace
         /\ txn.spareWorkspace \in Open \ {txn.workspace}
         /\ Alone(txn.spare, txn.spareWorkspace)

FocusInv ==
  /\ txn.at = "spawnFocused" => txn.spare # NoSurface
  /\ txn.spare \in Surfaces \ Modelled =>
       /\ txn.op = "closeSurface"
       /\ txn.at \in {"spawnSpare", "close", "closeSpare", "spareKept", "commit"}
  /\ txn.op \in {"select", "focus"} => txn.prevActive \in Open
  /\ txn.op = "focus" => txn.prevFocus \in Modelled
  /\ txn.op = "restart" => txn.surface \in Modelled

ActorInv ==
  /\ ActorsType /\ GuardInv /\ GtkInv /\ HandlerInv /\ SnapshotInv
  /\ FreshInv /\ CloseSurfaceInv /\ CloseWorkspaceInv /\ FocusInv

SoundInv == ModelInv /\ ActorInv

-----------------------------------------------------------------------------
(* Records of the actors.                                                  *)

LEMMA IdleFields ==
  /\ Idle \in Txn /\ Idle.op = "none" /\ Idle.at = "idle" /\ Idle.spare = NoSurface
  /\ NoHandler.kind = "none" /\ NoHandler \notin Handler
  /\ GtkIdle \in Gtk /\ GtkIdle.at = "idle" /\ GtkIdle.surface = NoSurface
BY DEF Idle, Txn, NoHandler, Handler, GtkIdle, Gtk

(* A transaction goes on to another step. *)
Moved(at) ==
  /\ txn' \in Txn /\ txn'.op = txn.op /\ txn'.at = at
  /\ txn'.surface = txn.surface /\ txn'.workspace = txn.workspace
  /\ txn'.spare = txn.spare /\ txn'.spareWorkspace = txn.spareWorkspace
  /\ txn'.todo = txn.todo /\ txn'.closed = txn.closed
  /\ txn'.prevActive = txn.prevActive /\ txn'.prevFocus = txn.prevFocus

Ats == {"idle", "spawn", "drop", "spawnSpare", "close", "restore", "closeSpare",
        "spareKept", "undo", "commit", "ensure", "spawnFocused", "respawn"}

LEMMA StepMoves ==
  ASSUME txn \in Txn, NEW at \in Ats, Step(at)
  PROVE  Moved(at)
BY DEF Step, Txn, Moved, Ats

LEMMA HandlerFields ==
  ASSUME ActorsType, handler # NoHandler
  PROVE  /\ handler \in Handler
         /\ handler.kind \in {"surface", "workspace"}
         /\ handler.surface \in Surfaces /\ handler.workspace \in Workspaces
BY DEF ActorsType, Handler

LEMMA SpawnMoves ==
  ASSUME ActorsType, NEW s \in Surfaces, SpawnAccepted(s)
  PROVE  /\ runtime' \in [Surfaces -> {"none", "queued", "live"}]
         /\ runtime[s] = "none" /\ runtime'[s] = "queued"
         /\ \A r \in Surfaces \ {s} : runtime'[r] = runtime[r]
BY DEF ActorsType, SpawnAccepted, Enter

LEMMA RejectMoves ==
  ASSUME ActorsType, NEW s \in Surfaces, SpawnRejected(s)
  PROVE  runtime' = runtime /\ blocked' \subseteq Surfaces
BY DEF ActorsType, SpawnRejected, RecordSpawnFailure

LEMMA RemoveMoves ==
  ASSUME ActorsType, GtkInv, NEW s \in Surfaces, RemoveRuntime(s)
  PROVE  /\ runtime' \in [Surfaces -> {"none", "queued", "live"}]
         /\ runtime'[s] = "none"
         /\ \A r \in Surfaces \ {s} : runtime'[r] = runtime[r]
         /\ gtk' \in Gtk /\ gtk'.at = gtk.at /\ gtk'.surface = gtk.surface
         /\ gtk'.current => gtk.current /\ gtk.surface # s
         /\ gtk.at = "idle" => gtk' = GtkIdle
<1>1. /\ runtime' \in [Surfaces -> {"none", "queued", "live"}]
      /\ runtime'[s] = "none"
      /\ \A r \in Surfaces \ {s} : runtime'[r] = runtime[r]
  BY DEF ActorsType, RemoveRuntime, Enter
<1>2. gtk \in Gtk
  BY DEF ActorsType
<1>3. CASE gtk.surface = s
  <2>1. gtk.at # "idle"
    BY <1>3, IdleFields, NoIdAssumption DEF GtkInv
  <2>2. /\ gtk' \in Gtk /\ gtk'.at = gtk.at /\ gtk'.surface = gtk.surface
        /\ gtk'.current = FALSE
    BY <1>2, <1>3 DEF RemoveRuntime, Gtk
  <2> QED
    BY <1>1, <2>1, <2>2
<1>4. CASE gtk.surface # s
  BY <1>1, <1>2, <1>4 DEF RemoveRuntime, GtkInv
<1> QED
  BY <1>3, <1>4

(* The model changes neither its surfaces nor its workspaces. *)
LEMMA ModelKept ==
  ASSUME ModelInv, UNCHANGED modelVars
  PROVE  ModelInv' /\ home' = home /\ Open' = Open
BY DEF modelVars, ModelInv, Open, HomesOpen, Modelled, SurfacesOf, OneActiveWorkspace

LEMMA ActorsKept ==
  ASSUME ActorInv, home' = home, Open' = Open, blocked' \subseteq Surfaces,
         UNCHANGED <<runtime, txn, handler, gtk>>
  PROVE  ActorInv'
BY DEF ActorInv, ActorsType, GuardInv, GtkInv, HandlerInv, SnapshotInv, FreshInv,
       CloseSurfaceInv, CloseWorkspaceInv, FocusInv, Alone, Modelled

(* A transaction that has let the guard go relies on nothing.              *)
LEMMA Settled ==
  ASSUME txn' = Idle, handler' = NoHandler, ActorsType', GtkInv', FreshInv'
  PROVE  ActorInv'
BY IdleFields, NoIdAssumption DEF ActorInv, GuardInv, HandlerInv, SnapshotInv, CloseSurfaceInv,
                  CloseWorkspaceInv, FocusInv

-----------------------------------------------------------------------------
(* Creations.                                                              *)

LEMMA GuardFreeFacts ==
  ASSUME ActorInv, GuardFree
  PROVE  txn.op = "none" /\ txn = Idle /\ handler = NoHandler /\ gtk.at # "rollback"
BY IdleFields DEF GuardFree, ActorInv, GtkInv

LEMMA BeginCreateActors ==
  ASSUME ModelInv, ActorInv, NEW s \in Surfaces, home[s] = "fresh",
         NEW w \in Workspaces, NEW h \in Handler, BeginCreate(s, h),
         h.surface = s, h.workspace = w,
         w \in Open', home'[s] = w, \A r \in Surfaces \ {s} : home'[r] = home[r],
         h.kind = "workspace" =>
           /\ h.prevActive \in Open' \ {w}
           /\ \A r \in Surfaces : home[r] # w,
         h.kind = "surface" => TreeSound(h.snapshot, SurfacesOf(w))
  PROVE  ActorInv'
<1>0. GuardFree /\ handler' = h /\ UNCHANGED <<blocked, runtime, gtk>>
      /\ txn' = [Idle EXCEPT !.op = "create", !.at = "spawn", !.surface = s]
  BY DEF BeginCreate
<1>1. /\ txn' \in Txn /\ txn'.op = "create" /\ txn'.at = "spawn" /\ txn'.surface = s
      /\ txn'.spare = NoSurface
  BY <1>0 DEF Idle, Txn
<1>2. txn.op = "none" /\ handler = NoHandler /\ gtk.at # "rollback"
  BY <1>0, GuardFreeFacts
<1>3. h # NoHandler
  BY IdleFields
<1>4. s \notin Modelled /\ runtime[s] = "none" /\ gtk.surface # s /\ h.surface \in Surfaces
  BY <1>2, NoIdAssumption DEF ActorInv, FreshInv, Modelled
<1>5. ActorsType'
  BY <1>0, <1>1 DEF ActorInv, ActorsType
<1>6. GuardInv' /\ GtkInv' /\ CloseSurfaceInv' /\ CloseWorkspaceInv' /\ FocusInv'
  BY <1>0, <1>1, <1>2, <1>3, <1>4, NoIdAssumption
     DEF ActorInv, GuardInv, GtkInv, CloseSurfaceInv, CloseWorkspaceInv, FocusInv
<1>7. HandlerInv'
  BY <1>0, <1>1, <1>3 DEF HandlerInv, Alone
<1>8. SnapshotInv'
  <2>1. \A x : x \in SurfacesOf(w) <=> x \in Surfaces /\ x # s /\ home'[x] = w
    BY <1>4 DEF SurfacesOf, Modelled
  <2> QED
    BY <1>0, <2>1 DEF SnapshotInv
<1>9. FreshInv'
  BY <1>0, <1>1, <1>2, <1>4, NoIdAssumption DEF ActorInv, FreshInv, Modelled
<1> QED
  BY <1>5, <1>6, <1>7, <1>8, <1>9 DEF ActorInv

LEMMA CreateSurfaceStep ==
  ASSUME SoundInv, NEW s \in Surfaces, NEW source \in Surfaces, CreateSurface(s, source)
  PROVE  SoundInv'
<1>1. PICK w : w = home[source]
  OBVIOUS
<1> DEFINE h == [kind |-> "surface", surface |-> s, workspace |-> w, snapshot |-> layout[w]]
<1>2. /\ home[s] = "fresh" /\ source \in Modelled /\ BeginCreate(s, h)
      /\ \E t \in {Split(layout[w], s), AddTab(layout[w], source, s)} : AddSurface(s, w, t)
  BY <1>1 DEF CreateSurface
<1>3. /\ w \in Open /\ w \in Workspaces /\ source \in SurfacesOf(w)
      /\ TreeSound(layout[w], SurfacesOf(w))
  BY <1>1, <1>2, HomeFacts DEF SoundInv
<1>4. s \notin Modelled /\ s \notin SurfacesOf(w)
  BY <1>2, <1>3, NoIdAssumption DEF Modelled, SurfacesOf
<1>5. PICK t : TreeSound(t, SurfacesOf(w) \cup {s}) /\ AddSurface(s, w, t)
  BY <1>2, <1>3, <1>4, SplitSound, AddTabSound
<1>6. /\ ModelInv' /\ Open' = Open /\ home'[s] = w
      /\ \A r \in Surfaces \ {s} : home'[r] = home[r]
  BY <1>3, <1>4, <1>5, AddSurfaceSound DEF SoundInv
<1>7. /\ h \in Handler /\ h.surface = s /\ h.workspace = w /\ h.kind = "surface"
      /\ h.snapshot = layout[w]
  BY <1>3 DEF Handler, TreeSound
<1> HIDE DEF h
<1>8. ActorInv'
  BY <1>2, <1>3, <1>6, <1>7, BeginCreateActors DEF SoundInv
<1> QED
  BY <1>6, <1>8 DEF SoundInv

LEMMA CreateWorkspaceStep ==
  ASSUME SoundInv, NEW w \in Workspaces, NEW s \in Surfaces, CreateWorkspaceRequest(w, s)
  PROVE  SoundInv'
<1>1. PICK prev \in active :
        BeginCreate(s, [kind |-> "workspace", surface |-> s, workspace |-> w,
                        prevActive |-> prev])
  BY DEF CreateWorkspaceRequest
<1> DEFINE h == [kind |-> "workspace", surface |-> s, workspace |-> w, prevActive |-> prev]
<1>2. home[s] = "fresh" /\ w \in freshWorkspaces /\ CreateWorkspace(w, s)
  BY DEF CreateWorkspaceRequest
<1>3. s \notin Modelled
  BY <1>2, NoIdAssumption DEF Modelled
<1>4. /\ ModelInv' /\ Open' = Open \cup {w} /\ w \notin Open /\ home'[s] = w
      /\ \A r \in Surfaces \ {s} : home'[r] = home[r]
  BY <1>2, <1>3, CreateWorkspaceSound DEF SoundInv
<1>5. prev \in Open /\ Open \subseteq Workspaces
  BY <1>1 DEF SoundInv, ModelInv, OneActiveWorkspace
<1>6. \A r \in Surfaces : home[r] # w
  BY <1>4 DEF SoundInv, ModelInv, HomesOpen, Modelled
<1>7. /\ h \in Handler /\ h.surface = s /\ h.workspace = w /\ h.kind = "workspace"
      /\ h.prevActive = prev
  BY <1>5 DEF Handler
<1> HIDE DEF h
<1>8. BeginCreate(s, h)
  BY <1>1 DEF h
<1>9. ActorInv'
  BY <1>2, <1>4, <1>5, <1>6, <1>7, <1>8, BeginCreateActors DEF SoundInv
<1> QED
  BY <1>4, <1>9 DEF SoundInv

LEMMA CreateSpawnStep ==
  ASSUME SoundInv, CreateSpawn
  PROVE  SoundInv'
<1>0. /\ txn.op = "create" /\ txn.at = "spawn" /\ UNCHANGED <<handler, gtk>>
      /\ ModelInv' /\ home' = home /\ Open' = Open
  BY ModelKept DEF CreateSpawn, At, SoundInv
<1>1. /\ handler # NoHandler /\ handler.surface = txn.surface /\ txn.surface \in Surfaces
      /\ gtk.surface # txn.surface /\ handler.workspace \in Open
      /\ home[handler.surface] = handler.workspace /\ handler.surface \in Modelled
  BY <1>0, HandlerFields DEF SoundInv, ActorInv, GuardInv, HandlerInv, Modelled
<1>2. CASE SpawnAccepted(txn.surface) /\ Done /\ UNCHANGED blocked
  <2>1. /\ runtime' \in [Surfaces -> {"none", "queued", "live"}]
        /\ runtime'[txn.surface] = "queued"
        /\ \A r \in Surfaces \ {txn.surface} : runtime'[r] = runtime[r]
    BY <1>1, <1>2, SpawnMoves DEF SoundInv, ActorInv
  <2>2. txn' = Idle
    BY <1>2 DEF Done
  <2>3. ActorsType'
    BY <1>0, <1>2, <2>1, <2>2, IdleFields DEF SoundInv, ActorInv, ActorsType
  <2>4. GuardInv' /\ CloseSurfaceInv' /\ CloseWorkspaceInv' /\ FocusInv'
    BY <2>2, IdleFields, NoIdAssumption DEF GuardInv, CloseSurfaceInv, CloseWorkspaceInv, FocusInv
  <2>5. GtkInv' /\ SnapshotInv'
    BY <1>0, <1>1, <2>1 DEF SoundInv, ActorInv, GtkInv, SnapshotInv
  <2>6. HandlerInv'
    BY <1>0, <1>1, <2>1 DEF SoundInv, ActorInv, HandlerInv, Alone
  <2>7. FreshInv'
    BY <1>0, <1>1, <2>1, NoIdAssumption DEF SoundInv, ActorInv, FreshInv, Modelled
  <2> QED
    BY <1>0, <2>3, <2>4, <2>5, <2>6, <2>7 DEF SoundInv, ActorInv
<1>3. CASE SpawnRejected(txn.surface) /\ Step("drop")
  <2>1. runtime' = runtime /\ blocked' \subseteq Surfaces
    BY <1>1, <1>3, RejectMoves DEF SoundInv, ActorInv
  <2>2. Moved("drop")
    BY <1>3, StepMoves DEF SoundInv, ActorInv, ActorsType, Ats
  <2>3. ActorsType' /\ GuardInv' /\ GtkInv' /\ SnapshotInv'
    BY <1>0, <2>1, <2>2
       DEF SoundInv, ActorInv, ActorsType, GuardInv, GtkInv, SnapshotInv, Moved
  <2>4. HandlerInv'
    BY <1>0, <2>1, <2>2 DEF SoundInv, ActorInv, HandlerInv, Alone, Moved
  <2>5. FreshInv' /\ CloseSurfaceInv' /\ CloseWorkspaceInv' /\ FocusInv'
    BY <1>0, <2>1, <2>2
       DEF SoundInv, ActorInv, FreshInv, CloseSurfaceInv, CloseWorkspaceInv, FocusInv,
           Moved, Modelled
  <2> QED
    BY <1>0, <2>3, <2>4, <2>5 DEF SoundInv, ActorInv
<1> QED
  BY <1>2, <1>3 DEF CreateSpawn

-----------------------------------------------------------------------------
(* Compensations.                                                          *)

LEMMA CompensationSound ==
  ASSUME SoundInv, handler # NoHandler, Compensate(handler)
  PROVE  /\ ModelInv' /\ blocked' \subseteq Surfaces
         /\ handler.surface \in Modelled
         /\ home'[handler.surface] = "allocated"
         /\ \A r \in Surfaces \ {handler.surface} : home'[r] = home[r]
<1>1. PICK h : h = handler
  OBVIOUS
<1>2. /\ h \in Handler /\ h.kind \in {"surface", "workspace"}
      /\ h.surface \in Surfaces /\ h.workspace \in Open
      /\ home[h.surface] = h.workspace
  BY <1>1, HandlerFields DEF SoundInv, ActorInv, HandlerInv
<1>3. h.surface \in Modelled /\ blocked \subseteq Surfaces
  BY <1>2 DEF SoundInv, ModelInv, ActorInv, ActorsType, Modelled
<1>4. CASE h.kind = "surface"
  <2>1. PICK S : /\ TreeSound(h.snapshot, S)
                 /\ \A x : x \in S <=> /\ x \in Surfaces /\ x # h.surface
                                       /\ home[x] = h.workspace
    BY <1>1, <1>4 DEF SoundInv, ActorInv, SnapshotInv
  <2>2. S = SurfacesOf(h.workspace) \ {h.surface}
    BY <2>1 DEF SurfacesOf
  <2>3. RollbackAddedSurface(h)
    BY <1>1, <1>4 DEF Compensate
  <2>4. blocked' \subseteq Surfaces
    BY <1>3, <2>3 DEF RollbackAddedSurface
  <2> QED
    BY <1>1, <1>2, <1>3, <2>1, <2>2, <2>3, <2>4, RollbackSound DEF SoundInv
<1>5. CASE h.kind = "workspace"
  <2>1. /\ h.prevActive \in Open \ {h.workspace}
        /\ \A r \in Surfaces : home[r] = h.workspace <=> r = h.surface
    BY <1>1, <1>5 DEF SoundInv, ActorInv, HandlerInv, Alone
  <2>2. CloseWorkspaceAndSelect(h.workspace, h.prevActive)
    BY <1>1, <1>5 DEF Compensate
  <2>3. blocked' \subseteq Surfaces
    BY <1>3, <2>2 DEF CloseWorkspaceAndSelect
  <2>4. /\ ModelInv'
        /\ \A r \in Surfaces :
             home'[r] = IF home[r] = h.workspace THEN "allocated" ELSE home[r]
    BY <1>2, <2>1, <2>2, CloseWorkspaceSound DEF SoundInv
  <2> QED
    BY <1>1, <1>2, <1>3, <2>1, <2>3, <2>4
<1> QED
  BY <1>2, <1>4, <1>5

(* The last step of a compensation, of a surface without a runtime.        *)
LEMMA CompensatedStep ==
  ASSUME SoundInv, handler # NoHandler, Compensate(handler),
         runtime[handler.surface] = "none", runtime' = runtime,
         txn.op \in {"none", "create"},
         txn' = Idle, handler' = NoHandler,
         gtk' = GtkIdle \/ (gtk' = gtk /\ gtk.at # "rollback")
  PROVE  SoundInv'
<1>1. /\ ModelInv' /\ blocked' \subseteq Surfaces
      /\ handler.surface \in Modelled
      /\ home'[handler.surface] = "allocated"
      /\ \A r \in Surfaces \ {handler.surface} : home'[r] = home[r]
  BY CompensationSound
<1>2. ActorsType' /\ GtkInv'
  BY <1>1, IdleFields DEF SoundInv, ActorInv, ActorsType, GtkInv
<1>3. FreshInv'
  <2>1. ASSUME NEW s \in Surfaces, home'[s] = "fresh"
        PROVE  gtk'.surface # s /\ runtime'[s] = "none"
    BY <1>1, <2>1, IdleFields, NoIdAssumption DEF SoundInv, ActorInv, FreshInv
  <2> QED
    BY <2>1 DEF FreshInv
<1> QED
  BY <1>1, <1>2, <1>3, Settled DEF SoundInv

(* What the runtime of a surface is when its compensation runs.            *)
LEMMA DropFacts ==
  ASSUME SoundInv, CreateDrop
  PROVE  /\ handler # NoHandler /\ runtime[handler.surface] = "none"
         /\ txn.op = "create" /\ gtk.at # "rollback"
BY DEF SoundInv, ActorInv, GuardInv, GtkInv, CreateDrop, At

LEMMA RollbackFacts ==
  ASSUME SoundInv, gtk.at = "rollback"
  PROVE  /\ handler # NoHandler /\ handler.surface = gtk.surface
         /\ runtime[handler.surface] = "none"
         /\ txn.op = "none" /\ txn = Idle
<1>1. handler # NoHandler /\ handler.surface = gtk.surface
  BY DEF SoundInv, ActorInv, GtkInv
<1>2. txn.op = "none" /\ txn = Idle
  BY <1>1 DEF SoundInv, ActorInv, GuardInv
<1> QED
  BY <1>1, <1>2 DEF SoundInv, ActorInv, HandlerInv

LEMMA CreateDropStep ==
  ASSUME SoundInv, CreateDrop
  PROVE  SoundInv'
BY DropFacts, CompensatedStep DEF CreateDrop, Done

LEMMA GtkRollbackStep ==
  ASSUME SoundInv, GtkRollback
  PROVE  SoundInv'
BY RollbackFacts, CompensatedStep DEF GtkRollback, GtkAt, RunCompensation

-----------------------------------------------------------------------------
(* Closing a surface.                                                      *)

LEMMA CloseSurfaceRequestStep ==
  ASSUME SoundInv, NEW s \in Surfaces, CloseSurfaceRequest(s)
  PROVE  SoundInv'
<1>1. PICK w : w = home[s]
  OBVIOUS
<1>2. /\ GuardFree /\ s \in Modelled
      /\ UNCHANGED <<layout, active, freshWorkspaces, blocked, runtime, handler, gtk>>
  BY DEF CloseSurfaceRequest
<1>3. PICK r \in IF IsRoot(layout[w], s) THEN FreshSurfaces ELSE {NoSurface} :
        /\ txn' = [Idle EXCEPT !.op = "closeSurface", !.surface = s, !.spare = r,
                     !.at = IF IsRoot(layout[w], s) THEN "spawnSpare" ELSE "close"]
        /\ home' = [t \in Surfaces |-> IF t = r THEN "allocated" ELSE home[t]]
  BY <1>1 DEF CloseSurfaceRequest
<1>4. /\ w \in Open /\ w \in Workspaces /\ TreeSound(layout[w], SurfacesOf(w))
      /\ s \in SurfacesOf(w)
  BY <1>1, <1>2, HomeFacts DEF SoundInv
<1>5. /\ r # NoSurface => r \in Surfaces /\ home[r] = "fresh" /\ home'[r] = "allocated"
      /\ r \in Surfaces => r # NoSurface
  BY <1>3, NoIdAssumption DEF FreshSurfaces
<1>6. /\ txn' \in Txn /\ txn'.op = "closeSurface" /\ txn'.surface = s /\ txn'.spare = r
      /\ txn'.at \in {"spawnSpare", "close"}
      /\ txn'.at = "spawnSpare" => r \in Surfaces
  BY <1>3, <1>5 DEF Idle, Txn, FreshSurfaces
<1>7. \A t \in Surfaces : t # r => home'[t] = home[t]
  BY <1>3
<1>8. "fresh" \notin Workspaces /\ "allocated" \notin Workspaces
  BY NoIdAssumption
<1>9. Modelled' = Modelled /\ \A v \in Open : SurfacesOf(v)' = SurfacesOf(v)
  <2>1. \A t \in Surfaces, v \in Workspaces : home'[t] = v <=> home[t] = v
    BY <1>3, <1>5, <1>8
  <2> QED
    BY <2>1 DEF Modelled, SurfacesOf, SoundInv, ModelInv
<1>10. ModelInv'
  <2>1. home' \in [Surfaces -> Workspaces \cup {"fresh", "allocated"}]
    BY <1>3 DEF SoundInv, ModelInv
  <2>2. Open' = Open
    BY <1>2 DEF Open
  <2>3. (\A v \in Open : TreeSound(layout[v], SurfacesOf(v)))'
    BY <1>2, <1>9, <2>2 DEF SoundInv, ModelInv
  <2>4. HomesOpen'
    BY <1>3, <1>5, <1>8, <2>2 DEF SoundInv, ModelInv, HomesOpen, Modelled
  <2> QED
    BY <1>2, <2>1, <2>2, <2>3, <2>4 DEF SoundInv, ModelInv, OneActiveWorkspace
<1>11. IsRoot(layout[w], s) => \A t \in Surfaces : home[t] = w <=> t = s
  <2>1. ASSUME IsRoot(layout[w], s) PROVE SurfacesOf(w) = {s}
    <3>1. TreeSound(Single(s), {s})
      BY SingleSound DEF Single
    <3> QED
      BY <1>4, <2>1, <3>1 DEF IsRoot, TreeSound, Partition
  <2> QED
    BY <2>1 DEF SurfacesOf
<1>12. handler = NoHandler /\ txn.op = "none" /\ gtk.at # "rollback"
  BY <1>2, GuardFreeFacts DEF SoundInv
<1>13. ActorsType' /\ GuardInv' /\ GtkInv' /\ HandlerInv' /\ SnapshotInv'
  BY <1>2, <1>6, <1>12
     DEF SoundInv, ActorInv, ActorsType, GuardInv, GtkInv, HandlerInv, SnapshotInv
<1>14. CloseSurfaceInv'
  <2>1. home'[s] = w
    BY <1>1, <1>2, <1>5, <1>7, <1>8 DEF Modelled
  <2>2. r # NoSurface => \A t \in Surfaces : home'[t] = w <=> t = s
    BY <1>3, <1>4, <1>5, <1>7, <1>8, <1>11
  <2>3. r # NoSurface => runtime'[r] = "none"
    BY <1>2, <1>5 DEF SoundInv, ActorInv, FreshInv
  <2> QED
    BY <1>2, <1>4, <1>5, <1>6, <1>9, <2>1, <2>2, <2>3,
       NoIdAssumption
       DEF CloseSurfaceInv, Alone, Modelled
<1>15. FreshInv' /\ CloseWorkspaceInv' /\ FocusInv'
  <2>1. FreshInv'
    BY <1>2, <1>5, <1>7, <1>8, <1>9, <1>12, NoIdAssumption
       DEF SoundInv, ActorInv, FreshInv
  <2> QED
    BY <1>6, <2>1 DEF CloseWorkspaceInv, FocusInv
<1> QED
  BY <1>10, <1>13, <1>14, <1>15 DEF SoundInv, ActorInv

LEMMA CloseSpawnSpareStep ==
  ASSUME SoundInv, CloseSpawnSpare
  PROVE  SoundInv'
<1>0. /\ txn.op = "closeSurface" /\ txn.at = "spawnSpare" /\ UNCHANGED <<handler, gtk>>
      /\ ModelInv' /\ home' = home /\ Open' = Open
  BY ModelKept DEF CloseSpawnSpare, At, SoundInv
<1>1. txn.spare \in Surfaces /\ home[txn.spare] = "allocated" /\ handler = NoHandler
  BY <1>0 DEF SoundInv, ActorInv, ActorsType, Txn, CloseSurfaceInv, GuardInv
<1>2. CASE SpawnAccepted(txn.spare) /\ Step("close") /\ UNCHANGED blocked
  <2>1. /\ runtime' \in [Surfaces -> {"none", "queued", "live"}]
        /\ runtime[txn.spare] = "none"
        /\ \A r \in Surfaces \ {txn.spare} : runtime'[r] = runtime[r]
    BY <1>1, <1>2, SpawnMoves DEF SoundInv, ActorInv
  <2>2. Moved("close")
    BY <1>2, StepMoves DEF SoundInv, ActorInv, ActorsType, Ats
  <2>3. ActorsType' /\ GuardInv' /\ GtkInv' /\ HandlerInv' /\ SnapshotInv'
    BY <1>0, <1>1, <1>2, <2>1, <2>2
       DEF SoundInv, ActorInv, ActorsType, GuardInv, GtkInv, HandlerInv, SnapshotInv, Moved
  <2>4. FreshInv' /\ CloseSurfaceInv' /\ CloseWorkspaceInv' /\ FocusInv'
    BY <1>0, <1>1, <2>1, <2>2
       DEF SoundInv, ActorInv, FreshInv, CloseSurfaceInv, CloseWorkspaceInv, FocusInv,
           Moved, Modelled, Alone
  <2> QED
    BY <1>0, <2>3, <2>4 DEF SoundInv, ActorInv
<1>3. CASE SpawnRejected(txn.spare) /\ Done
  <2>1. runtime' = runtime /\ blocked' \subseteq Surfaces /\ txn' = Idle
    BY <1>1, <1>3, RejectMoves DEF SoundInv, ActorInv, Done
  <2>2. ActorsType' /\ GtkInv' /\ FreshInv'
    BY <1>0, <1>1, <2>1, IdleFields
       DEF SoundInv, ActorInv, ActorsType, GtkInv, FreshInv, Modelled
  <2> QED
    BY <1>0, <1>1, <2>1, <2>2, Settled DEF SoundInv
<1> QED
  BY <1>2, <1>3 DEF CloseSpawnSpare

(* Removing a runtime leaves no incarnation of it current. *)
LEMMA RemoveKeeps ==
  ASSUME SoundInv, NEW s \in Surfaces, RemoveRuntime(s), handler' = handler,
         home' = home
  PROVE  /\ GtkInv' /\ gtk' \in Gtk /\ gtk'.surface = gtk.surface
         /\ runtime' \in [Surfaces -> {"none", "queued", "live"}]
         /\ runtime'[s] = "none"
         /\ \A r \in Surfaces : runtime'[r] \in {runtime[r], "none"}
         /\ \A r \in Surfaces : home'[r] = "fresh" => gtk'.surface # r
<1>1. /\ runtime' \in [Surfaces -> {"none", "queued", "live"}]
      /\ runtime'[s] = "none"
      /\ \A r \in Surfaces \ {s} : runtime'[r] = runtime[r]
      /\ gtk' \in Gtk /\ gtk'.at = gtk.at /\ gtk'.surface = gtk.surface
      /\ gtk'.current => gtk.current /\ gtk.surface # s
      /\ gtk.at = "idle" => gtk' = GtkIdle
  BY RemoveMoves DEF SoundInv, ActorInv
<1>2. GtkInv'
  BY <1>1 DEF SoundInv, ActorInv, GtkInv
<1> QED
  BY <1>1, <1>2 DEF SoundInv, ActorInv, FreshInv

LEMMA CloseTerminalStep ==
  ASSUME SoundInv, CloseTerminal
  PROVE  SoundInv'
<1>0. /\ txn.op = "closeSurface" /\ txn.at = "close"
      /\ blocked' = blocked /\ handler' = handler
      /\ ModelInv' /\ home' = home /\ Open' = Open
  BY ModelKept DEF CloseTerminal, At, SoundInv
<1>1. txn.surface \in Surfaces /\ txn.surface \in Modelled /\ handler = NoHandler
  BY <1>0 DEF SoundInv, ActorInv, CloseSurfaceInv, GuardInv, Modelled
<1>2. CASE RemoveRuntime(txn.surface) /\ Step("commit")
  <2>1. /\ GtkInv' /\ gtk' \in Gtk /\ gtk'.surface = gtk.surface
        /\ runtime' \in [Surfaces -> {"none", "queued", "live"}]
        /\ runtime'[txn.surface] = "none"
        /\ \A r \in Surfaces : runtime'[r] \in {runtime[r], "none"}
        /\ \A r \in Surfaces : home'[r] = "fresh" => gtk'.surface # r
    BY <1>0, <1>1, <1>2, RemoveKeeps
  <2>2. Moved("commit")
    BY <1>2, StepMoves DEF SoundInv, ActorInv, ActorsType, Ats
  <2>3. ActorsType' /\ GuardInv' /\ HandlerInv' /\ SnapshotInv'
    BY <1>0, <1>1, <2>1, <2>2
       DEF SoundInv, ActorInv, ActorsType, GuardInv, HandlerInv, SnapshotInv, Moved
  <2>4. FreshInv' /\ CloseSurfaceInv' /\ CloseWorkspaceInv' /\ FocusInv'
    BY <1>0, <1>1, <2>1, <2>2
       DEF SoundInv, ActorInv, FreshInv, CloseSurfaceInv, CloseWorkspaceInv, FocusInv,
           Moved, Modelled, Alone
  <2> QED
    BY <1>0, <2>1, <2>3, <2>4 DEF SoundInv, ActorInv
<1>3. CASE UNCHANGED <<runtime, gtk>> /\ txn.spare = NoSurface /\ txn' = Idle
  <2>1. ActorsType' /\ GtkInv' /\ FreshInv'
    BY <1>0, <1>1, <1>3, IdleFields, NoIdAssumption
       DEF SoundInv, ActorInv, ActorsType, GtkInv, FreshInv, Modelled
  <2> QED
    BY <1>0, <1>1, <1>3, <2>1, Settled DEF SoundInv
<1>4. CASE UNCHANGED <<runtime, gtk>> /\ txn.spare # NoSurface /\ Step("closeSpare")
  <2>1. Moved("closeSpare")
    BY <1>4, StepMoves DEF SoundInv, ActorInv, ActorsType, Ats
  <2>2. ActorsType' /\ GuardInv' /\ GtkInv' /\ HandlerInv' /\ SnapshotInv'
    BY <1>0, <1>1, <1>4, <2>1
       DEF SoundInv, ActorInv, ActorsType, GuardInv, GtkInv, HandlerInv, SnapshotInv, Moved
  <2>3. FreshInv' /\ CloseSurfaceInv' /\ CloseWorkspaceInv' /\ FocusInv'
    BY <1>0, <1>1, <1>4, <2>1
       DEF SoundInv, ActorInv, FreshInv, CloseSurfaceInv, CloseWorkspaceInv, FocusInv,
           Moved, Modelled, Alone
  <2> QED
    BY <1>0, <2>2, <2>3 DEF SoundInv, ActorInv
<1> QED
  BY <1>2, <1>3, <1>4 DEF CloseTerminal, Step

LEMMA CloseSpareStep ==
  ASSUME SoundInv, CloseSpare
  PROVE  SoundInv'
<1>0. /\ txn.op = "closeSurface" /\ txn.at = "closeSpare"
      /\ blocked' = blocked /\ handler' = handler
      /\ ModelInv' /\ home' = home /\ Open' = Open
  BY ModelKept DEF CloseSpare, At, SoundInv
<1>1. txn.spare \in Surfaces /\ handler = NoHandler
  BY <1>0 DEF SoundInv, ActorInv, ActorsType, Txn, CloseSurfaceInv, GuardInv
<1>2. CASE RemoveRuntime(txn.spare) /\ txn' = Idle
  <2>1. /\ GtkInv' /\ gtk' \in Gtk /\ gtk'.surface = gtk.surface
        /\ runtime' \in [Surfaces -> {"none", "queued", "live"}]
        /\ \A r \in Surfaces : runtime'[r] \in {runtime[r], "none"}
        /\ \A r \in Surfaces : home'[r] = "fresh" => gtk'.surface # r
    BY <1>0, <1>1, <1>2, RemoveKeeps
  <2>2. ActorsType' /\ FreshInv'
    BY <1>0, <1>2, <2>1, IdleFields DEF SoundInv, ActorInv, ActorsType, FreshInv
  <2> QED
    BY <1>0, <1>1, <1>2, <2>1, <2>2, Settled DEF SoundInv
<1>3. CASE UNCHANGED <<runtime, gtk>> /\ Step("spareKept")
  <2>1. Moved("spareKept")
    BY <1>3, StepMoves DEF SoundInv, ActorInv, ActorsType, Ats
  <2>2. ActorsType' /\ GuardInv' /\ GtkInv' /\ HandlerInv' /\ SnapshotInv'
    BY <1>0, <1>1, <1>3, <2>1
       DEF SoundInv, ActorInv, ActorsType, GuardInv, GtkInv, HandlerInv, SnapshotInv, Moved
  <2>3. FreshInv' /\ CloseSurfaceInv' /\ CloseWorkspaceInv' /\ FocusInv'
    BY <1>0, <1>1, <1>3, <2>1
       DEF SoundInv, ActorInv, FreshInv, CloseSurfaceInv, CloseWorkspaceInv, FocusInv,
           Moved, Modelled, Alone
  <2> QED
    BY <1>0, <2>2, <2>3 DEF SoundInv, ActorInv
<1> QED
  BY <1>2, <1>3 DEF CloseSpare, KeepRuntime, Done

LEMMA LeaveSpareStep ==
  ASSUME SoundInv, LeaveSpare
  PROVE  SoundInv'
<1>0. /\ txn.op = "closeSurface" /\ txn' = Idle
      /\ UNCHANGED <<blocked, runtime, handler, gtk>>
      /\ ModelInv' /\ home' = home /\ Open' = Open
  BY ModelKept DEF LeaveSpare, At, Done, SoundInv
<1>1. handler = NoHandler
  BY <1>0 DEF SoundInv, ActorInv, GuardInv
<1>2. ActorsType' /\ GtkInv' /\ FreshInv'
  BY <1>0, IdleFields DEF SoundInv, ActorInv, ActorsType, GtkInv, FreshInv
<1> QED
  BY <1>0, <1>1, <1>2, Settled DEF SoundInv

LEMMA CloseCommitFacts ==
  ASSUME SoundInv, CloseCommit
  PROVE  /\ handler = NoHandler /\ txn.surface \in Modelled
         /\ runtime[txn.surface] = "none"
         /\ txn.spare # NoSurface =>
              /\ txn.spare \in Surfaces /\ txn.spare \notin Modelled
              /\ SurfacesOf(home[txn.surface]) = {txn.surface}
<1>1. txn.op = "closeSurface" /\ txn.at = "commit"
  BY DEF CloseCommit, At
<1>2. txn.spare # NoSurface => home[txn.spare] = "allocated" /\ Alone(txn.surface, home[txn.surface])
  BY <1>1 DEF SoundInv, ActorInv, CloseSurfaceInv
<1>3. txn.surface \in Modelled /\ txn.surface \in Surfaces
  BY <1>1 DEF SoundInv, ActorInv, CloseSurfaceInv, Modelled
<1>4. Alone(txn.surface, home[txn.surface]) => SurfacesOf(home[txn.surface]) = {txn.surface}
  BY <1>3 DEF Alone, SurfacesOf
<1> QED
  BY <1>1, <1>2, <1>3, <1>4, NoIdAssumption
     DEF SoundInv, ActorInv, ActorsType, Txn, GuardInv, CloseSurfaceInv, Modelled

LEMMA CloseCommitStep ==
  ASSUME SoundInv, CloseCommit
  PROVE  SoundInv'
<1>0. /\ txn.op = "closeSurface" /\ txn.at = "commit"
      /\ UNCHANGED <<runtime, handler, gtk>> /\ blocked' \subseteq Surfaces
  BY DEF CloseCommit, At, CloseSurface, CloseWithReplacement, SoundInv, ActorInv, ActorsType
<1>1. /\ handler = NoHandler /\ txn.surface \in Modelled
      /\ runtime[txn.surface] = "none"
      /\ txn.spare # NoSurface =>
           /\ txn.spare \in Surfaces /\ txn.spare \notin Modelled
           /\ SurfacesOf(home[txn.surface]) = {txn.surface}
  BY CloseCommitFacts
<1>2. PICK s, r : s \in Surfaces /\ s = txn.surface /\ r = txn.spare
  BY <1>1 DEF Modelled
<1>3. CASE r = NoSurface
  <2>1. /\ ModelInv' /\ Open' = Open
        /\ home'[s] = "allocated" /\ \A x \in Surfaces \ {s} : home'[x] = home[x]
    BY <1>1, <1>2, <1>3, CloseSurfaceSound DEF CloseCommit, SoundInv
  <2>2. Moved("ensure")
    BY <1>2, <1>3, StepMoves DEF SoundInv, ActorInv, ActorsType, Ats, CloseCommit
  <2>3. ActorsType' /\ GuardInv' /\ GtkInv' /\ HandlerInv' /\ SnapshotInv'
    BY <1>0, <1>1, <2>2
       DEF SoundInv, ActorInv, ActorsType, GuardInv, GtkInv, HandlerInv, SnapshotInv, Moved
  <2>4. FreshInv'
    BY <1>0, <1>1, <1>2, <1>3, <2>1, <2>2, NoIdAssumption
       DEF SoundInv, ActorInv, FreshInv, Moved, Modelled
  <2>5. CloseSurfaceInv' /\ CloseWorkspaceInv' /\ FocusInv'
    BY <1>0, <2>2, <1>2, <1>3, NoIdAssumption DEF CloseSurfaceInv, CloseWorkspaceInv, FocusInv, Moved
  <2> QED
    BY <2>1, <2>3, <2>4, <2>5 DEF SoundInv, ActorInv
<1>4. CASE r # NoSurface
  <2>1. /\ ModelInv'
        /\ home'[s] = "allocated" /\ home'[r] = home[s]
        /\ \A x \in Surfaces \ {s, r} : home'[x] = home[x]
    BY <1>1, <1>2, <1>4, CloseWithReplacementSound DEF CloseCommit, SoundInv
  <2>2. txn' = Idle
    BY <1>2, <1>4 DEF CloseCommit, Done
  <2>3. ActorsType' /\ GtkInv'
    BY <1>0, <2>2, IdleFields DEF SoundInv, ActorInv, ActorsType, GtkInv
  <2>4. FreshInv'
    BY <1>0, <1>1, <1>2, <1>4, <2>1, <2>2, NoIdAssumption
       DEF SoundInv, ActorInv, FreshInv, Modelled
  <2> QED
    BY <1>0, <1>1, <2>1, <2>2, <2>3, <2>4, Settled DEF SoundInv
<1> QED
  BY <1>3, <1>4

-----------------------------------------------------------------------------
(* Closing a workspace.                                                    *)

LEMMA CloseWorkspaceRequestStep ==
  ASSUME SoundInv, NEW w \in Workspaces, CloseWorkspaceRequest(w)
  PROVE  SoundInv'
<1> DEFINE begun == [Idle EXCEPT !.op = "closeWorkspace", !.workspace = w,
                                 !.todo = SurfacesOf(w)]
<1>0. /\ GuardFree /\ w \in Open
      /\ UNCHANGED <<blocked, runtime, handler, gtk>>
  BY DEF CloseWorkspaceRequest
<1>1. handler = NoHandler /\ txn.op = "none" /\ gtk.at # "rollback"
  BY <1>0, GuardFreeFacts DEF SoundInv
<1>2. /\ begun \in Txn /\ begun.op = "closeWorkspace" /\ begun.workspace = w
      /\ begun.closed = {} /\ begun.spare = NoSurface
      /\ begun.todo = SurfacesOf(w)
  BY DEF Idle, Txn, SurfacesOf
<1>3. \A s \in SurfacesOf(w) : s \in Surfaces /\ home[s] = w
  BY DEF SurfacesOf
<1>4. CASE Open = {w}
  <2>1. PICK v \in freshWorkspaces, s \in FreshSurfaces, prev \in active :
          /\ CreateWorkspace(v, s)
          /\ txn' = [begun EXCEPT !.at = "spawnSpare", !.spare = s,
                                  !.spareWorkspace = v, !.prevActive = prev]
    BY <1>4 DEF CloseWorkspaceRequest
  <2>2. prev = w /\ v \in Workspaces /\ s \in Surfaces /\ home[s] = "fresh"
    BY <1>4, <2>1 DEF SoundInv, ModelInv, OneActiveWorkspace, FreshSurfaces
  <2>3. /\ txn' \in Txn /\ txn'.op = "closeWorkspace" /\ txn'.at = "spawnSpare"
        /\ txn'.workspace = w /\ txn'.todo = SurfacesOf(w) /\ txn'.closed = {}
        /\ txn'.spare = s /\ txn'.spareWorkspace = v /\ txn'.prevActive = w
    <3> HIDE DEF begun
    <3> QED
      BY <1>2, <2>1, <2>2 DEF Txn
  <2>4. s \notin Modelled /\ runtime[s] = "none" /\ s # NoSurface
    BY <1>1, <2>2, NoIdAssumption DEF SoundInv, ActorInv, FreshInv, Modelled
  <2>5. /\ ModelInv' /\ Open' = Open \cup {v} /\ v \notin Open
        /\ home'[s] = v /\ \A r \in Surfaces \ {s} : home'[r] = home[r]
    BY <2>1, <2>4, CreateWorkspaceSound DEF SoundInv, FreshSurfaces
  <2>6. ActorsType' /\ GuardInv' /\ GtkInv' /\ HandlerInv' /\ SnapshotInv'
    BY <1>0, <1>1, <2>3
       DEF SoundInv, ActorInv, ActorsType, GuardInv, GtkInv, HandlerInv, SnapshotInv
  <2>7. FreshInv'
    BY <1>0, <1>1, <2>2, <2>3, <2>5, NoIdAssumption
       DEF SoundInv, ActorInv, FreshInv, Modelled
  <2>8. \A r \in Surfaces : home[r] # v
    BY <2>2, <2>5 DEF SoundInv, ModelInv, HomesOpen, Modelled
  <2>9. CloseWorkspaceInv'
    <3>1. w # v /\ w \in Open' /\ v \in Open'
      BY <1>0, <2>5
    <3>2. \A r \in Surfaces : home'[r] = v <=> r = s
      BY <2>5, <2>8
    <3>3. \A r \in SurfacesOf(w) : home'[r] = w
      BY <1>0, <1>3, <2>2, <2>4, <2>5, NoIdAssumption DEF SoundInv, ModelInv, Modelled
    <3>4. \A r \in Surfaces : home'[r] = w => r \in SurfacesOf(w)
      BY <2>5, <3>1 DEF SurfacesOf
    <3> QED
      BY <1>0, <2>3, <2>4, <3>1, <3>2, <3>3, <3>4 DEF CloseWorkspaceInv, Alone
  <2>10. CloseSurfaceInv' /\ FocusInv'
    BY <2>2, <2>3, <2>5 DEF CloseSurfaceInv, FocusInv, Modelled, SoundInv, ModelInv
  <2> QED
    BY <2>5, <2>6, <2>7, <2>9, <2>10 DEF SoundInv, ActorInv
<1>5. CASE Open # {w}
  <2>1. txn' = [begun EXCEPT !.at = "close"] /\ UNCHANGED modelVars
    BY <1>5 DEF CloseWorkspaceRequest
  <2>2. ModelInv' /\ home' = home /\ Open' = Open
    BY <2>1, ModelKept DEF SoundInv
  <2>3. /\ txn' \in Txn /\ txn'.op = "closeWorkspace" /\ txn'.at = "close"
        /\ txn'.workspace = w /\ txn'.todo = SurfacesOf(w) /\ txn'.closed = {}
        /\ txn'.spare = NoSurface
    <3> HIDE DEF begun
    <3> QED
      BY <1>2, <2>1 DEF Txn
  <2>4. ActorsType' /\ GuardInv' /\ GtkInv' /\ HandlerInv' /\ SnapshotInv'
    BY <1>0, <1>1, <2>3
       DEF SoundInv, ActorInv, ActorsType, GuardInv, GtkInv, HandlerInv, SnapshotInv
  <2>5. FreshInv' /\ CloseSurfaceInv' /\ FocusInv'
    BY <1>0, <1>1, <2>2, <2>3, NoIdAssumption
       DEF SoundInv, ActorInv, FreshInv, CloseSurfaceInv, FocusInv, Modelled
  <2>6. \A s \in Surfaces : home[s] = w => s \in SurfacesOf(w)
    BY DEF SurfacesOf
  <2>7. CloseWorkspaceInv'
    BY <1>0, <1>3, <1>5, <2>2, <2>3, <2>6 DEF CloseWorkspaceInv
  <2> QED
    BY <2>2, <2>4, <2>5, <2>7 DEF SoundInv, ActorInv
<1> QED
  BY <1>4, <1>5

LEMMA CloseWorkspaceSpawnSpareStep ==
  ASSUME SoundInv, CloseWorkspaceSpawnSpare
  PROVE  SoundInv'
<1>0. /\ txn.op = "closeWorkspace" /\ txn.at = "spawnSpare" /\ UNCHANGED <<handler, gtk>>
      /\ ModelInv' /\ home' = home /\ Open' = Open
  BY ModelKept DEF CloseWorkspaceSpawnSpare, At, SoundInv
<1>1. /\ txn.spare \in Surfaces /\ handler = NoHandler
      /\ home[txn.spare] = txn.spareWorkspace /\ txn.spareWorkspace \in Open
      /\ txn.spareWorkspace # txn.workspace
      /\ txn.spare \in Modelled /\ runtime[txn.spare] = "none"
  BY <1>0 DEF SoundInv, ModelInv, ActorInv, ActorsType, Txn, CloseWorkspaceInv, GuardInv,
              Modelled, Alone
<1>2. CASE SpawnAccepted(txn.spare) /\ Step("close") /\ UNCHANGED blocked
  <2>1. /\ runtime' \in [Surfaces -> {"none", "queued", "live"}]
        /\ \A r \in Surfaces \ {txn.spare} : runtime'[r] = runtime[r]
    BY <1>1, <1>2, SpawnMoves DEF SoundInv, ActorInv
  <2>2. Moved("close")
    BY <1>2, StepMoves DEF SoundInv, ActorInv, ActorsType, Ats
  <2>3. ActorsType' /\ GuardInv' /\ GtkInv' /\ HandlerInv' /\ SnapshotInv'
    BY <1>0, <1>1, <1>2, <2>1, <2>2
       DEF SoundInv, ActorInv, ActorsType, GuardInv, GtkInv, HandlerInv, SnapshotInv, Moved
  <2>4. FreshInv' /\ CloseSurfaceInv' /\ FocusInv'
    BY <1>0, <1>1, <2>1, <2>2, NoIdAssumption
       DEF SoundInv, ActorInv, FreshInv, CloseSurfaceInv, FocusInv, Moved, Modelled
  <2>5. CloseWorkspaceInv'
    BY <1>0, <1>1, <2>1, <2>2 DEF SoundInv, ActorInv, CloseWorkspaceInv, Moved, Alone
  <2> QED
    BY <1>0, <2>3, <2>4, <2>5 DEF SoundInv, ActorInv
<1>3. CASE SpawnRejected(txn.spare) /\ Step("undo")
  <2>1. runtime' = runtime /\ blocked' \subseteq Surfaces
    BY <1>1, <1>3, RejectMoves DEF SoundInv, ActorInv
  <2>2. Moved("undo")
    BY <1>3, StepMoves DEF SoundInv, ActorInv, ActorsType, Ats
  <2>3. ActorsType' /\ GuardInv' /\ GtkInv' /\ HandlerInv' /\ SnapshotInv'
    BY <1>0, <1>1, <2>1, <2>2
       DEF SoundInv, ActorInv, ActorsType, GuardInv, GtkInv, HandlerInv, SnapshotInv, Moved
  <2>4. FreshInv' /\ CloseSurfaceInv' /\ CloseWorkspaceInv' /\ FocusInv'
    BY <1>0, <1>1, <2>1, <2>2
       DEF SoundInv, ActorInv, FreshInv, CloseSurfaceInv, CloseWorkspaceInv, FocusInv,
           Moved, Modelled, Alone
  <2> QED
    BY <1>0, <2>3, <2>4 DEF SoundInv, ActorInv
<1> QED
  BY <1>2, <1>3 DEF CloseWorkspaceSpawnSpare

LEMMA CloseNextTerminalStep ==
  ASSUME SoundInv, CloseNextTerminal
  PROVE  SoundInv'
<1>0. /\ txn.op = "closeWorkspace" /\ txn.at = "close"
      /\ blocked' = blocked /\ handler' = handler
      /\ ModelInv' /\ home' = home /\ Open' = Open
  BY ModelKept DEF CloseNextTerminal, At, SoundInv
<1>1. PICK s \in txn.todo :
        \/ /\ RemoveRuntime(s)
           /\ txn' = [txn EXCEPT !.todo = @ \ {s},
                                 !.closed = IF runtime[s] = "none" THEN @ ELSE @ \cup {s}]
        \/ Step("restore") /\ UNCHANGED <<runtime, gtk>>
  BY DEF CloseNextTerminal
<1>2. /\ s \in Surfaces /\ home[s] = txn.workspace /\ handler = NoHandler /\ txn \in Txn
      /\ txn.todo \subseteq Surfaces /\ txn.closed \subseteq Surfaces
  BY <1>0 DEF SoundInv, ActorInv, ActorsType, Txn, CloseWorkspaceInv, GuardInv
<1>3. CASE Step("restore") /\ UNCHANGED <<runtime, gtk>>
  <2>1. Moved("restore")
    BY <1>2, <1>3, StepMoves DEF Ats
  <2>2. ActorsType' /\ GuardInv' /\ GtkInv' /\ HandlerInv' /\ SnapshotInv'
    BY <1>0, <1>2, <1>3, <2>1
       DEF SoundInv, ActorInv, ActorsType, GuardInv, GtkInv, HandlerInv, SnapshotInv, Moved
  <2>3. FreshInv' /\ CloseSurfaceInv' /\ CloseWorkspaceInv' /\ FocusInv'
    BY <1>0, <1>2, <1>3, <2>1
       DEF SoundInv, ActorInv, FreshInv, CloseSurfaceInv, CloseWorkspaceInv, FocusInv,
           Moved, Modelled, Alone
  <2> QED
    BY <1>0, <2>2, <2>3 DEF SoundInv, ActorInv
<1>4. CASE /\ RemoveRuntime(s)
           /\ txn' = [txn EXCEPT !.todo = @ \ {s},
                                 !.closed = IF runtime[s] = "none" THEN @ ELSE @ \cup {s}]
  <2> DEFINE closed == IF runtime[s] = "none" THEN txn.closed ELSE txn.closed \cup {s}
  <2>1. closed \in SUBSET Surfaces /\ closed \subseteq txn.closed \cup {s}
    BY <1>2
  <2>2. txn' = [txn EXCEPT !.todo = txn.todo \ {s}, !.closed = closed]
    BY <1>2, <1>4 DEF Txn
  <2> HIDE DEF closed
  <2>3. /\ txn' \in Txn /\ txn'.op = "closeWorkspace" /\ txn'.at = "close"
        /\ txn'.workspace = txn.workspace /\ txn'.todo = txn.todo \ {s}
        /\ txn'.closed = closed /\ txn'.spare = txn.spare
        /\ txn'.spareWorkspace = txn.spareWorkspace /\ txn'.prevActive = txn.prevActive
    BY <1>0, <1>2, <2>1, <2>2 DEF Txn
  <2>4. /\ GtkInv' /\ gtk' \in Gtk /\ gtk'.surface = gtk.surface
        /\ runtime' \in [Surfaces -> {"none", "queued", "live"}]
        /\ runtime'[s] = "none"
        /\ \A r \in Surfaces : runtime'[r] \in {runtime[r], "none"}
        /\ \A r \in Surfaces : home'[r] = "fresh" => gtk'.surface # r
    BY <1>0, <1>2, <1>4, RemoveKeeps
  <2>5. ActorsType' /\ GuardInv' /\ HandlerInv' /\ SnapshotInv'
    BY <1>0, <1>2, <2>3, <2>4
       DEF SoundInv, ActorInv, ActorsType, GuardInv, HandlerInv, SnapshotInv
  <2>6. FreshInv' /\ CloseSurfaceInv' /\ FocusInv'
    BY <1>0, <2>3, <2>4 DEF SoundInv, ActorInv, FreshInv, CloseSurfaceInv, FocusInv, Modelled
  <2>7. CloseWorkspaceInv'
    BY <1>0, <1>2, <2>1, <2>3, <2>4 DEF SoundInv, ActorInv, CloseWorkspaceInv, Alone
  <2> QED
    BY <1>0, <2>4, <2>5, <2>6, <2>7 DEF SoundInv, ActorInv
<1> QED
  BY <1>1, <1>3, <1>4

LEMMA RestoreNextTerminalStep ==
  ASSUME SoundInv, RestoreNextTerminal
  PROVE  SoundInv'
<1>0. /\ txn.op = "closeWorkspace" /\ txn.at = "restore" /\ UNCHANGED <<handler, gtk>>
      /\ ModelInv' /\ home' = home /\ Open' = Open
  BY ModelKept DEF RestoreNextTerminal, At, SoundInv
<1>1. PICK s \in txn.closed :
        /\ (SpawnAccepted(s) /\ UNCHANGED blocked) \/ SpawnRejected(s)
        /\ txn' = [txn EXCEPT !.closed = @ \ {s}]
  BY DEF RestoreNextTerminal
<1>2. /\ s \in Surfaces /\ s \in Modelled /\ handler = NoHandler /\ txn \in Txn
  BY <1>0 DEF SoundInv, ModelInv, ActorInv, ActorsType, Txn, CloseWorkspaceInv, GuardInv,
              Modelled
<1>3. /\ txn' \in Txn /\ txn'.op = "closeWorkspace" /\ txn'.at = "restore"
      /\ txn'.workspace = txn.workspace
      /\ txn'.closed \subseteq txn.closed /\ txn'.spare = txn.spare
      /\ txn'.spareWorkspace = txn.spareWorkspace /\ txn'.prevActive = txn.prevActive
  BY <1>0, <1>1, <1>2 DEF Txn
<1>4. /\ runtime' \in [Surfaces -> {"none", "queued", "live"}]
      /\ \A r \in Surfaces : runtime'[r] = runtime[r] \/ (r = s /\ runtime[r] = "none")
      /\ blocked' \subseteq Surfaces
  BY <1>1, <1>2, SpawnMoves, RejectMoves DEF SoundInv, ActorInv, ActorsType
<1>5. ActorsType' /\ GuardInv' /\ GtkInv' /\ HandlerInv' /\ SnapshotInv'
  BY <1>0, <1>2, <1>3, <1>4
     DEF SoundInv, ActorInv, ActorsType, GuardInv, GtkInv, HandlerInv, SnapshotInv
<1>6. FreshInv' /\ CloseSurfaceInv' /\ CloseWorkspaceInv' /\ FocusInv'
  BY <1>0, <1>2, <1>3, <1>4, NoIdAssumption
     DEF SoundInv, ActorInv, FreshInv, CloseSurfaceInv, CloseWorkspaceInv, FocusInv,
         Modelled, Alone
<1> QED
  BY <1>0, <1>5, <1>6 DEF SoundInv, ActorInv

LEMMA CloseWorkspaceSpareStep ==
  ASSUME SoundInv, CloseWorkspaceSpare
  PROVE  SoundInv'
<1>0. /\ txn.op = "closeWorkspace" /\ txn.at = "restore"
      /\ blocked' = blocked /\ handler' = handler
      /\ ModelInv' /\ home' = home /\ Open' = Open
  BY ModelKept DEF CloseWorkspaceSpare, At, SoundInv
<1>1. handler = NoHandler
  BY <1>0 DEF SoundInv, ActorInv, GuardInv
<1>2. CASE txn' = Idle /\ UNCHANGED <<runtime, gtk>>
  <2>1. ActorsType' /\ GtkInv' /\ FreshInv'
    BY <1>0, <1>1, <1>2, IdleFields
       DEF SoundInv, ActorInv, ActorsType, GtkInv, FreshInv, Modelled
  <2> QED
    BY <1>0, <1>1, <1>2, <2>1, Settled DEF SoundInv
<1>3. CASE txn.spare # NoSurface /\ RemoveRuntime(txn.spare) /\ Step("undo")
  <2>1. txn.spare \in Surfaces
    BY <1>3 DEF SoundInv, ActorInv, ActorsType, Txn
  <2>2. /\ GtkInv' /\ gtk' \in Gtk /\ gtk'.surface = gtk.surface
        /\ runtime' \in [Surfaces -> {"none", "queued", "live"}]
        /\ runtime'[txn.spare] = "none"
        /\ \A r \in Surfaces : runtime'[r] \in {runtime[r], "none"}
        /\ \A r \in Surfaces : home'[r] = "fresh" => gtk'.surface # r
    BY <1>0, <1>3, <2>1, RemoveKeeps
  <2>3. Moved("undo")
    BY <1>3, StepMoves DEF SoundInv, ActorInv, ActorsType, Ats
  <2>4. ActorsType' /\ GuardInv' /\ HandlerInv' /\ SnapshotInv'
    BY <1>0, <1>1, <2>2, <2>3
       DEF SoundInv, ActorInv, ActorsType, GuardInv, HandlerInv, SnapshotInv, Moved
  <2>5. FreshInv' /\ CloseSurfaceInv' /\ CloseWorkspaceInv' /\ FocusInv'
    BY <1>0, <1>3, <2>2, <2>3
       DEF SoundInv, ActorInv, FreshInv, CloseSurfaceInv, CloseWorkspaceInv, FocusInv,
           Moved, Modelled, Alone
  <2> QED
    BY <1>0, <2>2, <2>4, <2>5 DEF SoundInv, ActorInv
<1>4. CASE /\ txn.spare # NoSurface /\ UNCHANGED <<runtime, gtk>>
           /\ Step("spareKept")
  <2>1. Moved("spareKept")
    BY <1>4, StepMoves DEF SoundInv, ActorInv, ActorsType, Ats
  <2>2. ActorsType' /\ GuardInv' /\ GtkInv' /\ HandlerInv' /\ SnapshotInv'
    BY <1>0, <1>1, <1>4, <2>1
       DEF SoundInv, ActorInv, ActorsType, GuardInv, GtkInv, HandlerInv, SnapshotInv, Moved
  <2>3. FreshInv' /\ CloseSurfaceInv' /\ CloseWorkspaceInv' /\ FocusInv'
    BY <1>0, <1>4, <2>1
       DEF SoundInv, ActorInv, FreshInv, CloseSurfaceInv, CloseWorkspaceInv, FocusInv,
           Moved, Modelled, Alone
  <2> QED
    BY <1>0, <2>2, <2>3 DEF SoundInv, ActorInv
<1> QED
  BY <1>2, <1>3, <1>4 DEF CloseWorkspaceSpare, KeepRuntime, Done

(* A workspace goes, with its surfaces. *)
LEMMA WorkspaceGoes ==
  ASSUME SoundInv, NEW w \in Open, NEW prev, prev \in Open \ {w} \/ Open # {w},
         CloseWorkspaceAndSelect(w, prev),
         UNCHANGED <<runtime, handler, gtk>>, handler = NoHandler,
         txn.op = "closeWorkspace", txn' \in Txn,
         \/ txn' = Idle
         \/ txn'.op = "closeWorkspace" /\ txn'.at = "ensure" /\ txn'.spare = NoSurface
  PROVE  SoundInv'
<1>1. /\ ModelInv'
      /\ \A r \in Surfaces : home'[r] = IF home[r] = w THEN "allocated" ELSE home[r]
  BY CloseWorkspaceSound DEF SoundInv
<1>2. blocked' \subseteq Surfaces
  BY DEF CloseWorkspaceAndSelect, SoundInv, ActorInv, ActorsType
<1>3. ActorsType' /\ GuardInv' /\ GtkInv' /\ HandlerInv' /\ SnapshotInv'
  BY <1>2, IdleFields
     DEF SoundInv, ActorInv, ActorsType, GuardInv, GtkInv, HandlerInv, SnapshotInv
<1>4. CloseSurfaceInv' /\ CloseWorkspaceInv' /\ FocusInv'
  BY IdleFields, NoIdAssumption DEF CloseSurfaceInv, CloseWorkspaceInv, FocusInv
<1>5. FreshInv'
  BY <1>1 DEF SoundInv, ActorInv, FreshInv
<1> QED
  BY <1>1, <1>3, <1>4, <1>5 DEF SoundInv, ActorInv

LEMMA CloseWorkspaceUndoFacts ==
  ASSUME SoundInv, CloseWorkspaceUndo
  PROVE  /\ txn.op = "closeWorkspace" /\ handler = NoHandler
         /\ txn.spareWorkspace \in Open /\ txn.prevActive \in Open \ {txn.spareWorkspace}
         /\ \A s \in Surfaces : home[s] = txn.spareWorkspace <=> s = txn.spare
         /\ txn.at = "undo" => runtime[txn.spare] = "none"
         /\ txn.at \in {"undo", "spareKept"}
BY DEF CloseWorkspaceUndo, At, SoundInv, ActorInv, GuardInv, CloseWorkspaceInv, Alone

LEMMA CloseWorkspaceCommitFacts ==
  ASSUME SoundInv, CloseWorkspaceCommit
  PROVE  /\ txn.op = "closeWorkspace" /\ handler = NoHandler
         /\ txn.workspace \in Open /\ Open # {txn.workspace}
         /\ \A s \in Surfaces : home[s] = txn.workspace => runtime[s] = "none"
BY DEF CloseWorkspaceCommit, At, SoundInv, ActorInv, GuardInv, CloseWorkspaceInv

LEMMA CloseWorkspaceUndoStep ==
  ASSUME SoundInv, CloseWorkspaceUndo
  PROVE  SoundInv'
BY CloseWorkspaceUndoFacts, WorkspaceGoes, IdleFields DEF CloseWorkspaceUndo, Done

LEMMA CloseWorkspaceCommitStep ==
  ASSUME SoundInv, CloseWorkspaceCommit
  PROVE  SoundInv'
<1>1. /\ txn' \in Txn
      /\ \/ txn' = Idle
         \/ txn'.op = txn.op /\ txn'.at = "ensure" /\ txn'.spare = NoSurface
  <2>1. Step("ensure") => Moved("ensure")
    BY StepMoves DEF SoundInv, ActorInv, ActorsType, Ats
  <2> QED
    BY <2>1, IdleFields DEF CloseWorkspaceCommit, Done, Moved
<1> QED
  BY <1>1, CloseWorkspaceCommitFacts, WorkspaceGoes DEF CloseWorkspaceCommit

-----------------------------------------------------------------------------
(* Selecting, focusing and restarting.                                     *)

LEMMA FocusModel ==
  ASSUME ModelInv, NEW s \in Modelled, NEW w, w = home[s],
         home' = home, layout' = [layout EXCEPT ![w] = Focus(layout[w], s)],
         freshWorkspaces' = freshWorkspaces,
         active' = active \/ \E v \in Open : active' = {v}
  PROVE  ModelInv' /\ Open' = Open
<1>1. w \in Open /\ s \in SurfacesOf(w) /\ TreeSound(layout[w], SurfacesOf(w))
  BY HomeFacts
<1>2. PICK t : t = Focus(layout[w], s)
  OBVIOUS
<1>3. TreeSound(t, SurfacesOf(w))
  BY <1>1, <1>2, FocusSound
<1> QED
  BY <1>1, <1>2, <1>3, RetreeSound

LEMMA SelectModel ==
  ASSUME ModelInv, home' = home, layout' = layout, freshWorkspaces' = freshWorkspaces,
         NEW v \in Open, active' = {v}
  PROVE  ModelInv' /\ Open' = Open
BY DEF ModelInv, Open, HomesOpen, Modelled, SurfacesOf, OneActiveWorkspace

(* A transaction takes the guard, or goes on, without touching a runtime.  *)
LEMMA TxnTakes ==
  ASSUME SoundInv, ModelInv', home' = home, Open' = Open, blocked' \subseteq Surfaces,
         UNCHANGED <<runtime, handler, gtk>>,
         txn.op \notin {"create", "closeSurface"}
           \/ (txn.op = "closeSurface" /\ txn.at \in {"ensure", "spawnFocused"}),
         handler = NoHandler,
         txn' \in Txn, txn'.op \notin {"create", "none"} \/ txn' = Idle,
         CloseSurfaceInv', CloseWorkspaceInv', FocusInv'
  PROVE  SoundInv'
<1>1. ActorsType' /\ GuardInv' /\ GtkInv' /\ HandlerInv' /\ SnapshotInv'
  BY IdleFields
     DEF SoundInv, ActorInv, ActorsType, GuardInv, GtkInv, HandlerInv, SnapshotInv
<1>2. FreshInv'
  BY DEF SoundInv, ActorInv, FreshInv, Modelled
<1> QED
  BY <1>1, <1>2 DEF SoundInv, ActorInv

LEMMA SelectRequestStep ==
  ASSUME SoundInv, NEW w \in Workspaces, SelectRequest(w)
  PROVE  SoundInv'
<1>1. PICK prev \in active :
        txn' = [Idle EXCEPT !.op = "select", !.at = "ensure", !.prevActive = prev]
  BY DEF SelectRequest
<1>2. /\ GuardFree /\ w \in Open /\ active' = {w}
      /\ UNCHANGED <<home, layout, freshWorkspaces, blocked, runtime, handler, gtk>>
  BY DEF SelectRequest
<1>3. ModelInv' /\ Open' = Open
  BY <1>2, SelectModel DEF SoundInv
<1>4. prev \in Open /\ prev \in Workspaces
  BY DEF SoundInv, ModelInv, OneActiveWorkspace
<1>5. /\ txn' \in Txn /\ txn'.op = "select" /\ txn'.at = "ensure"
      /\ txn'.prevActive = prev /\ txn'.spare = NoSurface
  BY <1>1, <1>4 DEF Idle, Txn
<1>6. CloseSurfaceInv' /\ CloseWorkspaceInv' /\ FocusInv'
  BY <1>3, <1>4, <1>5, NoIdAssumption DEF CloseSurfaceInv, CloseWorkspaceInv, FocusInv
<1>7. txn.op = "none" /\ handler = NoHandler /\ blocked \subseteq Surfaces
  BY <1>2, GuardFreeFacts DEF SoundInv, ActorInv, ActorsType
<1> QED
  BY <1>2, <1>3, <1>5, <1>6, <1>7, TxnTakes

LEMMA FocusRequestStep ==
  ASSUME SoundInv, NEW s \in Surfaces, FocusRequest(s)
  PROVE  SoundInv'
<1>1. PICK w : w = home[s]
  OBVIOUS
<1>2. /\ GuardFree /\ s \in Modelled
      /\ Model(home, [layout EXCEPT ![w] = Focus(layout[w], s)], {w})
      /\ UNCHANGED <<freshWorkspaces, blocked, runtime, handler, gtk>>
  BY <1>1 DEF FocusRequest
<1>3. PICK prev \in active :
        txn' = [Idle EXCEPT !.op = "focus", !.at = "ensure", !.prevActive = prev,
                            !.prevFocus = layout[w].focus]
  BY <1>1 DEF FocusRequest
<1>4. /\ w \in Open /\ layout[w].focus \in Modelled /\ layout[w].focus \in Surfaces
      /\ prev \in Open /\ prev \in Workspaces
  BY <1>1, <1>2, HomeFacts DEF SoundInv, ModelInv, OneActiveWorkspace, TreeSound, Modelled
<1>5. ModelInv' /\ Open' = Open /\ home' = home
  BY <1>1, <1>2, <1>4, FocusModel DEF SoundInv, Model
<1>6. /\ txn' \in Txn /\ txn'.op = "focus" /\ txn'.at = "ensure"
      /\ txn'.prevActive = prev /\ txn'.prevFocus = layout[w].focus
      /\ txn'.spare = NoSurface
  BY <1>3, <1>4 DEF Idle, Txn
<1>7. CloseSurfaceInv' /\ CloseWorkspaceInv' /\ FocusInv'
  BY <1>4, <1>5, <1>6, NoIdAssumption DEF CloseSurfaceInv, CloseWorkspaceInv, FocusInv, Modelled
<1>8. txn.op = "none" /\ handler = NoHandler /\ blocked \subseteq Surfaces
  BY <1>2, GuardFreeFacts DEF SoundInv, ActorInv, ActorsType
<1> QED
  BY <1>2, <1>5, <1>6, <1>7, <1>8, TxnTakes

(* Which transactions ensure the terminal of the focused surface. *)
LEMMA EnsureFacts ==
  ASSUME SoundInv, txn.at \in {"ensure", "spawnFocused"}
  PROVE  /\ handler = NoHandler /\ txn.op \notin {"none", "create"}
BY IdleFields DEF SoundInv, ActorInv, GuardInv

LEMMA EnsureTerminalStep ==
  ASSUME SoundInv, EnsureTerminal
  PROVE  SoundInv'
<1>0. /\ txn.at = "ensure" /\ UNCHANGED <<blocked, runtime, handler, gtk>>
      /\ ModelInv' /\ home' = home /\ Open' = Open
  BY ModelKept DEF EnsureTerminal, SoundInv
<1>1. PICK w \in active : txn' = [txn EXCEPT !.at = "spawnFocused", !.spare = layout[w].focus]
  BY DEF EnsureTerminal
<1>2. w \in Open /\ w \in Workspaces
  BY <1>1 DEF SoundInv, ModelInv, OneActiveWorkspace
<1>3. layout[w].focus \in Modelled /\ layout[w].focus \in Surfaces
  BY <1>2 DEF SoundInv, ModelInv, TreeSound, Modelled, SurfacesOf
<1>4. /\ txn' \in Txn /\ txn'.op = txn.op /\ txn'.at = "spawnFocused"
      /\ txn'.spare = layout[w].focus /\ txn'.surface = txn.surface
      /\ txn'.prevActive = txn.prevActive /\ txn'.prevFocus = txn.prevFocus
  BY <1>1, <1>3 DEF SoundInv, ActorInv, ActorsType, Txn
<1>5. CloseSurfaceInv' /\ CloseWorkspaceInv' /\ FocusInv'
  <2>1. txn'.spare \in Modelled' /\ txn'.spare # NoSurface
    BY <1>0, <1>3, <1>4, NoIdAssumption DEF Modelled
  <2> QED
    BY <1>0, <1>4, <2>1
       DEF SoundInv, ActorInv, CloseSurfaceInv, CloseWorkspaceInv, FocusInv, Modelled
<1>6. handler = NoHandler /\ txn.op \notin {"none", "create"} /\ blocked \subseteq Surfaces
  BY <1>0, EnsureFacts DEF SoundInv, ActorInv, ActorsType
<1> QED
  BY <1>0, <1>4, <1>5, <1>6, TxnTakes

LEMMA SpawnFocusedStep ==
  ASSUME SoundInv, SpawnFocused
  PROVE  SoundInv'
<1>0. /\ txn.at = "spawnFocused" /\ UNCHANGED <<handler, gtk>>
      /\ ModelInv' /\ home' = home /\ Open' = Open
  BY ModelKept DEF SpawnFocused, SoundInv
<1>1. /\ txn.spare \in Modelled /\ txn.spare \in Surfaces
      /\ handler = NoHandler /\ txn.op \notin {"none", "create"}
      /\ blocked \subseteq Surfaces
  <2>1. txn.spare \in Surfaces
    BY <1>0 DEF SoundInv, ActorInv, ActorsType, FocusInv, Txn
  <2> QED
    BY <1>0, <2>1, EnsureFacts DEF SoundInv, ActorInv, ActorsType, FocusInv
<1>2. CASE txn' = Idle /\ SpawnAccepted(txn.spare) /\ UNCHANGED blocked
  <2>1. /\ runtime' \in [Surfaces -> {"none", "queued", "live"}]
        /\ runtime[txn.spare] = "none"
        /\ \A r \in Surfaces \ {txn.spare} : runtime'[r] = runtime[r]
    BY <1>1, <1>2, SpawnMoves DEF SoundInv, ActorInv
  <2>2. ActorsType' /\ GtkInv' /\ FreshInv'
    BY <1>0, <1>1, <1>2, <2>1, IdleFields, NoIdAssumption
       DEF SoundInv, ActorInv, ActorsType, GtkInv, FreshInv, Modelled
  <2> QED
    BY <1>0, <1>1, <1>2, <2>2, Settled DEF SoundInv
<1>3. CASE txn' = Idle /\ runtime' = runtime /\ blocked' \subseteq Surfaces
  <2>1. ActorsType' /\ GtkInv' /\ FreshInv'
    BY <1>0, <1>1, <1>3, IdleFields
       DEF SoundInv, ActorInv, ActorsType, GtkInv, FreshInv, Modelled
  <2> QED
    BY <1>0, <1>1, <1>3, <2>1, Settled DEF SoundInv
<1>4. CASE /\ Step("undo") /\ txn.op \in {"select", "focus"}
           /\ runtime' = runtime /\ blocked' \subseteq Surfaces
  <2>1. Moved("undo")
    BY <1>4, StepMoves DEF SoundInv, ActorInv, ActorsType, Ats
  <2>2. CloseSurfaceInv' /\ CloseWorkspaceInv' /\ FocusInv'
    BY <1>0, <1>4, <2>1
       DEF SoundInv, ActorInv, CloseSurfaceInv, CloseWorkspaceInv, FocusInv, Modelled, Moved
  <2> QED
    BY <1>0, <1>1, <1>4, <2>1, <2>2, TxnTakes DEF Moved
<1>5. SpawnRejected(txn.spare) => runtime' = runtime /\ blocked' \subseteq Surfaces
  BY <1>1, RejectMoves DEF SoundInv, ActorInv
<1> QED
  BY <1>1, <1>2, <1>3, <1>4, <1>5 DEF SpawnFocused, Done

LEMMA SelectUndoStep ==
  ASSUME SoundInv, SelectUndo
  PROVE  SoundInv'
<1>0. /\ txn.op \in {"select", "focus"} /\ txn' = Idle
      /\ active' = {txn.prevActive}
      /\ UNCHANGED <<home, freshWorkspaces, blocked, runtime, handler, gtk>>
  BY DEF SelectUndo, Done
<1>1. /\ txn.prevActive \in Open /\ handler = NoHandler
      /\ txn.op = "focus" => txn.prevFocus \in Modelled
  BY <1>0 DEF SoundInv, ActorInv, FocusInv, GuardInv
<1>2. ModelInv' /\ Open' = Open
  <2>1. CASE txn.op = "focus"
    <3>1. PICK s, w : s \in Modelled /\ s = txn.prevFocus /\ w = home[s]
      BY <1>1, <2>1
    <3>2. layout' = [layout EXCEPT ![w] = Focus(layout[w], s)]
      BY <2>1, <3>1 DEF SelectUndo
    <3> QED
      BY <1>0, <1>1, <3>1, <3>2, FocusModel DEF SoundInv
  <2>2. CASE txn.op # "focus"
    BY <1>0, <1>1, <2>2, SelectModel DEF SelectUndo, SoundInv
  <2> QED
    BY <2>1, <2>2
<1>3. ActorsType' /\ GtkInv' /\ FreshInv'
  BY <1>0, <1>1, IdleFields DEF SoundInv, ActorInv, ActorsType, GtkInv, FreshInv, Modelled
<1> QED
  BY <1>0, <1>1, <1>2, <1>3, Settled DEF SoundInv

LEMMA RestartStep ==
  ASSUME SoundInv, NEW s \in Surfaces, Restart(s)
  PROVE  SoundInv'
<1>0. /\ GuardFree /\ s \in Modelled
      /\ UNCHANGED <<blocked, runtime, handler, gtk>>
      /\ ModelInv' /\ home' = home /\ Open' = Open
  BY ModelKept DEF Restart, SoundInv
<1>1. /\ txn' \in Txn /\ txn'.op = "restart" /\ txn'.at = "close" /\ txn'.surface = s
      /\ txn'.spare = NoSurface
  BY DEF Restart, Idle, Txn
<1>2. CloseSurfaceInv' /\ CloseWorkspaceInv' /\ FocusInv'
  BY <1>0, <1>1, NoIdAssumption DEF CloseSurfaceInv, CloseWorkspaceInv, FocusInv, Modelled
<1>3. txn.op = "none" /\ handler = NoHandler /\ blocked \subseteq Surfaces
  BY <1>0, GuardFreeFacts DEF SoundInv, ActorInv, ActorsType
<1> QED
  BY <1>0, <1>1, <1>2, <1>3, TxnTakes

LEMMA RestartCloseStep ==
  ASSUME SoundInv, RestartClose
  PROVE  SoundInv'
<1>0. /\ txn.op = "restart" /\ handler' = handler
      /\ ModelInv' /\ home' = home /\ Open' = Open
  BY ModelKept DEF RestartClose, At, SoundInv
<1>1. txn.surface \in Modelled /\ txn.surface \in Surfaces /\ handler = NoHandler
  BY <1>0 DEF SoundInv, ActorInv, FocusInv, GuardInv, Modelled
<1>2. CASE RemoveRuntime(txn.surface) /\ Step("commit") /\ UNCHANGED blocked
  <2>1. /\ GtkInv' /\ gtk' \in Gtk /\ gtk'.surface = gtk.surface
        /\ runtime' \in [Surfaces -> {"none", "queued", "live"}]
        /\ \A r \in Surfaces : runtime'[r] \in {runtime[r], "none"}
        /\ \A r \in Surfaces : home'[r] = "fresh" => gtk'.surface # r
    BY <1>0, <1>1, <1>2, RemoveKeeps
  <2>2. Moved("commit")
    BY <1>2, StepMoves DEF SoundInv, ActorInv, ActorsType, Ats
  <2>3. ActorsType' /\ GuardInv' /\ HandlerInv' /\ SnapshotInv'
    BY <1>0, <1>1, <1>2, <2>1, <2>2
       DEF SoundInv, ActorInv, ActorsType, GuardInv, HandlerInv, SnapshotInv, Moved
  <2>4. FreshInv' /\ CloseSurfaceInv' /\ CloseWorkspaceInv' /\ FocusInv'
    BY <1>0, <1>1, <2>1, <2>2
       DEF SoundInv, ActorInv, FreshInv, CloseSurfaceInv, CloseWorkspaceInv, FocusInv,
           Moved, Modelled
  <2> QED
    BY <1>0, <2>1, <2>3, <2>4 DEF SoundInv, ActorInv
<1>3. CASE RecordSpawnFailure(txn.surface) /\ Done /\ UNCHANGED <<runtime, gtk>>
  <2>1. ActorsType' /\ GtkInv' /\ FreshInv'
    BY <1>0, <1>1, <1>3, IdleFields
       DEF SoundInv, ActorInv, ActorsType, GtkInv, FreshInv, Modelled,
           RecordSpawnFailure, Done
  <2> QED
    BY <1>0, <1>1, <1>3, <2>1, Settled DEF SoundInv, Done
<1> QED
  BY <1>2, <1>3 DEF RestartClose

LEMMA RestartCommitStep ==
  ASSUME SoundInv, RestartCommit
  PROVE  SoundInv'
<1>0. /\ txn.op = "restart" /\ Step("respawn") /\ blocked' = blocked \ {txn.surface}
      /\ UNCHANGED <<freshWorkspaces, runtime, handler, gtk>>
  BY DEF RestartCommit, At
<1>1. txn.surface \in Modelled /\ handler = NoHandler /\ blocked \subseteq Surfaces
  BY <1>0 DEF SoundInv, ActorInv, ActorsType, FocusInv, GuardInv
<1>2. PICK s, w : s \in Modelled /\ s = txn.surface /\ w = home[s]
  BY <1>1
<1>3. Model(home, [layout EXCEPT ![w] = Focus(layout[w], s)], active)
  BY <1>2 DEF RestartCommit
<1>4. ModelInv' /\ Open' = Open /\ home' = home
  BY <1>0, <1>2, <1>3, FocusModel DEF SoundInv, Model
<1>5. Moved("respawn")
  BY <1>0, StepMoves DEF SoundInv, ActorInv, ActorsType, Ats
<1>6. CloseSurfaceInv' /\ CloseWorkspaceInv' /\ FocusInv'
  BY <1>0, <1>1, <1>4, <1>5
     DEF SoundInv, ActorInv, CloseSurfaceInv, CloseWorkspaceInv, FocusInv, Modelled, Moved
<1> QED
  BY <1>0, <1>1, <1>4, <1>5, <1>6, TxnTakes DEF Moved

LEMMA RestartSpawnStep ==
  ASSUME SoundInv, RestartSpawn
  PROVE  SoundInv'
<1>0. /\ txn.op = "restart" /\ txn' = Idle /\ UNCHANGED <<handler, gtk>>
      /\ ModelInv' /\ home' = home /\ Open' = Open
  BY ModelKept DEF RestartSpawn, At, Done, SoundInv
<1>1. /\ txn.surface \in Modelled /\ txn.surface \in Surfaces /\ handler = NoHandler
      /\ blocked \subseteq Surfaces
  BY <1>0 DEF SoundInv, ActorInv, ActorsType, FocusInv, GuardInv, Modelled
<1>2. /\ runtime' \in [Surfaces -> {"none", "queued", "live"}]
      /\ \A r \in Surfaces : r # txn.surface => runtime'[r] = runtime[r]
      /\ runtime' = runtime \/ runtime[txn.surface] = "none"
      /\ blocked' \subseteq Surfaces
  BY <1>1, SpawnMoves, RejectMoves DEF RestartSpawn, SoundInv, ActorInv, ActorsType
<1>3. ActorsType' /\ GtkInv' /\ FreshInv'
  BY <1>0, <1>1, <1>2, IdleFields, NoIdAssumption
     DEF SoundInv, ActorInv, ActorsType, GtkInv, FreshInv, Modelled
<1> QED
  BY <1>0, <1>1, <1>3, Settled DEF SoundInv

-----------------------------------------------------------------------------
(* The GTK thread and what takes no guard.                                 *)

LEMMA GtkSpawnStep ==
  ASSUME SoundInv, NEW s \in Surfaces, GtkSpawn(s)
  PROVE  SoundInv'
<1>0. /\ gtk.at = "idle" /\ runtime[s] = "queued"
      /\ UNCHANGED <<blocked, runtime, txn, handler>>
      /\ ModelInv' /\ home' = home /\ Open' = Open
  BY ModelKept DEF GtkSpawn, GtkAt, SoundInv
<1>1. gtk' \in Gtk /\ gtk'.at = "building" /\ gtk'.surface = s /\ gtk'.current = TRUE
  BY DEF GtkSpawn, Gtk
<1>2. ActorsType' /\ GuardInv' /\ GtkInv' /\ HandlerInv' /\ SnapshotInv'
  BY <1>0, <1>1
     DEF SoundInv, ActorInv, ActorsType, GuardInv, GtkInv, HandlerInv, SnapshotInv, Alone
<1>3. CloseSurfaceInv' /\ CloseWorkspaceInv' /\ FocusInv'
  BY <1>0 DEF SoundInv, ActorInv, CloseSurfaceInv, CloseWorkspaceInv, FocusInv, Modelled,
              Alone
<1>4. FreshInv'
  <2>1. ASSUME home[s] = "fresh" PROVE FALSE
    BY <1>0, <2>1 DEF SoundInv, ActorInv, FreshInv
  <2> QED
    BY <1>0, <1>1, <2>1 DEF SoundInv, ActorInv, FreshInv, Modelled
<1> QED
  BY <1>0, <1>2, <1>3, <1>4 DEF SoundInv, ActorInv

(* A compensation whose command GTK has in hand. *)
LEMMA OwnedFacts ==
  ASSUME SoundInv, Owned, gtk.at \in {"building", "failed"}
  PROVE  /\ handler # NoHandler /\ handler.surface = gtk.surface
         /\ gtk.current /\ runtime[gtk.surface] = "queued"
         /\ txn = Idle /\ txn.op = "none"
<1>1. handler # NoHandler /\ handler.surface = gtk.surface
  BY DEF Owned
<1>2. txn.op = "none" /\ txn = Idle
  BY <1>1 DEF SoundInv, ActorInv, GuardInv
<1>3. gtk.current
  BY <1>1, <1>2 DEF SoundInv, ActorInv, HandlerInv
<1> QED
  BY <1>1, <1>2, <1>3 DEF SoundInv, ActorInv, GtkInv

LEMMA GtkBuiltStep ==
  ASSUME SoundInv, GtkBuilt
  PROVE  SoundInv'
<1>0. /\ gtk.at = "building" /\ gtk' = GtkIdle /\ txn' = txn
      /\ gtk.surface \in Surfaces
      /\ ModelInv' /\ home' = home /\ Open' = Open
  BY ModelKept DEF GtkBuilt, GtkAt, SoundInv, ActorInv, GtkInv
<1>1. /\ runtime' \in [Surfaces -> {"none", "queued", "live"}]
      /\ \A r \in Surfaces :
           \/ runtime'[r] = runtime[r]
           \/ r = gtk.surface /\ runtime[r] = "queued"
      /\ \A r \in Surfaces : r # gtk.surface => runtime'[r] = runtime[r]
      /\ blocked' \subseteq Surfaces
  BY <1>0 DEF GtkBuilt, Enter, SoundInv, ActorInv, ActorsType, GtkInv
<1>2. handler' = IF Owned THEN NoHandler ELSE handler
  BY DEF GtkBuilt
<1>3. Owned => txn.op = "none"
  BY <1>0, OwnedFacts
<1>4. ~ Owned => (handler # NoHandler => handler.surface # gtk.surface)
  BY DEF Owned
<1> HIDE DEF Owned
<1>5. ActorsType' /\ GtkInv'
  BY <1>0, <1>1, <1>2, IdleFields DEF SoundInv, ActorInv, ActorsType, GtkInv
<1>6. GuardInv'
  <2>1. txn.op = "create" => txn.surface \in Surfaces /\ txn.surface # GtkIdle.surface
    BY HandlerFields, IdleFields, NoIdAssumption DEF SoundInv, ActorInv, GuardInv
  <2> QED
    BY <1>0, <1>1, <1>2, <1>3, <2>1 DEF SoundInv, ActorInv, GuardInv
<1>7. HandlerInv' /\ SnapshotInv'
  <2>1. CASE Owned
    BY <1>2, <2>1 DEF HandlerInv, SnapshotInv
  <2>2. CASE ~ Owned
    <3>1. handler # NoHandler => handler.surface \in Surfaces /\ handler.surface # GtkIdle.surface
      BY HandlerFields, IdleFields, NoIdAssumption DEF SoundInv, ActorInv
    <3> QED
      BY <1>0, <1>1, <1>2, <1>4, <2>2, <3>1
         DEF SoundInv, ActorInv, HandlerInv, SnapshotInv, Alone
  <2> QED
    BY <2>1, <2>2
<1>8. FreshInv'
  BY <1>0, <1>1, IdleFields, NoIdAssumption DEF SoundInv, ActorInv, FreshInv, Modelled
<1>9. CloseSurfaceInv' /\ CloseWorkspaceInv' /\ FocusInv'
  <2>1. \A r \in Surfaces : runtime[r] = "none" => runtime'[r] = "none"
    BY <1>1
  <2>2. txn \in Txn
    BY DEF SoundInv, ActorInv, ActorsType
  <2> QED
    BY <1>0, <2>1, <2>2
       DEF SoundInv, ActorInv, CloseSurfaceInv, CloseWorkspaceInv, FocusInv, Modelled,
           Alone, Txn
<1> QED
  BY <1>0, <1>5, <1>6, <1>7, <1>8, <1>9 DEF SoundInv, ActorInv

LEMMA GtkBuildFailsStep ==
  ASSUME SoundInv, GtkBuildFails
  PROVE  SoundInv'
<1>0. /\ gtk.at = "building" /\ UNCHANGED <<runtime, txn, handler>>
      /\ gtk.surface \in Surfaces /\ gtk \in Gtk
      /\ ModelInv' /\ home' = home /\ Open' = Open
  BY ModelKept DEF GtkBuildFails, GtkAt, SoundInv, ActorInv, ActorsType, GtkInv
<1>1. /\ gtk' \in Gtk /\ gtk'.at = "failed" /\ gtk'.surface = gtk.surface
      /\ gtk'.current = gtk.current
  BY <1>0 DEF GtkBuildFails, GtkGoes, Gtk
<1>2. blocked' \subseteq Surfaces
  BY <1>0 DEF GtkBuildFails, RecordSpawnFailure, SoundInv, ActorInv, ActorsType
<1>3. ActorsType' /\ GuardInv' /\ GtkInv' /\ HandlerInv' /\ SnapshotInv'
  BY <1>0, <1>1, <1>2
     DEF SoundInv, ActorInv, ActorsType, GuardInv, GtkInv, HandlerInv, SnapshotInv, Alone
<1>4. FreshInv' /\ CloseSurfaceInv' /\ CloseWorkspaceInv' /\ FocusInv'
  BY <1>0, <1>1
     DEF SoundInv, ActorInv, FreshInv, CloseSurfaceInv, CloseWorkspaceInv, FocusInv,
         Modelled, Alone
<1> QED
  BY <1>0, <1>3, <1>4 DEF SoundInv, ActorInv

LEMMA GtkRemovesFailedStep ==
  ASSUME SoundInv, GtkRemovesFailed
  PROVE  SoundInv'
<1>0. /\ gtk.at = "failed" /\ UNCHANGED <<blocked, txn, handler>>
      /\ gtk.surface \in Surfaces /\ gtk \in Gtk
      /\ ModelInv' /\ home' = home /\ Open' = Open
  BY ModelKept DEF GtkRemovesFailed, GtkAt, SoundInv, ActorInv, ActorsType, GtkInv
<1>1. /\ runtime' \in [Surfaces -> {"none", "queued", "live"}]
      /\ \A r \in Surfaces : runtime'[r] \in {runtime[r], "none"}
      /\ \A r \in Surfaces : r # gtk.surface => runtime'[r] = runtime[r]
      /\ gtk.current => runtime'[gtk.surface] = "none"
  BY <1>0 DEF GtkRemovesFailed, Enter, SoundInv, ActorInv, ActorsType
<1>2. FreshInv'
  <2>1. gtk'.surface \in {gtk.surface, NoSurface}
    BY <1>0, IdleFields DEF GtkRemovesFailed, GtkGoes, Gtk
  <2> QED
    BY <1>0, <1>1, <2>1, NoIdAssumption DEF SoundInv, ActorInv, FreshInv, Modelled
<1>3. CloseSurfaceInv' /\ CloseWorkspaceInv' /\ FocusInv'
  <2>1. \A r \in Surfaces : runtime[r] = "none" => runtime'[r] = "none"
    BY <1>1
  <2>2. txn \in Txn
    BY DEF SoundInv, ActorInv, ActorsType
  <2> QED
    BY <1>0, <2>1, <2>2
       DEF SoundInv, ActorInv, CloseSurfaceInv, CloseWorkspaceInv, FocusInv, Modelled,
           Alone, Txn
<1>4. CASE Owned
  <2>1. /\ handler # NoHandler /\ handler.surface = gtk.surface
        /\ gtk.current /\ txn.op = "none"
    BY <1>0, <1>4, OwnedFacts
  <2>2. gtk' \in Gtk /\ gtk'.at = "rollback" /\ gtk'.surface = gtk.surface
    BY <1>0, <1>4 DEF GtkRemovesFailed, GtkGoes, Gtk
  <2>3. ActorsType' /\ GuardInv' /\ GtkInv' /\ HandlerInv' /\ SnapshotInv'
    BY <1>0, <1>1, <2>1, <2>2
       DEF SoundInv, ActorInv, ActorsType, GuardInv, GtkInv, HandlerInv, SnapshotInv, Alone
  <2> QED
    BY <1>0, <1>2, <1>3, <2>2, <2>3 DEF SoundInv, ActorInv
<1>5. CASE ~ Owned
  <2>1. gtk' = GtkIdle
    BY <1>5 DEF GtkRemovesFailed
  <2>2. handler # NoHandler =>
          /\ handler.surface \in Surfaces /\ handler.surface # gtk.surface
          /\ handler.surface # GtkIdle.surface
    BY <1>5, HandlerFields, IdleFields, NoIdAssumption DEF Owned, SoundInv, ActorInv
  <2>3. ActorsType' /\ GtkInv'
    BY <1>0, <1>1, <2>1, IdleFields DEF SoundInv, ActorInv, ActorsType, GtkInv
  <2>4. GuardInv'
    BY <1>0, <1>1, <2>1, <2>2, IdleFields DEF SoundInv, ActorInv, GuardInv
  <2>5. HandlerInv' /\ SnapshotInv'
    BY <1>0, <1>1, <2>1, <2>2 DEF SoundInv, ActorInv, HandlerInv, SnapshotInv, Alone
  <2> QED
    BY <1>0, <1>2, <1>3, <2>1, <2>3, <2>4, <2>5, IdleFields DEF SoundInv, ActorInv
<1> QED
  BY <1>4, <1>5

LEMMA ReconcileStep ==
  ASSUME SoundInv, Reconcile
  PROVE  SoundInv'
<1>0. /\ gtk.at = "idle" /\ GuardFree /\ UNCHANGED <<txn, handler, gtk>>
      /\ ModelInv' /\ home' = home /\ Open' = Open
  BY ModelKept DEF Reconcile, GtkAt, SoundInv
<1>1. txn = Idle /\ handler = NoHandler
  BY <1>0 DEF GuardFree
<1> DEFINE missing == {s \in Surfaces \ blocked : home[s] \in active /\ runtime[s] = "none"}
<1>2. PICK reaped \in SUBSET Orphans, rejected \in SUBSET missing :
        /\ runtime' = [s \in Surfaces |-> IF s \in reaped THEN "none"
                                          ELSE IF s \in missing \ rejected THEN "queued"
                                          ELSE runtime[s]]
        /\ blocked' = blocked \cup rejected
  BY DEF Reconcile
<1>3. active \subseteq Workspaces
  BY DEF SoundInv, ModelInv, OneActiveWorkspace
<1>4. ActorsType'
  BY <1>0, <1>2 DEF SoundInv, ActorInv, ActorsType
<1>5. GtkInv'
  BY <1>0, IdleFields DEF SoundInv, ActorInv, GtkInv
<1>6. FreshInv'
  <2>1. ASSUME NEW s \in Surfaces, home[s] = "fresh"
        PROVE  runtime'[s] = "none" /\ gtk.surface # s
    <3>1. s \notin missing
      BY <1>3, <2>1, NoIdAssumption
    <3>2. runtime[s] = "none" /\ gtk.surface # s
      BY <2>1 DEF SoundInv, ActorInv, FreshInv
    <3> QED
      BY <1>2, <3>1, <3>2
  <2> QED
    BY <1>0, <2>1 DEF FreshInv
<1> QED
  BY <1>0, <1>1, <1>4, <1>5, <1>6, Settled DEF SoundInv

LEMMA SelectTabStep ==
  ASSUME SoundInv, NEW s \in Surfaces, SelectTab(s) \/ ShowSurface(s)
  PROVE  SoundInv'
<1>1. PICK w : w = home[s]
  OBVIOUS
<1>2. /\ s \in Modelled /\ UNCHANGED <<freshWorkspaces, blocked, runtime, txn, handler, gtk>>
      /\ home' = home /\ layout' = [layout EXCEPT ![w] = Focus(layout[w], s)]
      /\ active' \in {active, {w}}
  BY <1>1 DEF SelectTab, ShowSurface, Model
<1>3. w \in Open
  BY <1>1, <1>2, HomeFacts DEF SoundInv
<1>4. ModelInv' /\ Open' = Open
  BY <1>1, <1>2, <1>3, FocusModel DEF SoundInv
<1>5. blocked' \subseteq Surfaces
  BY <1>2 DEF SoundInv, ActorInv, ActorsType
<1> QED
  BY <1>2, <1>4, <1>5, ActorsKept DEF SoundInv

LEMMA MoveTabStep ==
  ASSUME SoundInv, NEW a \in Surfaces, NEW b \in Surfaces, MoveTab(a, b)
  PROVE  SoundInv'
<1>1. PICK w, tree : w = home[a] /\ tree = layout[w]
  OBVIOUS
<1>2. /\ a \in Modelled /\ b \in Modelled /\ home[a] = home[b]
      /\ LeafOf(tree, a) # LeafOf(tree, b) /\ LeafOf(tree, a).tabs # {a}
      /\ UNCHANGED <<freshWorkspaces, blocked, runtime, txn, handler, gtk>>
  BY <1>1 DEF MoveTab
<1>3. PICK t \in AfterMove(tree, a, b) : Model(home, [layout EXCEPT ![w] = t], active)
  BY <1>1 DEF MoveTab
<1>4. w \in Open /\ a \in SurfacesOf(w) /\ b \in SurfacesOf(w) /\ TreeSound(tree, SurfacesOf(w))
  BY <1>1, <1>2, HomeFacts DEF SoundInv
<1>5. TreeSound(t, SurfacesOf(w))
  BY <1>2, <1>3, <1>4, AfterMoveSound
<1>6. ModelInv' /\ Open' = Open /\ home' = home
  BY <1>2, <1>3, <1>4, <1>5, RetreeSound DEF SoundInv, Model
<1>7. blocked' \subseteq Surfaces
  BY <1>2 DEF SoundInv, ActorInv, ActorsType
<1> QED
  BY <1>2, <1>6, <1>7, ActorsKept DEF SoundInv

LEMMA ClearStatusStep ==
  ASSUME SoundInv, NEW s \in Surfaces, ClearStatus(s)
  PROVE  SoundInv'
<1>1. ModelInv' /\ home' = home /\ Open' = Open
  BY ModelKept DEF ClearStatus, SoundInv
<1>2. blocked' \subseteq Surfaces
  BY DEF ClearStatus, SoundInv, ActorInv, ActorsType
<1> QED
  BY <1>1, <1>2, ActorsKept DEF ClearStatus, SoundInv

LEMMA StutterStep ==
  ASSUME SoundInv, UNCHANGED vars
  PROVE  SoundInv'
<1>1. ModelInv' /\ home' = home /\ Open' = Open
  BY ModelKept DEF vars, modelVars, SoundInv
<1>2. blocked' \subseteq Surfaces
  BY DEF vars, SoundInv, ActorInv, ActorsType
<1> QED
  BY <1>1, <1>2, ActorsKept DEF vars, SoundInv

-----------------------------------------------------------------------------
(* The invariant.                                                          *)

LEMMA InitSound == Init => SoundInv
<1> SUFFICES ASSUME Init PROVE SoundInv
  OBVIOUS
<1>1. /\ home \in [Surfaces -> Workspaces \cup {"fresh"}]
      /\ Open = {home[s] : s \in Modelled}
      /\ freshWorkspaces = Workspaces \ Open /\ blocked = {}
      /\ \A w \in Open : \E s \in SurfacesOf(w) : layout[w] = Tabs(SurfacesOf(w), s)
      /\ \E w \in Open : active = {w}
      /\ txn = Idle /\ handler = NoHandler /\ gtk = GtkIdle
  BY DEF Init, Open
<1>2. Open \subseteq Workspaces
  BY <1>1 DEF Modelled
<1>3. \A w \in Open : TreeSound(layout[w], SurfacesOf(w))
  <2>1. ASSUME NEW w \in Open PROVE TreeSound(layout[w], SurfacesOf(w))
    <3>1. PICK s \in SurfacesOf(w) : layout[w] = Tabs(SurfacesOf(w), s)
      BY <1>1
    <3>2. SurfacesOf(w) \subseteq Surfaces
      BY DEF SurfacesOf
    <3> QED
      BY <3>1, <3>2, SingleSound
  <2> QED
    BY <2>1
<1>4. ModelInv
  BY <1>1, <1>2, <1>3 DEF ModelInv, HomesOpen, OneActiveWorkspace
<1>5. /\ runtime \in [Surfaces -> {"none", "queued", "live"}]
      /\ \A s \in Surfaces \ Modelled : runtime[s] = "none"
  BY DEF Init
<1>6. ActorsType /\ GtkInv /\ FreshInv
  BY <1>1, <1>5, IdleFields, NoIdAssumption DEF ActorsType, GtkInv, FreshInv, Modelled
<1>7. ActorInv
  BY <1>1, <1>6, IdleFields, NoIdAssumption
     DEF ActorInv, GuardInv, HandlerInv, SnapshotInv, CloseSurfaceInv, CloseWorkspaceInv,
         FocusInv
<1> QED
  BY <1>4, <1>7 DEF SoundInv

LEMMA SoundStep ==
  ASSUME SoundInv, [Next]_vars
  PROVE  SoundInv'
<1>1. ASSUME TxnStep PROVE SoundInv'
  BY <1>1, CreateSpawnStep, CreateDropStep, CloseSpawnSpareStep, CloseTerminalStep,
     CloseSpareStep, LeaveSpareStep, CloseCommitStep, CloseWorkspaceSpawnSpareStep, CloseNextTerminalStep,
     RestoreNextTerminalStep, CloseWorkspaceSpareStep, CloseWorkspaceUndoStep,
     CloseWorkspaceCommitStep, EnsureTerminalStep, SpawnFocusedStep, SelectUndoStep,
     RestartCloseStep, RestartCommitStep, RestartSpawnStep DEF TxnStep
<1>2. ASSUME GtkStep PROVE SoundInv'
  BY <1>2, GtkSpawnStep, GtkBuiltStep, GtkBuildFailsStep, GtkRemovesFailedStep,
     GtkRollbackStep DEF GtkStep
<1>3. ASSUME Request PROVE SoundInv'
  BY <1>3, CreateSurfaceStep, CreateWorkspaceStep, CloseSurfaceRequestStep,
     FocusRequestStep, RestartStep, CloseWorkspaceRequestStep, SelectRequestStep DEF Request
<1>4. ASSUME Unguarded PROVE SoundInv'
  BY <1>4, SelectTabStep, ClearStatusStep, MoveTabStep DEF Unguarded
<1> QED
  BY <1>1, <1>2, <1>3, <1>4, ReconcileStep, StutterStep DEF Next

LEMMA SoundAlways == Spec => []SoundInv
BY InitSound, SoundStep, PTL DEF Spec

-----------------------------------------------------------------------------
(* The results.                                                            *)

(* The model is sound after every step of every transaction, compensation  *)
(* and GTK callback: the trees of model.rs partition the surfaces of their *)
(* workspaces, focus and active tabs are on surfaces that are there, and   *)
(* exactly one workspace is active, whatever is rolled back in between.    *)
THEOREM ModelStaysSound == Spec => []ModelSound
<1>1. SoundInv => ModelSound
  <2> SUFFICES ASSUME SoundInv PROVE ModelSound
    OBVIOUS
  <2>1. TypeOK
    BY DEF SoundInv, ModelInv, ActorInv, ActorsType, OneActiveWorkspace, TreeSound, TypeOK
  <2>2. LayoutSound
    BY SoundIsSound DEF SoundInv, ModelInv, LayoutSound
  <2> QED
    BY <2>1, <2>2 DEF SoundInv, ModelInv, ModelSound
<1> QED
  BY <1>1, SoundAlways, PTL

(* The steps that take surfaces out of the model: every other one keeps    *)
(* the home of each surface the model has.                                 *)
LEMMA HomeKept ==
  ASSUME SoundInv, [Next]_vars, NEW s \in Modelled, s \notin Modelled'
  PROVE  \/ CreateDrop \/ GtkRollback
         \/ CloseCommit \/ CloseWorkspaceUndo \/ CloseWorkspaceCommit
<1>1. s \in Surfaces /\ home'[s] # home[s]
  BY DEF Modelled
<1>2. home \in [Surfaces -> Workspaces \cup {"fresh", "allocated"}] /\ home[s] # "fresh"
  BY NoIdAssumption DEF SoundInv, ModelInv, Modelled
<1>3. ASSUME NEW n \in Surfaces, NEW w, home[n] = "fresh", home' = [home EXCEPT ![n] = w]
      PROVE  FALSE
  BY <1>1, <1>2, <1>3
<1>4. ASSUME NEW r, r \notin Surfaces \/ home[r] = "fresh",
             home' = [t \in Surfaces |-> IF t = r THEN "allocated" ELSE home[t]]
      PROVE  FALSE
  BY <1>1, <1>2, <1>4
<1>5. CASE TxnStep
  BY <1>1, <1>5
     DEF TxnStep, modelVars, CreateSpawn, CloseSpawnSpare, CloseTerminal, CloseSpare,
         LeaveSpare, CloseWorkspaceSpawnSpare, CloseNextTerminal, RestoreNextTerminal,
         CloseWorkspaceSpare, EnsureTerminal, SpawnFocused, SelectUndo, RestartClose,
         RestartCommit, RestartSpawn, Model
<1>6. CASE GtkStep \/ Reconcile
  BY <1>1, <1>6
     DEF GtkStep, modelVars, GtkSpawn, GtkBuilt, GtkBuildFails, GtkRemovesFailed, Reconcile
<1>7. CASE Request
  <2>1. ASSUME NEW n \in Surfaces, NEW source \in Surfaces, CreateSurface(n, source)
        PROVE  FALSE
    BY <1>3, <2>1 DEF CreateSurface, AddSurface, Model
  <2>2. ASSUME NEW n \in Surfaces, NEW w \in Workspaces, CreateWorkspaceRequest(w, n)
        PROVE  FALSE
    BY <1>3, <2>2 DEF CreateWorkspaceRequest, CreateWorkspace, Model
  <2>3. ASSUME NEW n \in Surfaces, CloseSurfaceRequest(n)
        PROVE  FALSE
    <3>1. PICK r \in IF IsRoot(layout[home[n]], n) THEN FreshSurfaces ELSE {NoSurface} :
            home' = [t \in Surfaces |-> IF t = r THEN "allocated" ELSE home[t]]
      BY <2>3 DEF CloseSurfaceRequest
    <3> QED
      BY <1>4, <3>1, NoIdAssumption DEF FreshSurfaces
  <2>4. ASSUME NEW w \in Workspaces, CloseWorkspaceRequest(w)
        PROVE  FALSE
    <3>1. \/ home' = home
          \/ \E v \in freshWorkspaces, n \in FreshSurfaces : CreateWorkspace(v, n)
      BY <2>4 DEF CloseWorkspaceRequest, modelVars
    <3> QED
      BY <1>1, <1>3, <3>1 DEF CreateWorkspace, Model, FreshSurfaces
  <2> QED
    BY <1>1, <1>7, <2>1, <2>2, <2>3, <2>4
       DEF Request, FocusRequest, Restart, SelectRequest, Model, modelVars
<1>8. CASE Unguarded \/ UNCHANGED vars
  BY <1>1, <1>8
     DEF Unguarded, SelectTab, ShowSurface, ClearStatus, MoveTab, Model, modelVars, vars
<1> QED
  BY <1>5, <1>6, <1>7, <1>8 DEF Next

(* The runtime of s has ended, or s is a replacement that keeps it. *)
EndsBefore(s) ==
  \/ runtime[s] = "none"
  \/ s = txn.spare /\ txn.op = "closeWorkspace" /\ txn.at = "spareKept"

LEMMA LeavesFacts ==
  ASSUME SoundInv, [Next]_vars, NEW s \in Modelled \ Modelled'
  PROVE  EndsBefore(s)
<1>1. s \in Surfaces /\ home[s] \in Workspaces /\ home'[s] \notin Workspaces
  BY DEF Modelled
<1>2. CASE CreateDrop \/ GtkRollback
  <2>1. /\ handler # NoHandler /\ runtime[handler.surface] = "none"
        /\ Compensate(handler)
    BY <1>2, DropFacts, RollbackFacts
       DEF CreateDrop, GtkRollback, GtkAt, RunCompensation
  <2> QED
    BY <1>1, <2>1, CompensationSound DEF EndsBefore
<1>3. CASE CloseCommit
  <2>1. PICK c, r : c \in Surfaces /\ c = txn.surface /\ r = txn.spare
    BY <1>3, CloseCommitFacts DEF Modelled
  <2>2. /\ c \in Modelled /\ runtime[c] = "none"
        /\ r # NoSurface => /\ r \in Surfaces /\ r \notin Modelled
                            /\ SurfacesOf(home[c]) = {c}
    BY <1>3, <2>1, CloseCommitFacts
  <2>3. CASE r = NoSurface
    <3>1. \A x \in Surfaces \ {c} : home'[x] = home[x]
      BY <1>3, <2>1, <2>2, <2>3, CloseSurfaceSound DEF CloseCommit, SoundInv
    <3> QED
      BY <1>1, <2>2, <3>1 DEF EndsBefore
  <2>4. CASE r # NoSurface
    <3>1. home'[r] = home[c] /\ \A x \in Surfaces \ {c, r} : home'[x] = home[x]
      BY <1>3, <2>1, <2>2, <2>4, CloseWithReplacementSound DEF CloseCommit, SoundInv
    <3> QED
      BY <1>1, <2>2, <3>1 DEF Modelled, EndsBefore
  <2> QED
    BY <2>3, <2>4
<1>4. CASE CloseWorkspaceUndo
  <2>1. PICK w, prev : w = txn.spareWorkspace /\ prev = txn.prevActive
    OBVIOUS
  <2>2. /\ w \in Open /\ prev \in Open \ {w}
        /\ \A r \in Surfaces : home[r] = w <=> r = txn.spare
        /\ txn.op = "closeWorkspace"
        /\ txn.at = "spareKept" \/ runtime[txn.spare] = "none"
        /\ CloseWorkspaceAndSelect(w, prev)
    BY <1>4, <2>1, CloseWorkspaceUndoFacts DEF CloseWorkspaceUndo
  <2>3. \A r \in Surfaces : home'[r] = IF home[r] = w THEN "allocated" ELSE home[r]
    BY <2>2, CloseWorkspaceSound DEF SoundInv
  <2> QED
    BY <1>1, <2>2, <2>3 DEF EndsBefore
<1>5. CASE CloseWorkspaceCommit
  <2>1. PICK w : w = txn.workspace
    OBVIOUS
  <2>2. /\ w \in Open /\ Open # {w}
        /\ \A r \in Surfaces : home[r] = w => runtime[r] = "none"
        /\ CloseWorkspaceAndSelect(w, NoWorkspace)
    BY <1>5, <2>1, CloseWorkspaceCommitFacts DEF CloseWorkspaceCommit
  <2>3. \A r \in Surfaces : home'[r] = IF home[r] = w THEN "allocated" ELSE home[r]
    BY <2>2, CloseWorkspaceSound DEF SoundInv
  <2> QED
    BY <1>1, <2>2, <2>3 DEF EndsBefore
<1> QED
  BY <1>2, <1>3, <1>4, <1>5, HomeKept

(* A surface leaves the model, in a close, a rollback or the undoing of a  *)
(* replacement, only when the runtime map has no entry of it any more; the *)
(* replacement of a failed workspace close may keep one, when both ways to *)
(* remove it have failed.                                                  *)
THEOREM ProcessesEndFirst == Spec => ProcessEndsFirst
<1>1. SoundInv /\ [Next]_vars => [\A s \in Modelled \ Modelled' : EndsBefore(s)]_vars
  BY LeavesFacts
<1> QED
  BY <1>1, SoundAlways, PTL DEF Spec, ProcessEndsFirst, EndsBefore

(* Runtimes come into being for surfaces of the model, and for the         *)
(* replacement of the close at hand.                                       *)
LEMMA RuntimeAppears ==
  ASSUME SoundInv, [Next]_vars, NEW s \in Surfaces, runtime[s] = "none",
         runtime'[s] # "none"
  PROVE  (s \in Modelled /\ home' = home) \/ s = txn'.spare
<1>1. CASE CreateSpawn
  <2>1. txn.surface \in Modelled /\ home' = home
    BY <1>1, HandlerFields
       DEF CreateSpawn, At, modelVars, SoundInv, ModelInv, ActorInv, GuardInv, HandlerInv,
           Modelled
  <2>2. s = txn.surface
    BY <1>1 DEF CreateSpawn, SpawnAccepted, SpawnRejected, Enter, SoundInv, ActorInv, ActorsType
  <2> QED
    BY <2>1, <2>2
<1>2. CASE CloseSpawnSpare \/ CloseWorkspaceSpawnSpare
  <2>1. s = txn.spare /\ Step("close")
    BY <1>2 DEF CloseSpawnSpare, CloseWorkspaceSpawnSpare, SpawnAccepted, SpawnRejected,
                Enter, SoundInv, ActorInv, ActorsType
  <2>2. Moved("close")
    BY <2>1, StepMoves DEF SoundInv, ActorInv, ActorsType, Ats
  <2> QED
    BY <2>1, <2>2 DEF Moved
<1>3. CASE RestoreNextTerminal
  <2>1. s \in txn.closed /\ home' = home
    BY <1>3 DEF RestoreNextTerminal, SpawnAccepted, SpawnRejected, Enter, modelVars,
                SoundInv, ActorInv, ActorsType
  <2>2. home[s] = txn.workspace /\ txn.workspace \in Workspaces
    BY <1>3, <2>1 DEF RestoreNextTerminal, At, SoundInv, ModelInv, ActorInv, CloseWorkspaceInv
  <2> QED
    BY <2>1, <2>2 DEF Modelled
<1>4. CASE SpawnFocused
  <2>1. txn.spare \in Modelled /\ home' = home
    BY <1>4 DEF SpawnFocused, modelVars, SoundInv, ActorInv, ActorsType, FocusInv, Txn
  <2>2. s = txn.spare
    BY <1>4 DEF SpawnFocused, SpawnAccepted, SpawnRejected, Enter, SoundInv, ActorInv, ActorsType
  <2> QED
    BY <2>1, <2>2
<1>5. CASE RestartSpawn
  <2>1. txn.surface \in Modelled /\ home' = home
    BY <1>5 DEF RestartSpawn, At, modelVars, SoundInv, ActorInv, FocusInv
  <2>2. s = txn.surface
    BY <1>5 DEF RestartSpawn, SpawnAccepted, SpawnRejected, Enter, SoundInv, ActorInv, ActorsType
  <2> QED
    BY <2>1, <2>2
<1>6. CASE Reconcile
  <2>1. home[s] \in active /\ home' = home
    BY <1>6 DEF Reconcile, modelVars, Orphans
  <2> QED
    BY <2>1 DEF SoundInv, ModelInv, OneActiveWorkspace, Modelled
<1>7. ASSUME TxnStep, ~ CreateSpawn, ~ CloseSpawnSpare, ~ CloseWorkspaceSpawnSpare,
             ~ RestoreNextTerminal, ~ SpawnFocused, ~ RestartSpawn
      PROVE  FALSE
  <2>1. ASSUME NEW x, RemoveRuntime(x) PROVE FALSE
    BY <2>1 DEF RemoveRuntime, Enter, SoundInv, ActorInv, ActorsType
  <2> QED
    BY <1>7, <2>1
       DEF TxnStep, CreateDrop, CloseTerminal, CloseSpare, LeaveSpare, CloseCommit,
           CloseNextTerminal, CloseWorkspaceSpare, CloseWorkspaceUndo, CloseWorkspaceCommit,
           EnsureTerminal, SelectUndo, RestartClose, RestartCommit, KeepRuntime
<1>8. ASSUME GtkStep PROVE FALSE
  BY <1>8 DEF GtkStep, GtkSpawn, GtkBuilt, GtkBuildFails, GtkRemovesFailed, GtkRollback,
              GtkAt, Enter, SoundInv, ActorInv, ActorsType, GtkInv
<1>9. ASSUME Request \/ Unguarded \/ UNCHANGED vars PROVE FALSE
  BY <1>9 DEF Request, CreateSurface, CreateWorkspaceRequest, BeginCreate,
              CloseSurfaceRequest, FocusRequest, Restart, CloseWorkspaceRequest,
              SelectRequest, Unguarded, SelectTab, ShowSurface, ClearStatus, MoveTab, vars
<1> QED
  BY <1>1, <1>2, <1>3, <1>4, <1>5, <1>6, <1>7, <1>8, <1>9 DEF Next

(* A close lets go of its replacement when it is committed, cleaned up, or *)
(* kept by a failed clean-up.                                              *)
LEMMA SpareGoes ==
  ASSUME SoundInv, [Next]_vars, txn.spare \in Orphans, txn.spare \in Orphans'
  PROVE  txn.spare = txn'.spare \/ txn.at = "spareKept"
<1>1. /\ txn.op = "closeSurface" /\ txn.spare \in Surfaces /\ txn.spare # NoSurface
      /\ txn.at \in {"spawnSpare", "close", "closeSpare", "spareKept", "commit"}
      /\ runtime[txn.spare] # "none"
  BY NoIdAssumption DEF Orphans, SoundInv, ActorInv, FocusInv
<1>2. txn.at # "spawnSpare"
  BY <1>1 DEF SoundInv, ActorInv, CloseSurfaceInv
<1>3. CASE CloseTerminal
  <2>1. ASSUME NEW at \in Ats, Step(at) PROVE txn.spare = txn'.spare
    BY <2>1, StepMoves DEF SoundInv, ActorInv, ActorsType, Moved
  <2> QED
    BY <1>1, <1>3, <2>1 DEF CloseTerminal, Step, Ats
<1>4. CASE CloseSpare
  <2>1. RemoveRuntime(txn.spare) => txn.spare \notin Orphans'
    BY <1>1 DEF Orphans, RemoveRuntime, Enter, SoundInv, ActorInv, ActorsType
  <2>2. Step("spareKept") => txn.spare = txn'.spare
    BY StepMoves DEF SoundInv, ActorInv, ActorsType, Moved, Ats
  <2> QED
    BY <1>4, <2>1, <2>2 DEF CloseSpare
<1>5. CASE CloseCommit
  <2>1. PICK c, r : c \in Surfaces /\ c = txn.surface /\ r = txn.spare
    BY <1>5, CloseCommitFacts DEF Modelled
  <2>2. /\ c \in Modelled /\ r \in Surfaces /\ r \notin Modelled
        /\ SurfacesOf(home[c]) = {c} /\ r # NoSurface
    BY <1>1, <1>5, <2>1, CloseCommitFacts
  <2>3. home'[r] = home[c]
    BY <1>5, <2>1, <2>2, CloseWithReplacementSound DEF CloseCommit, SoundInv
  <2> QED
    BY <2>1, <2>2, <2>3 DEF Orphans, Modelled
<1>6. ASSUME TxnStep, txn.at # "spareKept", ~ CloseTerminal, ~ CloseSpare, ~ CloseCommit
      PROVE  FALSE
  BY <1>1, <1>2, <1>6
     DEF TxnStep, CreateSpawn, CreateDrop, CloseSpawnSpare, LeaveSpare,
         CloseWorkspaceSpawnSpare, CloseNextTerminal, RestoreNextTerminal,
         CloseWorkspaceSpare, CloseWorkspaceUndo, CloseWorkspaceCommit, EnsureTerminal,
         SpawnFocused, SelectUndo, RestartClose, RestartCommit, RestartSpawn, At
<1>7. txn # Idle
  BY <1>1, IdleFields
<1>8. ~ Request
  BY <1>7 DEF Request, CreateSurface, CreateWorkspaceRequest, BeginCreate,
              CloseSurfaceRequest, FocusRequest, Restart, CloseWorkspaceRequest,
              SelectRequest, GuardFree
<1>9. GtkStep \/ Reconcile \/ Unguarded \/ UNCHANGED vars => txn' = txn
  BY DEF GtkStep, GtkSpawn, GtkBuilt, GtkBuildFails, GtkRemovesFailed, GtkRollback,
         Reconcile, Unguarded, SelectTab, ShowSurface, ClearStatus, MoveTab, vars
<1> QED
  BY <1>3, <1>4, <1>5, <1>6, <1>8, <1>9 DEF Next

(* No surface the user had is ever orphaned.  The runtime of a surface the *)
(* model does not have is the replacement that the close at hand spawned;  *)
(* it is committed or removed with that close, and stays behind only when  *)
(* closing and forgetting it have both failed.                             *)
THEOREM OnlySparesAreKept == Spec => OrphansAreKeptSpares
<1>1. ASSUME SoundInv, [Next]_vars, NEW s \in Orphans'
      PROVE  \/ s \in Orphans \ {txn.spare}
             \/ s = txn'.spare
             \/ s = txn.spare /\ txn.at = "spareKept"
  <2>1. s \in Surfaces /\ s \notin Modelled' /\ runtime'[s] # "none"
    BY <1>1 DEF Orphans
  <2>2. CASE runtime[s] = "none"
    <3>1. s \in Modelled /\ home' = home => s \in Modelled'
      BY DEF Modelled
    <3> QED
      BY <1>1, <2>1, <2>2, <3>1, RuntimeAppears
  <2>3. CASE runtime[s] # "none" /\ s \in Modelled
    BY <1>1, <2>1, <2>3, LeavesFacts DEF EndsBefore
  <2>4. CASE runtime[s] # "none" /\ s \notin Modelled
    BY <1>1, <2>1, <2>4, SpareGoes DEF Orphans
  <2> QED
    BY <2>2, <2>3, <2>4
<1>2. SoundInv /\ [Next]_vars =>
        [\A s \in Orphans' : \/ s \in Orphans \ {txn.spare}
                             \/ s = txn'.spare
                             \/ s = txn.spare /\ txn.at = "spareKept"]_vars
  BY <1>1
<1> QED
  BY <1>2, SoundAlways, PTL DEF Spec, OrphansAreKeptSpares

(* The compensation of a creation lets go in three places. *)
LEMMA HandlerKept ==
  ASSUME SoundInv, [Next]_vars, handler # NoHandler, handler' # handler
  PROVE  CreateDrop \/ GtkRollback \/ (GtkBuilt /\ Owned)
<1>1. ~ GuardFree
  BY DEF GuardFree
<1>2. ~ TxnStep \/ CreateDrop
  BY DEF TxnStep, CreateSpawn, CloseSpawnSpare, CloseTerminal, CloseSpare, LeaveSpare,
         CloseCommit, CloseWorkspaceSpawnSpare, CloseNextTerminal, RestoreNextTerminal,
         CloseWorkspaceSpare, CloseWorkspaceUndo, CloseWorkspaceCommit, EnsureTerminal,
         SpawnFocused, SelectUndo, RestartClose, RestartCommit, RestartSpawn
<1>3. GtkStep => GtkRollback \/ (GtkBuilt /\ Owned)
  BY DEF GtkStep, GtkSpawn, GtkBuilt, GtkBuildFails, GtkRemovesFailed
<1>4. ~ Request /\ ~ Reconcile
  BY <1>1 DEF Request, CreateSurface, CreateWorkspaceRequest, BeginCreate,
              CloseSurfaceRequest, FocusRequest, Restart, CloseWorkspaceRequest,
              SelectRequest, Reconcile
<1>5. ~ Unguarded /\ ~ UNCHANGED vars
  BY DEF Unguarded, SelectTab, ShowSurface, ClearStatus, MoveTab, vars
<1> QED
  BY <1>2, <1>3, <1>4, <1>5 DEF Next

(* A creation is all or nothing: when its compensation is disarmed by GTK, *)
(* or has run because the spawn was refused or the terminal not built, the *)
(* surface is in the model if and only if it has a runtime.                *)
THEOREM CreationsSettle == Spec => CreationSettles
<1> DEFINE Settles == handler # NoHandler /\ handler' # handler =>
                        handler.surface \in Modelled' <=> runtime'[handler.surface] # "none"
<1>1. SoundInv /\ [Next]_vars => [Settles]_vars
  <2> SUFFICES ASSUME SoundInv, [Next]_vars, handler # NoHandler, handler' # handler
               PROVE  handler.surface \in Modelled' <=> runtime'[handler.surface] # "none"
    OBVIOUS
  <2>1. CASE CreateDrop \/ GtkRollback
    <3>1. /\ runtime[handler.surface] = "none" /\ runtime' = runtime
          /\ Compensate(handler)
      BY <2>1, DropFacts, RollbackFacts
         DEF CreateDrop, GtkRollback, GtkAt, RunCompensation
    <3>2. home'[handler.surface] = "allocated"
      BY <3>1, CompensationSound
    <3> QED
      BY <3>1, <3>2, NoIdAssumption DEF Modelled
  <2>2. CASE GtkBuilt /\ Owned
    <3>1. /\ gtk.at = "building" /\ home' = home
          /\ gtk.current /\ handler.surface = gtk.surface
      BY <2>2, OwnedFacts DEF GtkBuilt, GtkAt, modelVars
    <3>2. handler.surface \in Surfaces /\ home[handler.surface] \in Workspaces
      BY HandlerFields DEF SoundInv, ModelInv, ActorInv, HandlerInv
    <3>3. runtime'[handler.surface] = "live"
      BY <2>2, <3>1, <3>2 DEF GtkBuilt, Enter, SoundInv, ActorInv, ActorsType
    <3> QED
      BY <3>1, <3>2, <3>3 DEF Modelled
  <2> QED
    BY <2>1, <2>2, HandlerKept
<1> QED
  BY <1>1, SoundAlways, PTL DEF Spec, CreationSettles
=============================================================================
