------------------------ MODULE WorkspaceModel_proofs ------------------------
(***************************************************************************)
(* Proofs about WorkspaceModel, for any surfaces and workspaces, any depth *)
(* of the pane trees and any number of notifications: that the marks agree *)
(* with what they stand for, and that a session survives a restart.  The   *)
(* parts: sequences; the marks (MarkInv); pane trees and what each edit    *)
(* makes of them (Sound); the layout (LayoutInv).                          *)
(***************************************************************************)
EXTENDS WorkspaceModel, SequenceTheorems, FiniteSetTheorems, WellFoundedInduction, TLAPS

-----------------------------------------------------------------------------
(* Sequences: what removing, inserting and picking elements does, index by *)
(* index.                                                                  *)
LEMMA CutA ==
  ASSUME NEW S, NEW seq \in Seq(S), NEW i \in 1 .. Len(seq)
  PROVE  /\ SubSeq(seq, 1, i - 1) \in Seq(S) /\ Len(SubSeq(seq, 1, i - 1)) = i - 1
         /\ \A j \in 1 .. i - 1 : SubSeq(seq, 1, i - 1)[j] = seq[j]
  OBVIOUS
LEMMA CutB ==
  ASSUME NEW S, NEW seq \in Seq(S), NEW i \in 1 .. Len(seq)
  PROVE  /\ SubSeq(seq, i + 1, Len(seq)) \in Seq(S) /\ Len(SubSeq(seq, i + 1, Len(seq))) = Len(seq) - i
         /\ \A j \in 1 .. Len(seq) - i : SubSeq(seq, i + 1, Len(seq))[j] = seq[i + j]
  OBVIOUS
LEMMA Removed ==
  ASSUME NEW S, NEW seq \in Seq(S), NEW i \in 1 .. Len(seq)
  PROVE  LET rest == RemoveAt(seq, i)
         IN  /\ rest \in Seq(S) /\ Len(rest) = Len(seq) - 1 /\ DOMAIN rest = 1 .. Len(seq) - 1
             /\ \A j \in 1 .. Len(seq) - 1 : rest[j] = seq[IF j < i THEN j ELSE j + 1]
<1>1. PICK a \in Seq(S) : a = SubSeq(seq, 1, i - 1) /\ Len(a) = i - 1 /\ \A j \in 1 .. i - 1 : a[j] = seq[j]
  BY CutA, Zenon
<1>b. PICK b : b = SubSeq(seq, i + 1, Len(seq))
  OBVIOUS
<1>2. b \in Seq(S) /\ Len(b) = Len(seq) - i /\ \A j \in 1 .. Len(seq) - i : b[j] = seq[i + j]
  <2>1. /\ SubSeq(seq, i + 1, Len(seq)) \in Seq(S) /\ Len(SubSeq(seq, i + 1, Len(seq))) = Len(seq) - i
         /\ \A j \in 1 .. Len(seq) - i : SubSeq(seq, i + 1, Len(seq))[j] = seq[i + j]
     BY CutB
  <2> QED BY <1>b, <2>1, Zenon
<1>3. RemoveAt(seq, i) = a \o b
  BY <1>1, <1>b DEF RemoveAt
<1>4. /\ a \o b \in Seq(S) /\ Len(a \o b) = Len(a) + Len(b)
      /\ \A j \in 1 .. Len(a) + Len(b) : (a \o b)[j] = IF j <= Len(a) THEN a[j] ELSE b[j - Len(a)]
  BY <1>2, ConcatProperties, Zenon
<1>5. PICK c : c = a \o b
  OBVIOUS
<1>6. /\ c \in Seq(S) /\ Len(c) = Len(a) + Len(b)
      /\ \A j \in 1 .. Len(a) + Len(b) : c[j] = IF j <= Len(a) THEN a[j] ELSE b[j - Len(a)]
  BY <1>4, <1>5, Zenon
<1>7. c \in Seq(S) /\ Len(c) = Len(seq) - 1 /\ DOMAIN c = 1 .. Len(seq) - 1
  <2>1. Len(a) = i - 1 /\ Len(b) = Len(seq) - i
   BY <1>1, <1>2
  <2> QED
  BY <1>6, <2>1
<1>8. ASSUME NEW j \in 1 .. Len(seq) - 1 PROVE c[j] = seq[IF j < i THEN j ELSE j + 1]
  <2>1. Len(a) = i - 1 /\ Len(b) = Len(seq) - i /\ Len(seq) \in Nat
   BY <1>1, <1>2
  <2>2. c[j] = IF j <= Len(a) THEN a[j] ELSE b[j - Len(a)]
    BY <1>6, <2>1
  <2>3. CASE j < i
    BY <1>1, <2>1, <2>2, <2>3
  <2>4. CASE ~(j < i)
    <3>1. j - (i - 1) \in 1 .. Len(seq) - i /\ i + (j - (i-1)) = j + 1
      BY <2>1, <2>4
    <3> QED BY <1>2, <2>1, <2>2, <2>4, <3>1
  <2> QED BY <2>3, <2>4
<1> QED BY <1>3, <1>5, <1>7, <1>8, Zenon

LEMMA Inserted ==
  ASSUME NEW S, NEW seq \in Seq(S), NEW i \in 1 .. Len(seq) + 1, NEW e \in S
  PROVE  LET more == InsertAt(seq, i, e)
         IN  /\ more \in Seq(S) /\ Len(more) = Len(seq) + 1 /\ DOMAIN more = 1 .. Len(seq) + 1
             /\ \A j \in 1 .. Len(seq) + 1 :
                  more[j] = IF j < i THEN seq[j] ELSE IF j = i THEN e ELSE seq[j - 1]
<1>a. PICK a : a = SubSeq(seq, 1, i - 1)
  OBVIOUS
<1>1. a \in Seq(S) /\ Len(a) = i - 1 /\ \A j \in 1 .. i - 1 : a[j] = seq[j]
  <2>1. /\ SubSeq(seq, 1, i - 1) \in Seq(S) /\ Len(SubSeq(seq, 1, i - 1)) = i - 1
        /\ \A j \in 1 .. i - 1 : SubSeq(seq, 1, i - 1)[j] = seq[j]
    OBVIOUS
  <2> QED BY <1>a, <2>1, Zenon
<1>b. PICK b : b = SubSeq(seq, i, Len(seq))
  OBVIOUS
<1>2. /\ b \in Seq(S) /\ Len(b) = Len(seq) - i + 1
      /\ \A j \in 1 .. Len(seq) - i + 1 : b[j] = seq[i + j - 1]
  <2>1. /\ SubSeq(seq, i, Len(seq)) \in Seq(S) /\ Len(SubSeq(seq, i, Len(seq))) = Len(seq) - i + 1
        /\ \A j \in 1 .. Len(seq) - i + 1 : SubSeq(seq, i, Len(seq))[j] = seq[i + j - 1]
    OBVIOUS
  <2> QED BY <1>b, <2>1, Zenon
<1>c. PICK c : c = Append(a, e)
  OBVIOUS
<1>3. c \in Seq(S) /\ Len(c) = i /\ c[i] = e /\ \A j \in 1 .. i - 1 : c[j] = a[j]
  BY <1>1, <1>c
<1>d. PICK d : d = c \o b
  OBVIOUS
<1>4. InsertAt(seq, i, e) = d
  <2>1. a \o <<e>> = c
    BY <1>1, <1>c
  <2> QED BY <1>a, <1>b, <1>d, <2>1, Zenon DEF InsertAt
<1>5. /\ d \in Seq(S) /\ Len(d) = Len(c) + Len(b)
      /\ \A j \in 1 .. Len(c) + Len(b) : d[j] = IF j <= Len(c) THEN c[j] ELSE b[j - Len(c)]
  BY <1>2, <1>3, <1>d, ConcatProperties, Zenon
<1>6. Len(c) = i /\ Len(b) = Len(seq) - i + 1 /\ Len(seq) \in Nat /\ Len(c) + Len(b) = Len(seq) + 1
  BY <1>2, <1>3
<1>7. d \in Seq(S) /\ Len(d) = Len(seq) + 1 /\ DOMAIN d = 1 .. Len(seq) + 1
  BY <1>5, <1>6
<1>8. ASSUME NEW j \in 1 .. Len(seq) + 1
      PROVE  d[j] = IF j < i THEN seq[j] ELSE IF j = i THEN e ELSE seq[j - 1]
  <2>1. d[j] = IF j <= i THEN c[j] ELSE b[j - i]
    BY <1>5, <1>6
  <2>2. CASE j <= i
    BY <1>1, <1>3, <2>1, <2>2
  <2>3. CASE ~(j <= i)
    <3>1. j - i \in 1 .. Len(seq) - i + 1 /\ i + (j - i) - 1 = j - 1 /\ ~(j < i) /\ j # i
      BY <1>6, <2>3
    <3> QED BY <1>2, <2>1, <2>3, <3>1
  <2> QED BY <2>2, <2>3
<1> QED BY <1>4, <1>7, <1>8, Zenon

LEMMA Picked ==
  ASSUME NEW S, NEW seq \in Seq(S), NEW I \in SUBSET DOMAIN seq
  PROVE  LET part == AtIndices(seq, I)
         IN  /\ part \in Seq(S) /\ DOMAIN part = 1 .. Cardinality(I) /\ Cardinality(I) \in Nat
             /\ \A k \in DOMAIN part : \E i \in I : part[k] = seq[i]
             /\ \A i \in I : \E k \in DOMAIN part : part[k] = seq[i]
             /\ IsInjective(seq) => IsInjective(part)
<1> DEFINE Below(i) == {j \in I : j <= i}
           rank == [i \in I |-> Cardinality(Below(i))]
           n == Cardinality(I)
<1>1. IsFiniteSet(I) /\ n \in Nat /\ I \subseteq Nat
  <2>1. I \in SUBSET (1 .. Len(seq)) /\ Len(seq) \in Nat
    OBVIOUS
  <2>2. IsFiniteSet(1 .. Len(seq))
    BY <2>1, FS_Interval
  <2> QED
    BY <2>1, <2>2, FS_Subset, FS_CardinalityType
<1>2. ASSUME NEW i \in I
      PROVE  IsFiniteSet(Below(i)) /\ Cardinality(Below(i)) \in 1 .. n
  <2>1. Below(i) \in SUBSET I /\ {i} \in SUBSET Below(i)
    BY <1>1
  <2>2. IsFiniteSet(Below(i)) /\ Cardinality(Below(i)) <= n
    BY <1>1, <2>1, FS_Subset
  <2>3. Cardinality({i}) <= Cardinality(Below(i)) /\ Cardinality({i}) = 1
    BY <2>1, <2>2, FS_Subset, FS_Singleton
  <2> QED
    BY <1>1, <2>2, <2>3, FS_CardinalityType
<1>3. ASSUME NEW i \in I, NEW j \in I, i < j
      PROVE  Cardinality(Below(i)) # Cardinality(Below(j))
  <2>1. Below(i) \in SUBSET Below(j) /\ j \in Below(j) /\ j \notin Below(i)
    BY <1>1, <1>3
  <2> QED
    BY <1>2, <2>1, FS_Subset
<1>4. rank \in Injection(I, 1 .. n)
  <2>1. rank \in [I -> 1 .. n]
    BY <1>2
  <2>2. ASSUME NEW i \in I, NEW j \in I, rank[i] = rank[j] PROVE i = j
    <3> HIDE DEF Below
    <3>1. i \in Nat /\ j \in Nat /\ ~(i < j) /\ ~(j < i)
      BY <1>1, <1>3, <2>2
    <3> QED BY <3>1
  <2> QED BY <2>1, <2>2 DEF Injection, IsInjective
<1>5. rank \in Surjection(I, 1 .. n)
  <2>1. IsFiniteSet(1 .. n) /\ Cardinality(1 .. n) = n
    BY <1>1, FS_Interval
  <2> QED
    BY <1>4, <2>1, FS_Injection
<1> DEFINE Chosen(k) == CHOOSE i \in I : Cardinality(Below(i)) = k
<1>6. \A k \in 1 .. n : Chosen(k) \in I /\ Cardinality(Below(Chosen(k))) = k
  BY <1>5 DEF Surjection
<1>7. \A i \in I : \E k \in 1 .. n : Chosen(k) = i
  <2> TAKE i \in I
  <2>1. PICK k \in 1 .. n : k = Cardinality(Below(i))
    BY <1>2
  <2>2. Chosen(k) \in I /\ Cardinality(Below(Chosen(k))) = Cardinality(Below(i))
    BY <1>6, <2>1
  <2> HIDE DEF Chosen, Below
  <2>3. Chosen(k) = i
    BY <1>1, <1>3, <2>2
  <2> QED
    BY <2>3
<1>8. PICK part : part = AtIndices(seq, I)
  OBVIOUS
<1>9. DOMAIN part = 1 .. n /\ \A k \in 1 .. n : part[k] = seq[Chosen(k)]
  BY <1>8 DEF AtIndices
<1> HIDE DEF Chosen, n
<1>10. part \in Seq(S)
  <2>1. part = [k \in 1 .. n |-> seq[Chosen(k)]]
    BY <1>8 DEF AtIndices, n, Chosen
  <2>2. \A k \in 1 .. n : seq[Chosen(k)] \in S
    <3>1. \A i \in DOMAIN seq : seq[i] \in S
      OBVIOUS
    <3> QED BY <1>6, <3>1
  <2> QED BY <1>1, <2>1, <2>2, IsASeq
<1>11. ASSUME IsInjective(seq) PROVE IsInjective(part)
  <2>1. ASSUME NEW k \in 1 .. n, NEW l \in 1 .. n, part[k] = part[l] PROVE k = l
    <3>1. Chosen(k) = Chosen(l)
      BY <1>6, <1>9, <1>11, <2>1 DEF IsInjective
    <3> QED
      BY <1>6, <3>1
  <2> QED
    BY <1>9, <2>1 DEF IsInjective
<1>12. /\ \A k \in 1 .. n : \E i \in I : part[k] = seq[i]
       /\ \A i \in I : \E k \in 1 .. n : part[k] = seq[i]
  BY <1>6, <1>7, <1>9
<1> QED
  BY <1>1, <1>8, <1>9, <1>10, <1>11, <1>12 DEF n

LEMMA IndexFound ==
  ASSUME NEW seq, NEW e \in ToSet(seq)
  PROVE  IndexIn(seq, e) \in DOMAIN seq /\ seq[IndexIn(seq, e)] = e
  BY DEF ToSet, IndexIn

LEMMA WithoutAt ==
  ASSUME NEW S, NEW seq \in Seq(S), IsInjective(seq), NEW i \in 1 .. Len(seq)
  PROVE  LET rest == RemoveAt(seq, i)
         IN  IsInjective(rest) /\ ToSet(rest) = ToSet(seq) \ {seq[i]}
<1>1. PICK rest : rest = RemoveAt(seq, i)
  OBVIOUS
<1>0. Len(seq) \in Nat /\ DOMAIN seq = 1 .. Len(seq)
  OBVIOUS
<1>2. /\ DOMAIN rest = 1 .. Len(seq) - 1 /\ Len(seq) \in Nat /\ DOMAIN seq = 1 .. Len(seq)
      /\ \A j \in 1 .. Len(seq) - 1 : rest[j] = seq[IF j < i THEN j ELSE j + 1]
  BY <1>0, <1>1, Removed, Zenon
<1>3. ASSUME NEW j \in DOMAIN rest PROVE rest[j] \in ToSet(seq) /\ rest[j] # seq[i]
  <2>1. PICK k \in DOMAIN seq : rest[j] = seq[k] /\ k # i
    BY <1>2
  <2> QED
    BY <1>2, <2>1 DEF ToSet, IsInjective
<1>4. ASSUME NEW k \in DOMAIN seq, k # i PROVE \E j \in DOMAIN rest : rest[j] = seq[k]
  <2>1. CASE k < i
    BY <1>2, <2>1
  <2>2. CASE k > i
    <3>1. k - 1 \in DOMAIN rest /\ ~(k - 1 < i) /\ (k - 1) + 1 = k
      BY <1>2, <2>2
    <3>2. rest[k - 1] = seq[k]
      BY <1>2, <3>1
    <3> QED
      BY <3>1, <3>2
  <2> QED
    BY <1>2, <1>4, <2>1, <2>2
<1>5. ToSet(rest) = ToSet(seq) \ {seq[i]}
  BY <1>3, <1>4 DEF ToSet
<1>6. ASSUME NEW j \in DOMAIN rest, NEW k \in DOMAIN rest, rest[j] = rest[k] PROVE j = k
  <2>1. /\ (IF j < i THEN j ELSE j + 1) \in DOMAIN seq
        /\ (IF k < i THEN k ELSE k + 1) \in DOMAIN seq
    BY <1>2
  <2>2. (IF j < i THEN j ELSE j + 1) = (IF k < i THEN k ELSE k + 1)
    BY <1>2, <1>6, <2>1 DEF IsInjective
  <2> QED
    BY <1>2, <2>2
<1> QED
  BY <1>1, <1>5, <1>6 DEF IsInjective

LEMMA WithAt ==
  ASSUME NEW S, NEW seq \in Seq(S), IsInjective(seq), NEW i \in 1 .. Len(seq) + 1,
         NEW e \in S, e \notin ToSet(seq)
  PROVE  LET more == InsertAt(seq, i, e)
         IN  IsInjective(more) /\ ToSet(more) = ToSet(seq) \cup {e}
<1>1. PICK more :
        /\ more = InsertAt(seq, i, e)
        /\ DOMAIN more = 1 .. Len(seq) + 1
        /\ \A j \in 1 .. Len(seq) + 1 :
             more[j] = IF j < i THEN seq[j] ELSE IF j = i THEN e ELSE seq[j - 1]
  <2>1. /\ DOMAIN InsertAt(seq, i, e) = 1 .. Len(seq) + 1
        /\ \A j \in 1 .. Len(seq) + 1 :
             InsertAt(seq, i, e)[j] = IF j < i THEN seq[j] ELSE IF j = i THEN e ELSE seq[j - 1]
    BY Inserted
  <2> QED
    BY <2>1, Zenon
<1>2. /\ DOMAIN more = 1 .. Len(seq) + 1 /\ Len(seq) \in Nat /\ DOMAIN seq = 1 .. Len(seq)
      /\ \A j \in 1 .. Len(seq) + 1 :
           more[j] = IF j < i THEN seq[j] ELSE IF j = i THEN e ELSE seq[j - 1]
  BY <1>1
<1>3. ASSUME NEW j \in DOMAIN more, j # i
      PROVE  (IF j < i THEN j ELSE j - 1) \in DOMAIN seq /\ more[j] = seq[IF j < i THEN j ELSE j - 1]
  BY <1>2, <1>3
<1>4. i \in DOMAIN more /\ more[i] = e
  BY <1>2
<1>5. ASSUME NEW k \in DOMAIN seq PROVE \E j \in DOMAIN more : more[j] = seq[k]
  <2>1. CASE k < i
    BY <1>2, <2>1
  <2>2. CASE k >= i
    <3>1. k + 1 \in DOMAIN more /\ k + 1 # i /\ ~(k + 1 < i) /\ (k + 1) - 1 = k
      BY <1>2, <2>2
    <3>2. more[k + 1] = seq[k]
      BY <1>2, <3>1
    <3> QED
      BY <3>1, <3>2
  <2> QED
    BY <1>2, <2>1, <2>2
<1>6. ToSet(more) = ToSet(seq) \cup {e}
  BY <1>3, <1>4, <1>5 DEF ToSet
<1>7. ASSUME NEW j \in DOMAIN more, NEW k \in DOMAIN more, more[j] = more[k] PROVE j = k
  <2>1. CASE j = i \/ k = i
    BY <1>3, <1>4, <1>7, <2>1 DEF ToSet
  <2>2. CASE j # i /\ k # i
    <3>1. (IF j < i THEN j ELSE j - 1) = (IF k < i THEN k ELSE k - 1)
      BY <1>3, <1>7, <2>2 DEF IsInjective
    <3> QED
      BY <1>2, <2>2, <3>1
  <2> QED
    BY <2>1, <2>2
<1> QED
  BY <1>1, <1>6, <1>7 DEF IsInjective

LEMMA Dropped ==
  ASSUME NEW S, NEW seq \in Seq(S), IsInjective(seq), NEW e \in ToSet(seq)
  PROVE  /\ Drop(seq, e) \in Seq(S) /\ IsInjective(Drop(seq, e))
         /\ ToSet(Drop(seq, e)) = ToSet(seq) \ {e}
         /\ Len(Drop(seq, e)) = Len(seq) - 1
<1>1. PICK i \in 1 .. Len(seq) : i = IndexIn(seq, e) /\ seq[i] = e
  BY IndexFound
<1> QED
  BY <1>1, Removed, WithoutAt DEF Drop

LEMMA PlacedIn ==
  ASSUME NEW S, NEW seq \in Seq(S), IsInjective(seq),
         NEW s \in S, s \notin ToSet(seq), NEW target \in ToSet(seq), NEW position
  PROVE  /\ Placed(seq, s, target, position) \in Seq(S)
         /\ IsInjective(Placed(seq, s, target, position))
         /\ ToSet(Placed(seq, s, target, position)) = ToSet(seq) \cup {s}
<1>1. PICK i \in 1 .. Len(seq) + 1 :
        i = IndexIn(seq, target) + (IF position = "after" THEN 1 ELSE 0)
  BY IndexFound
<1> QED
  BY <1>1, Inserted, WithAt DEF Placed

-----------------------------------------------------------------------------
(* What AttentionExact rests on.  ListInv: the order lists each workspace  *)
(* once, and every surface belongs to a listed one.  NotesInv: what a      *)
(* notification says of a surface that exists is where it is; no surface   *)
(* or workspace comes to exist that an old notification names.  FlagsInv:  *)
(* the flags, pointwise.  PlanInv: what the holder of the surface-set      *)
(* guard has made is still there, so that it may be undone.                *)
Note == [workspace : Workspaces \cup {NoWorkspace}, surface : Surfaces \cup {NoSurface},
         read : BOOLEAN, prompt : BOOLEAN]

ListInv ==
  /\ order \in Seq(Workspaces) /\ IsInjective(order)
  /\ home \in [Surfaces -> Listed \cup {NoWorkspace}]

NotesInv ==
  /\ notifications \in Seq(Note)
  /\ \A i \in DOMAIN notifications :
       notifications[i].surface \in Live => notifications[i].workspace = home[notifications[i].surface]

Marked(w) == (\E s \in unread : home[s] = w) \/ w \in ForWorkspace(notifications)
Orphaned(w) ==
  \E n \in Pending(notifications) : n.workspace = w /\ n.surface \notin Live \cup {NoSurface}

FlagsInv ==
  /\ output \subseteq Live
  /\ \A s : s \in noted <=> s \in Live /\ s \in ForSurface(notifications)
  /\ unread = output \cup noted
  /\ attention \subseteq Listed
  /\ \A w \in Listed : Marked(w) => w \in attention
  /\ \A w \in attention : Marked(w) \/ Orphaned(w)

Made == transaction.kind \in {"create workspace", "replace"}
PlanInv ==
  /\ transaction.kind = "create surface" =>
       transaction.surface \in Live /\ home[transaction.surface] = transaction.workspace
  /\ Made => transaction.workspace \in Listed
  /\ transaction = Idle \/ transaction.kind # "none"

MarkInv == ListInv /\ NotesInv /\ FlagsInv /\ PlanInv

-----------------------------------------------------------------------------
LEMMA PendingIs ==
  ASSUME NEW notes
  PROVE  /\ \A n : n \in Pending(notes) <=> \E i \in DOMAIN notes : n = notes[i] /\ ~notes[i].read
         /\ \A s : s \in ForSurface(notes) <=> \E n \in Pending(notes) : n.surface = s
         /\ \A w : w \in ForWorkspace(notes) <=>
                     \E n \in Pending(notes) : n.surface = NoSurface /\ n.workspace = w
<1>1. \A n : n \in Pending(notes) <=> \E i \in DOMAIN notes : n = notes[i] /\ ~notes[i].read
  BY DEF Pending
<1> QED
  BY <1>1 DEF ForSurface, ForWorkspace

LEMMA RecountedIs ==
  ASSUME NEW w, NEW flags, NEW v
  PROVE  v \in Recount(w, flags) <=>
           IF v = w THEN Marked(w)' /\ (w \in flags \/ w \in Listed') ELSE v \in flags
  BY DEF Recount, Marked

(* Steps that change neither the list nor the marks.                       *)
LEMMA NothingMarked ==
  ASSUME MarkInv, UNCHANGED <<order, home, activity>>
  PROVE  ListInv' /\ NotesInv' /\ FlagsInv'
  BY DEF MarkInv, ListInv, NotesInv, FlagsInv, activity, Listed, Live, Marked, Orphaned

(* Where the workspaces stand in the order matters to no mark.             *)
LEMMA Reordered ==
  ASSUME MarkInv, UNCHANGED <<home, activity>>,
         order' \in Seq(Workspaces), IsInjective(order'), ToSet(order') = ToSet(order)
  PROVE  ListInv' /\ NotesInv' /\ FlagsInv'
  BY DEF MarkInv, ListInv, NotesInv, FlagsInv, activity, Listed, Live, Marked, Orphaned

LEMMA SurfaceAdded ==
  ASSUME MarkInv, UNCHANGED <<order, activity>>, NEW s \in Surfaces, Free(s), NEW w \in Listed,
         home' = [home EXCEPT ![s] = w]
  PROVE  /\ ListInv' /\ NotesInv' /\ FlagsInv'
         /\ s \in Live' /\ home'[s] = w /\ Listed' = Listed
<1>1. /\ \A x \in Surfaces : home'[x] = IF x = s THEN w ELSE home[x]
      /\ w # NoWorkspace /\ s \notin Live /\ \A i \in DOMAIN notifications : notifications[i].surface # s
      /\ Listed' = Listed /\ notifications' = notifications
  BY NoIdAssumption DEF MarkInv, ListInv, Free, activity, Listed, ToSet
<1>2. Live' = Live \cup {s}
  BY <1>1 DEF Live
<1>3. ListInv'
  BY <1>1 DEF MarkInv, ListInv
<1>4. NotesInv'
  BY <1>1, <1>2 DEF MarkInv, NotesInv, Live
<1>5. s \notin unread /\ unread \subseteq Live /\ unread' = unread
  BY <1>1 DEF MarkInv, FlagsInv, activity
<1>6. \A v : Marked(v)' <=> Marked(v)
  BY <1>1, <1>5 DEF Marked, Live
<1>7. \A v : Orphaned(v)' <=> Orphaned(v)
  <2>1. \A n \in Pending(notifications) : n.surface # s
    BY <1>1, PendingIs
  <2> QED
    BY <1>1, <1>2, <2>1 DEF Orphaned
<1>8. \A x : x \in noted' <=> x \in Live' /\ x \in ForSurface(notifications')
  <2>1. s \notin ForSurface(notifications)
    BY <1>1, PendingIs
  <2> QED
    BY <1>1, <1>2, <2>1 DEF MarkInv, FlagsInv, activity
<1>9. FlagsInv'
  BY <1>1, <1>2, <1>6, <1>7, <1>8 DEF MarkInv, FlagsInv, activity
<1> QED
  BY <1>1, <1>2, <1>3, <1>4, <1>9

LEMMA Appended ==
  ASSUME NEW S, NEW seq \in Seq(S), IsInjective(seq), NEW e \in S, e \notin ToSet(seq)
  PROVE  /\ Append(seq, e) \in Seq(S) /\ IsInjective(Append(seq, e))
         /\ ToSet(Append(seq, e)) = ToSet(seq) \cup {e}
<1>1. PICK more : more = Append(seq, e)
  OBVIOUS
<1>2. /\ more \in Seq(S) /\ DOMAIN more = 1 .. Len(seq) + 1 /\ Len(seq) \in Nat
      /\ DOMAIN seq = 1 .. Len(seq) /\ more[Len(seq) + 1] = e
      /\ \A i \in 1 .. Len(seq) : more[i] = seq[i]
  BY <1>1
<1>3. ToSet(more) = ToSet(seq) \cup {e}
  <2>1. \A i \in DOMAIN more : more[i] \in ToSet(seq) \cup {e}
    BY <1>2 DEF ToSet
  <2>2. \A i \in DOMAIN seq : i \in DOMAIN more /\ more[i] = seq[i]
    BY <1>2
  <2>3. Len(seq) + 1 \in DOMAIN more
    BY <1>2
  <2> QED
    BY <1>2, <2>1, <2>2, <2>3 DEF ToSet
<1>4. ASSUME NEW i \in DOMAIN more, NEW j \in DOMAIN more, more[i] = more[j] PROVE i = j
  BY <1>2, <1>4 DEF ToSet, IsInjective
<1> QED
  BY <1>1, <1>2, <1>3, <1>4 DEF IsInjective

LEMMA WorkspaceAdded ==
  ASSUME MarkInv, UNCHANGED activity, NEW s \in Surfaces, Free(s),
         NEW w \in Workspaces, FreeWorkspace(w),
         order' = Append(order, w), home' = [home EXCEPT ![s] = w]
  PROVE  ListInv' /\ NotesInv' /\ FlagsInv' /\ w \in Listed' /\ Listed' = Listed \cup {w}
<1>1. /\ \A x \in Surfaces : home'[x] = IF x = s THEN w ELSE home[x]
      /\ w # NoWorkspace /\ s \notin Live /\ \A i \in DOMAIN notifications : notifications[i].surface # s
      /\ w \notin Listed /\ \A i \in DOMAIN notifications : notifications[i].workspace # w
      /\ notifications' = notifications
  BY NoIdAssumption DEF MarkInv, ListInv, Free, FreeWorkspace, activity
<1>2. /\ order' \in Seq(Workspaces) /\ IsInjective(order') /\ Listed' = Listed \cup {w}
  BY <1>1, Appended DEF MarkInv, ListInv, Listed
<1>3. Live' = Live \cup {s}
  BY <1>1 DEF Live
<1>4. ListInv'
  BY <1>1, <1>2 DEF MarkInv, ListInv
<1>5. NotesInv'
  BY <1>1, <1>3 DEF MarkInv, NotesInv, Live
<1>6. s \notin unread /\ unread \subseteq Live /\ unread' = unread
  BY <1>1 DEF MarkInv, FlagsInv, activity
<1>7. \A v \in Workspaces \ {w} : Marked(v)' <=> Marked(v)
  BY <1>1, <1>6 DEF Marked, Live
<1>8. ~Marked(w)'
  <2>1. w \notin ForWorkspace(notifications)
    BY <1>1, PendingIs
  <2>2. \A x \in unread : home'[x] # w
    BY <1>1, <1>6 DEF MarkInv, ListInv, Live
  <2> QED
    BY <1>1, <1>6, <2>1, <2>2 DEF Marked
<1>9. \A v : Orphaned(v)' <=> Orphaned(v)
  <2>1. \A n \in Pending(notifications) : n.surface # s
    BY <1>1, PendingIs
  <2> QED
    BY <1>1, <1>3, <2>1 DEF Orphaned
<1>10. \A x : x \in noted' <=> x \in Live' /\ x \in ForSurface(notifications')
  <2>1. s \notin ForSurface(notifications)
    BY <1>1, PendingIs
  <2> QED
    BY <1>1, <1>3, <2>1 DEF MarkInv, FlagsInv, activity
<1>11. Listed \subseteq Workspaces
  BY DEF MarkInv, ListInv, Listed, ToSet
<1>12. FlagsInv'
  BY <1>1, <1>2, <1>3, <1>7, <1>8, <1>9, <1>10, <1>11 DEF MarkInv, FlagsInv, activity
<1> QED
  BY <1>2, <1>4, <1>5, <1>12

(* A surface goes, and with it what marks it; r takes its place, unless r  *)
(* is s.                                                                   *)
LEMMA SurfaceGone ==
  ASSUME MarkInv, UNCHANGED <<order, notifications>>,
         NEW s \in Live, NEW r \in Surfaces, r = s \/ Free(r), NEW w, w = home[s],
         home' \in [Surfaces -> Workspaces \cup {NoWorkspace}],
         \A x \in Surfaces : home'[x] = IF x = s THEN NoWorkspace ELSE IF x = r THEN w ELSE home[x],
         DropSurfaces({s}), attention' = Recount(w, attention)
  PROVE  ListInv' /\ NotesInv' /\ FlagsInv' /\ Listed' = Listed
<1>1. /\ w \in Listed /\ w # NoWorkspace /\ s \in Surfaces /\ Listed' = Listed
      /\ r # s => r \notin Live /\ \A i \in DOMAIN notifications : notifications[i].surface # r
  BY DEF MarkInv, ListInv, Live, Listed, Free
<1>2. Live' = (Live \ {s}) \cup ({r} \ {s})
  BY <1>1 DEF Live
<1>3. ListInv'
  BY <1>1 DEF MarkInv, ListInv
<1>4. NotesInv'
  BY <1>1, <1>2 DEF MarkInv, NotesInv, Live
<1>5. /\ unread \subseteq Live /\ unread' = unread \ {s}
      /\ r # s => r \notin unread
      /\ output' = output \ {s} /\ noted' = noted \ {s}
  BY <1>1 DEF MarkInv, FlagsInv, DropSurfaces
<1>6. \A v : v # w => (Marked(v)' <=> Marked(v))
  BY <1>1, <1>5 DEF Marked, Live
<1>7. \A v : Orphaned(v) => Orphaned(v)'
  <2>1. \A n \in Pending(notifications) : n.surface = r => n.surface = s
    BY <1>1, PendingIs
  <2> QED
    BY <1>1, <1>2, <2>1 DEF Orphaned
<1>8. \A x : x \in noted' <=> x \in Live' /\ x \in ForSurface(notifications')
  <2>1. r # s => r \notin ForSurface(notifications)
    BY <1>1, PendingIs
  <2> QED
    BY <1>1, <1>2, <1>5, <2>1 DEF MarkInv, FlagsInv
<1>9. \A v : v \in attention' <=> IF v = w THEN Marked(w)' ELSE v \in attention
  <2>1. w \in Listed'
    BY <1>1
  <2> QED
    BY <2>1, RecountedIs
<1>10. FlagsInv'
  <2>1. output' \subseteq Live' /\ unread' = output' \cup noted' /\ attention' \subseteq Listed'
    BY <1>1, <1>2, <1>5, <1>9 DEF MarkInv, FlagsInv
  <2>2. \A v \in Listed' : Marked(v)' => v \in attention'
    BY <1>1, <1>6, <1>9 DEF MarkInv, FlagsInv
  <2>3. \A v \in attention' : Marked(v)' \/ Orphaned(v)'
    BY <1>1, <1>6, <1>7, <1>9 DEF MarkInv, FlagsInv
  <2> QED
    BY <1>8, <2>1, <2>2, <2>3 DEF FlagsInv
<1> QED
  BY <1>1, <1>3, <1>4, <1>10

LEMMA WorkspaceGone ==
  ASSUME MarkInv, NEW w \in Listed, RemoveWorkspace(w), DropSurfaces(SurfacesOf(w)),
         attention' = attention \ {w}, UNCHANGED notifications
  PROVE  ListInv' /\ NotesInv' /\ FlagsInv' /\ Listed' = Listed \ {w}
<1>1. /\ order' \in Seq(Workspaces) /\ IsInjective(order') /\ Listed' = Listed \ {w}
  BY Dropped DEF MarkInv, ListInv, Listed, RemoveWorkspace
<1>2. /\ home' = [s \in Surfaces |-> IF home[s] = w THEN NoWorkspace ELSE home[s]]
      /\ w # NoWorkspace /\ Live \subseteq Surfaces
  BY NoIdAssumption DEF RemoveWorkspace, MarkInv, ListInv, Listed, ToSet, Live
<1>3. \A s \in Surfaces : s \in Live' <=> s \in Live /\ home[s] # w
  BY <1>2 DEF Live
<1>4. ListInv'
  BY <1>1, <1>2 DEF MarkInv, ListInv
<1>5. NotesInv'
  BY <1>2, <1>3 DEF MarkInv, NotesInv, Live
<1>6. /\ unread \subseteq Live
      /\ \A s : s \in unread' <=> s \in unread /\ home[s] # w
      /\ \A s : s \in output' <=> s \in output /\ home[s] # w
      /\ \A s : s \in noted' <=> s \in noted /\ home[s] # w
  BY <1>2 DEF MarkInv, FlagsInv, DropSurfaces, SurfacesOf
<1>7. \A v : v # w => (Marked(v)' <=> Marked(v))
  BY <1>2, <1>6 DEF Marked
<1>8. \A v : v # w /\ Orphaned(v) => Orphaned(v)'
  BY <1>2, <1>3 DEF Orphaned, Live
<1>9. FlagsInv'
  <2>1. output' \subseteq Live' /\ unread' = output' \cup noted' /\ attention' \subseteq Listed'
    BY <1>1, <1>2, <1>3, <1>6 DEF MarkInv, FlagsInv
  <2>2. \A s : s \in noted' <=> s \in Live' /\ s \in ForSurface(notifications')
    BY <1>2, <1>3, <1>6 DEF MarkInv, FlagsInv, Live
  <2>3. \A v \in Listed' : Marked(v)' => v \in attention'
    BY <1>1, <1>7 DEF MarkInv, FlagsInv
  <2>4. \A v \in attention' : Marked(v)' \/ Orphaned(v)'
    BY <1>7, <1>8 DEF MarkInv, FlagsInv
  <2> QED
    BY <2>1, <2>2, <2>3, <2>4 DEF FlagsInv
<1> QED
  BY <1>1, <1>4, <1>5, <1>9

-----------------------------------------------------------------------------
(* What is saved of a workspace, and how a launch finds it again.          *)
Saved(w) == [id |-> w, active |-> w \in active, tree |-> tree[w],
             focus |-> Normalised(w), worktree |-> worktree[w]]

LEMMA SavedIs ==
  ASSUME order \in Seq(Workspaces), IsInjective(order), NEW data, data = ToSessionData
  PROVE  /\ Ids(data) = order
         /\ \A i \in DOMAIN data.workspaces : i \in DOMAIN order /\ data.workspaces[i] = Saved(order[i])
         /\ DOMAIN data.workspaces = DOMAIN order
         /\ ToSet(data.workspaces) = {Saved(w) : w \in Listed}
         /\ \A w \in Listed : Entry(data, w) = Saved(w)
         /\ data.activeId = ActiveId
         /\ data.surfaces = {[id |-> s, workspace |-> home[s]] : s \in Live}
<1>1. /\ data.workspaces = [i \in DOMAIN order |-> Saved(order[i])]
      /\ data.activeId = ActiveId
      /\ data.surfaces = {[id |-> s, workspace |-> home[s]] : s \in Live}
  BY DEF ToSessionData, Saved
<1>2. DOMAIN data.workspaces = DOMAIN order /\ \A i \in DOMAIN order : data.workspaces[i] = Saved(order[i])
  BY <1>1
<1>3. \A w : Saved(w).id = w
  BY DEF Saved
<1> HIDE DEF Saved
<1>4. Ids(data) = order
  <2>1. Ids(data) = [i \in DOMAIN order |-> order[i]]
    BY <1>2, <1>3 DEF Ids
  <2> QED
    BY <2>1
<1>5. ToSet(data.workspaces) = {Saved(w) : w \in Listed}
  BY <1>2 DEF ToSet, Listed
<1>6. \A w \in Listed : Entry(data, w) = Saved(w)
  BY <1>3, <1>5 DEF Entry
<1> QED
  BY <1>1, <1>2, <1>4, <1>5, <1>6

LEMMA RestartMarks ==
  ASSUME MarkInv, Restart
  PROVE  ListInv' /\ NotesInv' /\ FlagsInv'
<1>1. PICK data : data = ToSessionData
  OBVIOUS
<1>2. /\ Ids(data) = order /\ \A w \in Listed : Entry(data, w) = Saved(w)
      /\ ToSet(data.workspaces) = {Saved(w) : w \in Listed}
  BY <1>1, SavedIs DEF MarkInv, ListInv
<1>3. \A w : Saved(w).tree = tree[w]
  BY DEF Saved
<1>4. /\ order' = order /\ ToSet(Ids(data)) = Listed
      /\ home' = [s \in Surfaces |->
                    IF s \in Leaves(data)
                    THEN CHOOSE w \in Listed : Holds(Entry(data, w).tree, s) ELSE NoWorkspace]
      /\ output' = {} /\ noted' = {} /\ unread' = {} /\ attention' = {}
      /\ notifications' = <<>>
  BY <1>1, <1>2 DEF Restart, Restored, Listed
<1>5. ASSUME NEW s \in Leaves(data)
      PROVE  (CHOOSE w \in Listed : Holds(Entry(data, w).tree, s)) \in Listed
  <2>1. PICK w \in Listed : s \in TabsOf(tree[w])
    BY <1>2, <1>3, <1>5 DEF Leaves
  <2>2. Holds(Entry(data, w).tree, s)
    BY <1>2, <1>3, <2>1 DEF TabsOf, Holds
  <2> QED
    BY <2>1, <2>2
<1>6. ListInv'
  <2>1. Listed' = Listed
    BY <1>4 DEF Listed
  <2>2. home' \in [Surfaces -> Listed \cup {NoWorkspace}]
    BY <1>4, <1>5
  <2> QED
    BY <1>4, <2>1, <2>2 DEF MarkInv, ListInv
<1>7. NotesInv'
  BY <1>4 DEF NotesInv
<1>8. FlagsInv'
  <2>1. \A n : n \notin Pending(notifications')
    BY <1>4, PendingIs
  <2>2. (\A s : s \notin ForSurface(notifications')) /\ \A w : w \notin ForWorkspace(notifications')
    BY <2>1, PendingIs
  <2> QED
    BY <1>4, <2>2 DEF FlagsInv, Marked
<1> QED
  BY <1>6, <1>7, <1>8

LEMMA RepairMarks ==
  ASSUME MarkInv, NEW resolved \in SUBSET Listed, Repair(resolved)
  PROVE  ListInv' /\ NotesInv' /\ FlagsInv' /\ Listed' = Listed \ Losers(resolved)
<1>1. PICK losers, gone, kept, stay :
        /\ losers = Losers(resolved)
        /\ gone = UNION {SurfacesOf(w) : w \in losers}
        /\ kept = {i \in DOMAIN order : order[i] \notin losers}
        /\ stay = {i \in DOMAIN notifications :
                     notifications[i].workspace \notin losers /\ notifications[i].surface \notin gone}
  OBVIOUS
<1>2. /\ order' = AtIndices(order, kept)
      /\ home' = [s \in Surfaces |-> IF s \in gone THEN NoWorkspace ELSE home[s]]
      /\ DropSurfaces(gone)
      /\ attention' = attention \ losers
      /\ notifications' = AtIndices(notifications, stay)
  BY <1>1 DEF Repair
<1>3. losers \subseteq Listed /\ NoWorkspace \notin losers
  <2>1. losers \subseteq resolved
    BY <1>1 DEF Losers
  <2> QED
    BY <2>1, NoIdAssumption DEF Listed, MarkInv, ListInv, ToSet
<1>4. \A s : s \in gone <=> s \in Surfaces /\ home[s] \in losers
  BY <1>1 DEF SurfacesOf
<1>5. /\ order' \in Seq(Workspaces) /\ IsInjective(order')
      /\ \A k \in DOMAIN order' : \E i \in kept : order'[k] = order[i]
      /\ \A i \in kept : \E k \in DOMAIN order' : order'[k] = order[i]
  <2>1. kept \in SUBSET DOMAIN order
    BY <1>1
  <2> QED
    BY <1>2, <2>1, Picked DEF MarkInv, ListInv
<1>6. Listed' = Listed \ losers
  BY <1>1, <1>5 DEF Listed, ToSet
<1>7. ListInv'
  BY <1>2, <1>4, <1>5, <1>6 DEF MarkInv, ListInv
<1>8. Live' = Live \ gone /\ Live \subseteq Surfaces
  BY <1>2 DEF Live
<1>9. /\ notifications' \in Seq(Note)
      /\ \A k \in DOMAIN notifications' : \E i \in stay : notifications'[k] = notifications[i]
      /\ \A i \in stay : \E k \in DOMAIN notifications' : notifications'[k] = notifications[i]
  <2>1. stay \in SUBSET DOMAIN notifications
    BY <1>1
  <2> QED
    BY <1>2, <2>1, Picked DEF MarkInv, NotesInv
<1>10. NotesInv'
  BY <1>1, <1>2, <1>8, <1>9 DEF MarkInv, NotesInv, Live
<1>11. \A n : n \in Pending(notifications') <=>
                n \in Pending(notifications) /\ n.workspace \notin losers /\ n.surface \notin gone
  BY <1>1, <1>9, PendingIs
<1>12. /\ unread \subseteq Live
       /\ \A s : s \in unread' <=> s \in unread /\ s \notin gone
       /\ \A s : s \in output' <=> s \in output /\ s \notin gone
       /\ \A s : s \in noted' <=> s \in noted /\ s \notin gone
  BY <1>2 DEF MarkInv, FlagsInv, DropSurfaces
<1>13. NoSurface \notin gone
  BY <1>4, NoIdAssumption
<1>14. \A v : v \notin losers => (Marked(v)' <=> Marked(v))
  <2>1. \A v : v \notin losers => (v \in ForWorkspace(notifications') <=> v \in ForWorkspace(notifications))
    BY <1>11, <1>13, PendingIs
  <2>2. \A s \in unread' : home'[s] = home[s]
    BY <1>2, <1>8, <1>12
  <2>3. \A s \in unread : home[s] \notin losers => s \in unread'
    BY <1>4, <1>12
  <2> QED
    BY <1>12, <2>1, <2>2, <2>3 DEF Marked
<1>15. \A v : v \notin losers /\ Orphaned(v) => Orphaned(v)'
  <2>1. gone \subseteq Live
    BY <1>3, <1>4 DEF Live
  <2> QED
    BY <1>8, <1>11, <2>1 DEF Orphaned
<1>16. \A s : s \in noted' <=> s \in Live' /\ s \in ForSurface(notifications')
  <2>1. ASSUME NEW s \in Live, s \notin gone, NEW n \in Pending(notifications), n.surface = s
        PROVE  n \in Pending(notifications')
    <3>1. n.workspace = home[s]
      BY <2>1, PendingIs DEF MarkInv, NotesInv
    <3> QED
      BY <1>4, <1>8, <1>11, <2>1, <3>1
  <2> QED
    BY <1>8, <1>11, <1>12, <2>1, PendingIs DEF MarkInv, FlagsInv
<1>17. FlagsInv'
  <2>1. output' \subseteq Live' /\ unread' = output' \cup noted' /\ attention' \subseteq Listed'
    BY <1>2, <1>6, <1>8, <1>12 DEF MarkInv, FlagsInv
  <2>2. \A v \in Listed' : Marked(v)' => v \in attention'
    BY <1>2, <1>6, <1>14 DEF MarkInv, FlagsInv
  <2>3. \A v \in attention' : Marked(v)' \/ Orphaned(v)'
    BY <1>2, <1>14, <1>15 DEF MarkInv, FlagsInv
  <2> QED
    BY <1>16, <2>1, <2>2, <2>3 DEF FlagsInv
<1> QED
  BY <1>1, <1>6, <1>7, <1>10, <1>17

-----------------------------------------------------------------------------
(* Notifications: the flags are counted anew, or marked one by one.        *)
LEMMA NotesNameTheSame ==
  ASSUME MarkInv, UNCHANGED home, notifications' \in Seq(Note),
         \A i \in DOMAIN notifications' : \E j \in DOMAIN notifications :
            /\ notifications'[i].surface = notifications[j].surface
            /\ notifications'[i].workspace = notifications[j].workspace
  PROVE  NotesInv'
  BY DEF MarkInv, NotesInv, Live

LEMMA Edited ==
  ASSUME MarkInv, UNCHANGED <<order, home>>, NEW notes \in Seq(Note), SetNotifications(notes),
         \A i \in DOMAIN notes : \/ notes[i].surface \notin Live
                                 \/ notes[i].workspace = home[notes[i].surface]
  PROVE  ListInv' /\ NotesInv' /\ FlagsInv'
<1>1. /\ Live' = Live /\ Listed' = Listed /\ notifications' = notes /\ output' = output
      /\ noted' = ForSurface(notifications') \cap Live'
      /\ unread' = output' \cup noted'
      /\ attention' = {w \in Listed' : Marked(w)'}
  BY DEF Live, Listed, SetNotifications, RecountAll, Marked
<1>2. ListInv'
  BY <1>1 DEF MarkInv, ListInv
<1>3. NotesInv'
  BY <1>1 DEF NotesInv, Live
<1>4. FlagsInv'
  <2>1. output' \subseteq Live'
    BY <1>1 DEF MarkInv, FlagsInv
  <2>3. /\ \A w \in Listed' : Marked(w)' => w \in attention'
        /\ \A w \in attention' : Marked(w)' /\ w \in Listed'
    BY <1>1
  <2>4. \A s : s \in noted' <=> s \in Live' /\ s \in ForSurface(notifications')
    BY <1>1
  <2> QED
    BY <1>1, <2>1, <2>3, <2>4 DEF FlagsInv
<1> QED
  BY <1>2, <1>3, <1>4

LEMMA Added ==
  ASSUME MarkInv, UNCHANGED <<order, home>>, NEW n \in Note, ~n.read,
         n.surface \in Live => n.workspace = home[n.surface],
         notifications' \in Seq(Note),
         \A i \in DOMAIN notifications' :
           \/ notifications'[i] = n
           \/ \E j \in DOMAIN notifications : notifications'[i] = notifications[j],
         \A m : m \in Pending(notifications') <=> m \in Pending(notifications) \/ m = n,
         MarkTarget(n.workspace, n.surface)
  PROVE  ListInv' /\ NotesInv' /\ FlagsInv'
<1>1. Live' = Live /\ Listed' = Listed /\ home' = home /\ output' = output
  BY DEF Live, Listed, MarkTarget
<1>2. ListInv'
  BY <1>1 DEF MarkInv, ListInv
<1>3. NotesInv'
  BY <1>1 DEF MarkInv, NotesInv
<1>4. /\ \A s : s \in ForSurface(notifications') <=> s \in ForSurface(notifications) \/ s = n.surface
      /\ \A v : v \in ForWorkspace(notifications') <=>
                  \/ v \in ForWorkspace(notifications)
                  \/ n.surface = NoSurface /\ v = n.workspace
  BY PendingIs
<1>5. /\ \A s : s \in noted' <=> s \in noted \/ (s = n.surface /\ s \in Live)
      /\ \A s : s \in unread' <=> s \in unread \/ (s = n.surface /\ s \in Live)
  BY DEF MarkTarget
<1>6. \A v : Marked(v)' <=> \/ Marked(v)
                            \/ n.surface \in Live /\ home[n.surface] = v
                            \/ n.surface = NoSurface /\ v = n.workspace
  BY <1>1, <1>4, <1>5 DEF Marked
<1>7. \A v : Orphaned(v) => Orphaned(v)'
  BY <1>1 DEF Orphaned
<1>8. /\ attention' \subseteq Listed'
      /\ \A v \in Listed' : Marked(v)' => v \in attention'
      /\ \A v \in attention' : Marked(v)' \/ Orphaned(v)'
  <2>1. CASE n.surface \in Live
    <3>1. PICK w : w = home[n.surface] /\ w \in Listed
      BY <2>1 DEF MarkInv, ListInv, Live
    <3>2. n.surface # NoSurface \/ w = n.workspace
      BY <2>1, <3>1
    <3>3. Marked(w)'
      BY <1>6, <2>1, <3>1
    <3>4. attention' = Recount(w, attention)
      BY <2>1, <3>1 DEF MarkTarget
    <3>5. \A v : v \in attention' <=> v = w \/ v \in attention
      BY <1>1, <3>1, <3>3, <3>4, RecountedIs
    <3> QED
      BY <1>1, <1>6, <1>7, <2>1, <3>1, <3>2, <3>3, <3>5 DEF MarkInv, FlagsInv
  <2>2. CASE n.surface \notin Live
    <3>1. attention' = attention \cup ({n.workspace} \cap Listed)
      BY <2>2 DEF MarkTarget
    <3>2. n.surface = NoSurface => Marked(n.workspace)'
      BY <1>6
    <3>3. n.surface # NoSurface => Orphaned(n.workspace)'
      BY <1>1, <2>2 DEF Orphaned
    <3> QED
      BY <1>1, <1>6, <1>7, <2>2, <3>1, <3>2, <3>3 DEF MarkInv, FlagsInv
  <2> QED
    BY <2>1, <2>2
<1>9. FlagsInv'
  <2>1. output' \subseteq Live' /\ unread' = output' \cup noted'
    BY <1>1, <1>5 DEF MarkInv, FlagsInv
  <2>2. \A s : s \in noted' <=> s \in Live' /\ s \in ForSurface(notifications')
    BY <1>1, <1>4, <1>5 DEF MarkInv, FlagsInv
  <2> QED
    BY <1>8, <2>1, <2>2 DEF FlagsInv
<1> QED
  BY <1>2, <1>3, <1>9

LEMMA MarkStep ==
  ASSUME MarkInv, NEW s \in Surfaces, NEW flag \in BOOLEAN, MarkSurfaceUnread(s, flag)
  PROVE  ListInv' /\ NotesInv' /\ FlagsInv'
<1>1. /\ s \in Live /\ UNCHANGED <<order, home, noted, notifications>>
      /\ \A x : x \in output' <=> IF x = s THEN flag ELSE x \in output
      /\ \A x : x \in unread' <=> IF x = s THEN flag \/ s \in noted ELSE x \in unread
  BY DEF MarkSurfaceUnread, Rest, layout, MarkInv, FlagsInv
<1>2. PICK w \in Listed : w = home[s]
  BY <1>1 DEF MarkInv, ListInv, Live
<1>3. Live' = Live /\ Listed' = Listed /\ attention' = Recount(w, attention)
  BY <1>1, <1>2 DEF Live, Listed, MarkSurfaceUnread
<1>4. ListInv' /\ NotesInv'
  BY <1>1, <1>3 DEF MarkInv, ListInv, NotesInv
<1>5. \A v : v # w => (Marked(v)' <=> Marked(v))
  BY <1>1, <1>2 DEF Marked
<1>6. \A v : Orphaned(v)' <=> Orphaned(v)
  BY <1>1, <1>3 DEF Orphaned
<1>7. \A v : v \in attention' <=> IF v = w THEN Marked(w)' ELSE v \in attention
  BY <1>2, <1>3, RecountedIs
<1>8. FlagsInv'
  <2>1. output' \subseteq Live' /\ unread' = output' \cup noted'
    BY <1>1, <1>3 DEF MarkInv, FlagsInv
  <2>2. \A x : x \in noted' <=> x \in Live' /\ x \in ForSurface(notifications')
    BY <1>1, <1>3 DEF MarkInv, FlagsInv
  <2>3. /\ attention' \subseteq Listed'
        /\ \A v \in Listed' : Marked(v)' => v \in attention'
        /\ \A v \in attention' : Marked(v)' \/ Orphaned(v)'
    BY <1>2, <1>3, <1>5, <1>6, <1>7 DEF MarkInv, FlagsInv
  <2> QED
    BY <2>1, <2>2, <2>3 DEF FlagsInv
<1> QED
  BY <1>4, <1>8

LEMMA NotesFacts ==
  ASSUME MarkInv, NEW i \in DOMAIN notifications
  PROVE  /\ notifications[i] \in Note
         /\ notifications[i].surface \in Live => notifications[i].workspace = home[notifications[i].surface]
  BY DEF MarkInv, NotesInv

LEMMA NotifyStep ==
  ASSUME MarkInv, NEW target \in Targets, NEW prompt \in BOOLEAN, Notify(target, prompt)
  PROVE  ListInv' /\ NotesInv' /\ FlagsInv' /\ UNCHANGED <<layout, transaction>>
<1>1. UNCHANGED <<layout, transaction, order, home>>
  BY DEF Notify, Rest, layout
<1>2. PICK n \in Note : /\ n = Fresh(target, prompt) /\ ~n.read
                        /\ n.surface = target.surface /\ n.workspace = target.workspace
                        /\ n.surface \in Live => n.workspace = home[n.surface]
  <2>1. /\ target.workspace \in Workspaces \cup {NoWorkspace}
        /\ target.surface \in Surfaces \cup {NoSurface}
        /\ target.surface \in Live => target.workspace = home[target.surface]
    <3>1. Listed \subseteq Workspaces /\ NoSurface \notin Live /\ Live \subseteq Surfaces
      BY NoIdAssumption DEF MarkInv, ListInv, Listed, ToSet, Live
    <3>2. \A s \in Live : home[s] \in Listed
      BY DEF MarkInv, ListInv, Live
    <3> QED
      BY <3>1, <3>2 DEF Targets
  <2>2. PICK v, s : v = target.workspace /\ s = target.surface
    OBVIOUS
  <2>3. Fresh(target, prompt) = [workspace |-> v, surface |-> s, read |-> FALSE, prompt |-> prompt]
    BY <2>2 DEF Fresh
  <2>4. Fresh(target, prompt) \in Note
    BY <2>1, <2>2, <2>3 DEF Note
  <2> QED
    BY <2>1, <2>2, <2>3, <2>4
<1>3. PICK notes : notes = Append(notifications, n)
  OBVIOUS
<1>4. /\ notes \in Seq(Note) /\ DOMAIN notes = 1 .. Len(notifications) + 1
      /\ notes[Len(notifications) + 1] = n /\ Len(notifications) \in Nat
      /\ DOMAIN notifications = 1 .. Len(notifications)
      /\ \A i \in 1 .. Len(notifications) : notes[i] = notifications[i]
  BY <1>3 DEF MarkInv, NotesInv
<1>5. \A i \in DOMAIN notes : notes[i] = n \/ \E j \in DOMAIN notifications : notes[i] = notifications[j]
  BY <1>4
<1>6. CASE Len(notes) > MaxNotifications
  <2>1. SetNotifications(Tail(notes))
    BY <1>2, <1>3, <1>6 DEF Notify
  <2>2. PICK rest : rest = Tail(notes)
    OBVIOUS
  <2>3. rest \in Seq(Note) /\ DOMAIN rest = 1 .. Len(notifications)
        /\ \A i \in DOMAIN rest : rest[i] = notes[i + 1]
    BY <1>4, <2>2
  <2>4. \A i \in DOMAIN rest : i + 1 \in DOMAIN notes
    BY <1>4, <2>3
  <2>5. \A i \in DOMAIN rest : rest[i].surface \notin Live \/ rest[i].workspace = home[rest[i].surface]
    BY <1>2, <1>5, <2>3, <2>4, NotesFacts
  <2> QED
    BY <1>1, <2>1, <2>2, <2>3, <2>5, Edited
<1>7. CASE ~(Len(notes) > MaxNotifications)
  <2>1. notifications' = notes /\ MarkTarget(n.workspace, n.surface)
    BY <1>2, <1>3, <1>7 DEF Notify
  <2>2. \A m : m \in Pending(notes) <=> m \in Pending(notifications) \/ m = n
    <3>1. ASSUME NEW m \in Pending(notes) PROVE m \in Pending(notifications) \/ m = n
      BY <1>5, <3>1, PendingIs
    <3>2. ASSUME NEW m \in Pending(notifications) PROVE m \in Pending(notes)
      <4>1. PICK i \in DOMAIN notifications : m = notifications[i] /\ ~m.read
        BY <3>2, PendingIs
      <4>2. i \in DOMAIN notes /\ notes[i] = m
        BY <1>4, <4>1
      <4> QED
        BY <4>1, <4>2, PendingIs
    <3>3. n \in Pending(notes)
      <4>1. Len(notifications) + 1 \in DOMAIN notes
        BY <1>4
      <4> QED
        BY <1>2, <1>4, <4>1, PendingIs
    <3> QED
      BY <3>1, <3>2, <3>3
  <2> QED
    BY <1>1, <1>2, <1>4, <1>5, <2>1, <2>2, Added
<1> QED
  BY <1>6, <1>7

LEMMA RenewStep ==
  ASSUME MarkInv, NEW i \in DOMAIN notifications, Renew(i)
  PROVE  ListInv' /\ NotesInv' /\ FlagsInv' /\ UNCHANGED <<layout, transaction>>
<1>1. UNCHANGED <<layout, transaction, order, home>>
  BY DEF Renew, Rest, layout
<1>2. PICK n \in Note : /\ n = [notifications[i] EXCEPT !.read = FALSE] /\ ~n.read
                        /\ n.surface = notifications[i].surface
                        /\ n.workspace = notifications[i].workspace
                        /\ ~notifications[i].read => n = notifications[i]
  <2>1. PICK old \in Note : old = notifications[i]
    BY NotesFacts
  <2>2. PICK n : n = [old EXCEPT !.read = FALSE]
    OBVIOUS
  <2>3. n \in Note /\ ~n.read /\ n.surface = old.surface /\ n.workspace = old.workspace
    BY <2>2 DEF Note
  <2>4. ~old.read => n = old
    BY <2>2 DEF Note
  <2> QED
    BY <2>1, <2>2, <2>3, <2>4
<1>3. n.surface \in Live => n.workspace = home[n.surface]
  BY <1>2, NotesFacts
<1>4. PICK rest, notes : rest = RemoveAt(notifications, i) /\ notes = Append(rest, n)
  OBVIOUS
<1>5. /\ i \in 1 .. Len(notifications) /\ DOMAIN notifications = 1 .. Len(notifications)
      /\ Len(notifications) \in Nat /\ notifications \in Seq(Note)
  BY DEF MarkInv, NotesInv
<1>6. /\ rest \in Seq(Note) /\ DOMAIN rest = 1 .. Len(notifications) - 1
      /\ Len(rest) = Len(notifications) - 1
      /\ \A j \in DOMAIN rest : rest[j] = notifications[IF j < i THEN j ELSE j + 1]
  <2>1. /\ RemoveAt(notifications, i) \in Seq(Note)
        /\ DOMAIN RemoveAt(notifications, i) = 1 .. Len(notifications) - 1
        /\ Len(RemoveAt(notifications, i)) = Len(notifications) - 1
        /\ \A j \in 1 .. Len(notifications) - 1 :
             RemoveAt(notifications, i)[j] = notifications[IF j < i THEN j ELSE j + 1]
    BY <1>5, Removed
  <2> QED
    BY <1>4, <2>1, Zenon
<1>7. /\ notes \in Seq(Note) /\ DOMAIN notes = 1 .. Len(notifications)
      /\ notes[Len(notifications)] = n
      /\ \A j \in DOMAIN rest : notes[j] = rest[j]
  <2>1. /\ notes \in Seq(Note) /\ DOMAIN notes = 1 .. Len(rest) + 1 /\ notes[Len(rest) + 1] = n
        /\ \A j \in 1 .. Len(rest) : notes[j] = rest[j]
    BY <1>4, <1>6
  <2> QED
    BY <1>5, <1>6, <2>1
<1>8. \A j \in DOMAIN rest : \E k \in DOMAIN notifications : rest[j] = notifications[k]
  BY <1>5, <1>6
<1>9. \A k \in DOMAIN notifications : k # i => \E j \in DOMAIN rest : rest[j] = notifications[k]
  <2> TAKE k \in DOMAIN notifications
  <2>1. CASE k < i
    <3>1. k \in DOMAIN rest
      BY <1>5, <1>6, <2>1
    <3> QED
      BY <1>6, <2>1, <3>1
  <2>2. CASE k > i
    <3>1. k - 1 \in DOMAIN rest /\ ~(k - 1 < i) /\ (k - 1) + 1 = k
      BY <1>5, <1>6, <2>2
    <3> QED
      BY <1>6, <3>1
  <2> QED
    BY <1>5, <2>1, <2>2
<1>10. \A j \in DOMAIN notes : notes[j] = n \/ j \in DOMAIN rest
  BY <1>5, <1>6, <1>7
<1>11. \A m : m \in Pending(notes) <=> m \in Pending(notifications) \/ m = n
  <2>1. ASSUME NEW m \in Pending(notes) PROVE m \in Pending(notifications) \/ m = n
    BY <1>7, <1>8, <1>10, <2>1, PendingIs
  <2>2. ASSUME NEW m \in Pending(notifications) PROVE m \in Pending(notes) \/ m = n
    <3>1. PICK k \in DOMAIN notifications : m = notifications[k] /\ ~m.read
      BY <2>2, PendingIs
    <3>2. CASE k = i
      BY <1>2, <3>1, <3>2
    <3>3. CASE k # i
      <4>1. PICK j \in DOMAIN rest : rest[j] = m
        BY <1>9, <3>1, <3>3
      <4>2. j \in DOMAIN notes /\ notes[j] = m
        BY <1>5, <1>6, <1>7, <4>1
      <4> QED
        BY <3>1, <4>2, PendingIs
    <3> QED
      BY <3>2, <3>3
  <2>3. n \in Pending(notes)
    <3>1. PICK k \in DOMAIN notes : notes[k] = n
      BY <1>5, <1>7
    <3>2. ~n.read
      BY <1>2
    <3> QED
      BY <3>1, <3>2, PendingIs
  <2> QED
    BY <2>1, <2>2, <2>3
<1>12. notifications' = notes /\ MarkTarget(n.workspace, n.surface)
  BY <1>2, <1>4 DEF Renew
<1>13. \A j \in DOMAIN notifications' :
         notifications'[j] = n \/ \E k \in DOMAIN notifications : notifications'[j] = notifications[k]
  BY <1>7, <1>8, <1>10, <1>12
<1> QED
  BY <1>1, <1>2, <1>3, <1>7, <1>11, <1>12, <1>13, Added

(* The list as it is after some of its entries were read or withdrawn.     *)
LEMMA EntriesEdited ==
  ASSUME MarkInv, UNCHANGED <<order, home>>, NEW notes, SetNotifications(notes),
         DOMAIN notes = DOMAIN notifications, notes = [i \in DOMAIN notifications |-> notes[i]],
         \A i \in DOMAIN notifications :
           \/ notes[i] = notifications[i]
           \/ notes[i] = [notifications[i] EXCEPT !.read = TRUE]
           \/ notes[i] = Withdrawn(notifications[i])
  PROVE  ListInv' /\ NotesInv' /\ FlagsInv'
<1>1. ASSUME NEW i \in DOMAIN notifications
      PROVE  /\ notes[i] \in Note /\ notes[i].surface = notifications[i].surface
             /\ notes[i].workspace = notifications[i].workspace
  BY NotesFacts, ZenonT(30) DEF Note, Withdrawn
<1>2. notes \in Seq(Note)
  <2>1. Len(notifications) \in Nat /\ DOMAIN notifications = 1 .. Len(notifications)
    BY DEF MarkInv, NotesInv
  <2> QED
    BY <1>1, <2>1, IsASeq
<1>3. \A i \in DOMAIN notes : notes[i].surface \notin Live \/ notes[i].workspace = home[notes[i].surface]
  BY <1>1, NotesFacts
<1> QED
  BY <1>2, <1>3, Edited

LEMMA EditSteps ==
  ASSUME MarkInv,
         \/ MarkNotificationsRead \/ ClearNotifications
         \/ EvictPrompts
         \/ \E P \in SUBSET DOMAIN notifications : WithdrawPrompts(P)
         \/ \E i \in DOMAIN notifications : DismissNotification(i)
  PROVE  ListInv' /\ NotesInv' /\ FlagsInv'
<1>1. CASE MarkNotificationsRead
  <2>1. PICK notes : notes = [i \in DOMAIN notifications |-> [notifications[i] EXCEPT !.read = TRUE]]
    OBVIOUS
  <2>2. SetNotifications(notes) /\ UNCHANGED <<order, home>>
    BY <1>1, <2>1 DEF MarkNotificationsRead, Rest, layout
  <2> QED
    BY <2>1, <2>2, EntriesEdited
<1>2. CASE EvictPrompts
  <2>1. PICK notes : notes = WithdrawFrom(transaction.surfaces)
    OBVIOUS
  <2>2. SetNotifications(notes) /\ UNCHANGED <<order, home>>
    BY <1>2, <2>1 DEF EvictPrompts, layout
  <2> QED
    BY <2>1, <2>2, EntriesEdited DEF WithdrawFrom
<1>3. ASSUME NEW P \in SUBSET DOMAIN notifications, WithdrawPrompts(P)
      PROVE  ListInv' /\ NotesInv' /\ FlagsInv'
  <2>1. PICK notes : notes = [i \in DOMAIN notifications |->
                               IF i \in P THEN Withdrawn(notifications[i]) ELSE notifications[i]]
    OBVIOUS
  <2>2. SetNotifications(notes) /\ UNCHANGED <<order, home>>
    BY <1>3, <2>1 DEF WithdrawPrompts, Rest, layout
  <2> QED
    BY <2>1, <2>2, EntriesEdited
<1>4. CASE ClearNotifications
  <2>1. SetNotifications(<<>>) /\ UNCHANGED <<order, home>> /\ <<>> \in Seq(Note) /\ DOMAIN <<>> = {}
    BY <1>4 DEF ClearNotifications, Rest, layout
  <2> QED
    BY <2>1, Edited
<1>5. ASSUME NEW i \in DOMAIN notifications, DismissNotification(i)
      PROVE  ListInv' /\ NotesInv' /\ FlagsInv'
  <2>1. PICK notes : notes = RemoveAt(notifications, i)
    OBVIOUS
  <2>2. SetNotifications(notes) /\ UNCHANGED <<order, home>>
    BY <1>5, <2>1 DEF DismissNotification, Rest, layout
  <2>3. i \in 1 .. Len(notifications) /\ notifications \in Seq(Note)
    BY DEF MarkInv, NotesInv
  <2>4. /\ RemoveAt(notifications, i) \in Seq(Note)
        /\ DOMAIN RemoveAt(notifications, i) = 1 .. Len(notifications) - 1
        /\ \A j \in 1 .. Len(notifications) - 1 :
             RemoveAt(notifications, i)[j] = notifications[IF j < i THEN j ELSE j + 1]
    BY <2>3, Removed
  <2>5. /\ notes \in Seq(Note) /\ DOMAIN notes = 1 .. Len(notifications) - 1
        /\ \A j \in 1 .. Len(notifications) - 1 :
             notes[j] = notifications[IF j < i THEN j ELSE j + 1]
    BY <2>1, <2>4, Zenon
  <2>6. \A j \in DOMAIN notes : \E k \in DOMAIN notifications : notes[j] = notifications[k]
    BY <2>3, <2>5
  <2>7. \A j \in DOMAIN notes : notes[j].surface \notin Live \/ notes[j].workspace = home[notes[j].surface]
    BY <2>6, NotesFacts
  <2> QED
    BY <2>2, <2>5, <2>7, Edited
<1> QED
  BY <1>1, <1>2, <1>3, <1>4, <1>5

-----------------------------------------------------------------------------
LEMMA PlanStill ==
  ASSUME PlanInv, UNCHANGED <<home, transaction>>, Listed' = Listed
  PROVE  PlanInv'
  BY DEF PlanInv, Made, Live

LEMMA PlanDone ==
  ASSUME transaction' = Idle \/ \E gone : transaction' = [kind |-> "evict", surfaces |-> gone]
  PROVE  PlanInv'
<1>1. PICK plan : plan = transaction'
  OBVIOUS
<1>2. \/ plan = Idle /\ plan.kind = "none"
      \/ plan.kind = "evict"
  BY <1>1 DEF Idle
<1> QED
  BY <1>1, <1>2 DEF PlanInv, Made

LEMMA AddSurfaceMarks ==
  ASSUME MarkInv, NEW s \in Surfaces, NEW near, NEW newTree, AddSurface(s, near, newTree)
  PROVE  MarkInv'
<1>1. /\ Free(s) /\ near \in Live /\ home[near] \in Listed
      /\ UNCHANGED <<order, activity>>
      /\ home' = [home EXCEPT ![s] = home[near]]
      /\ transaction' = Creating(s, home[near])
  BY DEF AddSurface, MarkInv, ListInv, Live
<1>2. ListInv' /\ NotesInv' /\ FlagsInv' /\ s \in Live' /\ home'[s] = home[near]
  BY <1>1, SurfaceAdded
<1>3. /\ transaction'.kind = "create surface" /\ transaction'.surface = s
      /\ transaction'.workspace = home[near]
  BY <1>1 DEF Creating
<1>4. PlanInv'
  BY <1>2, <1>3 DEF PlanInv, Made
<1> QED
  BY <1>2, <1>4 DEF MarkInv

LEMMA AddWorkspaceMarks ==
  ASSUME MarkInv, NEW s \in Surfaces, NEW w \in Workspaces, NEW isWorktree,
         AddWorkspace(w, s, isWorktree), UNCHANGED activity,
         transaction'.kind \in {"create workspace", "replace"}, transaction'.workspace = w
  PROVE  MarkInv'
<1>1. ListInv' /\ NotesInv' /\ FlagsInv' /\ w \in Listed'
  BY WorkspaceAdded DEF AddWorkspace
<1>2. PlanInv'
  BY <1>1 DEF PlanInv, Made
<1> QED
  BY <1>1, <1>2 DEF MarkInv

LEMMA CloseSurfaceMarks ==
  ASSUME MarkInv, NEW s \in Surfaces, NEW r \in Surfaces, CloseSurface(s, r)
  PROVE  MarkInv'
<1>1. PICK sole \in BOOLEAN : sole = IsSoleTab(s)
  BY DEF IsSoleTab
<1>2. PICK w : w = home[s]
  OBVIOUS
<1>3. /\ s \in Live /\ w \in Listed
      /\ IF sole THEN Free(r) ELSE r = s
      /\ home' = IF sole THEN [home EXCEPT ![s] = NoWorkspace, ![r] = w]
                 ELSE [home EXCEPT ![s] = NoWorkspace]
      /\ UNCHANGED <<order, notifications>>
      /\ DropSurfaces({s}) /\ attention' = Recount(w, attention)
      /\ transaction' = [kind |-> "evict", surfaces |-> {s}]
  BY <1>1, <1>2 DEF CloseSurface, RemoveSurface, MarkInv, ListInv, Live
<1>4. r = s \/ Free(r)
  BY <1>3
<1>5. r # s <=> sole
  BY <1>3 DEF Free
<1>6. /\ home' \in [Surfaces -> Workspaces \cup {NoWorkspace}]
      /\ \A x \in Surfaces : home'[x] = IF x = s THEN NoWorkspace ELSE IF x = r THEN w ELSE home[x]
  <2>1. Listed \subseteq Workspaces
    BY DEF MarkInv, ListInv, Listed, ToSet
  <2>2. CASE sole
    BY <1>3, <1>5, <2>1, <2>2 DEF MarkInv, ListInv
  <2>3. CASE ~sole
    BY <1>3, <1>5, <2>1, <2>3 DEF MarkInv, ListInv
  <2> QED
    BY <2>2, <2>3
<1>7. ListInv' /\ NotesInv' /\ FlagsInv'
  BY <1>2, <1>3, <1>4, <1>6, SurfaceGone
<1> QED
  BY <1>3, <1>7, PlanDone DEF MarkInv

LEMMA UndoSurfaceMarks ==
  ASSUME MarkInv, UndoSurface
  PROVE  MarkInv'
<1>1. PICK s, w : s = transaction.surface /\ w = transaction.workspace
  OBVIOUS
<1>2. /\ s \in Live /\ s \in Surfaces /\ w = home[s] /\ w \in Listed
      /\ home' = [home EXCEPT ![s] = NoWorkspace]
      /\ UNCHANGED <<order, notifications>>
      /\ DropSurfaces({s}) /\ attention' = Recount(w, attention)
      /\ transaction' = Idle
  BY <1>1 DEF UndoSurface, MarkInv, PlanInv, ListInv, Live
<1>3. /\ home' \in [Surfaces -> Workspaces \cup {NoWorkspace}]
      /\ \A x \in Surfaces : home'[x] = IF x = s THEN NoWorkspace ELSE IF x = s THEN w ELSE home[x]
  <2>1. Listed \subseteq Workspaces
    BY DEF MarkInv, ListInv, Listed, ToSet
  <2> QED
    BY <1>2, <2>1 DEF MarkInv, ListInv
<1>4. ListInv' /\ NotesInv' /\ FlagsInv'
  BY <1>2, <1>3, SurfaceGone
<1> QED
  BY <1>2, <1>4, PlanDone DEF MarkInv

LEMMA TransactionMarks ==
  ASSUME MarkInv, Transactions
  PROVE  MarkInv'
<1>1. ASSUME NEW w \in Workspaces, NEW s \in Surfaces, CreateWorkspace(w, s) PROVE MarkInv'
  BY <1>1, AddWorkspaceMarks DEF CreateWorkspace
<1>2. ASSUME NEW w \in Workspaces, NEW s \in Surfaces, NEW resolved \in SUBSET Listed,
             OpenWorktree(w, s, resolved)
      PROVE  MarkInv'
  <2>1. \/ /\ AddWorkspace(w, s, TRUE) /\ UNCHANGED activity
           /\ transaction' = [kind |-> "create workspace", workspace |-> w, previous |-> active]
        \/ UNCHANGED <<order, home, transaction, activity>>
    BY <1>2 DEF OpenWorktree
  <2>2. CASE UNCHANGED <<order, home, transaction, activity>>
    BY <2>2, NothingMarked, PlanStill DEF MarkInv, Listed
  <2>3. CASE /\ AddWorkspace(w, s, TRUE) /\ UNCHANGED activity
             /\ transaction' = [kind |-> "create workspace", workspace |-> w, previous |-> active]
    <3>1. transaction'.kind = "create workspace" /\ transaction'.workspace = w
      BY <2>3
    <3> QED
      BY <2>3, <3>1, AddWorkspaceMarks
  <2> QED
    BY <2>1, <2>2, <2>3
<1>3. ASSUME NEW w \in Workspaces, NEW v \in Workspaces, NEW s \in Surfaces, ReplaceWorkspace(w, v, s)
      PROVE  MarkInv'
  BY <1>3, AddWorkspaceMarks DEF ReplaceWorkspace
<1>4. ASSUME NEW s \in Surfaces, NEW near \in Surfaces,
             AddTab(s, near) \/ \E axis \in Axes : SplitSurface(s, near, axis)
      PROVE  MarkInv'
  BY <1>4, AddSurfaceMarks DEF AddTab, SplitSurface
<1>5. ASSUME NEW s \in Surfaces, NEW r \in Surfaces, CloseSurface(s, r) PROVE MarkInv'
  BY <1>5, CloseSurfaceMarks
<1>6. ASSUME NEW w \in Workspaces, CloseWorkspace(w) PROVE MarkInv'
  <2>1. ListInv' /\ NotesInv' /\ FlagsInv'
    BY <1>6, WorkspaceGone DEF CloseWorkspace
  <2> QED
    BY <1>6, <2>1, PlanDone DEF MarkInv, CloseWorkspace
<1>7. CASE Commit
  BY <1>7, NothingMarked, PlanDone DEF MarkInv, Commit, layout
<1>8. CASE UndoSurface
  BY <1>8, UndoSurfaceMarks
<1>9. CASE UndoWorkspace
  <2>1. transaction.workspace \in Listed
    BY <1>9 DEF UndoWorkspace, MarkInv, PlanInv, Made
  <2>2. ListInv' /\ NotesInv' /\ FlagsInv'
    BY <1>9, <2>1, WorkspaceGone DEF UndoWorkspace
  <2> QED
    BY <1>9, <2>2, PlanDone DEF MarkInv, UndoWorkspace
<1>10. CASE EvictPrompts
  BY <1>10, EditSteps, PlanDone DEF MarkInv, EvictPrompts
<1>11. ASSUME NEW resolved \in SUBSET Listed, Save(resolved) PROVE MarkInv'
  <2>1. ListInv' /\ NotesInv' /\ FlagsInv'
    BY <1>11, RepairMarks DEF Save
  <2> QED
    BY <1>11, <2>1, PlanDone DEF MarkInv, Save
<1>12. CASE Restart
  BY <1>12, RestartMarks, PlanDone DEF MarkInv, Restart
<1> QED
  BY <1>1, <1>2, <1>3, <1>4, <1>5, <1>6, <1>7, <1>8, <1>9, <1>10, <1>11, <1>12 DEF Transactions

LEMMA MovedWorkspace ==
  ASSUME ListInv, NEW w, NEW target, NEW position, MoveWorkspace(w, target, position)
  PROVE  order' \in Seq(Workspaces) /\ IsInjective(order') /\ Listed' = Listed
<1>1. /\ w # target /\ w \in ToSet(order) /\ target \in ToSet(order)
      /\ order' = Placed(Drop(order, w), w, target, position)
      /\ order \in Seq(Workspaces) /\ IsInjective(order) /\ w \in Workspaces
  BY DEF MoveWorkspace, Listed, ListInv, ToSet
<1>2. PICK rest : rest = Drop(order, w)
  OBVIOUS
<1>3. rest \in Seq(Workspaces) /\ IsInjective(rest) /\ ToSet(rest) = ToSet(order) \ {w}
  BY <1>1, <1>2, Dropped
<1>4. PICK new : new = Placed(rest, w, target, position)
  OBVIOUS
<1>5. new \in Seq(Workspaces) /\ IsInjective(new) /\ ToSet(new) = ToSet(rest) \cup {w}
  BY <1>1, <1>3, <1>4, PlacedIn
<1> QED
  BY <1>1, <1>2, <1>3, <1>4, <1>5 DEF Listed

LEMMA ArrangementMarks ==
  ASSUME MarkInv, Arrangement
  PROVE  MarkInv'
<1>1. CASE UNCHANGED <<order, home, transaction, activity>>
  BY <1>1, NothingMarked, PlanStill DEF MarkInv, Listed
<1>2. ASSUME NEW w \in Workspaces, NEW target \in Workspaces, NEW position \in Positions,
             MoveWorkspace(w, target, position)
      PROVE  MarkInv'
  <2>1. ListInv /\ UNCHANGED <<home, activity, transaction>>
    BY <1>2 DEF MoveWorkspace, MarkInv
  <2>2. order' \in Seq(Workspaces) /\ IsInjective(order') /\ Listed' = Listed
    BY <1>2, <2>1, MovedWorkspace
  <2>3. ListInv' /\ NotesInv' /\ FlagsInv'
    BY <2>1, <2>2, Reordered DEF Listed
  <2>4. PlanInv'
    BY <2>1, <2>2, PlanStill DEF MarkInv
  <2> QED
    BY <2>3, <2>4 DEF MarkInv
<1> QED
  BY <1>1, <1>2 DEF Arrangement, SelectWorkspace, FocusSurface, MoveTab, SwapPanes, Unguarded

LEMMA AttentionMarks ==
  ASSUME MarkInv, Attention
  PROVE  MarkInv'
<1>1. UNCHANGED <<order, home, transaction>>
  BY DEF Attention, Rest, layout, MarkSurfaceUnread, Notify, Renew, DismissNotification,
         WithdrawPrompts, MarkNotificationsRead, ClearNotifications
<1>2. PlanInv'
  BY <1>1, PlanStill DEF MarkInv, Listed
<1>3. ListInv' /\ NotesInv' /\ FlagsInv'
  <2>1. ASSUME NEW s \in Surfaces, NEW flag \in BOOLEAN, MarkSurfaceUnread(s, flag)
        PROVE  ListInv' /\ NotesInv' /\ FlagsInv'
    BY <2>1, MarkStep
  <2>2. ASSUME NEW target \in Targets, NEW prompt \in BOOLEAN, Notify(target, prompt)
        PROVE  ListInv' /\ NotesInv' /\ FlagsInv'
    BY <2>2, NotifyStep
  <2>3. ASSUME NEW i \in DOMAIN notifications, Renew(i) PROVE ListInv' /\ NotesInv' /\ FlagsInv'
    BY <2>3, RenewStep
  <2> QED
    BY <2>1, <2>2, <2>3, EditSteps DEF Attention
<1> QED
  BY <1>2, <1>3 DEF MarkInv

LEMMA MarkInit ==
  ASSUME Init
  PROVE  MarkInv
<1>1. PICK w \in Workspaces, s \in Surfaces :
        /\ order = <<w>>
        /\ home = [t \in Surfaces |-> IF t = s THEN w ELSE NoWorkspace]
        /\ output = {} /\ noted = {} /\ unread = {} /\ attention = {}
        /\ notifications = <<>> /\ transaction = Idle
  BY DEF Init
<1>2. order \in Seq(Workspaces) /\ IsInjective(order) /\ Listed = {w}
  BY <1>1 DEF IsInjective, Listed, ToSet
<1>3. ListInv /\ NotesInv /\ PlanInv
  BY <1>1, <1>2 DEF ListInv, NotesInv, PlanInv, Made, Idle
<1>4. FlagsInv
  <2>1. \A n : n \notin Pending(notifications)
    BY <1>1, PendingIs
  <2>2. (\A x : x \notin ForSurface(notifications)) /\ \A x : x \notin ForWorkspace(notifications)
    BY <2>1, PendingIs
  <2> QED
    BY <1>1, <2>2 DEF FlagsInv, Marked
<1> QED
  BY <1>3, <1>4 DEF MarkInv

LEMMA MarksKept == Spec => []MarkInv
<1>1. Init => MarkInv
  BY MarkInit
<1>2. MarkInv /\ [Next]_vars => MarkInv'
  <2> SUFFICES ASSUME MarkInv, [Next]_vars PROVE MarkInv'
    OBVIOUS
  <2>1. CASE UNCHANGED vars
    BY <2>1, NothingMarked, PlanStill DEF MarkInv, vars, layout, Listed
  <2> QED
    BY <2>1, TransactionMarks, ArrangementMarks, AttentionMarks DEF Next
<1> QED
  BY <1>1, <1>2, PTL DEF Spec

(* The marks that the user sees agree with what they stand for, whatever   *)
(* number of workspaces, surfaces and notifications there is: a surface is *)
(* marked for output or an unread notification about it, a workspace for a *)
(* marked surface or an unread notification about it, and for nothing but  *)
(* that and notifications about surfaces that are gone.                    *)
THEOREM MarksAreRight == Spec => []AttentionExact
<1>1. MarkInv => AttentionExact
  <2> SUFFICES ASSUME MarkInv PROVE AttentionExact
    OBVIOUS
  <2>1. unread = {s \in Live : s \in output \/ s \in ForSurface(notifications)}
    BY DEF MarkInv, FlagsInv
  <2>2. ASSUME NEW w \in Listed
        PROVE  Marked(w) <=> SurfacesOf(w) \cap unread # {} \/ w \in ForWorkspace(notifications)
    <3>1. unread \subseteq Surfaces
      BY DEF MarkInv, FlagsInv, Live
    <3> QED
      BY <3>1 DEF Marked, SurfacesOf
  <2>3. \A w \in Listed : Orphaned(w) => \E n \in Waiting(w) : n.surface \notin Live \cup {NoSurface}
    BY DEF Orphaned, Waiting
  <2> QED
    BY <2>1, <2>2, <2>3 DEF AttentionExact, MarkInv, FlagsInv
<1> QED
  BY <1>1, MarksKept, PTL

-----------------------------------------------------------------------------
(* Pane trees.  A tree is sound for some surfaces if its paths make a tree *)
(* (Shape) and each of the surfaces is in one place, one tab of one pane   *)
(* (Partition).  Shape is said of the paths index by index: with a path    *)
(* come the earlier children of each split on its way (Elders) and these   *)
(* splits themselves (Ancestors); a split is not too deep and has a second *)
(* child (Forks).                                                          *)
Path == Seq(Nat \ {0})
Alike(p, q, n) == \A i \in 1 .. n : p[i] = q[i]

Rooted(t) == t = [p \in DOMAIN t |-> t[p]] /\ <<>> \in DOMAIN t /\ DOMAIN t \subseteq Path
Elders(t) ==
  \A p \in DOMAIN t : \A n \in 1 .. Len(p) : \A j \in 1 .. p[n] :
    \E q \in DOMAIN t : Len(q) = n /\ Alike(p, q, n - 1) /\ q[n] = j
Ancestors(t) ==
  \A p \in DOMAIN t : \A n \in 0 .. Len(p) - 1 :
    \E q \in DOMAIN t : Len(q) = n /\ Alike(p, q, n) /\ ~IsLeaf(t[q])
Forks(t) ==
  \A p \in DOMAIN t : ~IsLeaf(t[p]) =>
    /\ Len(p) <= MaxSplitDepth
    /\ \E q \in DOMAIN t : Len(q) = Len(p) + 1 /\ Alike(p, q, Len(p)) /\ q[Len(q)] = 2
Shape(t) == Rooted(t) /\ Elders(t) /\ Ancestors(t) /\ Forks(t)

LeafOk(node) ==
  /\ node = Leaf(node.tabs, node.active)
  /\ node.tabs \in Seq(Surfaces) /\ IsInjective(node.tabs) /\ node.active \in DOMAIN node.tabs
Tabs(t, p) == ToSet(t[p].tabs)
Partition(t, S) ==
  /\ \A p \in Panes(t) : LeafOk(t[p]) /\ Tabs(t, p) \subseteq S
  /\ \A p, q \in Panes(t) : p # q => Tabs(t, p) \cap Tabs(t, q) = {}
  /\ \A s \in S : Holds(t, s)
Sound(t, S) == Shape(t) /\ Partition(t, S)

(* Paths, index by index.                                                  *)
LEMMA PathIs ==
  ASSUME NEW p \in Path
  PROVE  /\ Len(p) \in Nat /\ DOMAIN p = 1 .. Len(p)
         /\ \A i \in 1 .. Len(p) : p[i] \in Nat /\ p[i] >= 1
  BY DEF Path

LEMMA SamePath ==
  ASSUME NEW p \in Path, NEW q \in Path, Len(p) = Len(q), Alike(p, q, Len(p))
  PROVE  p = q
  BY SeqEqual DEF Path, Alike

LEMMA EmptyPath ==
  /\ <<>> \in Path /\ Len(<<>>) = 0
  /\ \A p \in Path : Len(p) = 0 => p = <<>>
<1>1. <<>> \in Path /\ Len(<<>>) = 0
  BY DEF Path
<1> QED
  BY <1>1, SamePath DEF Alike

LEMMA PathExtended ==
  ASSUME NEW p \in Path, NEW v \in Nat \ {0}, NEW q, q = Append(p, v)
  PROVE  q \in Path /\ Len(q) = Len(p) + 1 /\ Alike(p, q, Len(p)) /\ q[Len(p) + 1] = v
<1>1. /\ Append(p, v) \in Seq(Nat \ {0}) /\ Len(Append(p, v)) = Len(p) + 1
      /\ \A i \in 1 .. Len(p) : Append(p, v)[i] = p[i]
      /\ Append(p, v)[Len(p) + 1] = v
  BY AppendProperties DEF Path
<1> QED
  BY <1>1 DEF Path, Alike

LEMMA PathShortened ==
  ASSUME NEW p \in Path, NEW k \in 1 .. Len(p), NEW q, q = RemoveAt(p, k)
  PROVE  /\ q \in Path /\ Len(q) = Len(p) - 1
         /\ \A i \in 1 .. Len(p) - 1 : q[i] = p[IF i < k THEN i ELSE i + 1]
<1>1. /\ RemoveAt(p, k) \in Seq(Nat \ {0}) /\ Len(RemoveAt(p, k)) = Len(p) - 1
      /\ \A i \in 1 .. Len(p) - 1 : RemoveAt(p, k)[i] = p[IF i < k THEN i ELSE i + 1]
  BY Removed DEF Path
<1> QED
  BY <1>1, Zenon DEF Path

LEMMA PathParent ==
  ASSUME NEW p \in Path, Len(p) >= 1, NEW f, f = Front(p)
  PROVE  f \in Path /\ Len(f) = Len(p) - 1 /\ Alike(f, p, Len(p) - 1) /\ Last(p) = p[Len(p)]
<1>1. Len(p) \in Nat /\ \A i \in 1 .. Len(p) - 1 : p[i] \in Nat \ {0}
  BY DEF Path
<1>2. /\ SubSeq(p, 1, Len(p) - 1) \in Seq(Nat \ {0})
      /\ Len(SubSeq(p, 1, Len(p) - 1)) = IF 1 <= Len(p) - 1 THEN Len(p) - 1 - 1 + 1 ELSE 0
      /\ \A i \in 1 .. Len(p) - 1 - 1 + 1 : SubSeq(p, 1, Len(p) - 1)[i] = p[1 + i - 1]
  BY <1>1, SubSeqProperties
<1>3. /\ f \in Seq(Nat \ {0})
      /\ Len(f) = IF 1 <= Len(p) - 1 THEN Len(p) - 1 - 1 + 1 ELSE 0
      /\ \A i \in 1 .. Len(p) - 1 - 1 + 1 : f[i] = p[1 + i - 1]
  BY <1>2, Zenon DEF Front
<1>4. f \in Path
  BY <1>3 DEF Path
<1>5. PICK k : k = Len(p) - 1 /\ k \in Nat
  BY <1>1
<1>6. Len(f) = k /\ \A i \in 1 .. k : f[i] = p[i]
  <2>1. IF 1 <= k THEN Len(f) = k - 1 + 1 ELSE Len(f) = 0
    BY <1>3, <1>5, Zenon
  <2>2. \A i \in 1 .. k - 1 + 1 : f[i] = p[1 + i - 1]
    BY <1>3, <1>5, Zenon
  <2>3. \A i \in 1 .. k : i \in 1 .. k - 1 + 1 /\ 1 + i - 1 = i
    BY <1>5
  <2> QED
    BY <1>5, <2>1, <2>2, <2>3
<1> QED
  BY <1>4, <1>5, <1>6 DEF Alike, Last

LEMMA PrefixIs ==
  ASSUME NEW f \in Path, NEW p \in Path
  PROVE  IsPrefix(f, p) <=> Len(f) <= Len(p) /\ Alike(f, p, Len(f))
<1>1. Len(f) \in Nat /\ Len(p) \in Nat
  BY PathIs
<1>2. SubSeq(f, 1, Len(f)) = f
  BY SubSeqFull DEF Path
<1>3. ASSUME Len(f) <= Len(p)
      PROVE  f = SubSeq(p, 1, Len(f)) <=> Alike(f, p, Len(f))
  <2>1. PICK c : c = SubSeq(p, 1, Len(f))
    OBVIOUS
  <2>2. c \in Path /\ Len(c) = Len(f) /\ \A i \in 1 .. Len(f) : c[i] = p[i]
    <3>1. \A i \in 1 .. Len(f) : p[i] \in Nat \ {0}
      BY <1>1, <1>3 DEF Path
    <3>2. /\ SubSeq(p, 1, Len(f)) \in Seq(Nat \ {0})
          /\ Len(SubSeq(p, 1, Len(f))) = IF 1 <= Len(f) THEN Len(f) - 1 + 1 ELSE 0
          /\ \A i \in 1 .. Len(f) - 1 + 1 : SubSeq(p, 1, Len(f))[i] = p[1 + i - 1]
      BY <1>1, <3>1, SubSeqProperties
    <3>3. Len(SubSeq(p, 1, Len(f))) = Len(f)
      BY <1>1, <3>2
    <3>4. \A i \in 1 .. Len(f) : SubSeq(p, 1, Len(f))[i] = p[i]
      <4> TAKE i \in 1 .. Len(f)
      <4>1. i \in 1 .. Len(f) - 1 + 1 /\ 1 + i - 1 = i
        BY <1>1
      <4> QED
        BY <3>2, <4>1
    <3> QED
      BY <2>1, <3>2, <3>3, <3>4, Zenon DEF Path
  <2>3. f = c <=> Alike(f, c, Len(f))
    BY <2>2, SamePath DEF Alike
  <2> QED
    BY <2>1, <2>2, <2>3 DEF Alike
<1> QED
  BY <1>2, <1>3 DEF IsPrefix

LEMMA LaterIs ==
  ASSUME NEW path \in Path, NEW p \in Path, Len(path) >= 1
  PROVE  Later(path, p) <=> /\ Len(p) >= Len(path) /\ p[Len(path)] > path[Len(path)]
                            /\ Alike(p, path, Len(path) - 1)
  BY DEF Later, Last, Alike

(* Nodes, and trees with other nodes at the same paths.                    *)
LEMMA LeafIs ==
  ASSUME NEW tabs, NEW i, NEW node, node = Leaf(tabs, i)
  PROVE  /\ node.tabs = tabs /\ node.active = i /\ IsLeaf(node)
         /\ tabs \in Seq(Surfaces) /\ IsInjective(tabs) /\ i \in DOMAIN tabs => LeafOk(node)
  BY DEF Leaf, IsLeaf, LeafOk

LEMMA LeafShows ==
  ASSUME NEW tabs \in Seq(Surfaces), IsInjective(tabs), NEW s \in ToSet(tabs),
         NEW node, node = LeafShowing(tabs, s)
  PROVE  LeafOk(node) /\ IsLeaf(node) /\ node.tabs = tabs /\ Shown(node) = s
<1>1. PICK i \in DOMAIN tabs : i = IndexIn(tabs, s) /\ tabs[i] = s
  BY IndexFound
<1>2. node = Leaf(tabs, i)
  BY <1>1 DEF LeafShowing
<1> QED
  BY <1>1, <1>2, LeafIs DEF Shown

LEMMA OkIsLeaf ==
  ASSUME NEW node, LeafOk(node)
  PROVE  IsLeaf(node) /\ Shown(node) \in ToSet(node.tabs) /\ ToSet(node.tabs) \subseteq Surfaces
<1>1. IsLeaf(node)
  BY LeafIs DEF LeafOk
<1> QED
  BY <1>1 DEF LeafOk, Shown, ToSet

LEMMA WithIs ==
  ASSUME NEW t, NEW p, NEW node, NEW u, u = With(t, p, node)
  PROVE  /\ DOMAIN u = DOMAIN t \cup {p} /\ u = [q \in DOMAIN u |-> u[q]]
         /\ u[p] = node /\ \A q \in DOMAIN t : q # p => u[q] = t[q]
  BY DEF With

LEMMA Relabelled ==
  ASSUME NEW t, Shape(t), NEW u, DOMAIN u = DOMAIN t, u = [p \in DOMAIN u |-> u[p]],
         \A p \in DOMAIN t : IsLeaf(u[p]) <=> IsLeaf(t[p])
  PROVE  Shape(u) /\ Panes(u) = Panes(t)
<1>1. Rooted(u) /\ Elders(u)
  BY DEF Shape, Rooted, Elders
<1>2. Ancestors(u)
  <2> SUFFICES ASSUME NEW p \in DOMAIN u, NEW n \in 0 .. Len(p) - 1
               PROVE  \E q \in DOMAIN u : Len(q) = n /\ Alike(p, q, n) /\ ~IsLeaf(u[q])
    BY DEF Ancestors
  <2>1. PICK q \in DOMAIN t : Len(q) = n /\ Alike(p, q, n) /\ ~IsLeaf(t[q])
    BY DEF Shape, Ancestors
  <2> QED
    BY <2>1
<1>3. Forks(u)
  <2> SUFFICES ASSUME NEW p \in DOMAIN u, ~IsLeaf(u[p])
               PROVE  /\ Len(p) <= MaxSplitDepth
                      /\ \E q \in DOMAIN u : Len(q) = Len(p) + 1 /\ Alike(p, q, Len(p)) /\ q[Len(q)] = 2
    BY DEF Forks
  <2>1. ~IsLeaf(t[p])
    OBVIOUS
  <2> QED
    BY <2>1 DEF Shape, Forks
<1>4. Panes(u) = Panes(t)
  BY DEF Panes
<1> QED
  BY <1>1, <1>2, <1>3, <1>4 DEF Shape

LEMMA PathToIs ==
  ASSUME NEW t, NEW S, Partition(t, S), NEW s \in S, NEW path, path = PathTo(t, s)
  PROVE  /\ path \in Panes(t) /\ path \in DOMAIN t /\ IsLeaf(t[path]) /\ LeafOk(t[path])
         /\ s \in Tabs(t, path) /\ Tabs(t, path) \subseteq S
         /\ \A p \in Panes(t) : s \in Tabs(t, p) => p = path
<1>1. \E p \in Panes(t) : s \in ToSet(t[p].tabs)
  BY DEF Partition, Holds
<1>2. path \in Panes(t) /\ s \in ToSet(t[path].tabs)
  BY <1>1 DEF PathTo
<1>3. \A p \in Panes(t) : s \in Tabs(t, p) => p = path
  BY <1>2 DEF Partition, Tabs
<1> QED
  BY <1>2, <1>3 DEF Panes, Partition, Tabs

LEMMA SingleSound ==
  ASSUME NEW s \in Surfaces
  PROVE  Sound(SingleLeaf(s), {s})
<1>1. PICK t, tabs : t = SingleLeaf(s) /\ tabs = <<s>>
  OBVIOUS
<1>2. /\ tabs \in Seq(Surfaces) /\ IsInjective(tabs) /\ ToSet(tabs) = {s} /\ 1 \in DOMAIN tabs
  BY <1>1 DEF IsInjective, ToSet
<1>3. t = [p \in {<<>>} |-> Leaf(tabs, 1)]
  BY <1>1 DEF SingleLeaf
<1>4. DOMAIN t = {<<>>} /\ t[<<>>] = Leaf(tabs, 1)
  BY <1>3, Zenon
<1>5. LeafOk(t[<<>>]) /\ IsLeaf(t[<<>>]) /\ Tabs(t, <<>>) = {s}
  BY <1>2, <1>4, LeafIs DEF Tabs
<1>6. Rooted(t)
  BY <1>3, <1>4, EmptyPath DEF Rooted
<1>7. Elders(t) /\ Ancestors(t) /\ Forks(t)
  BY <1>4, <1>5, EmptyPath DEF Elders, Ancestors, Forks
<1>8. Panes(t) = {<<>>}
  BY <1>4, <1>5 DEF Panes
<1>9. Partition(t, {s})
  BY <1>5, <1>8 DEF Partition, Holds, Tabs
<1> QED
  BY <1>1, <1>6, <1>7, <1>9 DEF Sound, Shape

(* Another leaf where the pane of s was.                                   *)
LEMMA PutLeafSound ==
  ASSUME NEW t, NEW S, Sound(t, S), NEW s \in S, NEW leaf, LeafOk(leaf),
         NEW rest, rest = S \ Tabs(t, PathTo(t, s)), ToSet(leaf.tabs) \cap rest = {},
         NEW all, all = rest \cup ToSet(leaf.tabs)
  PROVE  /\ Sound(PutLeaf(t, s, leaf), all) /\ PutLeaf(t, s, leaf)[PathTo(t, s)] = leaf
         /\ DOMAIN PutLeaf(t, s, leaf) = DOMAIN t
<1>1. PICK u, path : u = PutLeaf(t, s, leaf) /\ path = PathTo(t, s)
  OBVIOUS
<1>2. /\ path \in Panes(t) /\ path \in DOMAIN t /\ IsLeaf(t[path]) /\ Tabs(t, path) \subseteq S
  BY <1>1, PathToIs DEF Sound
<1>3. /\ DOMAIN u = DOMAIN t /\ u = [q \in DOMAIN u |-> u[q]]
      /\ u[path] = leaf /\ \A q \in DOMAIN t : q # path => u[q] = t[q]
  <2>1. u = With(t, path, leaf)
    BY <1>1 DEF PutLeaf
  <2>2. /\ DOMAIN u = DOMAIN t \cup {path} /\ u = [q \in DOMAIN u |-> u[q]]
        /\ u[path] = leaf /\ \A q \in DOMAIN t : q # path => u[q] = t[q]
    BY <2>1 DEF With
  <2>3. DOMAIN t \cup {path} = DOMAIN t
    BY <1>2
  <2> QED
    BY <2>2, <2>3
<1>4. IsLeaf(leaf)
  BY OkIsLeaf
<1>5. Shape(u) /\ Panes(u) = Panes(t)
  BY <1>2, <1>3, <1>4, Relabelled DEF Sound
<1>6. Tabs(u, path) = ToSet(leaf.tabs) /\ \A q \in Panes(t) : q # path => Tabs(u, q) = Tabs(t, q) /\ u[q] = t[q]
  BY <1>3 DEF Tabs, Panes
<1>7. \A q \in Panes(t) : q # path => Tabs(t, q) \subseteq rest
  BY <1>1, <1>2 DEF Sound, Partition
<1>8. Partition(u, all)
  <2>1. \A p \in Panes(u) : LeafOk(u[p]) /\ Tabs(u, p) \subseteq all
    BY <1>3, <1>5, <1>6, <1>7 DEF Sound, Partition
  <2>2. \A p, q \in Panes(u) : p # q => Tabs(u, p) \cap Tabs(u, q) = {}
    BY <1>5, <1>6, <1>7 DEF Sound, Partition
  <2>3. ASSUME NEW x \in all PROVE \E p \in Panes(u) : x \in Tabs(u, p)
    <3>1. CASE x \in ToSet(leaf.tabs)
      BY <1>2, <1>5, <1>6, <3>1
    <3>2. CASE x \in rest
      <4>1. PICK p \in Panes(t) : x \in Tabs(t, p)
        BY <3>2 DEF Sound, Partition, Holds, Tabs
      <4>2. p # path
        BY <1>1, <3>2, <4>1
      <4> QED
        BY <1>5, <1>6, <4>1, <4>2
    <3> QED
      BY <3>1, <3>2
  <2> QED
    BY <2>1, <2>2, <2>3 DEF Partition, Holds, Tabs
<1> QED
  BY <1>1, <1>3, <1>5, <1>8 DEF Sound

(* The edits that leave the splits alone.                                  *)
LEMMA ShowTabSound ==
  ASSUME NEW t, NEW S, Sound(t, S), NEW s \in S
  PROVE  Sound(ShowTab(t, s), S)
<1>1. PICK path, leaf : path = PathTo(t, s) /\ leaf = LeafShowing(t[path].tabs, s)
  OBVIOUS
<1>2. LeafOk(t[path]) /\ s \in Tabs(t, path) /\ Tabs(t, path) \subseteq S
  BY <1>1, PathToIs DEF Sound
<1>3. LeafOk(leaf) /\ ToSet(leaf.tabs) = Tabs(t, path)
  BY <1>1, <1>2, LeafShows DEF LeafOk, Tabs
<1>4. PICK rest : rest = S \ Tabs(t, PathTo(t, s))
  OBVIOUS
<1>5. S = rest \cup ToSet(leaf.tabs) /\ ToSet(leaf.tabs) \cap rest = {}
  BY <1>1, <1>2, <1>3, <1>4
<1>6. Sound(PutLeaf(t, s, leaf), S)
  BY <1>3, <1>4, <1>5, PutLeafSound
<1> QED
  BY <1>1, <1>6 DEF ShowTab, LeafWith

LEMMA PushTabSound ==
  ASSUME NEW t, NEW S, Sound(t, S), NEW near \in S, NEW new \in Surfaces, new \notin S
  PROVE  Sound(PushTab(t, near, new), S \cup {new})
<1>1. PICK path, tabs : path = PathTo(t, near) /\ tabs = t[path].tabs
  OBVIOUS
<1>2. LeafOk(t[path]) /\ near \in Tabs(t, path) /\ Tabs(t, path) \subseteq S
  BY <1>1, PathToIs DEF Sound
<1>3. PICK more, i : more = Append(tabs, new) /\ i = Len(tabs) + 1
  OBVIOUS
<1>4. tabs \in Seq(Surfaces) /\ IsInjective(tabs) /\ ToSet(tabs) = Tabs(t, path) /\ new \notin ToSet(tabs)
  BY <1>1, <1>2 DEF LeafOk, Tabs
<1>5. /\ more \in Seq(Surfaces) /\ IsInjective(more) /\ ToSet(more) = Tabs(t, path) \cup {new}
      /\ i \in DOMAIN more
  BY <1>3, <1>4, Appended
<1>6. PICK leaf : leaf = Leaf(more, i)
  OBVIOUS
<1>7. LeafOk(leaf) /\ ToSet(leaf.tabs) = Tabs(t, path) \cup {new}
  BY <1>5, <1>6, LeafIs
<1>8. PICK rest : rest = S \ Tabs(t, PathTo(t, near))
  OBVIOUS
<1>9. S \cup {new} = rest \cup ToSet(leaf.tabs) /\ ToSet(leaf.tabs) \cap rest = {}
  BY <1>1, <1>2, <1>7, <1>8
<1>10. Sound(PutLeaf(t, near, leaf), S \cup {new})
  BY <1>7, <1>8, <1>9, PutLeafSound
<1> QED
  BY <1>1, <1>3, <1>6, <1>10 DEF PushTab, LeafWith

LEMMA RemoveTabSound ==
  ASSUME NEW t, NEW S, Sound(t, S), NEW s \in S, Len(LeafWith(t, s).tabs) > 1
  PROVE  /\ Sound(RemoveTab(t, s), S \ {s})
         /\ Shown(RemoveTab(t, s)[PathTo(t, s)]) \in S \ {s}
<1>1. PICK path, old : path = PathTo(t, s) /\ old = t[path]
  OBVIOUS
<1>2. LeafOk(old) /\ s \in ToSet(old.tabs) /\ ToSet(old.tabs) = Tabs(t, path) /\ Tabs(t, path) \subseteq S
  BY <1>1, PathToIs DEF Sound, Tabs
<1>3. PICK tabs, a, i, rest, b :
        /\ tabs = old.tabs /\ a = old.active /\ i = IndexIn(tabs, s) /\ rest = RemoveAt(tabs, i)
        /\ b = IF a >= i /\ a > 1 THEN a - 1 ELSE AtMost(a, rest)
  OBVIOUS
<1>4. /\ tabs \in Seq(Surfaces) /\ IsInjective(tabs) /\ i \in 1 .. Len(tabs) /\ tabs[i] = s
      /\ a \in 1 .. Len(tabs) /\ Len(tabs) > 1 /\ Len(tabs) \in Nat
  BY <1>1, <1>2, <1>3, IndexFound DEF LeafOk, LeafWith
<1>5. /\ rest \in Seq(Surfaces) /\ Len(rest) = Len(tabs) - 1 /\ IsInjective(rest)
      /\ ToSet(rest) = Tabs(t, path) \ {s}
  <2>1. /\ RemoveAt(tabs, i) \in Seq(Surfaces) /\ Len(RemoveAt(tabs, i)) = Len(tabs) - 1
        /\ IsInjective(RemoveAt(tabs, i)) /\ ToSet(RemoveAt(tabs, i)) = ToSet(tabs) \ {tabs[i]}
    BY <1>4, Removed, WithoutAt
  <2>2. ToSet(tabs) = Tabs(t, path)
    BY <1>2, <1>3
  <2> QED
    BY <1>3, <1>4, <2>1, <2>2, Zenon
<1>6. b \in DOMAIN rest
  BY <1>3, <1>4, <1>5 DEF AtMost
<1>7. PICK leaf : leaf = Leaf(rest, b)
  OBVIOUS
<1>8. LeafOk(leaf) /\ ToSet(leaf.tabs) = Tabs(t, path) \ {s}
  BY <1>5, <1>6, <1>7, LeafIs
<1>9. PICK others : others = S \ Tabs(t, PathTo(t, s))
  OBVIOUS
<1>10. S \ {s} = others \cup ToSet(leaf.tabs) /\ ToSet(leaf.tabs) \cap others = {}
  BY <1>1, <1>2, <1>8, <1>9
<1>11. Sound(PutLeaf(t, s, leaf), S \ {s}) /\ PutLeaf(t, s, leaf)[path] = leaf
  <2>1. PICK all : all = S \ {s}
    OBVIOUS
  <2>2. all = others \cup ToSet(leaf.tabs)
    BY <1>10, <2>1
  <2>3. LeafOk(leaf)
    BY <1>8
  <2>4. Sound(PutLeaf(t, s, leaf), all) /\ PutLeaf(t, s, leaf)[PathTo(t, s)] = leaf
    BY <1>9, <1>10, <2>2, <2>3, PutLeafSound
  <2> QED
    BY <1>1, <2>1, <2>4
<1>12. RemoveTab(t, s) = PutLeaf(t, s, leaf)
  BY <1>1, <1>3, <1>7 DEF RemoveTab, LeafWith
<1>13. Shown(leaf) \in S \ {s}
  BY <1>2, <1>8, OkIsLeaf
<1> QED
  BY <1>1, <1>11, <1>12, <1>13

LEMMA WithoutTabOk ==
  ASSUME NEW leaf, LeafOk(leaf), NEW s \in ToSet(leaf.tabs), Len(leaf.tabs) > 1,
         NEW left, left = WithoutTab(leaf, s)
  PROVE  LeafOk(left) /\ ToSet(left.tabs) = ToSet(leaf.tabs) \ {s}
<1>1. PICK rest : rest = Drop(leaf.tabs, s)
  OBVIOUS
<1>2. /\ rest \in Seq(Surfaces) /\ IsInjective(rest) /\ ToSet(rest) = ToSet(leaf.tabs) \ {s}
      /\ Len(rest) = Len(leaf.tabs) - 1
  BY <1>1, Dropped DEF LeafOk
<1>3. CASE Shown(leaf) = s
  <2>1. PICK i : i = AtMost(leaf.active, rest)
    OBVIOUS
  <2>2. i \in DOMAIN rest
    BY <1>2, <2>1 DEF AtMost, LeafOk
  <2>3. left = Leaf(rest, i)
    BY <1>1, <1>3, <2>1 DEF WithoutTab
  <2> QED
    BY <1>2, <2>2, <2>3, LeafIs
<1>4. CASE Shown(leaf) # s
  <2>1. Shown(leaf) \in ToSet(rest)
    BY <1>2, <1>4, OkIsLeaf
  <2>2. left = LeafShowing(rest, Shown(leaf))
    BY <1>1, <1>4 DEF WithoutTab
  <2> QED
    BY <1>2, <2>1, <2>2, LeafShows
<1> QED
  BY <1>3, <1>4

LEMMA MoveTabSound ==
  ASSUME NEW t, NEW S, Sound(t, S), NEW s \in S, NEW target \in S, s # target, NEW position,
         CanMoveTab(t, s, target)
  PROVE  Sound(MoveTabInTree(t, s, target, position), S)
<1>1. PICK ps, pt, from, to : /\ ps = PathTo(t, s) /\ pt = PathTo(t, target)
                              /\ from = t[ps] /\ to = t[pt]
  OBVIOUS
<1>2. /\ LeafOk(from) /\ s \in ToSet(from.tabs) /\ ToSet(from.tabs) = Tabs(t, ps) /\ Tabs(t, ps) \subseteq S
      /\ LeafOk(to) /\ target \in ToSet(to.tabs) /\ ToSet(to.tabs) = Tabs(t, pt) /\ Tabs(t, pt) \subseteq S
      /\ ps \in Panes(t) /\ pt \in Panes(t)
  BY <1>1, PathToIs DEF Sound, Tabs
<1>3. s \in Surfaces
  BY <1>2, OkIsLeaf
<1>4. CASE ps = pt
  <2>1. PICK less, more : less = Drop(from.tabs, s) /\ more = Placed(less, s, target, position)
    OBVIOUS
  <2>2. less \in Seq(Surfaces) /\ IsInjective(less) /\ ToSet(less) = ToSet(from.tabs) \ {s}
    BY <1>2, <2>1, Dropped DEF LeafOk
  <2>3. target \in ToSet(less) /\ s \notin ToSet(less)
    BY <1>1, <1>2, <1>4, <2>2
  <2>4. more \in Seq(Surfaces) /\ IsInjective(more) /\ ToSet(more) = ToSet(less) \cup {s}
    BY <1>3, <2>1, <2>2, <2>3, PlacedIn
  <2>5. ToSet(more) = Tabs(t, ps) /\ Shown(from) \in ToSet(more)
    BY <1>2, <2>2, <2>4, OkIsLeaf
  <2>6. PICK leaf : leaf = LeafShowing(more, Shown(from))
    OBVIOUS
  <2>7. LeafOk(leaf) /\ ToSet(leaf.tabs) = Tabs(t, ps)
    BY <2>4, <2>5, <2>6, LeafShows
  <2>8. PICK rest : rest = S \ Tabs(t, PathTo(t, s))
    OBVIOUS
  <2>9. S = rest \cup ToSet(leaf.tabs) /\ ToSet(leaf.tabs) \cap rest = {}
    BY <1>1, <1>2, <2>7, <2>8
  <2>10. Sound(PutLeaf(t, s, leaf), S)
    BY <2>7, <2>8, <2>9, PutLeafSound
  <2> QED
    BY <1>1, <1>4, <2>1, <2>6, <2>10 DEF MoveTabInTree, SameLeaf, LeafWith
<1>5. CASE ps # pt
  <2>1. Len(from.tabs) > 1
    BY <1>1, <1>5 DEF CanMoveTab, SameLeaf, LeafWith
  <2>2. PICK left : left = WithoutTab(from, s)
    OBVIOUS
  <2>3. LeafOk(left) /\ ToSet(left.tabs) = Tabs(t, ps) \ {s}
    BY <1>2, <2>1, <2>2, WithoutTabOk
  <2>4. PICK u, rest : u = PutLeaf(t, s, left) /\ rest = S \ Tabs(t, PathTo(t, s))
    OBVIOUS
  <2>5. S \ {s} = rest \cup ToSet(left.tabs) /\ ToSet(left.tabs) \cap rest = {}
    BY <1>1, <1>2, <2>3, <2>4
  <2>6. Sound(u, S \ {s})
    BY <2>3, <2>4, <2>5, PutLeafSound
  <2>7. u[pt] = to /\ pt \in Panes(u)
    <3>1. u = With(t, ps, left)
      BY <1>1, <2>4 DEF PutLeaf
    <3>2. pt \in DOMAIN u /\ u[pt] = to
      BY <1>1, <1>2, <1>5, <3>1 DEF With, Panes
    <3> QED
      BY <1>1, <1>2, <3>2 DEF Panes
  <2>8. PathTo(u, target) = pt /\ Tabs(u, pt) = Tabs(t, pt)
    <3>1. target \in S \ {s} /\ target \in Tabs(u, pt)
      BY <1>2, <2>7 DEF Tabs
    <3>2. Tabs(u, pt) = Tabs(t, pt)
      BY <1>1, <2>7 DEF Tabs
    <3> QED
      BY <2>6, <2>7, <3>1, <3>2, PathToIs DEF Sound
  <2>9. s \notin Tabs(t, pt)
    BY <1>1, <1>2, <1>5, PathToIs DEF Sound
  <2>10. PICK more, shown : /\ more = Placed(to.tabs, s, target, position)
                            /\ shown = IF Shown(from) = s THEN s ELSE Shown(to)
    OBVIOUS
  <2>11. more \in Seq(Surfaces) /\ IsInjective(more) /\ ToSet(more) = Tabs(t, pt) \cup {s}
    BY <1>2, <1>3, <2>9, <2>10, PlacedIn DEF LeafOk
  <2>12. shown \in ToSet(more)
    BY <1>2, <2>10, <2>11, OkIsLeaf
  <2>13. PICK leaf : leaf = LeafShowing(more, shown)
    OBVIOUS
  <2>14. LeafOk(leaf) /\ ToSet(leaf.tabs) = Tabs(t, pt) \cup {s}
    BY <2>11, <2>12, <2>13, LeafShows
  <2>15. PICK others : others = (S \ {s}) \ Tabs(u, PathTo(u, target))
    OBVIOUS
  <2>16. S = others \cup ToSet(leaf.tabs) /\ ToSet(leaf.tabs) \cap others = {}
    BY <1>2, <2>8, <2>14, <2>15
  <2>17. Sound(PutLeaf(u, target, leaf), S)
    <3>1. target \in S \ {s}
      OBVIOUS
    <3> QED
      BY <2>6, <2>14, <2>15, <2>16, <3>1, PutLeafSound
  <2>18. MoveTabInTree(t, s, target, position) = With(u, pt, leaf)
    BY <1>1, <1>5, <2>2, <2>4, <2>10, <2>13 DEF MoveTabInTree, SameLeaf, LeafWith
  <2> QED
    BY <2>8, <2>17, <2>18 DEF PutLeaf
<1> QED
  BY <1>4, <1>5

LEMMA SwapSound ==
  ASSUME NEW t, NEW S, Sound(t, S), NEW s \in S, NEW target \in S, ~SameLeaf(t, s, target)
  PROVE  Sound(SwapLeaves(t, s, target), S)
<1>1. PICK ps, pt, u : ps = PathTo(t, s) /\ pt = PathTo(t, target) /\ u = SwapLeaves(t, s, target)
  OBVIOUS
<1>2. ps # pt
  BY <1>1 DEF SameLeaf
<1>3. ps \in Panes(t) /\ pt \in Panes(t)
  BY <1>1, PathToIs DEF Sound
<1>4. u = With(With(t, ps, t[pt]), pt, t[ps])
  BY <1>1 DEF SwapLeaves, PutLeaf, LeafWith
<1>5. /\ DOMAIN u = DOMAIN t
      /\ u[ps] = t[pt] /\ u[pt] = t[ps]
      /\ \A p \in DOMAIN t : p \notin {ps, pt} => u[p] = t[p]
  BY <1>2, <1>3, <1>4 DEF With, Panes
<1>6. u = [p \in DOMAIN u |-> u[p]]
  BY <1>4 DEF With
<1>7. \A p \in DOMAIN t : IsLeaf(u[p]) <=> IsLeaf(t[p])
  BY <1>3, <1>5 DEF Panes
<1>8. Shape(u) /\ Panes(u) = Panes(t)
  BY <1>5, <1>6, <1>7, Relabelled DEF Sound
<1>9. PICK g : g = [p \in Panes(t) |-> IF p = ps THEN pt ELSE IF p = pt THEN ps ELSE p]
  OBVIOUS
<1>10. \A p \in Panes(t) : g[p] \in Panes(t) /\ u[p] = t[g[p]] /\ Tabs(u, p) = Tabs(t, g[p]) /\ g[g[p]] = p
  <2> TAKE p \in Panes(t)
  <2>1. g[p] \in Panes(t) /\ g[g[p]] = p
    BY <1>2, <1>3, <1>9
  <2>2. u[p] = t[g[p]]
    BY <1>3, <1>5, <1>9 DEF Panes
  <2> QED
    BY <2>1, <2>2 DEF Tabs
<1>11. Partition(u, S)
  <2>1. \A p \in Panes(u) : LeafOk(u[p]) /\ Tabs(u, p) \subseteq S
    BY <1>8, <1>10 DEF Sound, Partition
  <2>2. ASSUME NEW p \in Panes(u), NEW q \in Panes(u), p # q PROVE Tabs(u, p) \cap Tabs(u, q) = {}
    <3>1. g[p] # g[q]
      BY <1>8, <1>10, <2>2
    <3> QED
      BY <1>8, <1>10, <2>2, <3>1 DEF Sound, Partition
  <2>3. ASSUME NEW x \in S PROVE \E p \in Panes(u) : x \in Tabs(u, p)
    <3>1. PICK p \in Panes(t) : x \in Tabs(t, p)
      BY DEF Sound, Partition, Holds, Tabs
    <3> QED
      BY <1>8, <1>10, <3>1
  <2> QED
    BY <2>1, <2>2, <2>3 DEF Partition, Holds, Tabs
<1> QED
  BY <1>1, <1>8, <1>11 DEF Sound

(* Trees whose nodes go to other paths.                                    *)
LEMMA MovedIs ==
  ASSUME NEW t, NEW g, NEW D, D = DOMAIN g,
         \A p, q \in D : g[p] = g[q] => p = q,
         NEW u, u = Moved(t, g)
  PROVE  /\ \A q : q \in DOMAIN u <=> \E p \in D : q = g[p]
         /\ u = [q \in DOMAIN u |-> u[q]]
         /\ \A p \in D : g[p] \in DOMAIN u /\ u[g[p]] = t[p]
<1>1. PICK R : R = {g[p] : p \in D}
  OBVIOUS
<1>2. u = [q \in R |-> t[CHOOSE p \in D : g[p] = q]]
  BY <1>1 DEF Moved
<1>3. DOMAIN u = R
  BY <1>2
<1>4. ASSUME NEW p \in D PROVE g[p] \in R /\ u[g[p]] = t[p]
  <2>1. PICK q : q = g[p]
    OBVIOUS
  <2>2. q \in R
    BY <1>1, <2>1
  <2>3. PICK o : o = CHOOSE x \in D : g[x] = q
    OBVIOUS
  <2>4. o \in D /\ g[o] = q
    BY <2>1, <2>3
  <2>5. o = p
    BY <2>1, <2>4
  <2>6. u[q] = t[o]
    BY <1>2, <2>2, <2>3
  <2> QED
    BY <2>1, <2>2, <2>5, <2>6
<1>5. u = [q \in DOMAIN u |-> u[q]]
  BY <1>2
<1> QED
  BY <1>1, <1>3, <1>4, <1>5

(* The panes of u are some of those of t, at other paths; the others held  *)
(* no tabs but those that are gone.                                        *)
Carries(t, u, g, Kept, gone) ==
  /\ Kept \subseteq Panes(t)
  /\ \A p \in Kept : g[p] \in Panes(u) /\ u[g[p]] = t[p] /\ Tabs(t, p) \cap gone = {}
  /\ \A p \in Panes(t) \ Kept : Tabs(t, p) \subseteq gone
  /\ \A q \in Panes(u) : \E p \in Kept : q = g[p]

LEMMA PartitionMoved ==
  ASSUME NEW t, NEW S, Partition(t, S), NEW u, NEW g, NEW Kept, NEW gone, Carries(t, u, g, Kept, gone)
  PROVE  Partition(u, S \ gone)
<1> USE DEF Carries
<1>1. \A p \in Kept : Tabs(u, g[p]) = Tabs(t, p)
  BY DEF Tabs
<1>2. ASSUME NEW q \in Panes(u) PROVE LeafOk(u[q]) /\ Tabs(u, q) \subseteq S \ gone
  <2>1. PICK p \in Kept : q = g[p]
    OBVIOUS
  <2>2. LeafOk(t[p]) /\ Tabs(t, p) \subseteq S
    BY DEF Partition
  <2> QED
    BY <1>1, <2>1, <2>2
<1>3. ASSUME NEW q \in Panes(u), NEW r \in Panes(u), q # r PROVE Tabs(u, q) \cap Tabs(u, r) = {}
  <2>1. PICK p \in Kept, o \in Kept : q = g[p] /\ r = g[o]
    OBVIOUS
  <2>2. Tabs(t, p) \cap Tabs(t, o) = {}
    BY <1>3, <2>1 DEF Partition
  <2> QED
    BY <1>1, <2>1, <2>2
<1>4. ASSUME NEW s \in S \ gone PROVE \E q \in Panes(u) : s \in Tabs(u, q)
  <2>1. PICK p \in Panes(t) : s \in Tabs(t, p)
    BY DEF Partition, Holds, Tabs
  <2>2. p \in Kept
    BY <2>1
  <2> QED
    BY <1>1, <2>1, <2>2
<1> QED
  BY <1>2, <1>3, <1>4 DEF Partition, Holds, Tabs

LEMMA PartitionPlus ==
  ASSUME NEW t, NEW S, Partition(t, S), NEW u, NEW path, path \notin Panes(t),
         Panes(u) = Panes(t) \cup {path}, \A p \in Panes(t) : u[p] = t[p],
         NEW new, new \notin S, LeafOk(u[path]), Tabs(u, path) = {new}
  PROVE  Partition(u, S \cup {new})
<1>1. \A p \in Panes(t) : Tabs(u, p) = Tabs(t, p)
  BY DEF Tabs
<1>2. \A p \in Panes(u) : LeafOk(u[p]) /\ Tabs(u, p) \subseteq S \cup {new}
  BY <1>1 DEF Partition
<1>3. ASSUME NEW q \in Panes(u), NEW r \in Panes(u), q # r PROVE Tabs(u, q) \cap Tabs(u, r) = {}
  BY <1>1, <1>3 DEF Partition
<1>4. ASSUME NEW s \in S \cup {new} PROVE \E q \in Panes(u) : s \in Tabs(u, q)
  <2>1. CASE s \in S
    BY <1>1, <2>1 DEF Partition, Holds, Tabs
  <2> QED
    BY <2>1
<1> QED
  BY <1>2, <1>3, <1>4 DEF Partition, Holds, Tabs

(* The path of a pane has none below it.                                   *)
LEMMA NoneBelow ==
  ASSUME NEW t, Shape(t), NEW path \in Panes(t), NEW q \in DOMAIN t,
         Len(q) >= Len(path), Alike(q, path, Len(path))
  PROVE  q = path
<1>1. /\ path \in DOMAIN t /\ path \in Path /\ q \in Path /\ Len(path) \in Nat /\ Len(q) \in Nat
      /\ IsLeaf(t[path])
  BY PathIs DEF Panes, Shape, Rooted
<1>2. CASE Len(q) = Len(path)
  BY <1>1, <1>2, SamePath
<1>3. CASE Len(q) # Len(path)
  <2>1. Len(path) \in 0 .. Len(q) - 1
    BY <1>1, <1>3
  <2>2. PICK r \in DOMAIN t : Len(r) = Len(path) /\ Alike(q, r, Len(path)) /\ ~IsLeaf(t[r])
    BY <2>1 DEF Shape, Ancestors
  <2>3. r \in Path /\ Alike(r, path, Len(r))
    BY <2>2 DEF Shape, Rooted, Alike
  <2>4. r = path
    BY <1>1, <2>2, <2>3, SamePath
  <2> QED
    BY <1>1, <2>2, <2>4
<1> QED
  BY <1>2, <1>3

(* A pane divided in two, in a split of their own.                         *)
LEMMA DivideSound ==
  ASSUME NEW t, NEW S, Sound(t, S), NEW path \in Panes(t), Len(path) <= MaxSplitDepth,
         NEW axis, NEW new \in Surfaces, new \notin S, NEW leaf, leaf = Leaf(<<new>>, 1)
  PROVE  Sound(DividePane(t, path, axis, leaf), S \cup {new})
<1> DEFINE k == Len(path)
<1>1. /\ path \in DOMAIN t /\ path \in Path /\ k \in Nat /\ IsLeaf(t[path])
      /\ \A q \in DOMAIN t : q \in Path /\ Len(q) \in Nat
      /\ Shape(t) /\ Partition(t, S)
  BY PathIs DEF Panes, Sound, Shape, Rooted
<1>2. PICK one, two, split : one = Append(path, 1) /\ two = Append(path, 2) /\ split = SplitNode(axis)
  OBVIOUS
<1>3. /\ one \in Path /\ Len(one) = k + 1 /\ Alike(path, one, k) /\ one[k + 1] = 1
      /\ two \in Path /\ Len(two) = k + 1 /\ Alike(path, two, k) /\ two[k + 1] = 2
  <2>1. 1 \in Nat \ {0} /\ 2 \in Nat \ {0}
    OBVIOUS
  <2>2. one \in Path /\ Len(one) = k + 1 /\ Alike(path, one, k) /\ one[k + 1] = 1
    BY <1>1, <1>2, <2>1, PathExtended
  <2>3. two \in Path /\ Len(two) = k + 1 /\ Alike(path, two, k) /\ two[k + 1] = 2
    BY <1>1, <1>2, <2>1, PathExtended, ZenonT(30)
  <2> QED
    BY <2>2, <2>3
<1>4. one \notin DOMAIN t /\ two \notin DOMAIN t /\ one # two
  <2>1. Alike(one, path, k) /\ Alike(two, path, k)
    BY <1>3 DEF Alike
  <2> QED
    BY <1>1, <1>3, <2>1, NoneBelow
<1>5. ~IsLeaf(split)
  BY <1>2 DEF SplitNode, IsLeaf
<1>6. PICK tabs : tabs = <<new>>
  OBVIOUS
<1>7. LeafOk(leaf) /\ ToSet(leaf.tabs) = {new} /\ IsLeaf(leaf)
  <2>1. tabs \in Seq(Surfaces) /\ IsInjective(tabs) /\ 1 \in DOMAIN tabs /\ ToSet(tabs) = {new}
    BY <1>6 DEF IsInjective, ToSet
  <2> QED
    BY <1>6, <2>1, LeafIs
<1>8. PICK v : v = With(With(t, path, split), one, t[path])
  OBVIOUS
<1>9. PICK u : u = With(v, two, leaf)
  OBVIOUS
<1>10. DividePane(t, path, axis, leaf) = u
  BY <1>2, <1>8, <1>9 DEF DividePane
<1>11. /\ DOMAIN v = DOMAIN t \cup {one} /\ v[path] = split /\ v[one] = t[path]
       /\ \A q \in DOMAIN t : q # path => v[q] = t[q]
  BY <1>1, <1>4, <1>8 DEF With
<1>12. /\ DOMAIN u = DOMAIN t \cup {one, two} /\ u = [q \in DOMAIN u |-> u[q]]
       /\ u[path] = split /\ u[one] = t[path] /\ u[two] = leaf
       /\ \A q \in DOMAIN t : q # path => u[q] = t[q]
  <2>1. DOMAIN u = DOMAIN v \cup {two} /\ u = [q \in DOMAIN u |-> u[q]]
        /\ u[two] = leaf /\ \A q \in DOMAIN v : q # two => u[q] = v[q]
    BY <1>9 DEF With
  <2> QED
    BY <1>1, <1>4, <1>11, <2>1
<1>13. Rooted(u)
  BY <1>1, <1>3, <1>12 DEF Shape, Rooted
<1>14. Elders(u)
  <2> SUFFICES ASSUME NEW p \in DOMAIN u, NEW n \in 1 .. Len(p), NEW j \in 1 .. p[n]
               PROVE  \E q \in DOMAIN u : Len(q) = n /\ Alike(p, q, n - 1) /\ q[n] = j
    BY DEF Elders
  <2>1. CASE p \in DOMAIN t
    BY <1>1, <1>12, <2>1 DEF Shape, Elders
  <2>2. CASE p \in {one, two}
    <3>1. CASE n <= k
      <4>1. n \in 1 .. k /\ p[n] = path[n] /\ Alike(p, path, n - 1)
        <5>1. n \in 1 .. k
          BY <1>1, <1>3, <2>2, <3>1
        <5>2. Alike(path, p, k)
          BY <1>3, <2>2
        <5> QED
          BY <1>1, <5>1, <5>2, SMTT(20) DEF Alike
      <4>2. PICK q \in DOMAIN t : Len(q) = n /\ Alike(path, q, n - 1) /\ q[n] = j
        BY <1>1, <4>1 DEF Shape, Elders
      <4> QED
        BY <1>12, <4>1, <4>2 DEF Alike
    <3>2. CASE n = k + 1
      <4>1. Alike(p, one, k) /\ Alike(p, two, k)
        BY <1>3, <2>2 DEF Alike
      <4>2. j = 1 \/ j = 2
        BY <1>3, <2>2, <3>2
      <4> QED
        BY <1>1, <1>3, <1>12, <3>2, <4>1, <4>2
    <3> QED
      BY <1>1, <1>3, <2>2, <3>1, <3>2
  <2> QED
    BY <1>12, <2>1, <2>2
<1>15. Ancestors(u)
  <2> SUFFICES ASSUME NEW p \in DOMAIN u, NEW n \in 0 .. Len(p) - 1
               PROVE  \E q \in DOMAIN u : Len(q) = n /\ Alike(p, q, n) /\ ~IsLeaf(u[q])
    BY DEF Ancestors
  <2>1. CASE p \in DOMAIN t
    <3>1. PICK q \in DOMAIN t : Len(q) = n /\ Alike(p, q, n) /\ ~IsLeaf(t[q])
      BY <1>1, <2>1 DEF Shape, Ancestors
    <3> QED
      BY <1>1, <1>12, <3>1
  <2>2. CASE p \in {one, two}
    <3>0. Alike(p, path, k)
      BY <1>3, <2>2 DEF Alike
    <3>1. CASE n = k
      BY <1>1, <1>5, <1>12, <3>0, <3>1
    <3>2. CASE n # k
      <4>1. n \in 0 .. k - 1
        BY <1>1, <1>3, <2>2, <3>2
      <4>2. PICK q \in DOMAIN t : Len(q) = n /\ Alike(path, q, n) /\ ~IsLeaf(t[q])
        BY <1>1, <4>1 DEF Shape, Ancestors
      <4>3. u[q] = t[q] /\ q \in DOMAIN u
        BY <1>1, <1>12, <4>2
      <4>4. Alike(p, q, n)
        BY <3>0, <4>1, <4>2 DEF Alike
      <4> QED
        BY <4>2, <4>3, <4>4
    <3> QED
      BY <3>1, <3>2
  <2> QED
    BY <1>12, <2>1, <2>2
<1>16. Forks(u)
  <2> SUFFICES ASSUME NEW p \in DOMAIN u, ~IsLeaf(u[p])
               PROVE  /\ Len(p) <= MaxSplitDepth
                      /\ \E q \in DOMAIN u : Len(q) = Len(p) + 1 /\ Alike(p, q, Len(p)) /\ q[Len(q)] = 2
    BY DEF Forks
  <2>1. CASE p = path
    BY <1>3, <1>12, <2>1
  <2>2. CASE p # path
    <3>1. p \in DOMAIN t /\ ~IsLeaf(t[p])
      BY <1>1, <1>7, <1>12, <2>2
    <3> QED
      BY <1>1, <1>12, <3>1 DEF Shape, Forks
  <2> QED
    BY <2>1, <2>2
<1>17. Partition(u, S \cup {new})
  <2>1. PICK g : g = [p \in Panes(t) |-> IF p = path THEN one ELSE p]
    OBVIOUS
  <2>2. Panes(v) = (Panes(t) \ {path}) \cup {one}
    BY <1>1, <1>4, <1>5, <1>11 DEF Panes
  <2>3. \A p \in Panes(t) : g[p] \in Panes(v) /\ v[g[p]] = t[p]
    <3> TAKE p \in Panes(t)
    <3>1. CASE p = path
      BY <1>11, <2>1, <2>2, <3>1
    <3>2. CASE p # path
      BY <1>11, <2>1, <2>2, <3>2 DEF Panes
    <3> QED
      BY <3>1, <3>2
  <2>4. \A q \in Panes(v) : \E p \in Panes(t) : q = g[p]
    BY <2>1, <2>2
  <2>5. PICK gone : gone = {}
    OBVIOUS
  <2>6. Partition(v, S \ gone)
    <3>1. Carries(t, v, g, Panes(t), gone)
      BY <2>3, <2>4, <2>5 DEF Carries
    <3> QED
      BY <1>1, <3>1, PartitionMoved
  <2>7. Partition(v, S)
    <3>1. S \ gone = S
      BY <2>5
    <3> QED
      BY <2>6, <3>1
  <2>8. /\ two \notin Panes(v) /\ Panes(u) = Panes(v) \cup {two} /\ u[two] = leaf
        /\ \A p \in Panes(v) : u[p] = v[p]
    BY <1>1, <1>4, <1>5, <1>7, <1>11, <1>12, <2>2 DEF Panes
  <2>9. LeafOk(u[two]) /\ Tabs(u, two) = {new}
    BY <1>7, <2>8 DEF Tabs
  <2> QED
    BY <2>7, <2>8, <2>9, PartitionPlus
<1> QED
  BY <1>10, <1>13, <1>14, <1>15, <1>16, <1>17 DEF Sound, Shape

(* A pane beside another in the same split: its later siblings move up.    *)
LEMMA JoinSound ==
  ASSUME NEW t, NEW S, Sound(t, S), NEW path \in Panes(t), path # <<>>,
         NEW new \in Surfaces, new \notin S, NEW leaf, leaf = Leaf(<<new>>, 1)
  PROVE  Sound(JoinSplit(t, path, leaf), S \cup {new})
<1>1. PICK k : k = Len(path)
  OBVIOUS
<1>2. /\ path \in DOMAIN t /\ path \in Path /\ k \in Nat /\ k >= 1 /\ IsLeaf(t[path])
      /\ path[k] \in Nat /\ path[k] >= 1
      /\ \A p \in DOMAIN t : p \in Path /\ Len(p) \in Nat
      /\ \A p \in DOMAIN t : \A i \in 1 .. Len(p) : p[i] \in Nat /\ p[i] >= 1
      /\ Shape(t) /\ Partition(t, S)
  <2>1. path \in DOMAIN t /\ path \in Path /\ IsLeaf(t[path]) /\ \A p \in DOMAIN t : p \in Path
    BY DEF Panes, Sound, Shape, Rooted
  <2>2. k \in Nat /\ k >= 1
    BY <1>1, <2>1, PathIs, EmptyPath
  <2> QED
    BY <1>1, <2>1, <2>2, PathIs DEF Sound
<1>3. PICK L : L = {p \in DOMAIN t : Later(path, p)}
  OBVIOUS
<1>4. \A p \in DOMAIN t : p \in L <=> Len(p) >= k /\ p[k] > path[k] /\ Alike(p, path, k - 1)
  BY <1>1, <1>2, <1>3, LaterIs
<1>5. PICK g : g = [p \in DOMAIN t |-> IF Later(path, p) THEN [p EXCEPT ![k] = @ + 1] ELSE p]
  OBVIOUS
<1>6. PICK beside : beside = [path EXCEPT ![k] = @ + 1]
  OBVIOUS
<1>7. /\ beside \in Path /\ Len(beside) = k /\ beside[k] = path[k] + 1
      /\ Alike(beside, path, k - 1)
  <2>1. PICK x : x = path[k] + 1
    OBVIOUS
  <2>2. x \in Nat \ {0} /\ k \in 1 .. Len(path) /\ beside = [path EXCEPT ![k] = x]
    BY <1>1, <1>2, <1>6, <2>1
  <2>3. /\ beside \in Path /\ Len(beside) = Len(path) /\ beside[k] = x
        /\ \A i \in 1 .. Len(path) : i # k => beside[i] = path[i]
    <3>1. /\ [path EXCEPT ![k] = x] \in Path /\ Len([path EXCEPT ![k] = x]) = Len(path)
          /\ [path EXCEPT ![k] = x][k] = x
          /\ \A i \in 1 .. Len(path) : i # k => [path EXCEPT ![k] = x][i] = path[i]
      BY <1>2, <2>2, ExceptSeq DEF Path
    <3> QED
      BY <2>2, <3>1, Zenon
  <2> QED
    BY <1>1, <1>2, <2>1, <2>3 DEF Alike
<1>8. ASSUME NEW p \in DOMAIN t
      PROVE  /\ g[p] \in Path /\ Len(g[p]) = Len(p)
             /\ \A i \in 1 .. Len(p) : i # k => g[p][i] = p[i]
             /\ p \in L => g[p][k] = p[k] + 1
             /\ p \notin L => g[p] = p
  <2>1. CASE p \in L
    <3>1. PICK x, q : x = p[k] + 1 /\ q = g[p]
      OBVIOUS
    <3>2. x \in Nat \ {0} /\ k \in 1 .. Len(p) /\ q = [p EXCEPT ![k] = x] /\ p \in Path
      BY <1>2, <1>3, <1>4, <1>5, <2>1, <3>1
    <3>3. /\ q \in Path /\ Len(q) = Len(p) /\ q[k] = x
          /\ \A i \in 1 .. Len(p) : i # k => q[i] = p[i]
      <4>1. /\ [p EXCEPT ![k] = x] \in Path /\ Len([p EXCEPT ![k] = x]) = Len(p)
            /\ [p EXCEPT ![k] = x][k] = x
            /\ \A i \in 1 .. Len(p) : i # k => [p EXCEPT ![k] = x][i] = p[i]
        BY <3>2, ExceptSeq DEF Path
      <4> QED
        BY <3>2, <4>1, Zenon
    <3> QED
      BY <2>1, <3>1, <3>3
  <2>2. CASE p \notin L
    BY <1>2, <1>3, <1>5, <2>2
  <2> QED
    BY <2>1, <2>2
<1> DEFINE D == DOMAIN t
<1>9. ASSUME NEW p \in D, NEW q \in D, Len(q) >= k, Len(p) >= k, Alike(p, q, k)
      PROVE  p \in L <=> q \in L
  BY <1>2, <1>4, <1>9 DEF Alike
<1>10. \A p, q \in D : g[p] = g[q] => p = q
  <2> SUFFICES ASSUME NEW p \in D, NEW q \in D, g[p] = g[q] PROVE p = q
    OBVIOUS
  <2>1. Len(p) = Len(q) /\ \A i \in 1 .. Len(p) : i # k => p[i] = q[i]
    BY <1>8
  <2>2. CASE k > Len(p)
    <3>1. Alike(p, q, Len(p))
      BY <1>2, <2>1, <2>2 DEF Alike
    <3> QED
      BY <1>2, <2>1, <3>1, SamePath
  <2>3. CASE k <= Len(p)
    <3>1. Alike(p, path, k - 1) <=> Alike(q, path, k - 1)
      BY <1>2, <2>1, <2>3 DEF Alike
    <3>2. p[k] \in Nat /\ q[k] \in Nat
      BY <1>2, <2>1, <2>3
    <3>3. p[k] = q[k]
      BY <1>2, <1>4, <1>8, <2>1, <2>3, <3>1, <3>2
    <3>4. Alike(p, q, Len(p))
      BY <1>2, <2>1, <3>3 DEF Alike
    <3> QED
      BY <1>2, <2>1, <3>4, SamePath
  <2> QED
    BY <1>2, <2>2, <2>3
<1>11. PICK v, u : v = Moved(t, g) /\ u = With(v, beside, leaf)
  OBVIOUS
<1>12. JoinSplit(t, path, leaf) = u
  BY <1>1, <1>5, <1>6, <1>11 DEF JoinSplit
<1>13. /\ \A q : q \in DOMAIN v <=> \E p \in D : q = g[p]
       /\ \A p \in D : g[p] \in DOMAIN v /\ v[g[p]] = t[p]
  <2>1. D = DOMAIN g
    BY <1>5
  <2> QED
    BY <1>10, <1>11, <2>1, MovedIs
<1>14. beside \notin DOMAIN v
  <2> SUFFICES ASSUME NEW p \in D, g[p] = beside PROVE FALSE
    BY <1>13
  <2>a. Len(p) = k /\ \A i \in 1 .. Len(p) : i # k => beside[i] = p[i]
    BY <1>7, <1>8
  <2>1. Len(p) = k /\ Alike(p, path, k - 1) /\ p[k] \in Nat
    BY <1>2, <1>7, <2>a DEF Alike
  <2> QED
    BY <1>2, <1>4, <1>7, <1>8, <2>1, SMTT(20)
<1>15. /\ DOMAIN u = DOMAIN v \cup {beside} /\ u = [q \in DOMAIN u |-> u[q]] /\ u[beside] = leaf
       /\ \A p \in D : g[p] \in DOMAIN u /\ u[g[p]] = t[p]
       /\ \A q \in DOMAIN u : q = beside \/ \E p \in D : q = g[p]
  <2>1. /\ DOMAIN u = DOMAIN v \cup {beside} /\ u = [q \in DOMAIN u |-> u[q]] /\ u[beside] = leaf
        /\ \A q \in DOMAIN v : q # beside => u[q] = v[q]
    BY <1>11 DEF With
  <2> QED
    BY <1>13, <1>14, <2>1
<1>16. PICK tabs : tabs = <<new>>
  OBVIOUS
<1>17. LeafOk(leaf) /\ ToSet(leaf.tabs) = {new} /\ IsLeaf(leaf)
  <2>1. tabs \in Seq(Surfaces) /\ IsInjective(tabs) /\ 1 \in DOMAIN tabs /\ ToSet(tabs) = {new}
    BY <1>16 DEF IsInjective, ToSet
  <2> QED
    BY <1>16, <2>1, LeafIs
<1> HIDE DEF D
<1>d. D = DOMAIN t
  BY DEF D
<1>18. Rooted(u)
  <2>1. <<>> \in D /\ Len(<<>>) = 0
    BY <1>2, <1>d, EmptyPath DEF Shape, Rooted
  <2>2. <<>> \notin L
    BY <1>2, <1>4, <1>d, <2>1
  <2>3. <<>> \in DOMAIN u
    BY <1>8, <1>15, <1>d, <2>1, <2>2
  <2>4. \A q \in DOMAIN u : q \in Path
    BY <1>7, <1>8, <1>15, <1>d
  <2> QED
    BY <1>15, <2>3, <2>4 DEF Rooted
<1>19. Elders(u)
  <2> SUFFICES ASSUME NEW r \in DOMAIN u, NEW n \in 1 .. Len(r), NEW j \in 1 .. r[n]
               PROVE  \E q \in DOMAIN u : Len(q) = n /\ Alike(r, q, n - 1) /\ q[n] = j
    BY DEF Elders
  <2>a. \A p \in D : \A m \in 1 .. Len(p) : \A i \in 1 .. p[m] :
          \E q \in D : Len(q) = m /\ Alike(p, q, m - 1) /\ q[m] = i
    <3>1. Elders(t)
      BY <1>2 DEF Shape
    <3> QED
      BY <1>d, <3>1 DEF Elders
  <2>1. CASE r = beside
    <3>1. CASE n = k /\ j = path[k] + 1
      BY <1>7, <1>15, <2>1, <3>1 DEF Alike
    <3>2. CASE ~(n = k /\ j = path[k] + 1)
      <4>1. n \in 1 .. k /\ j \in 1 .. path[n]
        BY <1>2, <1>7, <2>1, <3>2 DEF Alike
      <4>2. PICK q \in D : Len(q) = n /\ Alike(path, q, n - 1) /\ q[n] = j
        BY <1>1, <1>2, <1>d, <2>a, <4>1
      <4>3. q \notin L
        BY <1>2, <1>4, <1>d, <4>1, <4>2
      <4>4. Alike(r, q, n - 1)
        BY <1>7, <2>1, <4>1, <4>2 DEF Alike
      <4> QED
        BY <1>8, <1>15, <1>d, <4>2, <4>3, <4>4
    <3> QED
      BY <3>1, <3>2
  <2>2. CASE r # beside
    <3>1. PICK p \in D : r = g[p]
      BY <1>15, <2>2
    <3>2. Len(r) = Len(p) /\ n \in 1 .. Len(p) /\ \A i \in 1 .. Len(p) : i # k => r[i] = p[i]
      BY <1>8, <1>d, <3>1
    <3>b. Len(p) \in Nat /\ n \in Nat /\ k \in Nat /\ n <= Len(p) /\ n >= 1
      BY <1>2, <1>d, <3>2
    <3>3. CASE n < k
      <4>1. j \in 1 .. p[n]
        BY <3>2, <3>3
      <4>2. PICK q \in D : Len(q) = n /\ Alike(p, q, n - 1) /\ q[n] = j
        BY <2>a, <3>2, <4>1
      <4>3. g[q] = q
        BY <1>2, <1>4, <1>8, <1>d, <3>3, <4>2
      <4>4. Alike(r, q, n - 1)
        BY <3>2, <3>3, <3>b, <4>2 DEF Alike
      <4> QED
        BY <1>15, <4>2, <4>3, <4>4
    <3>4. CASE n > k
      <4>1. j \in 1 .. p[n]
        BY <3>2, <3>4
      <4>2. PICK q \in D : Len(q) = n /\ Alike(p, q, n - 1) /\ q[n] = j
        BY <2>a, <3>2, <4>1
      <4>3. p \in L <=> q \in L
        <5>1. Len(q) >= k /\ Len(p) >= k /\ Alike(p, q, k)
          BY <1>2, <1>d, <3>2, <3>4, <4>2 DEF Alike
        <5> QED
          BY <1>9, <1>d, <5>1
      <4>4. PICK x : x = g[q]
        OBVIOUS
      <4>5. /\ Len(x) = n /\ \A i \in 1 .. n : i # k => x[i] = q[i]
            /\ q \in L => x[k] = q[k] + 1
            /\ q \notin L => x = q
        BY <1>8, <1>d, <4>2, <4>4
      <4>6. r[k] = x[k]
        <5>1. q[k] = p[k]
          BY <1>2, <3>4, <4>2 DEF Alike
        <5> QED
          BY <1>8, <1>d, <3>1, <4>3, <4>5, <5>1
      <4>7. Alike(r, x, n - 1) /\ x[n] = j
        BY <1>2, <1>d, <3>2, <3>4, <4>2, <4>5, <4>6 DEF Alike
      <4> QED
        BY <1>15, <4>4, <4>5, <4>7
    <3>5. CASE n = k
      <4>0. Len(p) >= k /\ p[k] \in Nat /\ \A q : Alike(p, q, k - 1) <=> Alike(r, q, k - 1)
        <5>1. Len(p) >= k /\ p[k] \in Nat
          BY <1>2, <1>d, <3>b, <3>5
        <5>2. \A i \in 1 .. k - 1 : p[i] = r[i]
          BY <3>2, <3>b, <3>5
        <5> QED
          BY <5>1, <5>2 DEF Alike
      <4>1. CASE p \in L /\ j = path[k] + 1
        <5>1. Alike(r, beside, k - 1)
          BY <1>4, <1>7, <1>d, <4>0, <4>1 DEF Alike
        <5> QED
          BY <1>7, <1>15, <3>5, <4>1, <5>1
      <4>2. CASE p \in L /\ j > path[k] + 1
        <5>1. j - 1 \in 1 .. p[k]
          BY <1>2, <1>8, <1>d, <3>1, <3>5, <4>0, <4>2
        <5>2. PICK q \in D : Len(q) = k /\ Alike(p, q, k - 1) /\ q[k] = j - 1
          BY <2>a, <3>2, <3>5, <5>1
        <5>3. Alike(q, path, k - 1)
          BY <1>4, <1>d, <4>2, <5>2 DEF Alike
        <5>4. q \in L
          BY <1>2, <1>4, <1>d, <4>2, <5>2, <5>3
        <5>5. Len(g[q]) = k /\ g[q][k] = j /\ g[q] \in DOMAIN u
          BY <1>8, <1>15, <1>d, <5>2, <5>4
        <5>6. Alike(r, g[q], k - 1)
          <6>1. \A i \in 1 .. k - 1 : g[q][i] = q[i]
            BY <1>2, <1>8, <1>d, <5>2
          <6> QED
            BY <4>0, <5>2, <6>1 DEF Alike
        <5> QED
          BY <3>5, <5>5, <5>6
      <4>3. CASE p \notin L \/ j <= path[k]
        <5>1. j \in 1 .. p[k]
          BY <1>2, <1>4, <1>8, <1>d, <3>1, <3>5, <4>0, <4>3
        <5>2. PICK q \in D : Len(q) = k /\ Alike(p, q, k - 1) /\ q[k] = j
          BY <2>a, <3>2, <3>5, <5>1
        <5>3. q \notin L
          <6>1. Alike(q, path, k - 1) => Alike(p, path, k - 1)
            BY <5>2 DEF Alike
          <6> QED
            BY <1>2, <1>4, <1>d, <4>0, <4>3, <5>1, <5>2, <6>1, SMTT(20)
        <5> QED
          BY <1>8, <1>15, <1>d, <3>5, <4>0, <5>2, <5>3
      <4> QED
        BY <1>2, <4>1, <4>2, <4>3
    <3> QED
      BY <1>2, <3>2, <3>3, <3>4, <3>5
  <2> QED
    BY <2>1, <2>2
<1>20. Ancestors(u)
  <2> SUFFICES ASSUME NEW r \in DOMAIN u, NEW n \in 0 .. Len(r) - 1
               PROVE  \E q \in DOMAIN u : Len(q) = n /\ Alike(r, q, n) /\ ~IsLeaf(u[q])
    BY DEF Ancestors
  <2>a. \A p \in D : \A m \in 0 .. Len(p) - 1 :
          \E q \in D : Len(q) = m /\ Alike(p, q, m) /\ ~IsLeaf(t[q])
    BY <1>2, <1>d DEF Shape, Ancestors
  <2>b. \A q \in D : Len(q) < k => g[q] = q
    BY <1>2, <1>4, <1>8, <1>d
  <2>1. CASE r = beside
    <3>1. n \in 0 .. k - 1 /\ Alike(r, path, n)
      BY <1>2, <1>7, <2>1 DEF Alike
    <3>2. PICK q \in D : Len(q) = n /\ Alike(path, q, n) /\ ~IsLeaf(t[q])
      BY <1>1, <1>2, <1>d, <2>a, <3>1
    <3>3. g[q] = q /\ Alike(r, q, n)
      BY <1>2, <2>b, <3>1, <3>2 DEF Alike
    <3> QED
      BY <1>15, <3>2, <3>3
  <2>2. CASE r # beside
    <3>1. PICK p \in D : r = g[p]
      BY <1>15, <2>2
    <3>2. Len(r) = Len(p) /\ n \in 0 .. Len(p) - 1 /\ \A i \in 1 .. Len(p) : i # k => r[i] = p[i]
      BY <1>8, <1>d, <3>1
    <3>3. PICK q \in D : Len(q) = n /\ Alike(p, q, n) /\ ~IsLeaf(t[q])
      BY <2>a, <3>2
    <3>4. CASE n < k
      <4>1. Alike(r, q, n)
        BY <1>2, <1>d, <3>2, <3>3, <3>4 DEF Alike
      <4> QED
        BY <1>15, <2>b, <3>3, <3>4, <4>1
    <3>5. CASE n >= k
      <4>1. p \in L <=> q \in L
        <5>1. Len(q) >= k /\ Len(p) >= k /\ Alike(p, q, k)
          BY <1>2, <1>d, <3>2, <3>3, <3>5 DEF Alike
        <5> QED
          BY <1>9, <1>d, <5>1
      <4>2. r[k] = g[q][k]
        <5>1. q[k] = p[k]
          BY <1>2, <3>3, <3>5 DEF Alike
        <5> QED
          BY <1>8, <1>d, <3>1, <4>1, <5>1
      <4>3. Alike(r, g[q], n) /\ Len(g[q]) = n
        <5>1. Len(g[q]) = n /\ \A i \in 1 .. n : i # k => g[q][i] = q[i]
          BY <1>8, <1>d, <3>3
        <5>2. \A i \in 1 .. n : i # k => r[i] = p[i]
          BY <1>2, <1>d, <3>2
        <5> QED
          BY <3>3, <4>2, <5>1, <5>2 DEF Alike
      <4> QED
        BY <1>15, <3>3, <4>3
    <3> QED
      BY <1>2, <3>2, <3>4, <3>5
  <2> QED
    BY <2>1, <2>2
<1>21. Forks(u)
  <2> SUFFICES ASSUME NEW r \in DOMAIN u, ~IsLeaf(u[r])
               PROVE  /\ Len(r) <= MaxSplitDepth
                      /\ \E q \in DOMAIN u : Len(q) = Len(r) + 1 /\ Alike(r, q, Len(r)) /\ q[Len(q)] = 2
    BY DEF Forks
  <2>1. PICK p \in D : r = g[p]
    BY <1>15, <1>17
  <2>2. Len(r) = Len(p) /\ Len(p) \in Nat /\ \A i \in 1 .. Len(p) : i # k => r[i] = p[i]
    BY <1>2, <1>8, <1>d, <2>1
  <2>3. ~IsLeaf(t[p])
    BY <1>15, <2>1
  <2>4. PICK q \in D : Len(q) = Len(p) + 1 /\ Alike(p, q, Len(p)) /\ q[Len(q)] = 2
    BY <1>2, <1>d, <2>3 DEF Shape, Forks
  <2>5. Len(r) <= MaxSplitDepth
    BY <1>2, <1>d, <2>2, <2>3 DEF Shape, Forks
  <2>6. CASE Len(p) >= k
    <3>1. p \in L <=> q \in L
      <4>1. Len(q) >= k /\ Alike(p, q, k)
        BY <1>2, <2>2, <2>4, <2>6 DEF Alike
      <4> QED
        BY <1>9, <1>d, <2>6, <4>1
    <3>2. r[k] = g[q][k]
      <4>1. q[k] = p[k]
        BY <1>2, <2>2, <2>4, <2>6 DEF Alike
      <4> QED
        BY <1>8, <1>d, <2>1, <3>1, <4>1
    <3>3. Len(g[q]) = Len(r) + 1 /\ \A i \in 1 .. Len(r) + 1 : i # k => g[q][i] = q[i]
      BY <1>8, <1>d, <2>2, <2>4
    <3>4. g[q][Len(g[q])] = 2 /\ Alike(r, g[q], Len(r))
      <4>1. Len(g[q]) # k /\ Len(g[q]) \in 1 .. Len(r) + 1 /\ Len(g[q]) = Len(q)
        BY <1>2, <2>2, <2>4, <2>6, <3>3
      <4>2. g[q][Len(g[q])] = 2
        BY <2>4, <3>3, <4>1
      <4> QED
        BY <2>2, <2>4, <3>2, <3>3, <4>2 DEF Alike
    <3> QED
      BY <1>15, <2>5, <3>3, <3>4
  <2>7. CASE Len(p) < k
    <3>1. r = p
      BY <1>2, <1>4, <1>8, <1>d, <2>1, <2>7
    <3>2. CASE q \notin L
      BY <1>8, <1>15, <1>d, <2>4, <2>5, <3>1, <3>2
    <3>3. CASE q \in L
      <4>1. Len(p) = k - 1 /\ Len(q) = k /\ path[k] = 1 /\ Alike(q, path, k - 1)
        BY <1>2, <1>4, <1>d, <2>2, <2>4, <2>7, <3>3
      <4>2. Alike(r, beside, k - 1)
        BY <1>7, <2>4, <3>1, <4>1 DEF Alike
      <4> QED
        BY <1>2, <1>7, <1>15, <2>5, <3>1, <4>1, <4>2
    <3> QED
      BY <3>2, <3>3
  <2> QED
    BY <1>2, <2>2, <2>6, <2>7
<1>22. Partition(u, S \cup {new})
  <2>1. PICK gone : gone = {}
    OBVIOUS
  <2>2. Panes(v) \subseteq DOMAIN v /\ \A p \in D : g[p] \in Panes(v) <=> p \in Panes(t)
    BY <1>13, <1>d DEF Panes
  <2>3. Carries(t, v, g, Panes(t), gone)
    <3>1. \A p \in Panes(t) : g[p] \in Panes(v) /\ v[g[p]] = t[p] /\ Tabs(t, p) \cap gone = {}
      BY <1>13, <1>d, <2>1, <2>2 DEF Panes
    <3>2. \A q \in Panes(v) : \E p \in Panes(t) : q = g[p]
      BY <1>13, <2>2
    <3> QED
      BY <2>1, <3>1, <3>2 DEF Carries
  <2>4. Partition(v, S)
    <3>1. Partition(v, S \ gone)
      BY <1>2, <2>3, PartitionMoved
    <3>2. S \ gone = S
      BY <2>1
    <3> QED
      BY <3>1, <3>2
  <2>5. \A q \in DOMAIN v : u[q] = v[q]
    BY <1>13, <1>15
  <2>6. /\ beside \notin Panes(v) /\ Panes(u) = Panes(v) \cup {beside} /\ u[beside] = leaf
        /\ \A q \in Panes(v) : u[q] = v[q]
    BY <1>14, <1>15, <1>17, <2>5 DEF Panes
  <2>7. LeafOk(u[beside]) /\ Tabs(u, beside) = {new}
    BY <1>17, <2>6 DEF Tabs
  <2> QED
    BY <2>4, <2>6, <2>7, PartitionPlus
<1> QED
  BY <1>12, <1>18, <1>19, <1>20, <1>21, <1>22 DEF Sound, Shape

(* The other children of the split above a pane.                           *)
LEMMA SiblingIs ==
  ASSUME NEW t, Shape(t), NEW path \in DOMAIN t, path # <<>>, NEW q
  PROVE  q \in Children(t, Front(path)) <=>
           q \in DOMAIN t /\ Len(q) = Len(path) /\ Alike(q, path, Len(path) - 1)
<1>1. PICK k, f : k = Len(path) /\ f = Front(path)
  OBVIOUS
<1>2. path \in Path /\ k \in Nat /\ k >= 1 /\ \A r \in DOMAIN t : r \in Path /\ Len(r) \in Nat
  BY <1>1, PathIs, EmptyPath DEF Shape, Rooted
<1>3. f \in Path /\ Len(f) = k - 1 /\ Alike(f, path, k - 1)
  BY <1>1, <1>2, PathParent
<1>4. ASSUME q \in DOMAIN t, Len(q) = k
      PROVE  Front(q) = f <=> Alike(q, path, k - 1)
  <2>1. PICK g : g = Front(q)
    OBVIOUS
  <2>2. g \in Path /\ Len(g) = k - 1 /\ Alike(g, q, k - 1)
    BY <1>2, <1>4, <2>1, PathParent
  <2>3. ASSUME Alike(q, path, k - 1) PROVE g = f
    <3>1. Alike(g, f, k - 1)
      BY <1>3, <2>2, <2>3 DEF Alike
    <3> QED
      BY <1>3, <2>2, <3>1, SamePath
  <2>4. ASSUME g = f PROVE Alike(q, path, k - 1)
    BY <1>3, <2>2, <2>4 DEF Alike
  <2> QED
    BY <2>1, <2>3, <2>4
<1>5. Len(f) + 1 = k
  BY <1>2, <1>3
<1> QED
  BY <1>1, <1>4, <1>5 DEF Children

LEMMA ThirdChild ==
  ASSUME NEW t, Shape(t), NEW path \in DOMAIN t, path # <<>>,
         NEW siblings, siblings = Children(t, Front(path)) \ {path},
         ~ \E p \in siblings : siblings = {p}
  PROVE  \E q \in DOMAIN t :
           Len(q) = Len(path) /\ Alike(q, path, Len(path) - 1) /\ q[Len(path)] = 3
<1>1. PICK k : k = Len(path)
  OBVIOUS
<1>2. /\ path \in Path /\ k \in Nat /\ k >= 1
      /\ \A r \in DOMAIN t : r \in Path /\ Len(r) \in Nat /\ \A i \in 1 .. Len(r) : r[i] \in Nat /\ r[i] >= 1
  BY <1>1, PathIs, EmptyPath DEF Shape, Rooted
<1> DEFINE Kin(q) == q \in DOMAIN t /\ Len(q) = k /\ Alike(q, path, k - 1)
<1>3. ASSUME NEW q, Kin(q), NEW j \in 1 .. q[k] PROVE \E r : Kin(r) /\ r[k] = j
  <2>1. k \in 1 .. Len(q)
    BY <1>2, <1>3
  <2>2. PICK r \in DOMAIN t : Len(r) = k /\ Alike(q, r, k - 1) /\ r[k] = j
    BY <1>3, <2>1 DEF Shape, Elders
  <2> QED
    BY <1>3, <2>2 DEF Alike
<1>4. \E c : Kin(c) /\ c[k] = 2
  <2>0. k - 1 \in 0 .. Len(path) - 1
    BY <1>1, <1>2
  <2>1. PICK f \in DOMAIN t : Len(f) = k - 1 /\ Alike(path, f, k - 1) /\ ~IsLeaf(t[f])
    BY <2>0 DEF Shape, Ancestors
  <2>2. PICK c \in DOMAIN t : Len(c) = Len(f) + 1 /\ Alike(f, c, Len(f)) /\ c[Len(c)] = 2
    BY <2>1 DEF Shape, Forks
  <2>3. Len(c) = k
    BY <1>2, <2>1, <2>2
  <2> QED
    BY <2>1, <2>2, <2>3 DEF Alike
<1>5. \A q : q \in siblings <=> Kin(q) /\ q # path
  BY <1>1, SiblingIs
<1>6. ASSUME NEW q, Kin(q), NEW r, Kin(r), q[k] = r[k] PROVE q = r
  <2>1. Alike(q, r, k)
    BY <1>2, <1>6, SMTT(20) DEF Alike
  <2> QED
    BY <1>2, <1>6, <2>1, SamePath
<1>7. Kin(path)
  BY <1>1 DEF Alike
<1>8. \E q : Kin(q) /\ q[k] >= 3
  <2>1. PICK c : Kin(c) /\ c[k] = 2
    BY <1>4
  <2>2. PICK d : Kin(d) /\ d[k] = 1
    BY <1>3, <2>1
  <2>3. CASE path[k] >= 3
    BY <1>7, <2>3
  <2>4. CASE path[k] < 3
    <3>1. PICK e : Kin(e) /\ e # path /\ e[k] < 3
      <4>1. CASE path = c
        BY <2>1, <2>2, <4>1
      <4>2. CASE path # c
        BY <2>1, <4>2
      <4> QED
        BY <4>1, <4>2
    <3>2. e \in siblings
      BY <1>5, <3>1
    <3>3. PICK o \in siblings : o # e
      BY <3>2
    <3>4. Kin(o) /\ o # path
      BY <1>5, <3>3
    <3>5. o[k] # e[k] /\ o[k] # path[k] /\ e[k] # path[k]
      BY <1>6, <1>7, <3>1, <3>3, <3>4
    <3>6. o[k] \in Nat /\ e[k] \in Nat /\ path[k] \in Nat /\ o[k] >= 1 /\ e[k] >= 1 /\ path[k] >= 1
      BY <1>2, <1>7, <3>1, <3>4
    <3> QED
      BY <2>4, <3>1, <3>4, <3>5, <3>6
  <2> QED
    BY <1>2, <1>7, <2>3, <2>4
<1>9. PICK r : Kin(r) /\ r[k] = 3
  <2>1. PICK q : Kin(q) /\ q[k] >= 3
    BY <1>8
  <2>2. q[k] \in Nat
    BY <1>2, <2>1
  <2> QED
    BY <1>3, <2>1, <2>2
<1> QED
  BY <1>1, <1>9

(* A pane goes from a split that keeps two children: the later ones close  *)
(* the gap.                                                                *)
CloseUp(t, path) ==
  [p \in DOMAIN t \ {path} |-> IF Later(path, p) THEN [p EXCEPT ![Len(path)] = @ - 1] ELSE p]

LEMMA CloseUpSound ==
  ASSUME NEW t, NEW S, Sound(t, S), NEW path \in Panes(t), path # <<>>,
         \E q \in DOMAIN t : Len(q) = Len(path) /\ Alike(q, path, Len(path) - 1) /\ q[Len(path)] = 3,
         NEW gone, Tabs(t, path) = gone
  PROVE  Sound(Moved(t, CloseUp(t, path)), S \ gone)
<1>1. PICK k : k = Len(path)
  OBVIOUS
<1>2. /\ path \in DOMAIN t /\ path \in Path /\ k \in Nat /\ k >= 1 /\ IsLeaf(t[path])
      /\ path[k] \in Nat /\ path[k] >= 1
      /\ \A p \in DOMAIN t : p \in Path /\ Len(p) \in Nat
      /\ \A p \in DOMAIN t : \A i \in 1 .. Len(p) : p[i] \in Nat /\ p[i] >= 1
      /\ Shape(t) /\ Partition(t, S)
  <2>1. path \in DOMAIN t /\ path \in Path /\ IsLeaf(t[path]) /\ \A p \in DOMAIN t : p \in Path
    BY DEF Panes, Sound, Shape, Rooted
  <2>2. k \in Nat /\ k >= 1
    BY <1>1, <2>1, PathIs, EmptyPath
  <2> QED
    BY <1>1, <2>1, <2>2, PathIs DEF Sound
<1>3. PICK L : L = {p \in DOMAIN t : Later(path, p)}
  OBVIOUS
<1>4. \A p \in DOMAIN t : p \in L <=> Len(p) >= k /\ p[k] > path[k] /\ Alike(p, path, k - 1)
  BY <1>1, <1>2, <1>3, LaterIs
<1>a. PICK D : D = DOMAIN t \ {path}
  OBVIOUS
<1>5. PICK g : g = [p \in D |-> IF Later(path, p) THEN [p EXCEPT ![k] = @ - 1] ELSE p]
  OBVIOUS
<1>6. g = CloseUp(t, path)
  BY <1>1, <1>5, <1>a DEF CloseUp
<1>7. \A p \in D : p \in DOMAIN t /\ p \in Path /\ Len(p) \in Nat /\ p # path
                   /\ (Len(p) >= k => p[k] \in Nat /\ p[k] >= 1)
  BY <1>2, <1>a
<1>8. ASSUME NEW p \in D
      PROVE  /\ g[p] \in Path /\ Len(g[p]) = Len(p)
             /\ \A i \in 1 .. Len(p) : i # k => g[p][i] = p[i]
             /\ p \in L => g[p][k] = p[k] - 1
             /\ p \notin L => g[p] = p
  <2>1. CASE p \in L
    <3>1. PICK x, q : x = p[k] - 1 /\ q = g[p]
      OBVIOUS
    <3>2. x \in Nat \ {0} /\ k \in 1 .. Len(p) /\ q = [p EXCEPT ![k] = x] /\ p \in Path
      BY <1>2, <1>3, <1>4, <1>5, <1>7, <2>1, <3>1
    <3>3. /\ q \in Path /\ Len(q) = Len(p) /\ q[k] = x
          /\ \A i \in 1 .. Len(p) : i # k => q[i] = p[i]
      <4>1. /\ [p EXCEPT ![k] = x] \in Path /\ Len([p EXCEPT ![k] = x]) = Len(p)
            /\ [p EXCEPT ![k] = x][k] = x
            /\ \A i \in 1 .. Len(p) : i # k => [p EXCEPT ![k] = x][i] = p[i]
        BY <3>2, ExceptSeq DEF Path
      <4> QED
        BY <3>2, <4>1, Zenon
    <3> QED
      BY <2>1, <3>1, <3>3
  <2>2. CASE p \notin L
    BY <1>3, <1>5, <1>7, <2>2
  <2> QED
    BY <2>1, <2>2
<1>9. ASSUME NEW p \in D, NEW q \in D, Len(q) >= k, Len(p) >= k, Alike(p, q, k)
      PROVE  p \in L <=> q \in L
  BY <1>2, <1>4, <1>7, <1>9 DEF Alike
<1>b. ASSUME NEW p \in D, Len(p) >= k, Alike(p, path, k - 1) PROVE p[k] # path[k]
  <2> SUFFICES ASSUME p[k] = path[k] PROVE FALSE
    OBVIOUS
  <2>a. k \in Nat /\ \A i \in 1 .. k - 1 : p[i] = path[i]
    BY <1>2, <1>b DEF Alike
  <2>1. Alike(p, path, k)
    BY <2>a DEF Alike
  <2> QED
    BY <1>1, <1>2, <1>7, <1>b, <2>1, NoneBelow
<1>10. \A p, q \in D : g[p] = g[q] => p = q
  <2> SUFFICES ASSUME NEW p \in D, NEW q \in D, g[p] = g[q] PROVE p = q
    OBVIOUS
  <2>1. Len(p) = Len(q) /\ \A i \in 1 .. Len(p) : i # k => p[i] = q[i]
    BY <1>8
  <2>2. CASE k > Len(p)
    <3>1. Alike(p, q, Len(p))
      BY <1>2, <1>7, <2>1, <2>2 DEF Alike
    <3> QED
      BY <1>7, <2>1, <3>1, SamePath
  <2>3. CASE k <= Len(p)
    <3>1. Alike(p, path, k - 1) <=> Alike(q, path, k - 1)
      BY <1>2, <1>7, <2>1, <2>3 DEF Alike
    <3>2. p[k] \in Nat /\ q[k] \in Nat
      BY <1>2, <1>7, <2>1, <2>3
    <3>3. p[k] = q[k]
      <4>1. CASE Alike(p, path, k - 1)
        <5>1. p[k] # path[k] /\ q[k] # path[k]
          BY <1>b, <2>1, <2>3, <3>1, <4>1
        <5>2. /\ p \in L <=> p[k] > path[k]
              /\ q \in L <=> q[k] > path[k]
          BY <1>4, <1>7, <2>1, <2>3, <3>1, <4>1
        <5>3. /\ g[p][k] = IF p \in L THEN p[k] - 1 ELSE p[k]
              /\ g[q][k] = IF q \in L THEN q[k] - 1 ELSE q[k]
          BY <1>8
        <5> QED
          BY <1>2, <3>2, <5>1, <5>2, <5>3
      <4>2. CASE ~Alike(p, path, k - 1)
        BY <1>4, <1>7, <1>8, <3>1, <4>2
      <4> QED
        BY <4>1, <4>2
    <3>4. Alike(p, q, Len(p))
      BY <1>2, <1>7, <2>1, <3>3 DEF Alike
    <3> QED
      BY <1>7, <2>1, <3>4, SamePath
  <2> QED
    BY <1>2, <1>7, <2>2, <2>3
<1>11. PICK u : u = Moved(t, g)
  OBVIOUS
<1>12. /\ \A q : q \in DOMAIN u <=> \E p \in D : q = g[p]
       /\ u = [q \in DOMAIN u |-> u[q]]
       /\ \A p \in D : g[p] \in DOMAIN u /\ u[g[p]] = t[p]
  <2>1. D = DOMAIN g
    BY <1>5
  <2> QED
    BY <1>10, <1>11, <2>1, MovedIs
<1>13. Rooted(u)
  <2>1. <<>> \in D /\ Len(<<>>) = 0
    BY <1>2, <1>a, EmptyPath DEF Shape, Rooted
  <2>2. <<>> \notin L
    BY <1>2, <1>4, <1>7, <2>1
  <2>3. <<>> \in DOMAIN u
    BY <1>8, <1>12, <2>1, <2>2
  <2>4. \A q \in DOMAIN u : q \in Path
    BY <1>8, <1>12
  <2> QED
    BY <1>12, <2>3, <2>4 DEF Rooted
<1>14. \A p \in DOMAIN t : \A m \in 1 .. Len(p) : \A i \in 1 .. p[m] :
          \E q \in DOMAIN t : Len(q) = m /\ Alike(p, q, m - 1) /\ q[m] = i
  <2>1. Elders(t)
    BY <1>2 DEF Shape
  <2> QED
    BY <2>1 DEF Elders
<1>15. Elders(u)
  <2> SUFFICES ASSUME NEW r \in DOMAIN u, NEW n \in 1 .. Len(r), NEW j \in 1 .. r[n]
               PROVE  \E q \in DOMAIN u : Len(q) = n /\ Alike(r, q, n - 1) /\ q[n] = j
    BY DEF Elders
  <2>1. PICK p \in D : r = g[p]
    BY <1>12
  <2>2. Len(r) = Len(p) /\ n \in 1 .. Len(p) /\ \A i \in 1 .. Len(p) : i # k => r[i] = p[i]
    BY <1>8, <2>1
  <2>b. Len(p) \in Nat /\ n \in Nat /\ k \in Nat /\ n <= Len(p) /\ n >= 1
    BY <1>2, <1>7, <2>2
  <2>3. CASE n < k
    <3>1. j \in 1 .. p[n]
      BY <2>2, <2>3
    <3>2. PICK q \in DOMAIN t : Len(q) = n /\ Alike(p, q, n - 1) /\ q[n] = j
      BY <1>7, <1>14, <2>2, <3>1
    <3>3. q \in D /\ g[q] = q
      BY <1>1, <1>2, <1>4, <1>8, <1>a, <2>3, <3>2
    <3>4. Alike(r, q, n - 1)
      BY <2>2, <2>3, <2>b, <3>2, SMTT(20) DEF Alike
    <3> QED
      BY <1>12, <3>2, <3>3, <3>4
  <2>4. CASE n > k
    <3>1. j \in 1 .. p[n]
      BY <2>2, <2>4
    <3>2. PICK q \in DOMAIN t : Len(q) = n /\ Alike(p, q, n - 1) /\ q[n] = j
      BY <1>7, <1>14, <2>2, <3>1
    <3>a. q \in D
      BY <1>1, <1>2, <1>a, <2>4, <3>2
    <3>3. p \in L <=> q \in L
      <4>1. Len(q) >= k /\ Len(p) >= k /\ Alike(p, q, k)
        BY <2>b, <2>4, <3>2 DEF Alike
      <4> QED
        BY <1>9, <3>a, <4>1
    <3>4. PICK x : x = g[q]
      OBVIOUS
    <3>5. /\ Len(x) = n /\ \A i \in 1 .. n : i # k => x[i] = q[i]
          /\ q \in L => x[k] = q[k] - 1
          /\ q \notin L => x = q
      BY <1>8, <3>2, <3>4, <3>a
    <3>6. r[k] = x[k]
      <4>1. q[k] = p[k]
        BY <1>2, <2>4, <3>2 DEF Alike
      <4> QED
        BY <1>8, <2>1, <3>3, <3>5, <4>1
    <3>7. Alike(r, x, n - 1) /\ x[n] = j
      BY <2>b, <2>2, <2>4, <3>2, <3>5, <3>6 DEF Alike
    <3> QED
      BY <1>12, <3>4, <3>5, <3>7, <3>a
  <2>5. CASE n = k
    <3>0. Len(p) >= k /\ p[k] \in Nat /\ \A q : Alike(p, q, k - 1) <=> Alike(r, q, k - 1)
      <4>1. Len(p) >= k /\ p[k] \in Nat
        BY <1>7, <2>b, <2>5
      <4>2. \A i \in 1 .. k - 1 : p[i] = r[i]
        BY <2>2, <2>b, <2>5
      <4> QED
        BY <4>1, <4>2 DEF Alike
    <3>1. CASE p \in L /\ j >= path[k]
      <4>1. j + 1 \in 1 .. p[k]
        BY <1>2, <1>8, <2>1, <2>5, <3>0, <3>1
      <4>2. PICK q \in DOMAIN t : Len(q) = k /\ Alike(p, q, k - 1) /\ q[k] = j + 1
        <5>1. p \in DOMAIN t /\ k \in 1 .. Len(p)
          BY <1>7, <2>2, <2>5
        <5> QED
          BY <1>14, <4>1, <5>1
      <4>3. Alike(q, path, k - 1)
        BY <1>4, <1>7, <3>1, <4>2 DEF Alike
      <4>a. q[k] > path[k] /\ q[k] - 1 = j /\ Len(q) >= k
        BY <1>2, <3>1, <4>2
      <4>4. q \in L /\ q \in D
        BY <1>2, <1>4, <1>a, <4>2, <4>3, <4>a, SMTT(20)
      <4>5. Len(g[q]) = k /\ g[q][k] = j /\ g[q] \in DOMAIN u
        BY <1>8, <1>12, <4>2, <4>4, <4>a
      <4>6. Alike(r, g[q], k - 1)
        <5>0. \A i \in 1 .. Len(q) : i # k => g[q][i] = q[i]
          BY <1>8, <4>4
        <5>1. \A i \in 1 .. k - 1 : g[q][i] = q[i]
          BY <2>b, <4>2, <5>0
        <5> QED
          BY <3>0, <4>2, <5>1 DEF Alike
      <4> QED
        BY <2>5, <4>5, <4>6
    <3>2. CASE p \notin L \/ j < path[k]
      <4>1. j \in 1 .. p[k]
        BY <1>2, <1>4, <1>7, <1>8, <2>1, <2>5, <3>0, <3>2
      <4>2. PICK q \in DOMAIN t : Len(q) = k /\ Alike(p, q, k - 1) /\ q[k] = j
        BY <1>7, <1>14, <2>2, <2>5, <4>1
      <4>3. q \notin L /\ q # path
        <5>1. Alike(q, path, k - 1) => Alike(p, path, k - 1)
          BY <4>2 DEF Alike
        <5>2. Alike(path, path, k - 1)
          BY DEF Alike
        <5>3. Alike(p, path, k - 1) => p[k] # path[k] /\ (p \in L <=> p[k] > path[k])
          BY <1>4, <1>7, <1>b, <3>0
        <5> QED
          BY <1>2, <1>4, <3>0, <3>2, <4>1, <4>2, <5>1, <5>2, <5>3
      <4> QED
        BY <1>8, <1>12, <1>a, <2>5, <3>0, <4>2, <4>3
    <3> QED
      BY <1>2, <2>5, <3>1, <3>2
  <2> QED
    BY <2>b, <2>3, <2>4, <2>5
<1>16. Ancestors(u)
  <2> SUFFICES ASSUME NEW r \in DOMAIN u, NEW n \in 0 .. Len(r) - 1
               PROVE  \E q \in DOMAIN u : Len(q) = n /\ Alike(r, q, n) /\ ~IsLeaf(u[q])
    BY DEF Ancestors
  <2>1. PICK p \in D : r = g[p]
    BY <1>12
  <2>2. Len(r) = Len(p) /\ n \in 0 .. Len(p) - 1 /\ \A i \in 1 .. Len(p) : i # k => r[i] = p[i]
    BY <1>8, <2>1
  <2>b. Len(p) \in Nat /\ n \in Nat /\ k \in Nat /\ n < Len(p)
    BY <1>2, <1>7, <2>2
  <2>3. PICK q \in DOMAIN t : Len(q) = n /\ Alike(p, q, n) /\ ~IsLeaf(t[q])
    BY <1>2, <1>7, <2>2 DEF Shape, Ancestors
  <2>4. q \in D
    BY <1>2, <1>a, <2>3
  <2>5. CASE n < k
    <3>1. Alike(r, q, n)
      BY <2>2, <2>b, <2>3, <2>5 DEF Alike
    <3>2. g[q] = q
      BY <1>4, <1>8, <2>3, <2>4, <2>5, <2>b
    <3> QED
      BY <1>12, <2>3, <2>4, <3>1, <3>2
  <2>6. CASE n >= k
    <3>1. p \in L <=> q \in L
      <4>1. Len(q) >= k /\ Len(p) >= k /\ Alike(p, q, k)
        BY <2>b, <2>3, <2>6 DEF Alike
      <4> QED
        BY <1>9, <2>4, <4>1
    <3>2. r[k] = g[q][k]
      <4>1. q[k] = p[k]
        BY <1>2, <2>3, <2>6 DEF Alike
      <4> QED
        BY <1>8, <2>1, <2>4, <3>1, <4>1
    <3>3. Alike(r, g[q], n) /\ Len(g[q]) = n
      <4>1. Len(g[q]) = n /\ \A i \in 1 .. n : i # k => g[q][i] = q[i]
        BY <1>8, <2>3, <2>4
      <4>2. \A i \in 1 .. n : i # k => r[i] = p[i]
        BY <2>2, <2>b
      <4> QED
        BY <2>3, <3>2, <4>1, <4>2 DEF Alike
    <3> QED
      BY <1>12, <2>3, <2>4, <3>3
  <2> QED
    BY <2>b, <2>5, <2>6
<1>17. Forks(u)
  <2> SUFFICES ASSUME NEW r \in DOMAIN u, ~IsLeaf(u[r])
               PROVE  /\ Len(r) <= MaxSplitDepth
                      /\ \E q \in DOMAIN u : Len(q) = Len(r) + 1 /\ Alike(r, q, Len(r)) /\ q[Len(q)] = 2
    BY DEF Forks
  <2>1. PICK p \in D : r = g[p]
    BY <1>12
  <2>2. Len(r) = Len(p) /\ Len(p) \in Nat /\ \A i \in 1 .. Len(p) : i # k => r[i] = p[i]
    BY <1>7, <1>8, <2>1
  <2>3. ~IsLeaf(t[p])
    BY <1>12, <2>1
  <2>4. PICK q \in DOMAIN t : Len(q) = Len(p) + 1 /\ Alike(p, q, Len(p)) /\ q[Len(q)] = 2
    BY <1>2, <1>7, <2>3 DEF Shape, Forks
  <2>5. Len(r) <= MaxSplitDepth
    BY <1>2, <1>7, <2>2, <2>3 DEF Shape, Forks
  <2>6. CASE Len(p) >= k
    <3>a. q \in D
      BY <1>1, <1>2, <1>a, <2>2, <2>4, <2>6
    <3>1. p \in L <=> q \in L
      <4>1. Len(q) >= k /\ Alike(p, q, k)
        BY <1>2, <2>2, <2>4, <2>6 DEF Alike
      <4> QED
        BY <1>9, <2>6, <3>a, <4>1
    <3>2. r[k] = g[q][k]
      <4>1. q[k] = p[k]
        BY <1>2, <2>2, <2>4, <2>6 DEF Alike
      <4> QED
        BY <1>8, <2>1, <3>1, <3>a, <4>1
    <3>3. Len(g[q]) = Len(r) + 1 /\ \A i \in 1 .. Len(r) + 1 : i # k => g[q][i] = q[i]
      BY <1>8, <2>2, <2>4, <3>a
    <3>4. g[q][Len(g[q])] = 2 /\ Alike(r, g[q], Len(r))
      <4>1. Len(g[q]) # k /\ Len(g[q]) \in 1 .. Len(r) + 1 /\ Len(g[q]) = Len(q)
        BY <1>2, <2>2, <2>4, <2>6, <3>3
      <4>2. g[q][Len(g[q])] = 2
        BY <2>4, <3>3, <4>1
      <4> QED
        BY <2>2, <2>4, <3>2, <3>3, <4>2, SMTT(20) DEF Alike
    <3> QED
      BY <1>12, <2>5, <3>3, <3>4, <3>a
  <2>7. CASE Len(p) < k
    <3>1. r = p
      BY <1>2, <1>4, <1>7, <1>8, <2>1, <2>7
    <3>2. CASE q \notin L /\ q # path
      BY <1>8, <1>12, <1>a, <2>4, <2>5, <3>1, <3>2
    <3>3. CASE q \in L \/ q = path
      <4>1. Len(p) = k - 1 /\ Len(q) = k /\ path[k] <= 2 /\ Alike(q, path, k - 1)
        BY <1>1, <1>2, <1>4, <2>2, <2>4, <2>7, <3>3 DEF Alike
      <4>2. PICK o \in DOMAIN t : Len(o) = k /\ Alike(o, path, k - 1) /\ o[k] = 3
        BY <1>1
      <4>3. o \in L /\ o \in D
        BY <1>2, <1>4, <1>a, <4>1, <4>2
      <4>4. PICK x : x = g[o]
        OBVIOUS
      <4>5. Len(x) = k /\ x[k] = 2 /\ \A i \in 1 .. k : i # k => x[i] = o[i]
        BY <1>8, <4>2, <4>3, <4>4
      <4>6. Alike(r, x, k - 1)
        BY <1>2, <2>4, <3>1, <4>1, <4>2, <4>5 DEF Alike
      <4> QED
        BY <1>2, <1>12, <2>5, <3>1, <4>1, <4>3, <4>4, <4>5, <4>6
    <3> QED
      BY <3>2, <3>3
  <2> QED
    BY <1>2, <2>2, <2>6, <2>7
<1>18. Partition(u, S \ gone)
  <2>1. PICK Kept : Kept = Panes(t) \ {path}
    OBVIOUS
  <2>2. \A p \in D : g[p] \in Panes(u) <=> p \in Kept
    BY <1>12, <1>7, <2>1 DEF Panes
  <2>3. \A p \in Kept : p \in D /\ Tabs(t, p) \cap gone = {}
    <3>1. \A p \in Kept : p \in D /\ p # path /\ p \in Panes(t)
      BY <1>a, <2>1 DEF Panes
    <3> QED
      BY <1>2, <3>1 DEF Partition
  <2>4. Carries(t, u, g, Kept, gone)
    <3>1. \A p \in Kept : g[p] \in Panes(u) /\ u[g[p]] = t[p] /\ Tabs(t, p) \cap gone = {}
      BY <1>12, <2>2, <2>3
    <3>2. \A p \in Panes(t) \ Kept : Tabs(t, p) \subseteq gone
      BY <2>1
    <3>3. \A q \in Panes(u) : \E p \in Kept : q = g[p]
      <4> TAKE q \in Panes(u)
      <4>1. q \in DOMAIN u
        BY DEF Panes
      <4> QED
        BY <1>12, <2>2, <4>1
    <3>4. Kept \subseteq Panes(t)
      BY <2>1
    <3> QED
      BY <3>1, <3>2, <3>3, <3>4 DEF Carries
  <2> QED
    BY <1>2, <2>4, PartitionMoved
<1> QED
  BY <1>6, <1>11, <1>13, <1>15, <1>16, <1>17, <1>18 DEF Sound, Shape

(* A pane goes from a split of two: the other child takes its place.       *)
GiveWay(t, path) ==
  [p \in DOMAIN t \ {path, Front(path)} |->
     IF IsPrefix(Front(path), p) THEN RemoveAt(p, Len(path)) ELSE p]

LEMMA GiveWaySound ==
  ASSUME NEW t, NEW S, Sound(t, S), NEW path \in Panes(t), path # <<>>,
         NEW o, Children(t, Front(path)) \ {path} = {o},
         NEW gone, Tabs(t, path) = gone
  PROVE  Sound(Moved(t, GiveWay(t, path)), S \ gone)
<1>1. PICK k, f : k = Len(path) /\ f = Front(path)
  OBVIOUS
<1>2. /\ path \in DOMAIN t /\ path \in Path /\ k \in Nat /\ k >= 1 /\ IsLeaf(t[path])
      /\ \A p \in DOMAIN t : p \in Path /\ Len(p) \in Nat
      /\ \A p \in DOMAIN t : \A i \in 1 .. Len(p) : p[i] \in Nat /\ p[i] >= 1
      /\ Shape(t) /\ Partition(t, S)
  <2>1. path \in DOMAIN t /\ path \in Path /\ IsLeaf(t[path]) /\ \A p \in DOMAIN t : p \in Path
    BY DEF Panes, Sound, Shape, Rooted
  <2>2. k \in Nat /\ k >= 1
    BY <1>1, <2>1, PathIs, EmptyPath
  <2> QED
    BY <1>1, <2>1, <2>2, PathIs DEF Sound
<1>3. f \in Path /\ Len(f) = k - 1 /\ Alike(f, path, k - 1)
  BY <1>1, <1>2, PathParent
<1>4. f \in DOMAIN t /\ ~IsLeaf(t[f])
  <2>0. k - 1 \in 0 .. Len(path) - 1
    BY <1>1, <1>2
  <2>1. PICK q \in DOMAIN t : Len(q) = k - 1 /\ Alike(path, q, k - 1) /\ ~IsLeaf(t[q])
    BY <1>2, <2>0 DEF Shape, Ancestors
  <2>2. Alike(q, f, k - 1)
    BY <1>3, <2>1 DEF Alike
  <2>3. q = f
    BY <1>2, <1>3, <2>1, <2>2, SamePath
  <2> QED
    BY <2>1, <2>3
<1>5. PICK D : D = DOMAIN t \ {path, f}
  OBVIOUS
<1>6. PICK B : B = {p \in D : IsPrefix(f, p)}
  OBVIOUS
<1>7. \A p \in D : p \in DOMAIN t /\ p \in Path /\ Len(p) \in Nat /\ p # path /\ p # f
  BY <1>2, <1>5
<1>8. \A p \in D : p \in B <=> Len(p) >= k - 1 /\ Alike(p, f, k - 1)
  <2> TAKE p \in D
  <2>1. IsPrefix(f, p) <=> Len(f) <= Len(p) /\ Alike(f, p, Len(f))
    BY <1>3, <1>7, PrefixIs
  <2>2. Alike(f, p, k - 1) <=> Alike(p, f, k - 1)
    BY DEF Alike
  <2> QED
    BY <1>2, <1>3, <1>6, <1>7, <2>1, <2>2
<1>9. \A p \in B : p \in D /\ Len(p) >= k
  <2> SUFFICES ASSUME NEW p \in B, Len(p) = k - 1 PROVE FALSE
    BY <1>2, <1>6, <1>7, <1>8
  <2>1. p = f
    BY <1>2, <1>3, <1>6, <1>7, <1>8, SamePath
  <2> QED
    BY <1>6, <1>7, <2>1
<1>10. \A q : q \in DOMAIN t /\ Len(q) = k /\ Alike(q, path, k - 1) <=> q = path \/ q = o
  <2>1. \A q : q \in Children(t, f) <=> q \in DOMAIN t /\ Len(q) = k /\ Alike(q, path, k - 1)
    BY <1>1, <1>2, SiblingIs
  <2>2. \A q : q = o <=> q \in Children(t, f) /\ q # path
    BY <1>1
  <2>3. path \in Children(t, f)
    BY <1>1, <1>2, <2>1 DEF Alike
  <2> QED
    BY <2>1, <2>2, <2>3
<1>11. o \in B /\ o # path /\ Len(o) = k
  <2>1. o \in DOMAIN t /\ Len(o) = k /\ Alike(o, path, k - 1) /\ o # path
    BY <1>10
  <2>2. o # f /\ Alike(o, f, k - 1)
    BY <1>2, <1>3, <2>1 DEF Alike
  <2> QED
    BY <1>2, <1>5, <1>8, <2>1, <2>2
<1>12. \A p \in DOMAIN t : \A m \in 1 .. Len(p) : \A i \in 1 .. p[m] :
         \E q \in DOMAIN t : Len(q) = m /\ Alike(p, q, m - 1) /\ q[m] = i
  <2>1. Elders(t)
    BY <1>2 DEF Shape
  <2> QED
    BY <2>1 DEF Elders
<1>13. ASSUME NEW p \in B PROVE Alike(p, o, k)
  <2>0. p \in DOMAIN t /\ p \in Path /\ k \in 1 .. Len(p) /\ p # path /\ Alike(p, f, k - 1)
    BY <1>2, <1>7, <1>8, <1>9
  <2>1. p[k] \in 1 .. p[k]
    BY <1>2, <2>0
  <2>2. PICK q \in DOMAIN t : Len(q) = k /\ Alike(p, q, k - 1) /\ q[k] = p[k]
    BY <1>12, <2>0, <2>1
  <2>3. Alike(q, path, k - 1)
    BY <1>3, <2>0, <2>2 DEF Alike
  <2>4. Alike(p, q, k)
    <3>1. k \in Nat /\ \A i \in 1 .. k - 1 : p[i] = q[i]
      BY <1>2, <2>2 DEF Alike
    <3> QED
      BY <2>2, <3>1 DEF Alike
  <2>5. q # path
    BY <1>1, <1>2, <2>0, <2>4, NoneBelow
  <2> QED
    BY <1>10, <2>2, <2>3, <2>4, <2>5
<1>14. PICK g : g = [p \in D |-> IF IsPrefix(f, p) THEN RemoveAt(p, k) ELSE p]
  OBVIOUS
<1>15. g = GiveWay(t, path)
  BY <1>1, <1>5, <1>14 DEF GiveWay
<1>16. ASSUME NEW p \in B
       PROVE  /\ g[p] \in Path /\ Len(g[p]) = Len(p) - 1
              /\ \A i \in 1 .. Len(p) - 1 : g[p][i] = p[IF i < k THEN i ELSE i + 1]
  <2>1. g[p] = RemoveAt(p, k) /\ p \in Path /\ k \in 1 .. Len(p)
    BY <1>2, <1>6, <1>7, <1>9, <1>14
  <2>2. /\ RemoveAt(p, k) \in Path /\ Len(RemoveAt(p, k)) = Len(p) - 1
        /\ \A i \in 1 .. Len(p) - 1 : RemoveAt(p, k)[i] = p[IF i < k THEN i ELSE i + 1]
    BY <2>1, PathShortened
  <2> QED
    BY <2>1, <2>2, Zenon
<1>17. ASSUME NEW p \in D, p \notin B PROVE g[p] = p
  BY <1>6, <1>14, <1>17
<1>18. ASSUME NEW p \in B
       PROVE  Alike(p, g[p], k - 1) /\ Alike(g[p], f, k - 1) /\ Len(g[p]) >= k - 1
  <2>1. Len(p) \in Nat /\ Len(p) >= k /\ Alike(p, f, k - 1) /\ Len(g[p]) = Len(p) - 1
    BY <1>7, <1>8, <1>9, <1>16
  <2>2. Alike(p, g[p], k - 1)
    <3> SUFFICES ASSUME NEW i \in 1 .. k - 1 PROVE p[i] = g[p][i]
      BY DEF Alike
    <3>1. i \in 1 .. Len(p) - 1 /\ i < k
      BY <1>2, <2>1
    <3> QED
      BY <1>16, <3>1
  <2>3. Alike(g[p], f, k - 1)
    BY <2>1, <2>2 DEF Alike
  <2>4. Len(g[p]) >= k - 1
    BY <1>2, <2>1
  <2> QED
    BY <2>2, <2>3, <2>4
<1>19. \A p, q \in D : g[p] = g[q] => p = q
  <2> SUFFICES ASSUME NEW p \in D, NEW q \in D, g[p] = g[q] PROVE p = q
    OBVIOUS
  <2>1. CASE p \in B /\ q \in B
    <3>1. /\ Len(p) \in Nat /\ Len(q) \in Nat /\ Len(p) >= k /\ Len(q) >= k
          /\ Len(p) - 1 = Len(q) - 1 /\ Alike(p, o, k) /\ Alike(q, o, k)
      BY <1>7, <1>9, <1>13, <1>16, <2>1
    <3>2. \A i \in 1 .. Len(p) - 1 : p[IF i < k THEN i ELSE i + 1] = q[IF i < k THEN i ELSE i + 1]
      BY <1>16, <2>1, <3>1
    <3>3. ASSUME NEW i \in 1 .. Len(p) PROVE p[i] = q[i]
      <4>1. CASE i <= k
        BY <1>2, <3>1, <4>1 DEF Alike
      <4>2. CASE i > k
        <5>1. i - 1 \in 1 .. Len(p) - 1 /\ ~(i - 1 < k) /\ (i - 1) + 1 = i
          BY <1>2, <3>1, <4>2
        <5> QED
          BY <3>2, <5>1
      <4> QED
        BY <1>2, <4>1, <4>2
    <3> QED
      BY <1>7, <3>1, <3>3, SamePath DEF Alike
  <2>2. CASE p \in B /\ q \notin B
    <3>1. q = g[p]
      BY <1>17, <2>2
    <3> QED
      BY <1>8, <1>18, <2>2, <3>1
  <2>3. CASE p \notin B /\ q \in B
    <3>1. p = g[q]
      BY <1>17, <2>3
    <3> QED
      BY <1>8, <1>18, <2>3, <3>1
  <2>4. CASE p \notin B /\ q \notin B
    BY <1>17, <2>4
  <2> QED
    BY <2>1, <2>2, <2>3, <2>4
<1>20. PICK u : u = Moved(t, g)
  OBVIOUS
<1>21. /\ \A q : q \in DOMAIN u <=> \E p \in D : q = g[p]
       /\ u = [q \in DOMAIN u |-> u[q]]
       /\ \A p \in D : g[p] \in DOMAIN u /\ u[g[p]] = t[p]
  <2>1. D = DOMAIN g
    BY <1>14
  <2> QED
    BY <1>19, <1>20, <2>1, MovedIs
<1>22. g[o] = f /\ f \in DOMAIN u /\ u[f] = t[o]
  <2>1. Len(g[o]) = k - 1 /\ Alike(g[o], f, k - 1) /\ g[o] \in Path
    BY <1>11, <1>16, <1>18
  <2>2. g[o] = f
    BY <1>3, <2>1, SamePath
  <2> QED
    BY <1>9, <1>11, <1>21, <2>2
<1>23. Rooted(u)
  <2>1. <<>> \in DOMAIN t /\ Len(<<>>) = 0
    BY <1>2, EmptyPath DEF Shape, Rooted
  <2>2. <<>> \in DOMAIN u
    <3>1. CASE f = <<>>
      BY <1>22, <3>1
    <3>2. CASE f # <<>>
      <4>1. <<>> \in D
        BY <1>5, <2>1, <3>2
      <4>2. <<>> \notin B
        BY <1>2, <1>9, <2>1
      <4> QED
        BY <1>17, <1>21, <4>1, <4>2
    <3> QED
      BY <3>1, <3>2
  <2>3. \A q \in DOMAIN u : q \in Path
    BY <1>7, <1>16, <1>17, <1>21
  <2> QED
    BY <1>21, <2>2, <2>3 DEF Rooted
<1>24. ASSUME NEW p \in D, p \notin B, NEW q \in DOMAIN t, NEW m \in Nat, Alike(p, q, m),
              m <= Len(q), m >= Len(q) - 1, Len(q) <= Len(p) + 1,
              Len(q) >= k => m >= k - 1
       PROVE  q \in DOMAIN u /\ (q # f => u[q] = t[q])
  <2>1. CASE q = f
    BY <1>22, <2>1
  <2>2. CASE q # f
    <3>1. Len(p) \in Nat /\ Len(q) \in Nat /\ q \in Path /\ ~(Len(p) >= k - 1 /\ Alike(p, f, k - 1))
      BY <1>2, <1>7, <1>8, <1>24
    <3>2. ~(Len(q) >= k - 1 /\ Alike(q, f, k - 1))
      <4> SUFFICES ASSUME Len(q) >= k - 1, Alike(q, f, k - 1) PROVE FALSE
        OBVIOUS
      <4>1. Len(q) >= k
        BY <1>2, <1>3, <2>2, <3>1, SamePath
      <4>2. Len(p) >= k - 1 /\ m >= k - 1
        BY <1>2, <1>24, <3>1, <4>1
      <4>3. Alike(p, f, k - 1)
        BY <1>2, <1>24, <4>2 DEF Alike
      <4> QED
        BY <3>1, <4>2, <4>3
    <3>3. q # path
      <4>1. k >= k - 1 /\ Alike(path, f, k - 1)
        BY <1>2, <1>3 DEF Alike
      <4> QED
        BY <1>1, <3>2, <4>1
    <3>4. q \in D /\ q \notin B
      BY <1>5, <1>8, <2>2, <3>2, <3>3
    <3> QED
      BY <1>17, <1>21, <3>4
  <2> QED
    BY <2>1, <2>2
<1>25. ASSUME NEW p \in B, NEW q \in DOMAIN t, Alike(p, q, k), Len(q) >= k, q # path
       PROVE  q \in B
  <2>1. Alike(q, f, k - 1)
    BY <1>2, <1>8, <1>9, <1>25 DEF Alike
  <2>2. q # f /\ Len(q) >= k - 1
    BY <1>2, <1>3, <1>25
  <2> QED
    BY <1>5, <1>8, <1>25, <2>1, <2>2
<1>26. ASSUME NEW p \in B, NEW q \in B, NEW m \in Nat, m >= k, m <= Len(q), m <= Len(p), Alike(p, q, m)
       PROVE  Alike(g[p], g[q], m - 1)
  <2>1. Len(p) \in Nat /\ Len(q) \in Nat
    BY <1>7, <1>9
  <2> SUFFICES ASSUME NEW i \in 1 .. m - 1 PROVE g[p][i] = g[q][i]
    BY DEF Alike
  <2>2. /\ g[p][i] = p[IF i < k THEN i ELSE i + 1]
        /\ g[q][i] = q[IF i < k THEN i ELSE i + 1]
    BY <1>16, <1>26, <2>1
  <2>3. (IF i < k THEN i ELSE i + 1) \in 1 .. m
    BY <1>2
  <2> QED
    BY <1>26, <2>2, <2>3 DEF Alike
<1>27. Elders(u)
  <2> SUFFICES ASSUME NEW r \in DOMAIN u, NEW n \in 1 .. Len(r), NEW j \in 1 .. r[n]
               PROVE  \E q \in DOMAIN u : Len(q) = n /\ Alike(r, q, n - 1) /\ q[n] = j
    BY DEF Elders
  <2>1. PICK p \in D : r = g[p]
    BY <1>21
  <2>2. Len(p) \in Nat
    BY <1>7
  <2>3. CASE p \in B
    <3>1. Len(r) = Len(p) - 1 /\ Len(p) >= k /\ Alike(p, r, k - 1) /\ n \in 1 .. Len(p) - 1
      BY <1>9, <1>16, <1>18, <2>1, <2>3
    <3>2. CASE n < k
      <4>1. j \in 1 .. p[n]
        BY <1>2, <3>1, <3>2 DEF Alike
      <4>2. PICK q \in DOMAIN t : Len(q) = n /\ Alike(p, q, n - 1) /\ q[n] = j
        BY <1>7, <1>12, <2>2, <3>1, <4>1
      <4>3. q \in DOMAIN u
        <5>1. CASE q = f
          BY <1>22, <5>1
        <5>2. CASE q # f
          <6>1. q \in D /\ q \notin B
            BY <1>1, <1>2, <1>5, <1>9, <3>2, <4>2, <5>2
          <6> QED
            BY <1>17, <1>21, <6>1
        <5> QED
          BY <5>1, <5>2
      <4>4. Alike(r, q, n - 1)
        BY <1>2, <3>1, <3>2, <4>2 DEF Alike
      <4> QED
        BY <4>2, <4>3, <4>4
    <3>3. CASE n >= k
      <4>1. r[n] = p[n + 1] /\ n + 1 \in 1 .. Len(p)
        BY <1>2, <1>16, <2>1, <2>2, <2>3, <3>1, <3>3
      <4>2. PICK q \in DOMAIN t : Len(q) = n + 1 /\ Alike(p, q, n) /\ q[n + 1] = j
        <5>1. \E q \in DOMAIN t : Len(q) = n + 1 /\ Alike(p, q, n + 1 - 1) /\ q[n + 1] = j
          BY <1>7, <1>12, <4>1
        <5>2. n + 1 - 1 = n
          OBVIOUS
        <5> QED
          BY <5>1, <5>2
      <4>3. q \in B
        <5>1. Alike(p, q, k) /\ Len(q) >= k /\ q # path
          BY <1>1, <1>2, <3>3, <4>2 DEF Alike
        <5> QED
          BY <1>25, <2>3, <5>1
      <4>4. Alike(r, g[q], n - 1)
        BY <1>2, <1>26, <2>1, <2>2, <2>3, <3>1, <3>3, <4>2, <4>3
      <4>5. Len(g[q]) = n /\ g[q][n] = j /\ g[q] \in DOMAIN u
        <5>1. Len(g[q]) = n /\ n \in 1 .. Len(q) - 1 /\ g[q] \in DOMAIN u
          BY <1>9, <1>16, <1>21, <4>2, <4>3
        <5>2. g[q][n] = q[IF n < k THEN n ELSE n + 1]
          BY <1>16, <4>3, <5>1
        <5> QED
          BY <1>2, <3>3, <4>2, <5>1, <5>2
      <4> QED
        BY <4>4, <4>5
    <3> QED
      BY <1>2, <3>1, <3>2, <3>3
  <2>4. CASE p \notin B
    <3>1. r = p
      BY <1>17, <2>1, <2>4
    <3>2. PICK q \in DOMAIN t : Len(q) = n /\ Alike(p, q, n - 1) /\ q[n] = j
      BY <1>7, <1>12, <3>1
    <3>3. q \in DOMAIN u
      <4>1. n - 1 \in Nat /\ n <= Len(p) /\ (n >= k => n - 1 >= k - 1)
        BY <1>2, <2>2, <3>1
      <4> QED
        BY <1>24, <2>2, <2>4, <3>2, <4>1
    <3> QED
      BY <3>1, <3>2, <3>3
  <2> QED
    BY <2>3, <2>4
<1>28. Ancestors(u)
  <2> SUFFICES ASSUME NEW r \in DOMAIN u, NEW n \in 0 .. Len(r) - 1
               PROVE  \E q \in DOMAIN u : Len(q) = n /\ Alike(r, q, n) /\ ~IsLeaf(u[q])
    BY DEF Ancestors
  <2>0. \A p \in DOMAIN t : \A m \in 0 .. Len(p) - 1 :
          \E q \in DOMAIN t : Len(q) = m /\ Alike(p, q, m) /\ ~IsLeaf(t[q])
    BY <1>2 DEF Shape, Ancestors
  <2>1. PICK p \in D : r = g[p]
    BY <1>21
  <2>2. Len(p) \in Nat
    BY <1>7
  <2>3. CASE p \in B
    <3>1. Len(r) = Len(p) - 1 /\ Len(p) >= k /\ Alike(p, r, k - 1) /\ n \in 0 .. Len(p) - 2
      BY <1>9, <1>16, <1>18, <2>1, <2>2, <2>3
    <3>2. CASE n < k - 1
      <4>1. PICK q \in DOMAIN t : Len(q) = n /\ Alike(p, q, n) /\ ~IsLeaf(t[q])
        BY <1>7, <2>0, <2>2, <3>1
      <4>2. q \in D /\ q \notin B
        BY <1>1, <1>2, <1>3, <1>5, <1>9, <3>2, <4>1
      <4>3. Alike(r, q, n)
        BY <1>2, <3>1, <3>2, <4>1 DEF Alike
      <4> QED
        BY <1>17, <1>21, <4>1, <4>2, <4>3
    <3>3. CASE n >= k - 1
      <4>0. n + 1 \in 0 .. Len(p) - 1
        BY <1>2, <2>2, <3>1, <3>3
      <4>1. PICK q \in DOMAIN t : Len(q) = n + 1 /\ Alike(p, q, n + 1) /\ ~IsLeaf(t[q])
        BY <1>7, <2>0, <4>0
      <4>2. q \in B
        <5>1. Alike(p, q, k) /\ Len(q) >= k /\ q # path
          BY <1>2, <3>3, <4>1 DEF Alike
        <5> QED
          BY <1>25, <2>3, <5>1
      <4>3. Alike(r, g[q], n)
        <5>1. n + 1 \in Nat /\ n + 1 >= k /\ n + 1 <= Len(q) /\ n + 1 <= Len(p) /\ n + 1 - 1 = n
          BY <1>2, <2>2, <3>3, <4>0, <4>1
        <5>2. Alike(g[p], g[q], n + 1 - 1)
          BY <1>26, <2>3, <4>1, <4>2, <5>1
        <5> QED
          BY <2>1, <5>1, <5>2
      <4>4. Len(g[q]) = n /\ g[q] \in DOMAIN u /\ u[g[q]] = t[q]
        BY <1>9, <1>16, <1>21, <4>1, <4>2
      <4> QED
        BY <4>1, <4>3, <4>4
    <3> QED
      BY <1>2, <3>1, <3>2, <3>3
  <2>4. CASE p \notin B
    <3>1. r = p
      BY <1>17, <2>1, <2>4
    <3>2. PICK q \in DOMAIN t : Len(q) = n /\ Alike(p, q, n) /\ ~IsLeaf(t[q])
      BY <1>7, <2>0, <3>1
    <3>3. q \in DOMAIN u /\ (q # f => u[q] = t[q])
      <4>1. n \in Nat /\ n <= Len(p) + 1 /\ (n >= k => n >= k - 1)
        BY <1>2, <2>2, <3>1
      <4> QED
        BY <1>24, <2>2, <2>4, <3>2, <4>1
    <3>4. q # f
      <4> SUFFICES ASSUME q = f PROVE FALSE
        OBVIOUS
      <4>1. Len(p) >= k - 1 /\ Alike(p, f, k - 1)
        BY <1>2, <1>3, <2>2, <3>1, <3>2
      <4> QED
        BY <1>8, <2>4, <4>1
    <3> QED
      BY <3>1, <3>2, <3>3, <3>4
  <2> QED
    BY <2>3, <2>4
<1>29. Forks(u)
  <2> SUFFICES ASSUME NEW r \in DOMAIN u, ~IsLeaf(u[r])
               PROVE  /\ Len(r) <= MaxSplitDepth
                      /\ \E q \in DOMAIN u : Len(q) = Len(r) + 1 /\ Alike(r, q, Len(r)) /\ q[Len(q)] = 2
    BY DEF Forks
  <2>1. PICK p \in D : r = g[p]
    BY <1>21
  <2>2. Len(p) \in Nat /\ ~IsLeaf(t[p])
    BY <1>7, <1>21, <2>1
  <2>3. PICK q \in DOMAIN t : Len(q) = Len(p) + 1 /\ Alike(p, q, Len(p)) /\ q[Len(q)] = 2
    BY <1>2, <1>7, <2>2 DEF Shape, Forks
  <2>4. Len(p) <= MaxSplitDepth /\ MaxSplitDepth \in Nat
    BY <1>2, <1>7, <2>2, SizesAssumption DEF Shape, Forks
  <2>5. CASE p \in B
    <3>1. Len(r) = Len(p) - 1 /\ Len(p) >= k
      BY <1>9, <1>16, <2>1, <2>5
    <3>2. q \in B
      <4>1. Alike(p, q, k) /\ Len(q) >= k /\ q # path
        BY <1>1, <1>2, <2>2, <2>3, <3>1 DEF Alike
      <4> QED
        BY <1>25, <2>5, <4>1
    <3>3. Alike(r, g[q], Len(r))
      BY <1>26, <2>1, <2>2, <2>3, <2>5, <3>1, <3>2
    <3>4. Len(g[q]) = Len(r) + 1 /\ g[q] \in DOMAIN u
      BY <1>9, <1>16, <1>21, <2>2, <2>3, <3>1, <3>2
    <3>5. g[q][Len(g[q])] = 2
      <4>1. PICK n : n = Len(g[q])
        OBVIOUS
      <4>2. n \in 1 .. Len(q) - 1 /\ ~(n < k) /\ n + 1 = Len(q)
        BY <1>2, <2>2, <2>3, <3>1, <3>4, <4>1
      <4>3. g[q][n] = q[IF n < k THEN n ELSE n + 1]
        BY <1>16, <3>2, <4>2
      <4> QED
        BY <2>3, <4>1, <4>2, <4>3
    <3> QED
      BY <2>2, <2>4, <3>1, <3>3, <3>4, <3>5
  <2>6. CASE p \notin B
    <3>1. r = p
      BY <1>17, <2>1, <2>6
    <3>2. q \in DOMAIN u
      <4>1. Len(p) <= Len(q) /\ Len(p) >= Len(q) - 1 /\ Len(q) <= Len(p) + 1 /\ (Len(q) >= k => Len(p) >= k - 1)
        BY <1>2, <2>2, <2>3
      <4> QED
        BY <1>24, <2>2, <2>3, <2>6, <4>1
    <3> QED
      BY <2>3, <2>4, <3>1, <3>2
  <2> QED
    BY <2>5, <2>6
<1>30. Partition(u, S \ gone)
  <2>1. PICK Kept : Kept = Panes(t) \ {path}
    OBVIOUS
  <2>2. \A p \in D : g[p] \in Panes(u) <=> p \in Kept
    BY <1>21, <1>7, <2>1 DEF Panes
  <2>3. \A p \in Kept : p \in D /\ Tabs(t, p) \cap gone = {}
    <3>1. \A p \in Kept : p \in D /\ p # path /\ p \in Panes(t)
      BY <1>4, <1>5, <2>1 DEF Panes
    <3> QED
      BY <1>2, <3>1 DEF Partition
  <2>4. Carries(t, u, g, Kept, gone)
    <3>1. \A p \in Kept : g[p] \in Panes(u) /\ u[g[p]] = t[p] /\ Tabs(t, p) \cap gone = {}
      BY <1>21, <2>2, <2>3
    <3>2. \A p \in Panes(t) \ Kept : Tabs(t, p) \subseteq gone
      BY <2>1
    <3>3. \A q \in Panes(u) : \E p \in Kept : q = g[p]
      <4> TAKE q \in Panes(u)
      <4>1. q \in DOMAIN u
        BY DEF Panes
      <4> QED
        BY <1>21, <2>2, <4>1
    <3>4. Kept \subseteq Panes(t)
      BY <2>1
    <3> QED
      BY <3>1, <3>2, <3>3, <3>4 DEF Carries
  <2> QED
    BY <1>2, <2>4, PartitionMoved
<1> QED
  BY <1>15, <1>20, <1>23, <1>27, <1>28, <1>29, <1>30 DEF Sound, Shape

(* A set of natural numbers that is not empty has a least one.             *)
LEMMA Least ==
  ASSUME NEW N, N \subseteq Nat, N # {}
  PROVE  \E m \in N : \A n \in N : m <= n
<1>1. PICK m \in N : \A n \in N : ~(<<n, m>> \in OpToRel(<, Nat))
  BY NatLessThanWellFounded, WFMin, Zenon
<1>2. \A n \in N : ~(n < m)
  BY <1>1, Zenon DEF OpToRel
<1> QED
  BY <1>2

(* Under every node there is a pane on the way of first children.          *)
LEMMA FirstUnder ==
  ASSUME NEW t, NEW S, Sound(t, S), NEW p \in DOMAIN t
  PROVE  \E q \in Panes(t) : /\ FirstLeafUnder(t, p) = Shown(t[q])
                             /\ Len(p) <= Len(q) /\ Alike(p, q, Len(p))
<1>1. /\ Shape(t) /\ Partition(t, S) /\ MaxSplitDepth \in Nat
      /\ \A q \in DOMAIN t : q \in Path /\ Len(q) \in Nat
  BY PathIs, SizesAssumption DEF Sound, Shape, Rooted
<1>2. ASSUME NEW q \in DOMAIN t PROVE Len(q) <= MaxSplitDepth + 1
  <2>1. CASE Len(q) = 0
    BY <1>1, <2>1
  <2>2. CASE Len(q) # 0
    <3>1. Len(q) - 1 \in 0 .. Len(q) - 1
      BY <1>1, <2>2
    <3>2. PICK r \in DOMAIN t : Len(r) = Len(q) - 1 /\ ~IsLeaf(t[r])
      BY <1>1, <3>1 DEF Shape, Ancestors
    <3>3. Len(r) <= MaxSplitDepth
      BY <1>1, <3>2 DEF Shape, Forks
    <3> QED
      BY <1>1, <3>2, <3>3
  <2> QED
    BY <2>1, <2>2
<1>3. PICK A : A = {q \in DOMAIN t : IsPrefix(p, q) /\ \A i \in Len(p) + 1 .. Len(q) : q[i] = 1}
  OBVIOUS
<1>4. \A q \in DOMAIN t : q \in A <=> /\ Len(p) <= Len(q) /\ Alike(p, q, Len(p))
                                      /\ \A i \in Len(p) + 1 .. Len(q) : q[i] = 1
  BY <1>1, <1>3, PrefixIs
<1>5. p \in A
  BY <1>1, <1>4 DEF Alike
<1>6. PICK N : N = {MaxSplitDepth + 1 - Len(q) : q \in A}
  OBVIOUS
<1>7. N \subseteq Nat /\ N # {}
  <2>1. \A q \in A : MaxSplitDepth + 1 - Len(q) \in Nat
    BY <1>1, <1>2, <1>3
  <2> QED
    BY <1>5, <1>6, <2>1
<1>8. PICK m \in N : \A n \in N : m <= n
  BY <1>7, Least
<1>9. PICK q \in A : m = MaxSplitDepth + 1 - Len(q)
  BY <1>6
<1>10. \A r \in A : Len(r) <= Len(q)
  <2> TAKE r \in A
  <2>1. m <= MaxSplitDepth + 1 - Len(r)
    BY <1>6, <1>8
  <2>2. Len(r) \in Nat /\ Len(q) \in Nat
    BY <1>1, <1>3
  <2> QED
    BY <1>1, <1>9, <2>1, <2>2
<1>11. q \in DOMAIN t /\ q \in Path /\ Len(q) \in Nat /\ Len(p) \in Nat
       /\ Len(p) <= Len(q) /\ Alike(p, q, Len(p)) /\ \A i \in Len(p) + 1 .. Len(q) : q[i] = 1
  BY <1>1, <1>3, <1>4
<1>12. q \in Panes(t)
  <2> SUFFICES ASSUME ~IsLeaf(t[q]) PROVE FALSE
    BY <1>11 DEF Panes
  <2>1. PICK c \in DOMAIN t : Len(c) = Len(q) + 1 /\ Alike(q, c, Len(q)) /\ c[Len(c)] = 2
    BY <1>1, <1>11 DEF Shape, Forks
  <2>2. PICK n : n = Len(q) + 1
    OBVIOUS
  <2>3. n \in 1 .. Len(c) /\ 1 \in 1 .. c[n]
    BY <1>11, <2>1, <2>2
  <2>4. PICK d \in DOMAIN t : Len(d) = n /\ Alike(c, d, n - 1) /\ d[n] = 1
    BY <1>1, <2>3 DEF Shape, Elders
  <2>5. \A i \in 1 .. Len(q) : d[i] = q[i]
    BY <1>11, <2>1, <2>2, <2>4 DEF Alike
  <2>6. d \in A
    <3>1. Len(p) <= Len(d) /\ Alike(p, d, Len(p))
      BY <1>11, <2>2, <2>4, <2>5 DEF Alike
    <3>2. \A i \in Len(p) + 1 .. Len(d) : d[i] = 1
      <4> TAKE i \in Len(p) + 1 .. Len(d)
      <4>1. i = n \/ i \in Len(p) + 1 .. Len(q)
        BY <1>11, <2>2, <2>4
      <4>2. i \in Len(p) + 1 .. Len(q) => i \in 1 .. Len(q)
        BY <1>11
      <4> QED
        BY <1>11, <2>4, <2>5, <4>1, <4>2
    <3> QED
      BY <1>4, <3>1, <3>2
  <2> QED
    BY <1>10, <1>11, <2>2, <2>4, <2>6
<1>13. PICK z : z = CHOOSE x \in Panes(t) :
                      IsPrefix(p, x) /\ \A i \in Len(p) + 1 .. Len(x) : x[i] = 1
  OBVIOUS
<1>14. z \in Panes(t) /\ IsPrefix(p, z)
  BY <1>3, <1>12, <1>13
<1>15. FirstLeafUnder(t, p) = Shown(t[z])
  BY <1>13 DEF FirstLeafUnder
<1> QED
  BY <1>1, <1>14, <1>15, PrefixIs DEF Panes

LEMMA FirstLeafIn ==
  ASSUME NEW t, NEW S, Sound(t, S)
  PROVE  FirstLeaf(t) \in S
<1>1. <<>> \in DOMAIN t
  BY DEF Sound, Shape, Rooted
<1>2. PICK q \in Panes(t) : FirstLeafUnder(t, <<>>) = Shown(t[q])
  BY <1>1, FirstUnder
<1> QED
  BY <1>2, OkIsLeaf DEF FirstLeaf, Sound, Partition, Tabs

LEMMA NeighborIn ==
  ASSUME NEW t, NEW S, Sound(t, S), NEW s \in S, PathTo(t, s) # <<>>
  PROVE  Neighbor(t, s) \in S \ {s}
<1>1. PICK path, k : path = PathTo(t, s) /\ k = Len(path)
  OBVIOUS
<1>2. /\ path \in DOMAIN t /\ path \in Panes(t) /\ s \in Tabs(t, path)
      /\ Shape(t) /\ Partition(t, S) /\ path # <<>>
      /\ \A p \in Panes(t) : s \in Tabs(t, p) => p = path
  BY <1>1, PathToIs DEF Sound
<1>3. /\ path \in Path /\ k \in Nat /\ k >= 1 /\ path[k] \in Nat /\ path[k] >= 1
      /\ \A p \in DOMAIN t : p \in Path /\ Len(p) \in Nat
  BY <1>1, <1>2, PathIs, EmptyPath DEF Shape, Rooted
<1>4. PICK x, next : /\ x = IF path[k] > 1 THEN path[k] - 1 ELSE path[k] + 1
                     /\ next = [path EXCEPT ![k] = x]
  OBVIOUS
<1>5. x \in Nat \ {0} /\ x # path[k] /\ (x < path[k] \/ x = 2)
  BY <1>3, <1>4
<1>6. next \in Path /\ Len(next) = k /\ next[k] = x /\ \A i \in 1 .. k : i # k => next[i] = path[i]
  <2>1. /\ [path EXCEPT ![k] = x] \in Path /\ Len([path EXCEPT ![k] = x]) = k
        /\ [path EXCEPT ![k] = x][k] = x
        /\ \A i \in 1 .. k : i # k => [path EXCEPT ![k] = x][i] = path[i]
    BY <1>1, <1>3, <1>5, ExceptSeq DEF Path
  <2> QED
    BY <1>4, <2>1, Zenon
<1>7. Neighbor(t, s) = FirstLeafUnder(t, next)
  BY <1>1, <1>4 DEF Neighbor, Last
<1>8. \E q \in DOMAIN t : Len(q) = k /\ Alike(path, q, k - 1) /\ q[k] = x
  <2>1. CASE x < path[k]
    <3>1. x \in 1 .. path[k] /\ k \in 1 .. Len(path)
      BY <1>1, <1>3, <1>5, <2>1
    <3> QED
      BY <1>2, <3>1 DEF Shape, Elders
  <2>2. CASE x = 2
    <3>1. k - 1 \in 0 .. Len(path) - 1
      BY <1>1, <1>3
    <3>2. PICK f \in DOMAIN t : Len(f) = k - 1 /\ Alike(path, f, k - 1) /\ ~IsLeaf(t[f])
      BY <1>2, <3>1 DEF Shape, Ancestors
    <3>3. PICK c \in DOMAIN t : Len(c) = Len(f) + 1 /\ Alike(f, c, Len(f)) /\ c[Len(c)] = 2
      BY <1>2, <3>2 DEF Shape, Forks
    <3>4. Len(c) = k
      BY <1>3, <3>2, <3>3
    <3> QED
      BY <2>2, <3>2, <3>3, <3>4 DEF Alike
  <2> QED
    BY <1>5, <2>1, <2>2
<1>9. next \in DOMAIN t
  <2>1. PICK q \in DOMAIN t : Len(q) = k /\ Alike(path, q, k - 1) /\ q[k] = x
    BY <1>8
  <2>2. \A i \in 1 .. k - 1 : next[i] = q[i]
    BY <1>3, <1>6, <2>1 DEF Alike
  <2>3. Alike(q, next, k)
    BY <1>3, <1>6, <2>1, <2>2 DEF Alike
  <2>4. q = next
    BY <1>3, <1>6, <2>1, <2>3, SamePath
  <2> QED
    BY <2>1, <2>4
<1>10. PICK q \in Panes(t) : /\ FirstLeafUnder(t, next) = Shown(t[q])
                             /\ Len(next) <= Len(q) /\ Alike(next, q, Len(next))
  BY <1>9, FirstUnder
<1>11. q # path
  BY <1>3, <1>5, <1>6, <1>10 DEF Alike
<1>12. Shown(t[q]) \in Tabs(t, q) /\ Tabs(t, q) \subseteq S /\ s \notin Tabs(t, q)
  BY <1>2, <1>11, OkIsLeaf DEF Partition, Tabs
<1> QED
  BY <1>7, <1>10, <1>12

(* A tree of one pane with one tab.                                        *)
LEMMA SoleIs ==
  ASSUME NEW t, NEW S, Sound(t, S), NEW s \in S
  PROVE  /\ t = SingleLeaf(s) => S = {s}
         /\ t # SingleLeaf(s) => PathTo(t, s) # <<>> \/ Len(LeafWith(t, s).tabs) > 1
<1>1. PICK path : path = PathTo(t, s)
  OBVIOUS
<1>2. /\ path \in DOMAIN t /\ path \in Panes(t) /\ s \in Tabs(t, path) /\ LeafOk(t[path])
      /\ Shape(t) /\ Partition(t, S)
  BY <1>1, PathToIs DEF Sound
<1>3. ASSUME t = SingleLeaf(s) PROVE S = {s}
  <2>1. PICK tabs : tabs = <<s>>
    OBVIOUS
  <2>2. t = [p \in {<<>>} |-> Leaf(tabs, 1)]
    BY <1>3, <2>1 DEF SingleLeaf
  <2>3. \A p \in DOMAIN t : t[p] = Leaf(tabs, 1)
    BY <2>2
  <2>4. \A p \in Panes(t) : Tabs(t, p) = {s}
    <3> TAKE p \in Panes(t)
    <3>1. t[p].tabs = tabs
      BY <2>3, LeafIs DEF Panes
    <3>2. ToSet(tabs) = {s}
      BY <2>1 DEF ToSet
    <3> QED
      BY <3>1, <3>2 DEF Tabs
  <2> QED
    BY <1>2, <2>4 DEF Partition, Holds, Tabs
<1>4. ASSUME path = <<>>, ~(Len(t[path].tabs) > 1) PROVE t = SingleLeaf(s)
  <2>1. DOMAIN t = {<<>>}
    <3>1. \A q \in DOMAIN t : Len(q) >= Len(path) /\ Alike(q, path, Len(path))
      BY <1>2, <1>4, EmptyPath, PathIs DEF Shape, Rooted, Alike
    <3> QED
      BY <1>2, <1>4, <3>1, NoneBelow
  <2>2. PICK tabs, i : tabs = t[path].tabs /\ i = t[path].active
    OBVIOUS
  <2>3. tabs \in Seq(Surfaces) /\ s \in ToSet(tabs) /\ i \in DOMAIN tabs /\ t[path] = Leaf(tabs, i)
    BY <1>2, <2>2 DEF LeafOk, Tabs
  <2>4. Len(tabs) = 1 /\ tabs[1] = s /\ i = 1
    <3>1. Len(tabs) \in Nat /\ DOMAIN tabs = 1 .. Len(tabs) /\ ~(Len(tabs) > 1)
      BY <1>4, <2>2, <2>3
    <3>2. PICK j \in DOMAIN tabs : tabs[j] = s
      BY <2>3 DEF ToSet
    <3>3. Len(tabs) = 1 /\ j = 1 /\ i = 1
      BY <2>3, <3>1, <3>2
    <3> QED
      BY <3>2, <3>3
  <2>5. tabs = <<s>>
    BY <2>3, <2>4
  <2>6. t = [p \in {<<>>} |-> t[p]] /\ t[<<>>] = Leaf(<<s>>, 1)
    BY <1>2, <1>4, <2>1, <2>3, <2>4, <2>5 DEF Shape, Rooted
  <2> QED
    BY <2>6 DEF SingleLeaf
<1> QED
  BY <1>1, <1>3, <1>4 DEF LeafWith

(* The edits of the splits.                                                *)
LEMMA SplitLeafSound ==
  ASSUME NEW t, NEW S, Sound(t, S), NEW near \in S, NEW axis, NEW new \in Surfaces, new \notin S,
         JoinsSplit(t, near, axis) \/ Len(PathTo(t, near)) <= MaxSplitDepth
  PROVE  Sound(SplitLeaf(t, near, axis, new), S \cup {new})
<1>1. PICK path, leaf : path = PathTo(t, near) /\ leaf = Leaf(<<new>>, 1)
  OBVIOUS
<1>2. path \in Panes(t)
  BY <1>1, PathToIs DEF Sound
<1>3. SingleLeaf(new)[<<>>] = leaf
  BY <1>1, Zenon DEF SingleLeaf
<1>4. CASE JoinsSplit(t, near, axis)
  <2>1. path # <<>>
    BY <1>1, <1>4 DEF JoinsSplit
  <2>2. Sound(JoinSplit(t, path, leaf), S \cup {new})
    BY <1>1, <1>2, <2>1, JoinSound
  <2> QED
    BY <1>1, <1>3, <1>4, <2>2 DEF SplitLeaf
<1>5. CASE ~JoinsSplit(t, near, axis)
  <2>1. Sound(DividePane(t, path, axis, leaf), S \cup {new})
    BY <1>1, <1>2, <1>5, DivideSound
  <2> QED
    BY <1>1, <1>3, <1>5, <2>1 DEF SplitLeaf
<1> QED
  BY <1>4, <1>5

LEMMA RemoveLeafSound ==
  ASSUME NEW t, NEW S, Sound(t, S), NEW s \in S, PathTo(t, s) # <<>>, ~(Len(LeafWith(t, s).tabs) > 1)
  PROVE  Sound(RemoveLeaf(t, s), S \ {s})
<1>1. PICK path, gone, siblings : /\ path = PathTo(t, s) /\ gone = Tabs(t, path)
                                  /\ siblings = Children(t, Front(path)) \ {path}
  OBVIOUS
<1>2. path \in Panes(t) /\ path \in DOMAIN t /\ path # <<>> /\ LeafOk(t[path]) /\ s \in gone /\ Shape(t)
  BY <1>1, PathToIs DEF Sound
<1>3. gone = {s}
  <2>1. PICK tabs : tabs = t[path].tabs
    OBVIOUS
  <2>2. tabs \in Seq(Surfaces) /\ ~(Len(tabs) > 1) /\ s \in ToSet(tabs) /\ gone = ToSet(tabs)
    BY <1>1, <1>2, <2>1 DEF LeafOk, LeafWith, Tabs
  <2>3. Len(tabs) \in Nat /\ DOMAIN tabs = 1 .. Len(tabs)
    BY <2>2
  <2>4. \A i, j \in DOMAIN tabs : i = j
    BY <2>2, <2>3
  <2> QED
    BY <2>2, <2>4 DEF ToSet
<1>4. CASE \E p \in siblings : siblings = {p}
  <2>1. PICK o : siblings = {o}
    BY <1>4
  <2>2. Sound(Moved(t, GiveWay(t, path)), S \ gone)
    BY <1>1, <1>2, <2>1, GiveWaySound
  <2>3. RemoveLeaf(t, s) = Moved(t, GiveWay(t, path))
    BY <1>1, <1>4 DEF RemoveLeaf, GiveWay
  <2> QED
    BY <1>3, <2>2, <2>3
<1>5. CASE ~ \E p \in siblings : siblings = {p}
  <2>1. \E q \in DOMAIN t : Len(q) = Len(path) /\ Alike(q, path, Len(path) - 1) /\ q[Len(path)] = 3
    BY <1>1, <1>2, <1>5, ThirdChild
  <2>2. Sound(Moved(t, CloseUp(t, path)), S \ gone)
    BY <1>1, <1>2, <2>1, CloseUpSound
  <2>3. RemoveLeaf(t, s) = Moved(t, CloseUp(t, path))
    BY <1>1, <1>5 DEF RemoveLeaf, CloseUp
  <2> QED
    BY <1>3, <2>2, <2>3
<1> QED
  BY <1>4, <1>5

-----------------------------------------------------------------------------
(* What SessionSurvivesRestart rests on.  LayoutInv: the tree of a listed  *)
(* workspace is sound for the surfaces that belong to it, its focus is one *)
(* of them, and one listed workspace is active; the others have neither    *)
(* tree nor focus.  UndoInv: what the holder of the surface-set guard may  *)
(* bring back is as sound as what it replaces.                             *)
Laid(w) ==
  /\ \E t, S : t = tree[w] /\ S = SurfacesOf(w) /\ Sound(t, S)
  /\ focus[w] \in SurfacesOf(w)
NotLaid(w) == tree[w] = NoTree /\ focus[w] = NoSurface /\ ~worktree[w]

LayoutInv ==
  /\ tree = [w \in Workspaces |-> tree[w]] /\ focus = [w \in Workspaces |-> focus[w]]
  /\ worktree \in [Workspaces -> BOOLEAN]
  /\ \A w \in Workspaces \ Listed : NotLaid(w)
  /\ \A w \in Listed : Laid(w)
  /\ \E a \in Listed : active = {a}

UndoInv ==
  /\ transaction.kind = "create surface" =>
       \E t, S : /\ t = transaction.tree
                 /\ S = SurfacesOf(transaction.workspace) \ {transaction.surface}
                 /\ Sound(t, S) /\ transaction.focus \in S
  /\ Made => \E a \in Listed \ {transaction.workspace} : transaction.previous = {a}
  /\ transaction.kind = "replace" => transaction.closing \in Listed \ {transaction.workspace}

-----------------------------------------------------------------------------
LEMMA ListedAre ==
  ASSUME ListInv
  PROVE  Listed \subseteq Workspaces /\ NoWorkspace \notin Listed
  BY NoIdAssumption DEF ListInv, Listed, ToSet

LEMMA UndoStill ==
  ASSUME UndoInv, UNCHANGED <<home, transaction>>, Listed' = Listed
  PROVE  UndoInv'
  BY DEF UndoInv, Made, SurfacesOf

LEMMA UndoDone ==
  ASSUME transaction' = Idle \/ \E gone : transaction' = [kind |-> "evict", surfaces |-> gone]
  PROVE  UndoInv'
<1>1. PICK plan : plan = transaction'
  OBVIOUS
<1>2. \/ plan = Idle /\ plan.kind = "none"
      \/ plan.kind = "evict"
  BY <1>1 DEF Idle
<1> QED
  BY <1>1, <1>2 DEF UndoInv, Made

(* Steps that change no tree. *)
LEMMA LayoutStill ==
  ASSUME ListInv, LayoutInv, UNCHANGED <<tree, focus, worktree, home>>, Listed' = Listed,
         \E a \in Listed : active' = {a}
  PROVE  LayoutInv'
<1>1. \A w : Laid(w) => Laid(w)'
  BY DEF Laid, SurfacesOf
<1>2. \A w : NotLaid(w) => NotLaid(w)'
  BY DEF NotLaid
<1> QED
  BY <1>1, <1>2 DEF LayoutInv

(* The tree of one workspace changes, and perhaps which surfaces it has.   *)
LEMMA Relaid ==
  ASSUME ListInv, LayoutInv, Listed' = Listed, UNCHANGED worktree,
         NEW w \in Listed, NEW t, NEW f, NEW S,
         tree' = [tree EXCEPT ![w] = t], focus' = [focus EXCEPT ![w] = f],
         \A v \in Listed \ {w} : SurfacesOf(v)' = SurfacesOf(v),
         S = SurfacesOf(w)', Sound(t, S), f \in S,
         \E a \in Listed : active' = {a}
  PROVE  LayoutInv'
<1>1. /\ w \in Workspaces /\ Listed \subseteq Workspaces
      /\ tree = [v \in Workspaces |-> tree[v]] /\ focus = [v \in Workspaces |-> focus[v]]
  BY ListedAre DEF LayoutInv
<1>2. /\ tree' = [v \in Workspaces |-> tree'[v]] /\ focus' = [v \in Workspaces |-> focus'[v]]
      /\ tree'[w] = t /\ focus'[w] = f
      /\ \A v \in Workspaces \ {w} : tree'[v] = tree[v] /\ focus'[v] = focus[v]
  BY <1>1
<1>3. Laid(w)'
  BY <1>2 DEF Laid
<1>4. ASSUME NEW v \in Listed, v # w PROVE Laid(v)'
  <2>1. Laid(v) /\ SurfacesOf(v)' = SurfacesOf(v) /\ tree'[v] = tree[v] /\ focus'[v] = focus[v]
    BY <1>1, <1>2, <1>4 DEF LayoutInv
  <2> QED
    BY <2>1 DEF Laid
<1>5. ASSUME NEW v \in Workspaces \ Listed PROVE NotLaid(v)'
  <2>1. NotLaid(v) /\ tree'[v] = tree[v] /\ focus'[v] = focus[v]
    BY <1>2 DEF LayoutInv
  <2> QED
    BY <2>1 DEF NotLaid
<1> QED
  BY <1>2, <1>3, <1>4, <1>5 DEF LayoutInv

LEMMA LaidIs ==
  ASSUME LayoutInv, NEW w \in Listed, NEW t, t = tree[w], NEW S, S = SurfacesOf(w)
  PROVE  Sound(t, S) /\ focus[w] \in S
  BY DEF LayoutInv, Laid

LEMMA AddSurfaceLayout ==
  ASSUME ListInv, LayoutInv, NEW s \in Surfaces, NEW near, NEW newTree, AddSurface(s, near, newTree),
         NEW S, S = SurfacesOf(home[near]), Sound(newTree, S \cup {s})
  PROVE  LayoutInv' /\ UndoInv'
<1>1. PICK w, t : w = home[near] /\ t = tree[w]
  OBVIOUS
<1>2. /\ w \in Listed /\ s \notin Live
      /\ tree' = [tree EXCEPT ![w] = newTree] /\ focus' = [focus EXCEPT ![w] = s]
      /\ home' = [home EXCEPT ![s] = w]
      /\ transaction' = Creating(s, w)
      /\ UNCHANGED <<order, active, worktree>>
  BY <1>1 DEF AddSurface, ListInv, Live, Free
<1>3. NoWorkspace \notin Listed
  BY ListedAre
<1>4. \A x \in Surfaces : home'[x] = IF x = s THEN w ELSE home[x]
  BY <1>2 DEF ListInv
<1>5. home[s] = NoWorkspace
  BY <1>2 DEF Live
<1>6. SurfacesOf(w)' = S \cup {s} /\ s \notin S
  BY <1>1, <1>2, <1>3, <1>4, <1>5 DEF SurfacesOf
<1>7. \A v \in Listed \ {w} : SurfacesOf(v)' = SurfacesOf(v)
  BY <1>3, <1>4, <1>5 DEF SurfacesOf
<1>8. LayoutInv'
  <2>1. (\E a \in Listed : active' = {a}) /\ Listed' = Listed
    BY <1>2 DEF LayoutInv, Listed
  <2>2. PICK all : all = S \cup {s}
    OBVIOUS
  <2>3. Sound(newTree, all) /\ s \in all /\ all = SurfacesOf(w)'
    BY <1>6, <2>2
  <2> QED
    BY <1>2, <1>7, <2>1, <2>3, Relaid
<1>9. UndoInv'
  <2>1. PICK plan : plan = transaction'
    OBVIOUS
  <2>2. /\ plan.kind = "create surface" /\ plan.surface = s /\ plan.workspace = w
        /\ plan.tree = t /\ plan.focus = focus[w]
    BY <1>1, <1>2, <2>1 DEF Creating
  <2>3. Sound(t, S) /\ focus[w] \in S
    BY <1>1, <1>2, LaidIs
  <2>4. S = SurfacesOf(w)' \ {s}
    BY <1>6
  <2> QED
    BY <2>1, <2>2, <2>3, <2>4 DEF UndoInv, Made
<1> QED
  BY <1>8, <1>9

LEMMA GrowLayout ==
  ASSUME ListInv, LayoutInv, NEW s \in Surfaces, NEW near \in Surfaces,
         AddTab(s, near) \/ \E axis \in Axes : SplitSurface(s, near, axis)
  PROVE  LayoutInv' /\ UndoInv'
<1>1. PICK w, t, S : w = home[near] /\ t = tree[w] /\ S = SurfacesOf(w)
  OBVIOUS
<1>2. near \in Live /\ w \in Listed /\ near \in S /\ s \notin S
  <2>1. near \in Live /\ Free(s)
    BY DEF AddTab, SplitSurface, AddSurface
  <2>2. home[s] = NoWorkspace /\ home[near] # NoWorkspace
    BY <2>1 DEF Live, Free
  <2> QED
    BY <1>1, <2>1, <2>2 DEF ListInv, SurfacesOf
<1>3. Sound(t, S)
  BY <1>1, <1>2, LaidIs
<1>4. CASE AddTab(s, near)
  <2>1. PICK newTree : newTree = PushTab(t, near, s)
    OBVIOUS
  <2>2. Sound(newTree, S \cup {s})
    BY <1>2, <1>3, <2>1, PushTabSound
  <2>3. AddSurface(s, near, newTree)
    BY <1>1, <1>4, <2>1 DEF AddTab
  <2> QED
    BY <1>1, <2>2, <2>3, AddSurfaceLayout
<1>5. ASSUME NEW axis, SplitSurface(s, near, axis) PROVE LayoutInv' /\ UndoInv'
  <2>1. PICK newTree : newTree = SplitLeaf(t, near, axis, s)
    OBVIOUS
  <2>2. JoinsSplit(t, near, axis) \/ Len(PathTo(t, near)) <= MaxSplitDepth
    <3>1. Len(PathTo(t, near)) \in Nat
      <4>1. PICK path : path = PathTo(t, near)
        OBVIOUS
      <4>2. path \in DOMAIN t
        BY <1>2, <1>3, <4>1, PathToIs DEF Sound
      <4>3. path \in Path
        BY <1>3, <4>2 DEF Sound, Shape, Rooted
      <4> QED
        BY <4>1, <4>3, PathIs
    <3> QED
      BY <1>1, <1>5, <3>1, SizesAssumption DEF SplitSurface, SplitWouldExceedDepth
  <2>3. Sound(newTree, S \cup {s})
    BY <1>2, <1>3, <2>1, <2>2, SplitLeafSound
  <2>4. AddSurface(s, near, newTree)
    BY <1>1, <1>5, <2>1 DEF SplitSurface
  <2> QED
    BY <1>1, <2>3, <2>4, AddSurfaceLayout
<1> QED
  BY <1>4, <1>5

LEMMA ListedMore ==
  ASSUME ListInv, NEW w \in Workspaces, w \notin Listed, order' = Append(order, w)
  PROVE  Listed' = Listed \cup {w}
<1>1. order \in Seq(Workspaces) /\ IsInjective(order) /\ w \notin ToSet(order)
  BY DEF ListInv, Listed
<1>2. PICK new : new = Append(order, w)
  OBVIOUS
<1>3. new \in Seq(Workspaces) /\ IsInjective(new) /\ ToSet(new) = ToSet(order) \cup {w}
  BY <1>1, <1>2, Appended
<1> QED
  BY <1>2, <1>3 DEF Listed

LEMMA AddWorkspaceLayout ==
  ASSUME ListInv, LayoutInv, NEW s \in Surfaces, NEW w \in Workspaces, NEW isWorktree \in BOOLEAN,
         AddWorkspace(w, s, isWorktree), NEW plan, plan = transaction',
         plan.kind \in {"create workspace", "replace"}, plan.workspace = w, plan.previous = active,
         plan.kind = "replace" => plan.closing \in Listed
  PROVE  LayoutInv' /\ UndoInv'
<1>1. /\ w \notin Listed /\ s \notin Live
      /\ order' = Append(order, w) /\ active' = {w}
      /\ tree' = [tree EXCEPT ![w] = SingleLeaf(s)] /\ focus' = [focus EXCEPT ![w] = s]
      /\ worktree' = [worktree EXCEPT ![w] = isWorktree]
      /\ home' = [home EXCEPT ![s] = w]
  BY DEF AddWorkspace, Free, FreeWorkspace
<1>2. Listed' = Listed \cup {w}
  BY <1>1, ListedMore
<1>3. NoWorkspace \notin Listed /\ Listed \subseteq Workspaces /\ w # NoWorkspace
  BY ListedAre, NoIdAssumption
<1>4. \A x \in Surfaces : home'[x] = IF x = s THEN w ELSE home[x]
  BY <1>1 DEF ListInv
<1>5. home[s] = NoWorkspace /\ \A x \in Surfaces : home[x] # w
  BY <1>1, <1>3 DEF Live, ListInv
<1>6. SurfacesOf(w)' = {s}
  BY <1>4, <1>5 DEF SurfacesOf
<1>7. \A v \in Listed : SurfacesOf(v)' = SurfacesOf(v)
  BY <1>1, <1>3, <1>4, <1>5 DEF SurfacesOf
<1>8. PICK t : t = SingleLeaf(s)
  OBVIOUS
<1>9. /\ tree' = [v \in Workspaces |-> tree'[v]] /\ focus' = [v \in Workspaces |-> focus'[v]]
      /\ worktree' \in [Workspaces -> BOOLEAN]
      /\ tree'[w] = t /\ focus'[w] = s
      /\ \A v \in Workspaces \ {w} :
           tree'[v] = tree[v] /\ focus'[v] = focus[v] /\ worktree'[v] = worktree[v]
  BY <1>1, <1>8 DEF LayoutInv
<1>10. Laid(w)'
  <2>1. Sound(t, {s})
    BY <1>8, SingleSound
  <2> QED
    BY <1>6, <1>9, <2>1 DEF Laid
<1>11. ASSUME NEW v \in Listed PROVE Laid(v)'
  <2>1. Laid(v) /\ SurfacesOf(v)' = SurfacesOf(v) /\ tree'[v] = tree[v] /\ focus'[v] = focus[v]
    BY <1>1, <1>3, <1>7, <1>9 DEF LayoutInv
  <2> QED
    BY <2>1 DEF Laid
<1>12. ASSUME NEW v \in Workspaces \ (Listed \cup {w}) PROVE NotLaid(v)'
  <2>1. NotLaid(v) /\ tree'[v] = tree[v] /\ focus'[v] = focus[v] /\ worktree'[v] = worktree[v]
    BY <1>9 DEF LayoutInv
  <2> QED
    BY <2>1 DEF NotLaid
<1>13. LayoutInv'
  BY <1>1, <1>2, <1>9, <1>10, <1>11, <1>12 DEF LayoutInv
<1>14. UndoInv'
  <2>1. PICK a \in Listed : active = {a}
    BY DEF LayoutInv
  <2>2. a \in Listed' \ {w} /\ plan.kind = "replace" => plan.closing \in Listed' \ {w}
    BY <1>1, <1>2
  <2>3. a \in Listed' \ {w} /\ plan.previous = {a}
    BY <1>1, <1>2, <2>1
  <2> QED
    BY <2>2, <2>3 DEF UndoInv
<1> QED
  BY <1>13, <1>14

(* The first listed of some workspaces is one of them. *)
LEMMA FirstIs ==
  ASSUME ListInv, NEW W, W \cap Listed # {}
  PROVE  FirstListed(W) \in W \cap Listed
<1>1. PICK N : N = {i \in DOMAIN order : order[i] \in W}
  OBVIOUS
<1>2. N \subseteq Nat /\ N # {}
  <2>1. DOMAIN order = 1 .. Len(order)
    BY DEF ListInv
  <2>2. PICK i \in DOMAIN order : order[i] \in W
    BY DEF Listed, ToSet
  <2> QED
    BY <1>1, <2>1, <2>2
<1>3. PICK m \in N : \A n \in N : m <= n
  BY <1>2, Least
<1>4. Min(N) \in N
  BY <1>3 DEF Min
<1> QED
  BY <1>1, <1>4 DEF FirstListed, Listed, ToSet

LEMMA OpenWorktreeLayout ==
  ASSUME ListInv, LayoutInv, UndoInv, NEW s \in Surfaces, NEW w \in Workspaces,
         NEW resolved \in SUBSET Listed, OpenWorktree(w, s, resolved)
  PROVE  LayoutInv' /\ UndoInv'
<1>1. PICK showing : showing = {v \in resolved : worktree[v]}
  OBVIOUS
<1>2. CASE showing = {}
  <2>1. PICK plan : plan = transaction'
    OBVIOUS
  <2>2. /\ AddWorkspace(w, s, TRUE)
        /\ plan = [kind |-> "create workspace", workspace |-> w, previous |-> active]
    BY <1>1, <1>2, <2>1 DEF OpenWorktree
  <2>3. plan.kind = "create workspace" /\ plan.workspace = w /\ plan.previous = active
    BY <2>2
  <2> QED
    BY <2>1, <2>2, <2>3, AddWorkspaceLayout
<1>3. CASE showing # {}
  <2>1. active' = {FirstListed(showing)} /\ UNCHANGED <<order, tree, focus, worktree, home, transaction>>
    BY <1>1, <1>3 DEF OpenWorktree
  <2>2. FirstListed(showing) \in Listed
    BY <1>1, <1>3, FirstIs
  <2>3. Listed' = Listed
    BY <2>1 DEF Listed
  <2> QED
    BY <2>1, <2>2, <2>3, LayoutStill, UndoStill
<1> QED
  BY <1>2, <1>3

LEMMA CloseSurfaceLayout ==
  ASSUME ListInv, LayoutInv, NEW s \in Surfaces, NEW r \in Surfaces, CloseSurface(s, r)
  PROVE  LayoutInv' /\ UndoInv'
<1>1. PICK w, t, S : w = home[s] /\ t = tree[w] /\ S = SurfacesOf(w)
  OBVIOUS
<1>2. /\ s \in Live /\ w \in Listed /\ s \in S /\ NoWorkspace \notin Listed
      /\ RemoveSurface(s, r)
      /\ UNCHANGED <<order, active, worktree>>
      /\ transaction' = [kind |-> "evict", surfaces |-> {s}]
  BY <1>1, ListedAre DEF CloseSurface, RemoveSurface, ListInv, Live, SurfacesOf
<1>3. UndoInv'
  BY <1>2, UndoDone
<1>4. Sound(t, S) /\ focus[w] \in S
  BY <1>1, <1>2, LaidIs
<1>5. (\E a \in Listed : active' = {a}) /\ Listed' = Listed
  BY <1>2 DEF LayoutInv, Listed
<1>6. CASE t = SingleLeaf(s)
  <2>1. PICK u : u = SingleLeaf(r)
    OBVIOUS
  <2>2. /\ tree' = [tree EXCEPT ![w] = u] /\ focus' = [focus EXCEPT ![w] = r]
        /\ home' = [home EXCEPT ![s] = NoWorkspace, ![r] = w]
    BY <1>1, <1>2, <1>6, <2>1 DEF RemoveSurface, IsSoleTab
  <2>3. r \notin Live /\ home[r] = NoWorkspace
    BY <1>1, <1>2, <1>6 DEF CloseSurface, IsSoleTab, Free, Live
  <2>4. \A x \in Surfaces : home'[x] = IF x = r THEN w ELSE IF x = s THEN NoWorkspace ELSE home[x]
    BY <2>2 DEF ListInv
  <2>5. S = {s}
    BY <1>2, <1>4, <1>6, SoleIs
  <2>6. {r} = SurfacesOf(w)'
    <3>1. \A x \in Surfaces : home[x] = w => x = s
      BY <1>1, <2>5 DEF SurfacesOf
    <3> QED
      BY <1>2, <2>4, <3>1 DEF SurfacesOf
  <2>7. \A v \in Listed \ {w} : SurfacesOf(v)' = SurfacesOf(v)
    BY <1>1, <1>2, <2>3, <2>4 DEF SurfacesOf
  <2>8. PICK R : R = {r}
    OBVIOUS
  <2>9. Sound(u, R) /\ r \in R /\ R = SurfacesOf(w)'
    BY <2>1, <2>6, <2>8, SingleSound
  <2> QED
    BY <1>2, <1>3, <1>5, <2>2, <2>7, <2>9, Relaid
<1>7. CASE t # SingleLeaf(s)
  <2>1. PICK rest : rest = S \ {s}
    OBVIOUS
  <2>2. PICK many \in BOOLEAN : many <=> Len(LeafWith(t, s).tabs) > 1
    OBVIOUS
  <2>3. PICK u : u = IF many THEN RemoveTab(t, s) ELSE RemoveLeaf(t, s)
    OBVIOUS
  <2>4. PICK f : f = FocusAfterClose(w, s, u)
    OBVIOUS
  <2>5. /\ tree' = [tree EXCEPT ![w] = u] /\ focus' = [focus EXCEPT ![w] = f]
        /\ home' = [home EXCEPT ![s] = NoWorkspace]
    BY <1>1, <1>2, <1>7, <2>2, <2>3, <2>4 DEF RemoveSurface, IsSoleTab
  <2>6. \A x \in Surfaces : home'[x] = IF x = s THEN NoWorkspace ELSE home[x]
    BY <2>5 DEF ListInv
  <2>7. rest = SurfacesOf(w)'
    BY <1>1, <1>2, <2>1, <2>6 DEF SurfacesOf
  <2>8. \A v \in Listed \ {w} : SurfacesOf(v)' = SurfacesOf(v)
    BY <1>1, <1>2, <2>6 DEF SurfacesOf
  <2>9. ~many => PathTo(t, s) # <<>>
    BY <1>2, <1>4, <1>7, <2>2, SoleIs
  <2>10. Sound(u, rest)
    BY <1>2, <1>4, <2>1, <2>2, <2>3, <2>9, RemoveTabSound, RemoveLeafSound
  <2>11. f \in rest
    <3>1. CASE focus[w] = s /\ many
      <4>1. f = Shown(u[PathTo(t, s)])
        BY <1>1, <2>2, <2>4, <3>1 DEF FocusAfterClose
      <4>2. u = RemoveTab(t, s)
        BY <2>3, <3>1
      <4>3. Shown(RemoveTab(t, s)[PathTo(t, s)]) \in S \ {s}
        BY <1>2, <1>4, <2>2, <3>1, RemoveTabSound
      <4> QED
        BY <2>1, <4>1, <4>2, <4>3
    <3>2. CASE focus[w] = s /\ ~many
      <4>1. f = Neighbor(t, s)
        BY <1>1, <2>2, <2>4, <3>2 DEF FocusAfterClose
      <4> QED
        BY <1>2, <1>4, <2>1, <2>9, <3>2, <4>1, NeighborIn
    <3>3. CASE focus[w] # s
      <4>1. focus[w] \in rest
        BY <1>4, <2>1, <3>3
      <4>2. f = focus[w] \/ f = FirstLeaf(u)
        BY <2>4, <3>3 DEF FocusAfterClose
      <4> QED
        BY <2>10, <4>1, <4>2, FirstLeafIn
    <3> QED
      BY <3>1, <3>2, <3>3
  <2> QED
    BY <1>2, <1>3, <1>5, <2>5, <2>7, <2>8, <2>10, <2>11, Relaid
<1> QED
  BY <1>6, <1>7

LEMMA UndoSurfaceLayout ==
  ASSUME ListInv, PlanInv, LayoutInv, UndoInv, UndoSurface
  PROVE  LayoutInv' /\ UndoInv'
<1>1. PICK s, w : s = transaction.surface /\ w = transaction.workspace
  OBVIOUS
<1>2. /\ s \in Surfaces /\ home[s] = w /\ w \in Listed /\ NoWorkspace \notin Listed
      /\ home' = [home EXCEPT ![s] = NoWorkspace]
      /\ tree' = [tree EXCEPT ![w] = transaction.tree]
      /\ focus' = [focus EXCEPT ![w] = transaction.focus]
      /\ UNCHANGED <<order, active, worktree>>
      /\ transaction.kind = "create surface" /\ transaction' = Idle
  BY <1>1, ListedAre DEF UndoSurface, PlanInv, ListInv, Live
<1>3. PICK t, S : /\ t = transaction.tree /\ S = SurfacesOf(w) \ {s}
                  /\ Sound(t, S) /\ transaction.focus \in S
  BY <1>1, <1>2 DEF UndoInv
<1>4. \A x \in Surfaces : home'[x] = IF x = s THEN NoWorkspace ELSE home[x]
  BY <1>2 DEF ListInv
<1>5. S = SurfacesOf(w)' /\ \A v \in Listed \ {w} : SurfacesOf(v)' = SurfacesOf(v)
  BY <1>2, <1>3, <1>4 DEF SurfacesOf
<1>6. (\E a \in Listed : active' = {a}) /\ Listed' = Listed
  BY <1>2 DEF LayoutInv, Listed
<1>7. PICK f : f = transaction.focus
  OBVIOUS
<1>8. LayoutInv'
  BY <1>2, <1>3, <1>5, <1>6, <1>7, Relaid
<1> QED
  BY <1>2, <1>8, UndoDone

(* A workspace goes while another is listed. *)
LEMMA RemoveWorkspaceLayout ==
  ASSUME ListInv, LayoutInv, NEW w \in Listed, RemoveWorkspace(w),
         \E a \in Listed \ {w} : active' = {a}
  PROVE  LayoutInv'
<1>1. /\ order' = Drop(order, w)
      /\ tree' = [tree EXCEPT ![w] = NoTree] /\ focus' = [focus EXCEPT ![w] = NoSurface]
      /\ worktree' = [worktree EXCEPT ![w] = FALSE]
      /\ home' = [s \in Surfaces |-> IF home[s] = w THEN NoWorkspace ELSE home[s]]
      /\ w \in Workspaces /\ NoWorkspace \notin Listed /\ Listed \subseteq Workspaces
  BY ListedAre DEF RemoveWorkspace
<1>2. Listed' = Listed \ {w}
  BY <1>1, Dropped DEF ListInv, Listed
<1>3. \A v \in Listed \ {w} : SurfacesOf(v)' = SurfacesOf(v)
  BY <1>1 DEF SurfacesOf
<1>4. /\ tree' = [v \in Workspaces |-> tree'[v]] /\ focus' = [v \in Workspaces |-> focus'[v]]
      /\ worktree' \in [Workspaces -> BOOLEAN]
      /\ tree'[w] = NoTree /\ focus'[w] = NoSurface /\ ~worktree'[w]
      /\ \A v \in Workspaces \ {w} :
           tree'[v] = tree[v] /\ focus'[v] = focus[v] /\ worktree'[v] = worktree[v]
  BY <1>1 DEF LayoutInv
<1>5. ASSUME NEW v \in Listed \ {w} PROVE Laid(v)'
  <2>1. Laid(v) /\ SurfacesOf(v)' = SurfacesOf(v) /\ tree'[v] = tree[v] /\ focus'[v] = focus[v]
    BY <1>1, <1>3, <1>4 DEF LayoutInv
  <2> QED
    BY <2>1 DEF Laid
<1>6. NotLaid(w)'
  BY <1>4 DEF NotLaid
<1>7. ASSUME NEW v \in Workspaces \ Listed, v # w PROVE NotLaid(v)'
  <2>1. NotLaid(v) /\ tree'[v] = tree[v] /\ focus'[v] = focus[v] /\ worktree'[v] = worktree[v]
    BY <1>4, <1>7 DEF LayoutInv
  <2> QED
    BY <2>1 DEF NotLaid
<1> QED
  BY <1>2, <1>4, <1>5, <1>6, <1>7 DEF LayoutInv

LEMMA CloseWorkspaceLayout ==
  ASSUME ListInv, PlanInv, LayoutInv, UndoInv, NEW w \in Workspaces, CloseWorkspace(w)
  PROVE  LayoutInv' /\ UndoInv'
<1>1. PICK rest : rest = Drop(order, w)
  OBVIOUS
<1>2. /\ w \in Listed /\ RemoveWorkspace(w) /\ order' = rest
      /\ active' = ActiveAfterClose(w, rest)
      /\ transaction' = [kind |-> "evict", surfaces |-> SurfacesOf(w)]
      /\ Len(order) > 1 \/ (transaction.kind = "replace" /\ transaction.closing = w)
  BY <1>1 DEF CloseWorkspace, RemoveWorkspace
<1>3. /\ rest \in Seq(Workspaces) /\ ToSet(rest) = Listed \ {w} /\ Len(rest) = Len(order) - 1
      /\ Len(order) \in Nat
  BY <1>1, <1>2, Dropped DEF ListInv, Listed
<1>4. rest # <<>>
  <2>1. CASE Len(order) > 1
    BY <1>3, <2>1
  <2>2. CASE transaction.kind = "replace" /\ transaction.closing = w
    <3>1. transaction.workspace \in Listed \ {w}
      BY <2>2 DEF PlanInv, UndoInv, Made
    <3> QED
      BY <1>3, <3>1 DEF ToSet
  <2> QED
    BY <1>2, <2>1, <2>2
<1>5. Head(rest) \in Listed \ {w}
  <2>1. 1 \in DOMAIN rest /\ Head(rest) = rest[1]
    BY <1>3, <1>4
  <2> QED
    BY <1>3, <2>1 DEF ToSet
<1>6. \E a \in Listed \ {w} : active' = {a}
  <2>1. PICK a \in Listed : active = {a}
    BY DEF LayoutInv
  <2>2. CASE a = w
    BY <1>2, <1>4, <1>5, <2>1, <2>2 DEF ActiveAfterClose
  <2>3. CASE a # w
    BY <1>2, <2>1, <2>3 DEF ActiveAfterClose
  <2> QED
    BY <2>2, <2>3
<1> QED
  BY <1>2, <1>6, RemoveWorkspaceLayout, UndoDone

LEMMA UndoWorkspaceLayout ==
  ASSUME ListInv, PlanInv, LayoutInv, UndoInv, UndoWorkspace
  PROVE  LayoutInv' /\ UndoInv'
<1>1. PICK w : w = transaction.workspace
  OBVIOUS
<1>2. w \in Listed /\ RemoveWorkspace(w) /\ transaction' = Idle
  BY <1>1 DEF UndoWorkspace, PlanInv, Made
<1>3. PICK a \in Listed \ {w} : transaction.previous = {a}
  BY <1>1 DEF UndoWorkspace, UndoInv, Made
<1>4. Listed' = Listed \ {w}
  BY <1>2, Dropped DEF ListInv, Listed, RemoveWorkspace
<1>5. active' = {a}
  BY <1>3, <1>4 DEF UndoWorkspace
<1> QED
  BY <1>2, <1>5, RemoveWorkspaceLayout, UndoDone

-----------------------------------------------------------------------------
LEMMA HoldsIs ==
  ASSUME NEW t, NEW S, Sound(t, S), NEW s
  PROVE  Holds(t, s) <=> s \in S
  BY DEF Sound, Partition, Holds, Tabs

LEMMA LeavesAre ==
  ASSUME ListInv, LayoutInv, NEW data, data = ToSessionData
  PROVE  /\ \A w \in Listed : \A s : Holds(tree[w], s) <=> s \in SurfacesOf(w)
         /\ \A w \in Listed : Normalised(w) = focus[w]
         /\ Leaves(data) = Live
<1>1. ASSUME NEW w \in Listed, NEW s PROVE Holds(tree[w], s) <=> s \in SurfacesOf(w)
  <2>1. PICK t, S : t = tree[w] /\ S = SurfacesOf(w)
    OBVIOUS
  <2>2. Sound(t, S)
    BY <2>1, LaidIs
  <2> QED
    BY <2>1, <2>2, HoldsIs
<1>2. ASSUME NEW w \in Listed PROVE Normalised(w) = focus[w]
  <2>1. focus[w] \in SurfacesOf(w)
    BY LaidIs
  <2> QED
    BY <1>1, <2>1 DEF Normalised
<1>3. ToSet(data.workspaces) = {Saved(w) : w \in Listed}
  BY SavedIs DEF ListInv
<1>4. \A w : Saved(w).tree = tree[w]
  BY DEF Saved
<1>5. \A s : s \in Leaves(data) <=> \E w \in Listed : Holds(tree[w], s)
  <2>1. \A t, s : s \in TabsOf(t) <=> Holds(t, s)
    BY DEF TabsOf, Holds
  <2>2. \A s : s \in Leaves(data) <=> \E w \in Listed : s \in TabsOf(tree[w])
    BY <1>3, <1>4 DEF Leaves
  <2> QED
    BY <2>1, <2>2
<1>6. \A s : s \in Live <=> \E w \in Listed : s \in SurfacesOf(w)
  BY ListedAre DEF Live, SurfacesOf, ListInv
<1> QED
  BY <1>1, <1>2, <1>5, <1>6

(* A launch builds the layout that was saved, with the focused tabs shown. *)
LEMMA RestoredIs ==
  ASSUME ListInv, LayoutInv, NEW data, data = ToSessionData
  PROVE  Restored(data) =
           [order |-> order, active |-> active, focus |-> focus, worktree |-> worktree, home |-> home,
            tree |-> [w \in Workspaces |-> IF w \in Listed THEN ShowTab(tree[w], focus[w]) ELSE NoTree]]
<1> DEFINE ids == ToSet(Ids(data))
<1>1. /\ Ids(data) = order /\ ids = Listed
      /\ data.activeId = ActiveId /\ Listed \subseteq Workspaces
      /\ \A w \in Listed : Entry(data, w) = Saved(w)
  BY SavedIs, ListedAre DEF ListInv, Listed
<1>2. \A w \in Listed : /\ Saved(w).tree = tree[w] /\ Saved(w).focus = focus[w]
                        /\ Saved(w).worktree = worktree[w]
  BY LeavesAre DEF Saved
<1>3. {data.activeId} = active
  <2>1. PICK a \in Listed : active = {a}
    BY DEF LayoutInv
  <2>2. FirstListed(active) \in active
    BY <2>1, FirstIs
  <2>3. active \cap Listed # {}
    BY <2>1
  <2> QED
    BY <1>1, <2>1, <2>2, <2>3 DEF ActiveId
<1> HIDE DEF ids
<1>4. [w \in Workspaces |-> IF w \in ids THEN ShowTab(Entry(data, w).tree, Entry(data, w).focus) ELSE NoTree]
        = [w \in Workspaces |-> IF w \in Listed THEN ShowTab(tree[w], focus[w]) ELSE NoTree]
  BY <1>1, <1>2
<1>5. [w \in Workspaces |-> IF w \in ids THEN Entry(data, w).focus ELSE NoSurface] = focus
  <2>1. focus = [w \in Workspaces |-> focus[w]] /\ \A w \in Workspaces \ Listed : focus[w] = NoSurface
    BY DEF LayoutInv, NotLaid
  <2>2. \A w \in Workspaces : focus[w] = IF w \in ids THEN Entry(data, w).focus ELSE NoSurface
    BY <1>1, <1>2, <2>1
  <2> QED
    BY <2>1, <2>2
<1>6. [w \in Workspaces |-> w \in ids /\ Entry(data, w).worktree] = worktree
  <2>1. worktree \in [Workspaces -> BOOLEAN] /\ \A w \in Workspaces \ Listed : ~worktree[w]
    BY DEF LayoutInv, NotLaid
  <2>2. \A w \in Workspaces : worktree[w] = (w \in ids /\ Entry(data, w).worktree)
    BY <1>1, <1>2, <2>1
  <2> QED
    BY <2>1, <2>2
<1>7. [s \in Surfaces |-> IF s \in Leaves(data)
                          THEN CHOOSE w \in ids : Holds(Entry(data, w).tree, s) ELSE NoWorkspace] = home
  <2>1. ASSUME NEW s \in Live PROVE (CHOOSE w \in ids : Holds(Entry(data, w).tree, s)) = home[s]
    <3>1. \A w \in Listed : Holds(Entry(data, w).tree, s) <=> w = home[s]
      BY <1>1, <1>2, LeavesAre DEF Live, SurfacesOf
    <3>2. home[s] \in Listed
      BY DEF Live, ListInv
    <3> QED
      BY <1>1, <3>1, <3>2
  <2>2. \A s \in Surfaces \ Live : home[s] = NoWorkspace
    BY DEF Live
  <2>3. home = [s \in Surfaces |-> home[s]] /\ Leaves(data) = Live
    BY LeavesAre DEF ListInv
  <2> QED
    BY <2>1, <2>2, <2>3
<1>8. Restored(data) =
        [order    |-> Ids(data),
         active   |-> {data.activeId},
         tree     |-> [w \in Workspaces |-> IF w \in ids THEN ShowTab(Entry(data, w).tree, Entry(data, w).focus)
                                           ELSE NoTree],
         focus    |-> [w \in Workspaces |-> IF w \in ids THEN Entry(data, w).focus ELSE NoSurface],
         worktree |-> [w \in Workspaces |-> w \in ids /\ Entry(data, w).worktree],
         home     |-> [s \in Surfaces |->
                         IF s \in Leaves(data)
                         THEN CHOOSE w \in ids : Holds(Entry(data, w).tree, s) ELSE NoWorkspace]]
  BY Zenon DEF Restored, ids
<1> QED
  BY <1>1, <1>3, <1>4, <1>5, <1>6, <1>7, <1>8, Zenon

(* The trees of the listed workspaces show the focused tabs. *)
LEMMA ShownIs ==
  ASSUME LayoutInv, NEW w \in Listed, NEW u, u = ShowTab(tree[w], focus[w]), NEW S, S = SurfacesOf(w)
  PROVE  Sound(u, S) /\ focus[w] \in S
<1>1. PICK t, s : t = tree[w] /\ s = focus[w]
  OBVIOUS
<1> QED
  BY <1>1, LaidIs, ShowTabSound

LEMMA RestartLayout ==
  ASSUME ListInv, LayoutInv, Restart
  PROVE  LayoutInv' /\ UndoInv'
<1>1. PICK data : data = ToSessionData
  OBVIOUS
<1>2. /\ UNCHANGED <<order, active, focus, worktree, home>>
      /\ tree' = [w \in Workspaces |-> IF w \in Listed THEN ShowTab(tree[w], focus[w]) ELSE NoTree]
      /\ transaction' = Idle
  BY <1>1, RestoredIs DEF Restart
<1>3. Listed' = Listed /\ Listed \subseteq Workspaces
  BY <1>2, ListedAre DEF Listed
<1>4. ASSUME NEW w \in Listed PROVE Laid(w)'
  <2>1. PICK u, S : u = ShowTab(tree[w], focus[w]) /\ S = SurfacesOf(w)
    OBVIOUS
  <2>2. Sound(u, S) /\ focus[w] \in S
    BY <2>1, ShownIs
  <2>3. tree'[w] = u /\ focus'[w] = focus[w] /\ SurfacesOf(w)' = S
    BY <1>2, <1>3, <2>1 DEF SurfacesOf
  <2> QED
    BY <2>2, <2>3 DEF Laid
<1>5. ASSUME NEW w \in Workspaces \ Listed PROVE NotLaid(w)'
  BY <1>2 DEF NotLaid, LayoutInv
<1>6. LayoutInv'
  BY <1>2, <1>3, <1>4, <1>5 DEF LayoutInv
<1> QED
  BY <1>2, <1>6, UndoDone

LEMMA RepairLayout ==
  ASSUME MarkInv, LayoutInv, NEW resolved \in SUBSET Listed, Repair(resolved)
  PROVE  LayoutInv'
<1>1. PICK losers, gone : losers = Losers(resolved) /\ gone = UNION {SurfacesOf(w) : w \in losers}
  OBVIOUS
<1>2. /\ active' = active \ losers
      /\ tree' = [w \in Workspaces |-> IF w \in losers \/ w \notin Listed THEN NoTree
                                       ELSE ShowTab(tree[w], focus[w])]
      /\ focus' = [w \in Workspaces |-> IF w \in losers THEN NoSurface ELSE focus[w]]
      /\ worktree' = [w \in Workspaces |-> w \notin losers /\ worktree[w]]
      /\ home' = [s \in Surfaces |-> IF s \in gone THEN NoWorkspace ELSE home[s]]
  BY <1>1 DEF Repair
<1>3. Listed' = Listed \ losers
  BY <1>1, RepairMarks
<1>4. Listed \subseteq Workspaces /\ NoWorkspace \notin Listed
  BY ListedAre DEF MarkInv
<1>5. PICK a \in Listed : active = {a}
  BY DEF LayoutInv
<1>6. losers \subseteq Listed /\ a \notin losers
  BY <1>1, <1>5 DEF Losers
<1>7. \A s \in Surfaces : s \in gone <=> home[s] \in losers
  BY <1>1 DEF SurfacesOf
<1>8. \A w \in Listed \ losers : SurfacesOf(w)' = SurfacesOf(w)
  BY <1>2, <1>4, <1>7 DEF SurfacesOf
<1>9. ASSUME NEW w \in Listed \ losers PROVE Laid(w)'
  <2>1. PICK u, S : u = ShowTab(tree[w], focus[w]) /\ S = SurfacesOf(w)
    OBVIOUS
  <2>2. Sound(u, S) /\ focus[w] \in S
    BY <2>1, ShownIs
  <2>3. tree'[w] = u /\ focus'[w] = focus[w] /\ SurfacesOf(w)' = S
    BY <1>2, <1>4, <1>8, <2>1
  <2> QED
    BY <2>2, <2>3 DEF Laid
<1>10. ASSUME NEW w \in Workspaces \ Listed PROVE NotLaid(w)'
  BY <1>2, <1>6 DEF NotLaid, LayoutInv
<1>11. ASSUME NEW w \in losers PROVE NotLaid(w)'
  BY <1>2, <1>4, <1>6 DEF NotLaid
<1>12. active' = {a} /\ a \in Listed'
  BY <1>2, <1>3, <1>5, <1>6
<1>13. /\ tree' = [w \in Workspaces |-> tree'[w]] /\ focus' = [w \in Workspaces |-> focus'[w]]
       /\ worktree' \in [Workspaces -> BOOLEAN]
  BY <1>2 DEF LayoutInv
<1> QED
  BY <1>3, <1>9, <1>10, <1>11, <1>12, <1>13 DEF LayoutInv

LEMMA ArrangementLayout ==
  ASSUME MarkInv, LayoutInv, UndoInv, Arrangement
  PROVE  LayoutInv' /\ UndoInv'
<1>1. ListInv /\ Listed \subseteq Workspaces
  BY ListedAre DEF MarkInv
<1>2. ASSUME NEW w \in Workspaces, SelectWorkspace(w) PROVE LayoutInv' /\ UndoInv'
  <2>1. /\ w \in Listed /\ active' = {w} /\ Listed' = Listed
        /\ UNCHANGED <<tree, focus, worktree, home, transaction>>
    BY <1>2 DEF SelectWorkspace, Unguarded, Listed
  <2> QED
    BY <1>1, <2>1, LayoutStill, UndoStill
<1>3. ASSUME NEW w \in Listed, NEW u, NEW f,
             tree' = [tree EXCEPT ![w] = u], focus' = [focus EXCEPT ![w] = f],
             UNCHANGED <<order, worktree, home, transaction>>, \E a \in Listed : active' = {a},
             NEW S, S = SurfacesOf(w), Sound(u, S), f \in S
      PROVE  LayoutInv' /\ UndoInv'
  <2>1. Listed' = Listed /\ \A v \in Listed : SurfacesOf(v)' = SurfacesOf(v)
    BY <1>3 DEF Listed, SurfacesOf
  <2>2. LayoutInv'
    BY <1>1, <1>3, <2>1, Relaid
  <2> QED
    BY <1>3, <2>1, <2>2, UndoStill
<1>4. ASSUME NEW s \in Surfaces, NEW select \in BOOLEAN, FocusSurface(s, select)
      PROVE  LayoutInv' /\ UndoInv'
  <2>1. PICK w, t, S, u : w = home[s] /\ t = tree[w] /\ S = SurfacesOf(w) /\ u = ShowTab(t, s)
    OBVIOUS
  <2>2. w \in Listed /\ s \in S
    BY <1>1, <1>4, <2>1 DEF FocusSurface, Live, ListInv, SurfacesOf
  <2>3. /\ tree' = [tree EXCEPT ![w] = u] /\ focus' = [focus EXCEPT ![w] = s]
        /\ active' = IF select THEN {w} ELSE active
        /\ UNCHANGED <<order, worktree, home, transaction>>
    BY <1>1, <1>4, <2>1, <2>2 DEF FocusSurface, Unguarded, LayoutInv
  <2>4. \E a \in Listed : active' = {a}
    BY <2>2, <2>3 DEF LayoutInv
  <2>5. Sound(u, S)
    BY <2>1, <2>2, LaidIs, ShowTabSound
  <2> QED
    BY <1>3, <2>1, <2>2, <2>3, <2>4, <2>5
<1>5. ASSUME NEW s \in Surfaces, NEW target \in Surfaces, NEW position, NEW w, NEW t, NEW u,
             SwapPanes(s, target) \/ MoveTab(s, target, position),
             w = home[s], t = tree[w],
             SwapPanes(s, target) => u = SwapLeaves(t, s, target),
             ~SwapPanes(s, target) => u = MoveTabInTree(t, s, target, position)
      PROVE  LayoutInv' /\ UndoInv'
  <2>1. PICK S : S = SurfacesOf(w)
    OBVIOUS
  <2>2. w \in Listed /\ s \in S /\ target \in S /\ s # target
    BY <1>1, <1>5, <2>1 DEF SwapPanes, MoveTab, Live, ListInv, SurfacesOf
  <2>3. Sound(t, S) /\ focus[w] \in S
    BY <1>5, <2>1, <2>2, LaidIs
  <2>4. focus = [focus EXCEPT ![w] = focus[w]]
    BY DEF LayoutInv
  <2>5. UNCHANGED <<order, active, focus, worktree, home, transaction>>
    BY <1>5 DEF SwapPanes, MoveTab, Unguarded
  <2>6. tree' = [tree EXCEPT ![w] = u]
    BY <1>1, <1>5, <2>2 DEF SwapPanes, MoveTab, LayoutInv
  <2>7. Sound(u, S)
    <3>1. CASE SwapPanes(s, target)
      BY <1>5, <2>2, <2>3, <3>1, SwapSound DEF SwapPanes
    <3>2. CASE ~SwapPanes(s, target)
      BY <1>5, <2>2, <2>3, <3>2, MoveTabSound DEF MoveTab
    <3> QED
      BY <3>1, <3>2
  <2>8. (\E a \in Listed : active' = {a}) /\ focus' = [focus EXCEPT ![w] = focus[w]]
    BY <2>4, <2>5 DEF LayoutInv
  <2>9. PICK f : f = focus[w]
    OBVIOUS
  <2> QED
    BY <1>3, <2>1, <2>2, <2>3, <2>5, <2>6, <2>7, <2>8, <2>9
<1>6. ASSUME NEW s \in Surfaces, NEW target \in Surfaces, NEW position \in Positions,
             SwapPanes(s, target) \/ MoveTab(s, target, position)
      PROVE  LayoutInv' /\ UndoInv'
  <2>1. PICK w, t : w = home[s] /\ t = tree[w]
    OBVIOUS
  <2>2. PICK u : u = IF SwapPanes(s, target) THEN SwapLeaves(t, s, target)
                     ELSE MoveTabInTree(t, s, target, position)
    OBVIOUS
  <2> QED
    BY <1>5, <1>6, <2>1, <2>2
<1>7. ASSUME NEW w \in Workspaces, NEW target \in Workspaces, NEW position \in Positions,
             MoveWorkspace(w, target, position)
      PROVE  LayoutInv' /\ UndoInv'
  <2>1. Listed' = Listed
    BY <1>1, <1>7, MovedWorkspace
  <2>2. UNCHANGED <<active, tree, focus, worktree, home, transaction>>
    BY <1>7 DEF MoveWorkspace
  <2>3. \E a \in Listed : active' = {a}
    BY <2>2 DEF LayoutInv
  <2> QED
    BY <1>1, <2>1, <2>2, <2>3, LayoutStill, UndoStill
<1>8. PICK somewhere : somewhere \in Positions
  BY DEF Positions
<1> QED
  BY <1>2, <1>4, <1>6, <1>7, <1>8 DEF Arrangement

LEMMA TransactionLayout ==
  ASSUME MarkInv, LayoutInv, UndoInv, Transactions
  PROVE  LayoutInv' /\ UndoInv'
<1>1. ListInv /\ PlanInv
  BY DEF MarkInv
<1>2. ASSUME NEW w \in Workspaces, NEW s \in Surfaces, CreateWorkspace(w, s)
      PROVE  LayoutInv' /\ UndoInv'
  <2>1. PICK plan : plan = transaction'
    OBVIOUS
  <2>2. /\ AddWorkspace(w, s, FALSE)
        /\ plan = [kind |-> "create workspace", workspace |-> w, previous |-> active]
    BY <1>2, <2>1 DEF CreateWorkspace
  <2>3. plan.kind = "create workspace" /\ plan.workspace = w /\ plan.previous = active
    BY <2>2
  <2> QED
    BY <1>1, <2>1, <2>2, <2>3, AddWorkspaceLayout
<1>3. ASSUME NEW w \in Workspaces, NEW v \in Workspaces, NEW s \in Surfaces, ReplaceWorkspace(w, v, s)
      PROVE  LayoutInv' /\ UndoInv'
  <2>1. PICK plan : plan = transaction'
    OBVIOUS
  <2>2. /\ AddWorkspace(v, s, FALSE) /\ order = <<w>>
        /\ plan = [kind |-> "replace", workspace |-> v, previous |-> active, closing |-> w]
    BY <1>3, <2>1 DEF ReplaceWorkspace
  <2>3. plan.kind = "replace" /\ plan.workspace = v /\ plan.previous = active /\ plan.closing = w
    BY <2>2
  <2>4. w \in Listed
    BY <2>2 DEF Listed, ToSet
  <2> QED
    BY <1>1, <2>1, <2>2, <2>3, <2>4, AddWorkspaceLayout
<1>4. CASE Commit
  <2>1. /\ UNCHANGED <<tree, focus, worktree, home, active>> /\ Listed' = Listed /\ transaction' = Idle
    BY <1>4 DEF Commit, layout, Listed
  <2>2. \E a \in Listed : active' = {a}
    BY <2>1 DEF LayoutInv
  <2> QED
    BY <1>1, <2>1, <2>2, LayoutStill, UndoDone
<1>5. CASE EvictPrompts
  <2>1. /\ UNCHANGED <<tree, focus, worktree, home, active>> /\ Listed' = Listed /\ transaction' = Idle
    BY <1>5 DEF EvictPrompts, layout, Listed
  <2>2. \E a \in Listed : active' = {a}
    BY <2>1 DEF LayoutInv
  <2> QED
    BY <1>1, <2>1, <2>2, LayoutStill, UndoDone
<1>6. ASSUME NEW resolved \in SUBSET Listed, Save(resolved) PROVE LayoutInv' /\ UndoInv'
  BY <1>6, RepairLayout, UndoDone DEF Save
<1>7. ASSUME NEW w \in Workspaces, NEW s \in Surfaces, NEW resolved \in SUBSET Listed,
             OpenWorktree(w, s, resolved)
      PROVE  LayoutInv' /\ UndoInv'
  BY <1>1, <1>7, OpenWorktreeLayout
<1>8. ASSUME NEW s \in Surfaces, NEW near \in Surfaces,
             AddTab(s, near) \/ \E axis \in Axes : SplitSurface(s, near, axis)
      PROVE  LayoutInv' /\ UndoInv'
  BY <1>1, <1>8, GrowLayout
<1>9. ASSUME NEW s \in Surfaces, NEW r \in Surfaces, CloseSurface(s, r)
      PROVE  LayoutInv' /\ UndoInv'
  BY <1>1, <1>9, CloseSurfaceLayout
<1>10. ASSUME NEW w \in Workspaces, CloseWorkspace(w) PROVE LayoutInv' /\ UndoInv'
  BY <1>1, <1>10, CloseWorkspaceLayout
<1> QED
  BY <1>1, <1>2, <1>3, <1>4, <1>5, <1>6, <1>7, <1>8, <1>9, <1>10,
     UndoSurfaceLayout, UndoWorkspaceLayout, RestartLayout DEF Transactions

LEMMA LayoutInit ==
  ASSUME Init
  PROVE  LayoutInv /\ UndoInv
<1>1. PICK w \in Workspaces, s \in Surfaces :
        /\ order = <<w>> /\ active = {w}
        /\ tree = [v \in Workspaces |-> IF v = w THEN SingleLeaf(s) ELSE NoTree]
        /\ focus = [v \in Workspaces |-> IF v = w THEN s ELSE NoSurface]
        /\ worktree = [v \in Workspaces |-> FALSE]
        /\ home = [t \in Surfaces |-> IF t = s THEN w ELSE NoWorkspace]
        /\ transaction = Idle
  BY DEF Init
<1>2. Listed = {w} /\ SurfacesOf(w) = {s}
  BY <1>1, NoIdAssumption DEF Listed, ToSet, SurfacesOf
<1>3. Laid(w)
  <2>1. PICK t, S : t = SingleLeaf(s) /\ S = {s}
    OBVIOUS
  <2>2. Sound(t, S)
    BY <2>1, SingleSound
  <2>3. tree[w] = t /\ focus[w] = s
    BY <1>1, <2>1
  <2> QED
    BY <1>2, <2>1, <2>2, <2>3 DEF Laid
<1>4. \A v \in Workspaces \ {w} : NotLaid(v)
  BY <1>1 DEF NotLaid
<1>5. tree = [v \in Workspaces |-> tree[v]] /\ focus = [v \in Workspaces |-> focus[v]]
      /\ worktree \in [Workspaces -> BOOLEAN]
  BY <1>1
<1>6. LayoutInv
  BY <1>1, <1>2, <1>3, <1>4, <1>5 DEF LayoutInv
<1>7. UndoInv
  BY <1>1 DEF UndoInv, Made, Idle
<1> QED
  BY <1>6, <1>7

LEMMA LayoutKept == Spec => [](MarkInv /\ LayoutInv)
<1>1. Init => MarkInv /\ LayoutInv /\ UndoInv
  BY MarkInit, LayoutInit
<1>2. MarkInv /\ LayoutInv /\ UndoInv /\ [Next]_vars => (LayoutInv /\ UndoInv)'
  <2> SUFFICES ASSUME MarkInv, LayoutInv, UndoInv, [Next]_vars PROVE LayoutInv' /\ UndoInv'
    OBVIOUS
  <2>1. CASE UNCHANGED layout /\ UNCHANGED transaction
    <3>1. UNCHANGED <<tree, focus, worktree, home, active>> /\ Listed' = Listed
      BY <2>1 DEF layout, Listed
    <3>2. \E a \in Listed : active' = {a}
      BY <3>1 DEF LayoutInv
    <3> QED
      BY <2>1, <3>1, <3>2, LayoutStill, UndoStill DEF MarkInv
  <2>2. CASE Attention
    <3>1. UNCHANGED layout /\ UNCHANGED transaction
      BY <2>2 DEF Attention, Rest, MarkSurfaceUnread, Notify, Renew, DismissNotification,
                  WithdrawPrompts, MarkNotificationsRead, ClearNotifications
    <3> QED
      BY <2>1, <3>1
  <2> QED
    BY <2>1, <2>2, TransactionLayout, ArrangementLayout DEF Next, vars
<1> QED
  BY <1>1, <1>2, MarksKept, PTL DEF Spec

LEMMA SoundIsValid ==
  ASSUME NEW t, NEW S, Sound(t, S)
  PROVE  ValidTree(t, MaxSplitDepth)
<1>1. t # <<>>
  <2>1. <<>> \in DOMAIN t
    BY DEF Sound, Shape, Rooted
  <2>2. DOMAIN <<>> = {}
    OBVIOUS
  <2> QED
    BY <2>1, <2>2
<1>2. ASSUME NEW p \in DOMAIN t, IsLeaf(t[p])
      PROVE  t[p].tabs # <<>> /\ t[p].active \in DOMAIN t[p].tabs
  <2>1. LeafOk(t[p])
    BY <1>2 DEF Sound, Partition, Panes
  <2> QED
    BY <2>1 DEF LeafOk
<1>3. ASSUME NEW p \in DOMAIN t, ~IsLeaf(t[p])
      PROVE  Len(p) <= MaxSplitDepth /\ \E q, r \in Children(t, p) : q # r
  <2>1. p \in Path /\ Len(p) \in Nat /\ DOMAIN t \subseteq Path
    BY PathIs DEF Sound, Shape, Rooted
  <2>2. Len(p) <= MaxSplitDepth
    BY <1>3 DEF Sound, Shape, Forks
  <2>3. PICK q \in DOMAIN t : Len(q) = Len(p) + 1 /\ Alike(p, q, Len(p)) /\ q[Len(q)] = 2
    BY <1>3 DEF Sound, Shape, Forks
  <2>4. PICK r \in DOMAIN t : Len(r) = Len(q) /\ Alike(q, r, Len(q) - 1) /\ r[Len(q)] = 1
    <3>1. Elders(t) /\ Len(q) \in 1 .. Len(q) /\ 1 \in 1 .. q[Len(q)]
      BY <2>1, <2>3 DEF Sound, Shape
    <3> QED
      BY <3>1 DEF Elders
  <2>5. ASSUME NEW c \in DOMAIN t, Len(c) = Len(p) + 1, Alike(p, c, Len(p)) PROVE c \in Children(t, p)
    <3>1. PICK f : f = Front(c)
      OBVIOUS
    <3>2. f \in Path /\ Len(f) = Len(p) /\ Alike(f, c, Len(p))
      BY <2>1, <2>5, <3>1, PathParent
    <3>3. Alike(f, p, Len(p))
      BY <2>5, <3>2 DEF Alike
    <3>4. f = p
      BY <2>1, <3>2, <3>3, SamePath
    <3> QED
      BY <2>5, <3>1, <3>4 DEF Children
  <2>6. Alike(p, r, Len(p))
    BY <2>1, <2>3, <2>4 DEF Alike
  <2>7. q \in Children(t, p)
    BY <2>3, <2>5
  <2>8. r \in Children(t, p)
    BY <2>1, <2>3, <2>4, <2>5, <2>6
  <2> QED
    BY <2>2, <2>3, <2>4, <2>7, <2>8
<1> QED
  BY <1>1, <1>2, <1>3 DEF ValidTree

LEMMA SavedIsValid ==
  ASSUME ListInv, LayoutInv, NEW data, data = ToSessionData
  PROVE  ValidSession(data)
<1>1. /\ Ids(data) = order /\ ToSet(Ids(data)) = Listed
      /\ DOMAIN data.workspaces = DOMAIN order
      /\ \A i \in DOMAIN order : data.workspaces[i] = Saved(order[i])
      /\ ToSet(data.workspaces) = {Saved(w) : w \in Listed}
      /\ data.activeId = ActiveId
      /\ data.surfaces = {[id |-> s, workspace |-> home[s]] : s \in Live}
  BY SavedIs DEF ListInv, Listed
<1>2. \A w : /\ Saved(w).id = w /\ Saved(w).active = (w \in active) /\ Saved(w).tree = tree[w]
             /\ Saved(w).focus = Normalised(w)
  BY DEF Saved
<1>3. PICK a \in Listed : active = {a}
  BY DEF LayoutInv
<1>4. data.activeId = a
  <2>1. FirstListed(active) \in active /\ active \cap Listed # {}
    BY <1>3, FirstIs
  <2> QED
    BY <1>1, <1>3, <2>1 DEF ActiveId
<1>5. data.workspaces # <<>>
  <2>1. \E i : i \in DOMAIN data.workspaces
    BY <1>1, <1>3 DEF Listed, ToSet
  <2> QED
    BY <2>1
<1>6. IsInjective(Ids(data)) /\ data.activeId \in ToSet(Ids(data))
  BY <1>1, <1>3, <1>4 DEF ListInv
<1>7. Flagged(data) \subseteq {data.activeId}
  <2>1. ASSUME NEW w \in Listed, Saved(w).active PROVE Saved(w).id = a
    <3>1. w \in active
      BY <1>2, <2>1, Zenon
    <3> QED
      BY <1>2, <1>3, <3>1
  <2>2. \A e \in ToSet(data.workspaces) : e.active => e.id = a
    BY <1>1, <2>1
  <2> QED
    BY <1>4, <2>2 DEF Flagged
<1>8. ASSUME NEW w \in Listed PROVE ValidTree(tree[w], MaxSplitDepth) /\ Holds(tree[w], Normalised(w))
  <2>1. PICK t, S : t = tree[w] /\ S = SurfacesOf(w)
    OBVIOUS
  <2>2. Sound(t, S) /\ focus[w] \in S
    BY <2>1, LaidIs
  <2>3. Holds(t, Normalised(w))
    BY <2>1, <2>2, LeavesAre, HoldsIs
  <2> QED
    BY <2>1, <2>2, <2>3, SoundIsValid
<1>9. \A w \in ToSet(data.workspaces) : ValidTree(w.tree, MaxSplitDepth) /\ Holds(w.tree, w.focus)
  BY <1>1, <1>2, <1>8
<1>10. ASSUME NEW i \in DOMAIN order, NEW j \in DOMAIN order, NEW t, NEW u,
              t = tree[order[i]], u = tree[order[j]],
              NEW p \in Panes(t), NEW q \in Panes(u),
              NEW m \in DOMAIN t[p].tabs, NEW n \in DOMAIN u[q].tabs, t[p].tabs[m] = u[q].tabs[n]
       PROVE  i = j /\ p = q /\ m = n
  <2>1. PICK v, w, S, T : /\ v = order[i] /\ w = order[j] /\ v \in Listed /\ w \in Listed
                          /\ S = SurfacesOf(v) /\ T = SurfacesOf(w)
    BY DEF Listed, ToSet
  <2>2. Sound(t, S) /\ Sound(u, T)
    BY <1>10, <2>1, LaidIs
  <2>3. PICK s : s = t[p].tabs[m]
    OBVIOUS
  <2>4. s \in Tabs(t, p) /\ s \in Tabs(u, q)
    BY <1>10, <2>3 DEF Tabs, ToSet
  <2>5. s \in S /\ s \in T
    BY <2>2, <2>4 DEF Sound, Partition
  <2>6. i = j
    BY <2>1, <2>5 DEF SurfacesOf, ListInv, IsInjective
  <2>7. t = u
    BY <1>10, <2>6
  <2>8. p = q
    BY <2>2, <2>4, <2>7 DEF Sound, Partition
  <2>9. IsInjective(t[p].tabs)
    BY <2>2 DEF Sound, Partition, LeafOk
  <2> QED
    BY <1>10, <2>6, <2>7, <2>8, <2>9 DEF IsInjective
<1>11. ListedOnce(data)
  <2> DEFINE Once(i, j, t, u) ==
        \A p \in Panes(t), q \in Panes(u) :
          \A m \in DOMAIN t[p].tabs, n \in DOMAIN u[q].tabs :
            t[p].tabs[m] = u[q].tabs[n] => i = j /\ p = q /\ m = n
  <2>1. \A i \in DOMAIN order : data.workspaces[i].tree = tree[order[i]]
    BY <1>1, <1>2
  <2>2. ASSUME NEW i \in DOMAIN data.workspaces, NEW j \in DOMAIN data.workspaces, NEW t, NEW u,
               t = data.workspaces[i].tree, u = data.workspaces[j].tree
        PROVE  Once(i, j, t, u)
    <3>1. i \in DOMAIN order /\ j \in DOMAIN order /\ t = tree[order[i]] /\ u = tree[order[j]]
      BY <1>1, <2>1, <2>2
    <3> QED
      BY <1>10, <3>1, SMTT(20)
  <2>3. (\A i, j \in DOMAIN data.workspaces : Once(i, j, data.workspaces[i].tree, data.workspaces[j].tree))
          => ListedOnce(data)
    BY DEF ListedOnce
  <2> HIDE DEF Once
  <2> QED
    BY <2>2, <2>3
<1>12. \A s \in data.surfaces : s.id \in Leaves(data) /\ s.workspace \in ToSet(Ids(data))
  <2>1. \A s \in Live : home[s] \in Listed
    BY DEF Live, ListInv
  <2> QED
    BY <1>1, <2>1, LeavesAre
<1> QED
  BY <1>5, <1>6, <1>7, <1>9, <1>11, <1>12 DEF ValidSession

(* Whatever is done to the workspaces, and in the middle of any change,    *)
(* the session that would be saved is one that a launch accepts, and the   *)
(* launch gives the workspaces, panes, tabs and focus back: for any number *)
(* of workspaces and surfaces, trees of any shape up to the depth limit,   *)
(* and any limit.                                                          *)
THEOREM SessionsSurvive == Spec => []SessionSurvivesRestart
<1>1. MarkInv /\ LayoutInv => SessionSurvivesRestart
  <2> SUFFICES ASSUME MarkInv, LayoutInv PROVE SessionSurvivesRestart
    OBVIOUS
  <2>1. PICK data : data = ToSessionData
    OBVIOUS
  <2>2. ListInv
    BY DEF MarkInv
  <2> QED
    BY <2>1, <2>2, SavedIsValid, RestoredIs DEF SessionSurvivesRestart
<1> QED
  BY <1>1, LayoutKept, PTL
=============================================================================
