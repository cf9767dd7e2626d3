-------------------------- MODULE EventStream_proofs --------------------------
(***************************************************************************)
(* Proofs about EventStream, for any clients, workspaces, surfaces and     *)
(* values, any capacity of the ring buffer and any number of changes.      *)
(***************************************************************************)
EXTENDS EventStream, FiniteSetTheorems, SequenceTheorems, TLAPS

-----------------------------------------------------------------------------
(* What a sequence of events says of one key.                              *)

Value == Workspaces \cup Values \cup {None}
Event == UNION {[D -> Value] : D \in SUBSET Key}

(* The last event of s on the key k gives it the value v. *)
Tells(s, k, v) ==
  \E i \in DOMAIN s : /\ k \in DOMAIN s[i] /\ s[i][k] = v
                      /\ \A j \in DOMAIN s : k \in DOMAIN s[j] => j <= i

Silent(s, k) == \A i \in DOMAIN s : k \notin DOMAIN s[i]

(* Whoever has the value u of the key k, and is told s, has v. *)
Takes(s, k, u, v) == Tells(s, k, v) \/ (Silent(s, k) /\ u = v)

LEMMA TakesNothing ==
  ASSUME NEW k, NEW u
  PROVE  Silent(<<>>, k) /\ Takes(<<>>, k, u, u)
BY DEF Takes, Silent

LEMMA JoinFacts ==
  ASSUME NEW a \in Seq(Event), NEW b \in Seq(Event)
  PROVE  /\ a \o b \in Seq(Event) /\ Len(a \o b) = Len(a) + Len(b)
         /\ \A i \in DOMAIN a : i \in DOMAIN (a \o b) /\ (a \o b)[i] = a[i]
         /\ \A i \in DOMAIN b : /\ Len(a) + i \in DOMAIN (a \o b)
                                /\ (a \o b)[Len(a) + i] = b[i]
         /\ \A i \in DOMAIN (a \o b) :
              i \in DOMAIN a \/ (i - Len(a) \in DOMAIN b /\ i = Len(a) + (i - Len(a)))
OBVIOUS

LEMMA TellsLater ==
  ASSUME NEW a \in Seq(Event), NEW b \in Seq(Event), NEW k, NEW v, Tells(b, k, v)
  PROVE  Tells(a \o b, k, v)
<1>1. PICK i \in DOMAIN b : /\ k \in DOMAIN b[i] /\ b[i][k] = v
                            /\ \A j \in DOMAIN b : k \in DOMAIN b[j] => j <= i
  BY DEF Tells
<1> DEFINE n == Len(a)
           s == a \o b
<1>2. n + i \in DOMAIN s /\ s[n + i] = b[i] /\ n \in Nat /\ i \in Nat
  BY JoinFacts
<1>3. ASSUME NEW j \in DOMAIN s, k \in DOMAIN s[j] PROVE j <= n + i
  <2>1. CASE j \in DOMAIN a
    BY <1>2, <2>1
  <2>2. CASE j - n \in DOMAIN b /\ j = n + (j - n)
    <3>1. s[j] = b[j - n]
      BY <2>2, JoinFacts
    <3>2. j - n <= i /\ j - n \in Nat
      BY <1>1, <1>3, <2>2, <3>1
    <3> HIDE DEF n, s
    <3> QED
      BY <1>2, <2>2, <3>2
  <2> QED
    BY <2>1, <2>2, JoinFacts
<1> HIDE DEF n, s
<1>4. Tells(s, k, v)
  BY <1>1, <1>2, <1>3 DEF Tells
<1> QED
  BY <1>4 DEF s

LEMMA TellsEarlier ==
  ASSUME NEW a \in Seq(Event), NEW b \in Seq(Event), NEW k, NEW v,
         Tells(a, k, v), Silent(b, k)
  PROVE  Tells(a \o b, k, v)
<1>1. PICK i \in DOMAIN a : /\ k \in DOMAIN a[i] /\ a[i][k] = v
                            /\ \A j \in DOMAIN a : k \in DOMAIN a[j] => j <= i
  BY DEF Tells
<1> DEFINE s == a \o b
<1>2. i \in DOMAIN s /\ s[i] = a[i]
  BY JoinFacts
<1>3. ASSUME NEW j \in DOMAIN s, k \in DOMAIN s[j] PROVE j <= i
  <2>1. CASE j \in DOMAIN a
    BY <1>1, <1>3, <2>1, JoinFacts
  <2>2. CASE j - Len(a) \in DOMAIN b /\ j = Len(a) + (j - Len(a))
    <3>1. s[j] = b[j - Len(a)]
      BY <2>2, JoinFacts
    <3> QED
      BY <1>3, <2>2, <3>1 DEF Silent
  <2> QED
    BY <2>1, <2>2, JoinFacts
<1> HIDE DEF s
<1>4. Tells(s, k, v)
  BY <1>1, <1>2, <1>3 DEF Tells
<1> QED
  BY <1>4 DEF s

LEMMA SilentJoin ==
  ASSUME NEW a \in Seq(Event), NEW b \in Seq(Event), NEW k
  PROVE  Silent(a \o b, k) <=> Silent(a, k) /\ Silent(b, k)
<1>1. ASSUME Silent(a, k), Silent(b, k), NEW j \in DOMAIN (a \o b)
      PROVE  k \notin DOMAIN (a \o b)[j]
  <2>1. CASE j \in DOMAIN a
    BY <1>1, <2>1, JoinFacts DEF Silent
  <2>2. CASE j - Len(a) \in DOMAIN b /\ j = Len(a) + (j - Len(a))
    <3>1. (a \o b)[j] = b[j - Len(a)]
      BY <2>2, JoinFacts
    <3> QED
      BY <1>1, <2>2, <3>1 DEF Silent
  <2> QED
    BY <2>1, <2>2, JoinFacts
<1>2. ASSUME Silent(a \o b, k) PROVE Silent(a, k) /\ Silent(b, k)
  <2>1. \A i \in DOMAIN a : k \notin DOMAIN a[i]
    BY <1>2, JoinFacts DEF Silent
  <2>2. ASSUME NEW i \in DOMAIN b PROVE k \notin DOMAIN b[i]
    <3>1. Len(a) + i \in DOMAIN (a \o b) /\ (a \o b)[Len(a) + i] = b[i]
      BY JoinFacts
    <3> QED
      BY <1>2, <3>1 DEF Silent
  <2> QED
    BY <2>1, <2>2 DEF Silent
<1> QED
  BY <1>1, <1>2 DEF Silent

LEMMA TakesJoin ==
  ASSUME NEW a \in Seq(Event), NEW b \in Seq(Event), NEW k, NEW u, NEW v, NEW x,
         Takes(a, k, u, x), Takes(b, k, x, v)
  PROVE  a \o b \in Seq(Event) /\ Takes(a \o b, k, u, v)
BY TellsLater, TellsEarlier, SilentJoin, JoinFacts DEF Takes

(* What the first event leaves to be told by the others. *)
LEMMA SilentTail ==
  ASSUME NEW s \in Seq(Event), s # <<>>, NEW k
  PROVE  Silent(s, k) <=> k \notin DOMAIN Head(s) /\ Silent(Tail(s), k)
<1>1. <<Head(s)>> \in Seq(Event) /\ Tail(s) \in Seq(Event) /\ s = <<Head(s)>> \o Tail(s)
  OBVIOUS
<1>2. Silent(<<Head(s)>>, k) <=> k \notin DOMAIN Head(s)
  BY DEF Silent
<1>3. Silent(<<Head(s)>> \o Tail(s), k) <=> Silent(<<Head(s)>>, k) /\ Silent(Tail(s), k)
  BY <1>1, SilentJoin
<1> QED
  BY <1>1, <1>2, <1>3

LEMMA TellsTail ==
  ASSUME NEW s \in Seq(Event), s # <<>>, NEW k, NEW v, Tells(s, k, v)
  PROVE  \/ Tells(Tail(s), k, v)
         \/ k \in DOMAIN Head(s) /\ Head(s)[k] = v /\ Silent(Tail(s), k)
<1>1. PICK i \in DOMAIN s : /\ k \in DOMAIN s[i] /\ s[i][k] = v
                            /\ \A j \in DOMAIN s : k \in DOMAIN s[j] => j <= i
  BY DEF Tells
<1> DEFINE t == Tail(s)
<1>2. /\ \A j \in DOMAIN t : j + 1 \in DOMAIN s /\ t[j] = s[j + 1] /\ j \in Nat /\ j >= 1
      /\ \A j \in DOMAIN s : j \in Nat /\ (j = 1 \/ j - 1 \in DOMAIN t)
      /\ s[1] = Head(s)
  OBVIOUS
<1> HIDE DEF t
<1>3. CASE i = 1
  <2>1. ASSUME NEW j \in DOMAIN t PROVE k \notin DOMAIN t[j]
    <3>1. ~ (j + 1 <= i)
      BY <1>2, <1>3
    <3> QED
      BY <1>1, <1>2, <3>1
  <2> QED
    BY <1>1, <1>2, <1>3, <2>1 DEF Silent, t
<1>4. CASE i # 1
  <2>1. i - 1 \in DOMAIN t /\ t[i - 1] = s[i] /\ i \in Nat
    BY <1>2, <1>4
  <2>2. ASSUME NEW j \in DOMAIN t, k \in DOMAIN t[j] PROVE j <= i - 1
    <3>1. j + 1 <= i /\ j \in Nat
      BY <1>1, <1>2, <2>2
    <3> QED
      BY <2>1, <3>1
  <2>3. Tells(t, k, v)
    BY <1>1, <2>1, <2>2 DEF Tells
  <2> QED
    BY <2>3 DEF t
<1> QED
  BY <1>3, <1>4

-----------------------------------------------------------------------------
(* Worlds and events.                                                      *)

LEMMA KeyFacts ==
  /\ <<"active", None>> \in Key
  /\ \A w \in Workspaces : <<"name", w>> \in Key /\ <<"field", w>> \in Key
  /\ \A s \in Surfaces : <<"home", s>> \in Key /\ <<"title", s>> \in Key
  /\ \A k \in Key :
       \/ k = <<"active", None>>
       \/ \E w \in Workspaces : k = <<"name", w>> \/ k = <<"field", w>>
       \/ \E s \in Surfaces : k = <<"home", s>> \/ k = <<"title", s>>
BY DEF Key

(* What a world may be: nothing hangs on what is not there. *)
Sound(m) ==
  /\ m \in [Key -> Value]
  /\ \A w \in Workspaces : m[<<"name", w>>] = None => m[<<"field", w>>] = None
  /\ \A s \in Surfaces : m[<<"home", s>>] = None => m[<<"title", s>>] = None

LEMMA EventFacts ==
  ASSUME NEW D \in SUBSET Key, NEW e \in [D -> Value]
  PROVE  e \in Event /\ DOMAIN e = D
BY DEF Event

LEMMA EventDomain ==
  ASSUME NEW e \in Event
  PROVE  DOMAIN e \in SUBSET Key /\ \A k \in DOMAIN e : e[k] \in Value
BY DEF Event

LEMMA BecomesFacts ==
  ASSUME NEW k \in Key, NEW v \in Value
  PROVE  /\ Becomes(k, v) \in Event /\ DOMAIN Becomes(k, v) = {k}
         /\ Becomes(k, v)[k] = v
BY EventFacts DEF Becomes

LEMMA WorkspaceEvents ==
  ASSUME NEW w \in Workspaces, NEW v \in Value
  PROVE  /\ AddedWorkspace(w, v) \in Event /\ RemovedWorkspace(w) \in Event
         /\ DOMAIN AddedWorkspace(w, v) = {<<"name", w>>, <<"field", w>>}
         /\ DOMAIN RemovedWorkspace(w) = {<<"name", w>>, <<"field", w>>}
         /\ AddedWorkspace(w, v)[<<"name", w>>] = v
         /\ AddedWorkspace(w, v)[<<"field", w>>] = None
         /\ RemovedWorkspace(w)[<<"name", w>>] = None
         /\ RemovedWorkspace(w)[<<"field", w>>] = None
<1>1. {"name", "field"} \X {w} = {<<"name", w>>, <<"field", w>>}
  OBVIOUS
<1>2. {<<"name", w>>, <<"field", w>>} \in SUBSET Key /\ None \in Value
  BY KeyFacts DEF Value
<1>3. /\ AddedWorkspace(w, v) = [k \in {<<"name", w>>, <<"field", w>>} |->
                                   IF k = <<"name", w>> THEN v ELSE None]
      /\ RemovedWorkspace(w) = [k \in {<<"name", w>>, <<"field", w>>} |-> None]
  BY <1>1 DEF AddedWorkspace, RemovedWorkspace
<1> QED
  BY <1>2, <1>3, EventFacts

LEMMA SurfaceEvents ==
  ASSUME NEW s \in Surfaces, NEW v \in Value
  PROVE  /\ AddedSurface(s, v) \in Event /\ RemovedSurface(s) \in Event
         /\ DOMAIN AddedSurface(s, v) = {<<"home", s>>, <<"title", s>>}
         /\ DOMAIN RemovedSurface(s) = {<<"home", s>>, <<"title", s>>}
         /\ AddedSurface(s, v)[<<"home", s>>] = v
         /\ AddedSurface(s, v)[<<"title", s>>] = None
         /\ RemovedSurface(s)[<<"home", s>>] = None
         /\ RemovedSurface(s)[<<"title", s>>] = None
<1>1. {"home", "title"} \X {s} = {<<"home", s>>, <<"title", s>>}
  OBVIOUS
<1>2. {<<"home", s>>, <<"title", s>>} \in SUBSET Key /\ None \in Value
  BY KeyFacts DEF Value
<1>3. /\ AddedSurface(s, v) = [k \in {<<"home", s>>, <<"title", s>>} |->
                                 IF k = <<"home", s>> THEN v ELSE None]
      /\ RemovedSurface(s) = [k \in {<<"home", s>>, <<"title", s>>} |-> None]
  BY <1>1 DEF AddedSurface, RemovedSurface
<1> QED
  BY <1>2, <1>3, EventFacts

(* An event changes what it names and nothing else. *)
LEMMA ApplyFacts ==
  ASSUME NEW m \in [Key -> Value], NEW e \in Event
  PROVE  /\ Apply(m, e) \in [Key -> Value]
         /\ \A k \in Key : Apply(m, e)[k] = IF k \in DOMAIN e THEN e[k] ELSE m[k]
BY EventDomain DEF Apply

(* A client that is told s knows, of each key, the last word. *)
LEMMA ApplyAllFacts ==
  ASSUME NEW m \in [Key -> Value], NEW s \in Seq(Event), NEW k \in Key, NEW v,
         Takes(s, k, m[k], v)
  PROVE  ApplyAll(m, s)[k] = v
<1> DEFINE T == {i \in DOMAIN s : k \in DOMAIN s[i]}
<1>1. ApplyAll(m, s)[k] = IF T = {} THEN m[k] ELSE s[Max(T)][k]
  BY DEF ApplyAll
<1>2. CASE Silent(s, k) /\ m[k] = v
  BY <1>1, <1>2 DEF Silent
<1>3. CASE Tells(s, k, v)
  <2>1. PICK i \in DOMAIN s : /\ k \in DOMAIN s[i] /\ s[i][k] = v
                              /\ \A j \in DOMAIN s : k \in DOMAIN s[j] => j <= i
    BY <1>3 DEF Tells
  <2>2. i \in T /\ \A j \in T : i >= j
    BY <2>1
  <2>3. T \subseteq Int
    OBVIOUS
  <2> HIDE DEF T
  <2>4. Max(T) = i
    <3>1. Max(T) \in T /\ \A j \in T : Max(T) >= j
      BY <2>2 DEF Max
    <3>2. Max(T) >= i /\ i >= Max(T) /\ Max(T) \in Int /\ i \in Int
      BY <2>2, <2>3, <3>1
    <3> QED
      BY <3>2
  <2> QED
    BY <1>1, <2>1, <2>2, <2>4
<1> QED
  BY <1>2, <1>3 DEF Takes

(* One kind of events, one for each element of S, in any order. *)
LEMMA KindTakes ==
  ASSUME NEW S, IsFiniteSet(S), NEW f \in [S -> Event], NEW k, NEW u, NEW v,
         \A x \in S : k \in DOMAIN f[x] =>
           f[x][k] = v /\ \A y \in S : k \in DOMAIN f[y] => y = x,
         (\A x \in S : k \notin DOMAIN f[x]) => u = v
  PROVE  /\ SetToSeq({f[x] : x \in S}) \in Seq(Event)
         /\ Takes(SetToSeq({f[x] : x \in S}), k, u, v)
<1> DEFINE E == {f[x] : x \in S}
           s == SetToSeq(E)
           n == Cardinality(E)
<1>1. IsFiniteSet(E)
  <2>1. f \in Surjection(S, E)
    BY DEF Surjection
  <2> QED
    BY <2>1, FS_Surjection
<1>2. n \in Nat /\ \E g \in Bijection(1..n, E) : TRUE
  BY <1>1, FS_CardinalityType DEF ExistsBijection
<1> HIDE DEF E, n
<1>3. PICK g \in [1..n -> E] : IsInjective(g)
  BY <1>2 DEF Bijection, Injection
<1>4. s \in [1..n -> E] /\ IsInjective(s)
  BY <1>3 DEF SetToSeq, n
<1> HIDE DEF s
<1>5. s \in Surjection(1..n, E)
  <2>1. IsFiniteSet(1..n) /\ Cardinality(1..n) = n
    BY <1>2, FS_Interval
  <2> QED
    BY <1>1, <1>4, <2>1, FS_Injection DEF Injection, n
<1>6. E \subseteq Event /\ s \in Seq(Event) /\ DOMAIN s = 1..n
  BY <1>2, <1>4 DEF E
<1>7. Takes(s, k, u, v)
  <2>1. CASE \A x \in S : k \notin DOMAIN f[x]
    BY <1>4, <1>6, <2>1 DEF Takes, Silent, E
  <2>2. CASE \E x \in S : k \in DOMAIN f[x]
    <3>1. PICK x \in S : /\ k \in DOMAIN f[x] /\ f[x][k] = v
                         /\ \A y \in S : k \in DOMAIN f[y] => y = x
      BY <2>2
    <3>2. PICK i \in 1..n : s[i] = f[x]
      BY <1>5, <3>1 DEF Surjection, E
    <3>3. ASSUME NEW j \in 1..n, k \in DOMAIN s[j] PROVE j = i
      <4>1. PICK y \in S : s[j] = f[y]
        BY <1>4 DEF E
      <4>2. s[j] = s[i]
        BY <3>1, <3>2, <3>3, <4>1
      <4> QED
        BY <1>4, <1>6, <4>2 DEF IsInjective
    <3>4. \A j \in 1..n : k \in DOMAIN s[j] => j <= i
      BY <1>2, <3>3
    <3> QED
      BY <1>6, <3>1, <3>2, <3>4 DEF Takes, Tells
  <2> QED
    BY <2>1, <2>2
<1> QED
  BY <1>6, <1>7 DEF s, E

-----------------------------------------------------------------------------
(* The kinds of events of a difference, and what each makes of a key.      *)

LEMMA RemovedWorkspacesTake ==
  ASSUME NEW S \in SUBSET Workspaces, NEW k, NEW u
  PROVE  /\ SetToSeq({RemovedWorkspace(w) : w \in S}) \in Seq(Event)
         /\ Takes(SetToSeq({RemovedWorkspace(w) : w \in S}), k, u,
                  IF \E w \in S : k = <<"name", w>> \/ k = <<"field", w>> THEN None ELSE u)
<1> DEFINE f == [w \in S |-> RemovedWorkspace(w)]
           v == IF \E w \in S : k = <<"name", w>> \/ k = <<"field", w>> THEN None ELSE u
<1>1. IsFiniteSet(S) /\ None \in Value
  BY FS_Subset, EventAssumption DEF Value
<1>2. f \in [S -> Event] /\ {f[w] : w \in S} = {RemovedWorkspace(w) : w \in S}
  BY <1>1, WorkspaceEvents
<1>3. \A w \in S : DOMAIN f[w] = {<<"name", w>>, <<"field", w>>}
  BY <1>1, WorkspaceEvents
<1>4. \A w \in S : f[w][<<"name", w>>] = None /\ f[w][<<"field", w>>] = None
  BY <1>1, WorkspaceEvents
<1> HIDE DEF f
<1>5. ASSUME NEW x \in S, k \in DOMAIN f[x]
      PROVE  f[x][k] = v /\ \A y \in S : k \in DOMAIN f[y] => y = x
  <2>1. k = <<"name", x>> \/ k = <<"field", x>>
    BY <1>3, <1>5
  <2>2. f[x][k] = v
    BY <1>4, <2>1
  <2>3. \A y \in S : k \in DOMAIN f[y] => y = x
    BY <1>3, <2>1
  <2> QED
    BY <2>2, <2>3
<1>6. (\A x \in S : k \notin DOMAIN f[x]) => u = v
  BY <1>3
<1> HIDE DEF v
<1>7. SetToSeq({f[w] : w \in S}) \in Seq(Event) /\ Takes(SetToSeq({f[w] : w \in S}), k, u, v)
  BY <1>1, <1>2, <1>5, <1>6, KindTakes
<1> QED
  BY <1>2, <1>7 DEF v

LEMMA AddedWorkspacesTake ==
  ASSUME NEW S \in SUBSET Workspaces, NEW a \in [Key -> Value], NEW k, NEW u
  PROVE  /\ SetToSeq({AddedWorkspace(w, a[<<"name", w>>]) : w \in S}) \in Seq(Event)
         /\ Takes(SetToSeq({AddedWorkspace(w, a[<<"name", w>>]) : w \in S}), k, u,
                  IF \E w \in S : k = <<"name", w>> THEN a[k]
                  ELSE IF \E w \in S : k = <<"field", w>> THEN None ELSE u)
<1> DEFINE f == [w \in S |-> AddedWorkspace(w, a[<<"name", w>>])]
           v == IF \E w \in S : k = <<"name", w>> THEN a[k]
                ELSE IF \E w \in S : k = <<"field", w>> THEN None ELSE u
<1>1. IsFiniteSet(S) /\ \A w \in S : w \in Workspaces /\ a[<<"name", w>>] \in Value
  BY FS_Subset, KeyFacts, EventAssumption
<1>2. f \in [S -> Event]
      /\ {f[w] : w \in S} = {AddedWorkspace(w, a[<<"name", w>>]) : w \in S}
  BY <1>1, WorkspaceEvents
<1>3. \A w \in S : DOMAIN f[w] = {<<"name", w>>, <<"field", w>>}
  BY <1>1, WorkspaceEvents
<1>4. \A w \in S : f[w][<<"name", w>>] = a[<<"name", w>>] /\ f[w][<<"field", w>>] = None
  BY <1>1, WorkspaceEvents
<1> HIDE DEF f
<1>5. ASSUME NEW x \in S, k \in DOMAIN f[x]
      PROVE  f[x][k] = v /\ \A y \in S : k \in DOMAIN f[y] => y = x
  <2>1. k = <<"name", x>> \/ k = <<"field", x>>
    BY <1>3, <1>5
  <2>2. f[x][k] = v
    <3>1. CASE k = <<"name", x>>
      <4>1. f[x][k] = a[k]
        BY <1>4, <3>1
      <4>2. \E y \in S : k = <<"name", y>>
        BY <3>1
      <4> QED
        BY <4>1, <4>2
    <3>2. CASE k = <<"field", x>>
      <4>1. f[x][k] = None
        BY <1>4, <3>2
      <4>2. \A y \in S : k # <<"name", y>>
        BY <3>2
      <4> QED
        BY <3>2, <4>1, <4>2
    <3> QED
      BY <2>1, <3>1, <3>2
  <2>3. \A y \in S : k \in DOMAIN f[y] => y = x
    BY <1>3, <2>1
  <2> QED
    BY <2>2, <2>3
<1>6. (\A x \in S : k \notin DOMAIN f[x]) => u = v
  BY <1>3
<1> HIDE DEF v
<1>7. SetToSeq({f[w] : w \in S}) \in Seq(Event) /\ Takes(SetToSeq({f[w] : w \in S}), k, u, v)
  BY <1>1, <1>2, <1>5, <1>6, KindTakes
<1> QED
  BY <1>2, <1>7 DEF v

LEMMA RemovedSurfacesTake ==
  ASSUME NEW S \in SUBSET Surfaces, NEW k, NEW u
  PROVE  /\ SetToSeq({RemovedSurface(s) : s \in S}) \in Seq(Event)
         /\ Takes(SetToSeq({RemovedSurface(s) : s \in S}), k, u,
                  IF \E s \in S : k = <<"home", s>> \/ k = <<"title", s>> THEN None ELSE u)
<1> DEFINE f == [s \in S |-> RemovedSurface(s)]
           v == IF \E s \in S : k = <<"home", s>> \/ k = <<"title", s>> THEN None ELSE u
<1>1. IsFiniteSet(S) /\ None \in Value
  BY FS_Subset, EventAssumption DEF Value
<1>2. f \in [S -> Event] /\ {f[s] : s \in S} = {RemovedSurface(s) : s \in S}
  BY <1>1, SurfaceEvents
<1>3. \A s \in S : DOMAIN f[s] = {<<"home", s>>, <<"title", s>>}
  BY <1>1, SurfaceEvents
<1>4. \A s \in S : f[s][<<"home", s>>] = None /\ f[s][<<"title", s>>] = None
  BY <1>1, SurfaceEvents
<1> HIDE DEF f
<1>5. ASSUME NEW x \in S, k \in DOMAIN f[x]
      PROVE  f[x][k] = v /\ \A y \in S : k \in DOMAIN f[y] => y = x
  <2>1. k = <<"home", x>> \/ k = <<"title", x>>
    BY <1>3, <1>5
  <2>2. f[x][k] = v
    BY <1>4, <2>1
  <2>3. \A y \in S : k \in DOMAIN f[y] => y = x
    BY <1>3, <2>1
  <2> QED
    BY <2>2, <2>3
<1>6. (\A x \in S : k \notin DOMAIN f[x]) => u = v
  BY <1>3
<1> HIDE DEF v
<1>7. SetToSeq({f[s] : s \in S}) \in Seq(Event) /\ Takes(SetToSeq({f[s] : s \in S}), k, u, v)
  BY <1>1, <1>2, <1>5, <1>6, KindTakes
<1> QED
  BY <1>2, <1>7 DEF v

LEMMA AddedSurfacesTake ==
  ASSUME NEW S \in SUBSET Surfaces, NEW a \in [Key -> Value], NEW k, NEW u
  PROVE  /\ SetToSeq({AddedSurface(s, a[<<"home", s>>]) : s \in S}) \in Seq(Event)
         /\ Takes(SetToSeq({AddedSurface(s, a[<<"home", s>>]) : s \in S}), k, u,
                  IF \E s \in S : k = <<"home", s>> THEN a[k]
                  ELSE IF \E s \in S : k = <<"title", s>> THEN None ELSE u)
<1> DEFINE f == [s \in S |-> AddedSurface(s, a[<<"home", s>>])]
           v == IF \E s \in S : k = <<"home", s>> THEN a[k]
                ELSE IF \E s \in S : k = <<"title", s>> THEN None ELSE u
<1>1. IsFiniteSet(S) /\ \A s \in S : s \in Surfaces /\ a[<<"home", s>>] \in Value
  BY FS_Subset, KeyFacts, EventAssumption
<1>2. f \in [S -> Event]
      /\ {f[s] : s \in S} = {AddedSurface(s, a[<<"home", s>>]) : s \in S}
  BY <1>1, SurfaceEvents
<1>3. \A s \in S : DOMAIN f[s] = {<<"home", s>>, <<"title", s>>}
  BY <1>1, SurfaceEvents
<1>4. \A s \in S : f[s][<<"home", s>>] = a[<<"home", s>>] /\ f[s][<<"title", s>>] = None
  BY <1>1, SurfaceEvents
<1> HIDE DEF f
<1>5. ASSUME NEW x \in S, k \in DOMAIN f[x]
      PROVE  f[x][k] = v /\ \A y \in S : k \in DOMAIN f[y] => y = x
  <2>1. k = <<"home", x>> \/ k = <<"title", x>>
    BY <1>3, <1>5
  <2>2. f[x][k] = v
    <3>1. CASE k = <<"home", x>>
      <4>1. f[x][k] = a[k]
        BY <1>4, <3>1
      <4>2. \E y \in S : k = <<"home", y>>
        BY <3>1
      <4> QED
        BY <4>1, <4>2
    <3>2. CASE k = <<"title", x>>
      <4>1. f[x][k] = None
        BY <1>4, <3>2
      <4>2. \A y \in S : k # <<"home", y>>
        BY <3>2
      <4> QED
        BY <3>2, <4>1, <4>2
    <3> QED
      BY <2>1, <3>1, <3>2
  <2>3. \A y \in S : k \in DOMAIN f[y] => y = x
    BY <1>3, <2>1
  <2> QED
    BY <2>2, <2>3
<1>6. (\A x \in S : k \notin DOMAIN f[x]) => u = v
  BY <1>3
<1> HIDE DEF v
<1>7. SetToSeq({f[s] : s \in S}) \in Seq(Event) /\ Takes(SetToSeq({f[s] : s \in S}), k, u, v)
  BY <1>1, <1>2, <1>5, <1>6, KindTakes
<1> QED
  BY <1>2, <1>7 DEF v

(* Events of one key each: g maps the elements of S to their keys. *)
LEMMA OnlyTakes ==
  ASSUME NEW S, IsFiniteSet(S), NEW g \in [S -> Key], IsInjective(g),
         NEW a \in [Key -> Value], NEW k, NEW u, NEW v,
         \A x \in S : k = g[x] => v = a[k],
         (\A x \in S : k # g[x]) => v = u
  PROVE  /\ SetToSeq({Only(a, g[x]) : x \in S}) \in Seq(Event)
         /\ Takes(SetToSeq({Only(a, g[x]) : x \in S}), k, u, v)
<1> DEFINE f == [x \in S |-> Only(a, g[x])]
<1>1. f \in [S -> Event] /\ {f[x] : x \in S} = {Only(a, g[x]) : x \in S}
  BY BecomesFacts DEF Only
<1>2. \A x \in S : DOMAIN f[x] = {g[x]} /\ f[x][g[x]] = a[g[x]]
  BY BecomesFacts DEF Only
<1> HIDE DEF f
<1>3. ASSUME NEW x \in S, k \in DOMAIN f[x]
      PROVE  f[x][k] = v /\ \A y \in S : k \in DOMAIN f[y] => y = x
  <2>1. k = g[x] /\ f[x][k] = v
    BY <1>2, <1>3
  <2>2. \A y \in S : k \in DOMAIN f[y] => g[y] = g[x]
    BY <1>2, <2>1
  <2> QED
    BY <2>1, <2>2 DEF IsInjective
<1>4. (\A x \in S : k \notin DOMAIN f[x]) => u = v
  BY <1>2
<1>5. SetToSeq({f[x] : x \in S}) \in Seq(Event) /\ Takes(SetToSeq({f[x] : x \in S}), k, u, v)
  BY <1>1, <1>3, <1>4, KindTakes
<1> QED
  BY <1>1, <1>5

LEMMA RenamedTake ==
  ASSUME NEW S \in SUBSET Workspaces, NEW a \in [Key -> Value], NEW k, NEW u
  PROVE  /\ SetToSeq({Only(a, <<"name", w>>) : w \in S}) \in Seq(Event)
         /\ Takes(SetToSeq({Only(a, <<"name", w>>) : w \in S}), k, u,
                  IF \E w \in S : k = <<"name", w>> THEN a[k] ELSE u)
<1> DEFINE g == [w \in S |-> <<"name", w>>]
<1>1. IsFiniteSet(S) /\ g \in [S -> Key] /\ IsInjective(g)
  BY FS_Subset, KeyFacts, EventAssumption DEF IsInjective
<1>2. \A w \in S : g[w] = <<"name", w>>
  OBVIOUS
<1> HIDE DEF g
<1> DEFINE v == IF \E w \in S : k = g[w] THEN a[k] ELSE u
<1> HIDE DEF v
<1>3. /\ SetToSeq({Only(a, g[w]) : w \in S}) \in Seq(Event)
      /\ Takes(SetToSeq({Only(a, g[w]) : w \in S}), k, u, v)
  BY <1>1, OnlyTakes DEF v
<1>4. /\ {Only(a, g[w]) : w \in S} = {Only(a, <<"name", w>>) : w \in S}
      /\ (\E w \in S : k = g[w]) <=> \E w \in S : k = <<"name", w>>
  BY <1>2
<1> QED
  BY <1>3, <1>4 DEF v

LEMMA FieldsTake ==
  ASSUME NEW S \in SUBSET Workspaces, NEW a \in [Key -> Value], NEW k, NEW u
  PROVE  /\ SetToSeq({Only(a, <<"field", w>>) : w \in S}) \in Seq(Event)
         /\ Takes(SetToSeq({Only(a, <<"field", w>>) : w \in S}), k, u,
                  IF \E w \in S : k = <<"field", w>> THEN a[k] ELSE u)
<1> DEFINE g == [w \in S |-> <<"field", w>>]
<1>1. IsFiniteSet(S) /\ g \in [S -> Key] /\ IsInjective(g)
  BY FS_Subset, KeyFacts, EventAssumption DEF IsInjective
<1>2. \A w \in S : g[w] = <<"field", w>>
  OBVIOUS
<1> HIDE DEF g
<1> DEFINE v == IF \E w \in S : k = g[w] THEN a[k] ELSE u
<1> HIDE DEF v
<1>3. /\ SetToSeq({Only(a, g[w]) : w \in S}) \in Seq(Event)
      /\ Takes(SetToSeq({Only(a, g[w]) : w \in S}), k, u, v)
  BY <1>1, OnlyTakes DEF v
<1>4. /\ {Only(a, g[w]) : w \in S} = {Only(a, <<"field", w>>) : w \in S}
      /\ (\E w \in S : k = g[w]) <=> \E w \in S : k = <<"field", w>>
  BY <1>2
<1> QED
  BY <1>3, <1>4 DEF v

LEMMA TitlesTake ==
  ASSUME NEW S \in SUBSET Surfaces, NEW a \in [Key -> Value], NEW k, NEW u
  PROVE  /\ SetToSeq({Only(a, <<"title", s>>) : s \in S}) \in Seq(Event)
         /\ Takes(SetToSeq({Only(a, <<"title", s>>) : s \in S}), k, u,
                  IF \E s \in S : k = <<"title", s>> THEN a[k] ELSE u)
<1> DEFINE g == [s \in S |-> <<"title", s>>]
<1>1. IsFiniteSet(S) /\ g \in [S -> Key] /\ IsInjective(g)
  BY FS_Subset, KeyFacts, EventAssumption DEF IsInjective
<1>2. \A s \in S : g[s] = <<"title", s>>
  OBVIOUS
<1> HIDE DEF g
<1> DEFINE v == IF \E s \in S : k = g[s] THEN a[k] ELSE u
<1> HIDE DEF v
<1>3. /\ SetToSeq({Only(a, g[s]) : s \in S}) \in Seq(Event)
      /\ Takes(SetToSeq({Only(a, g[s]) : s \in S}), k, u, v)
  BY <1>1, OnlyTakes DEF v
<1>4. /\ {Only(a, g[s]) : s \in S} = {Only(a, <<"title", s>>) : s \in S}
      /\ (\E s \in S : k = g[s]) <=> \E s \in S : k = <<"title", s>>
  BY <1>2
<1> QED
  BY <1>3, <1>4 DEF v

LEMMA SelectedTakes ==
  ASSUME NEW a \in [Key -> Value], NEW c \in BOOLEAN, NEW k, NEW u
  PROVE  /\ SetToSeq(IF c THEN {Only(a, <<"active", None>>)} ELSE {}) \in Seq(Event)
         /\ Takes(SetToSeq(IF c THEN {Only(a, <<"active", None>>)} ELSE {}), k, u,
                  IF c /\ k = <<"active", None>> THEN a[k] ELSE u)
<1> DEFINE S == IF c THEN {None} ELSE {}
           g == [x \in S |-> <<"active", x>>]
<1>1. IsFiniteSet(S) /\ g \in [S -> Key] /\ IsInjective(g)
  BY FS_EmptySet, FS_Singleton, KeyFacts DEF IsInjective
<1>2. /\ {Only(a, g[x]) : x \in S} = IF c THEN {Only(a, <<"active", None>>)} ELSE {}
      /\ (\E x \in S : k = g[x]) <=> c /\ k = <<"active", None>>
  OBVIOUS
<1> HIDE DEF g, S
<1> DEFINE v == IF \E x \in S : k = g[x] THEN a[k] ELSE u
<1> HIDE DEF v
<1>3. /\ SetToSeq({Only(a, g[x]) : x \in S}) \in Seq(Event)
      /\ Takes(SetToSeq({Only(a, g[x]) : x \in S}), k, u, v)
  BY <1>1, OnlyTakes DEF v
<1> QED
  BY <1>2, <1>3 DEF v

-----------------------------------------------------------------------------
(* The events between two worlds take each key from its value in the one   *)
(* to its value in the other.                                              *)
LEMMA DiffTakes ==
  ASSUME NEW b, Sound(b), NEW a, Sound(a), NEW k \in Key
  PROVE  Diff(b, a) \in Seq(Event) /\ Takes(Diff(b, a), k, b[k], a[k])
<1> DEFINE replaced == Replaced(b, a)
           gone == {w \in Workspaces : Present(b, w) /\ ~Present(a, w)}
           added == {w \in Workspaces : ~Present(b, w) /\ Present(a, w)}
           leaving == {s \in Surfaces : Shown(b, s) /\ ~Shown(a, s)} \cup replaced
           coming == {s \in Surfaces : ~Shown(b, s) /\ Shown(a, s)} \cup replaced
           Changed(j) == b[j] # a[j]
           renamed == {w \in Workspaces : Present(b, w) /\ Present(a, w)
                                            /\ Changed(<<"name", w>>)}
           fields == {w \in Workspaces : Present(a, w) /\ Changed(<<"field", w>>)}
           titles == {s \in Surfaces :
                        Shown(a, s) /\
                        a[<<"title", s>>] # IF s \in replaced THEN None
                                            ELSE b[<<"title", s>>]}
           selected == b[<<"active", None>>] # a[<<"active", None>>]
<1> DEFINE s1 == SetToSeq({RemovedWorkspace(w) : w \in gone})
           s2 == SetToSeq({AddedWorkspace(w, a[<<"name", w>>]) : w \in added})
           s3 == SetToSeq({RemovedSurface(s) : s \in leaving})
           s4 == SetToSeq({AddedSurface(s, a[<<"home", s>>]) : s \in coming})
           s5 == SetToSeq(IF selected THEN {Only(a, <<"active", None>>)} ELSE {})
           s6 == SetToSeq({Only(a, <<"name", w>>) : w \in renamed})
           s7 == SetToSeq({Only(a, <<"field", w>>) : w \in fields})
           s8 == SetToSeq({Only(a, <<"title", s>>) : s \in titles})
<1> DEFINE x1 == IF \E w \in gone : k = <<"name", w>> \/ k = <<"field", w>> THEN None
                 ELSE b[k]
           x2 == IF \E w \in added : k = <<"name", w>> THEN a[k]
                 ELSE IF \E w \in added : k = <<"field", w>> THEN None ELSE x1
           x3 == IF \E s \in leaving : k = <<"home", s>> \/ k = <<"title", s>> THEN None
                 ELSE x2
           x4 == IF \E s \in coming : k = <<"home", s>> THEN a[k]
                 ELSE IF \E s \in coming : k = <<"title", s>> THEN None ELSE x3
           x5 == IF selected /\ k = <<"active", None>> THEN a[k] ELSE x4
           x6 == IF \E w \in renamed : k = <<"name", w>> THEN a[k] ELSE x5
           x7 == IF \E w \in fields : k = <<"field", w>> THEN a[k] ELSE x6
           x8 == IF \E s \in titles : k = <<"title", s>> THEN a[k] ELSE x7
<1>1. Diff(b, a) = s1 \o s2 \o s3 \o s4 \o s5 \o s6 \o s7 \o s8
  BY DEF Diff
<1>2. /\ gone \in SUBSET Workspaces /\ added \in SUBSET Workspaces
      /\ renamed \in SUBSET Workspaces /\ fields \in SUBSET Workspaces
      /\ leaving \in SUBSET Surfaces /\ coming \in SUBSET Surfaces
      /\ titles \in SUBSET Surfaces /\ selected \in BOOLEAN
      /\ a \in [Key -> Value]
  BY DEF Replaced, Sound
<1>3. x8 = a[k]
  <2>1. CASE k = <<"active", None>>
    BY <2>1
  <2>2. ASSUME NEW w \in Workspaces, k = <<"name", w>> PROVE x8 = a[k]
    BY <2>2 DEF Present
  <2>3. ASSUME NEW w \in Workspaces, k = <<"field", w>> PROVE x8 = a[k]
    BY <2>3 DEF Present, Sound
  <2>4. ASSUME NEW s \in Surfaces, k = <<"home", s>> PROVE x8 = a[k]
    BY <2>4 DEF Shown, Replaced
  <2>5. ASSUME NEW s \in Surfaces, k = <<"title", s>> PROVE x8 = a[k]
    BY <2>5 DEF Shown, Replaced, Sound
  <2> QED
    BY <2>1, <2>2, <2>3, <2>4, <2>5, KeyFacts
<1> HIDE DEF gone, added, leaving, coming, renamed, fields, titles, selected
<1>4. s1 \in Seq(Event) /\ Takes(s1, k, b[k], x1)
  BY <1>2, RemovedWorkspacesTake
<1>5. s2 \in Seq(Event) /\ Takes(s2, k, x1, x2)
  <2> HIDE DEF x1
  <2> QED
    BY <1>2, AddedWorkspacesTake
<1>6. s3 \in Seq(Event) /\ Takes(s3, k, x2, x3)
  <2> HIDE DEF x2
  <2> QED
    BY <1>2, RemovedSurfacesTake
<1>7. s4 \in Seq(Event) /\ Takes(s4, k, x3, x4)
  <2> HIDE DEF x3
  <2> QED
    BY <1>2, AddedSurfacesTake
<1>8. s5 \in Seq(Event) /\ Takes(s5, k, x4, x5)
  <2> HIDE DEF x4
  <2> QED
    BY <1>2, SelectedTakes
<1>9. s6 \in Seq(Event) /\ Takes(s6, k, x5, x6)
  <2> HIDE DEF x5
  <2> QED
    BY <1>2, RenamedTake
<1>10. s7 \in Seq(Event) /\ Takes(s7, k, x6, x7)
  <2> HIDE DEF x6
  <2> QED
    BY <1>2, FieldsTake
<1>11. s8 \in Seq(Event) /\ Takes(s8, k, x7, x8)
  <2> HIDE DEF x7
  <2> QED
    BY <1>2, TitlesTake
<1> HIDE DEF s1, s2, s3, s4, s5, s6, s7, s8, x1, x2, x3, x4, x5, x6, x7, x8
<1>12. s1 \o s2 \in Seq(Event) /\ Takes(s1 \o s2, k, b[k], x2)
  BY <1>4, <1>5, TakesJoin
<1>13. s1 \o s2 \o s3 \in Seq(Event) /\ Takes(s1 \o s2 \o s3, k, b[k], x3)
  BY <1>6, <1>12, TakesJoin
<1>14. s1 \o s2 \o s3 \o s4 \in Seq(Event) /\ Takes(s1 \o s2 \o s3 \o s4, k, b[k], x4)
  BY <1>7, <1>13, TakesJoin
<1>15. /\ s1 \o s2 \o s3 \o s4 \o s5 \in Seq(Event)
       /\ Takes(s1 \o s2 \o s3 \o s4 \o s5, k, b[k], x5)
  BY <1>8, <1>14, TakesJoin
<1>16. /\ s1 \o s2 \o s3 \o s4 \o s5 \o s6 \in Seq(Event)
       /\ Takes(s1 \o s2 \o s3 \o s4 \o s5 \o s6, k, b[k], x6)
  BY <1>9, <1>15, TakesJoin
<1>17. /\ s1 \o s2 \o s3 \o s4 \o s5 \o s6 \o s7 \in Seq(Event)
       /\ Takes(s1 \o s2 \o s3 \o s4 \o s5 \o s6 \o s7, k, b[k], x7)
  BY <1>10, <1>16, TakesJoin
<1>18. /\ s1 \o s2 \o s3 \o s4 \o s5 \o s6 \o s7 \o s8 \in Seq(Event)
       /\ Takes(s1 \o s2 \o s3 \o s4 \o s5 \o s6 \o s7 \o s8, k, b[k], x8)
  BY <1>11, <1>17, TakesJoin
<1> QED
  BY <1>1, <1>3, <1>18

-----------------------------------------------------------------------------
(* What the model goes through.                                            *)

LEMMA NothingSound == Sound(Nothing)
BY KeyFacts DEF Sound, Nothing, Value

LEMMA OpenedSound ==
  ASSUME NEW m, Sound(m), NEW w \in Workspaces, NEW v \in Values, NEW s \in Surfaces
  PROVE  Sound(Opened(m, w, v, s))
<1> DEFINE made == Apply(m, AddedWorkspace(w, v))
           shown == Apply(made, AddedSurface(s, w))
           selected == Apply(shown, Becomes(<<"active", None>>, w))
<1>1. v \in Value /\ w \in Value /\ v # None /\ w # None
  BY EventAssumption DEF Value
<1>2. Sound(made)
  <2>1. /\ made \in [Key -> Value]
        /\ \A k \in Key : made[k] = IF k = <<"name", w>> THEN v
                                    ELSE IF k = <<"field", w>> THEN None ELSE m[k]
    <3>1. PICK e : e = AddedWorkspace(w, v)
      OBVIOUS
    <3>2. /\ e \in Event /\ DOMAIN e = {<<"name", w>>, <<"field", w>>}
          /\ e[<<"name", w>>] = v /\ e[<<"field", w>>] = None
      BY <3>1, <1>1, WorkspaceEvents
    <3>3. /\ Apply(m, e) \in [Key -> Value]
          /\ \A k \in Key : Apply(m, e)[k] = IF k \in DOMAIN e THEN e[k] ELSE m[k]
      BY <3>2, ApplyFacts DEF Sound
    <3> QED
      BY <3>1, <3>2, <3>3
  <2> HIDE DEF made
  <2> QED
    BY <1>1, <2>1, KeyFacts DEF Sound
<1>3. Sound(shown)
  <2> HIDE DEF made
  <2>1. /\ shown \in [Key -> Value]
        /\ \A k \in Key : shown[k] = IF k = <<"home", s>> THEN w
                                     ELSE IF k = <<"title", s>> THEN None ELSE made[k]
    <3>1. PICK e : e = AddedSurface(s, w)
      OBVIOUS
    <3>2. /\ e \in Event /\ DOMAIN e = {<<"home", s>>, <<"title", s>>}
          /\ e[<<"home", s>>] = w /\ e[<<"title", s>>] = None
      BY <3>1, <1>1, SurfaceEvents
    <3>3. /\ Apply(made, e) \in [Key -> Value]
          /\ \A k \in Key : Apply(made, e)[k] = IF k \in DOMAIN e THEN e[k] ELSE made[k]
      BY <3>2, ApplyFacts, <1>2 DEF Sound
    <3> QED
      BY <3>1, <3>2, <3>3
  <2> HIDE DEF shown
  <2> QED
    BY <1>1, <1>2, <2>1, KeyFacts DEF Sound
<1>4. Sound(selected)
  <2> HIDE DEF shown
  <2>1. /\ selected \in [Key -> Value]
        /\ \A k \in Key : selected[k] = IF k = <<"active", None>> THEN w ELSE shown[k]
    <3>1. PICK e : e = Becomes(<<"active", None>>, w)
      OBVIOUS
    <3>2. /\ e \in Event /\ DOMAIN e = {<<"active", None>>} /\ e[<<"active", None>>] = w
      BY <3>1, <1>1, KeyFacts, BecomesFacts
    <3>3. /\ Apply(shown, e) \in [Key -> Value]
          /\ \A k \in Key : Apply(shown, e)[k] = IF k \in DOMAIN e THEN e[k] ELSE shown[k]
      BY <3>2, ApplyFacts, <1>3 DEF Sound
    <3> QED
      BY <3>1, <3>2, <3>3
  <2> HIDE DEF selected
  <2> QED
    BY <1>3, <2>1, KeyFacts DEF Sound
<1> QED
  BY <1>4 DEF Opened

LEMMA BecomesSound ==
  ASSUME NEW m, Sound(m), NEW k \in Key, NEW v \in Value,
         \A w \in Workspaces : /\ k = <<"name", w>> => v # None
                               /\ k = <<"field", w>> => v = None \/ m[<<"name", w>>] # None,
         \A s \in Surfaces : /\ k = <<"home", s>> => v # None
                             /\ k = <<"title", s>> => v = None \/ m[<<"home", s>>] # None
  PROVE  Sound(Apply(m, Becomes(k, v)))
<1> DEFINE n == Apply(m, Becomes(k, v))
<1>1. n \in [Key -> Value] /\ \A j \in Key : n[j] = IF j = k THEN v ELSE m[j]
  <2>1. PICK e : e = Becomes(k, v)
    OBVIOUS
  <2>2. e \in Event /\ DOMAIN e = {k} /\ e[k] = v
    BY <2>1, BecomesFacts
  <2>3. /\ Apply(m, e) \in [Key -> Value]
        /\ \A j \in Key : Apply(m, e)[j] = IF j \in DOMAIN e THEN e[j] ELSE m[j]
    BY <2>2, ApplyFacts DEF Sound
  <2> QED
    BY <2>1, <2>2, <2>3
<1> HIDE DEF n
<1>2. \A w \in Workspaces : n[<<"name", w>>] = None => n[<<"field", w>>] = None
  <2> SUFFICES ASSUME NEW w \in Workspaces, n[<<"name", w>>] = None
               PROVE  n[<<"field", w>>] = None
    OBVIOUS
  <2>1. <<"name", w>> # k /\ m[<<"name", w>>] = None
    BY <1>1, KeyFacts
  <2> QED
    BY <1>1, <2>1, KeyFacts DEF Sound
<1>3. \A s \in Surfaces : n[<<"home", s>>] = None => n[<<"title", s>>] = None
  <2> SUFFICES ASSUME NEW s \in Surfaces, n[<<"home", s>>] = None
               PROVE  n[<<"title", s>>] = None
    OBVIOUS
  <2>1. <<"home", s>> # k /\ m[<<"home", s>>] = None
    BY <1>1, KeyFacts
  <2> QED
    BY <1>1, <2>1, KeyFacts DEF Sound
<1>4. Sound(n)
  BY <1>1, <1>2, <1>3 DEF Sound
<1> QED
  BY <1>4 DEF n

LEMMA SurfaceChangeSound ==
  ASSUME NEW m, Sound(m), NEW s \in Surfaces, NEW w \in Workspaces
  PROVE  Sound(Apply(m, AddedSurface(s, w))) /\ Sound(Apply(m, RemovedSurface(s)))
<1>1. w \in Value /\ None \in Value
  BY DEF Value
<1>2. ASSUME NEW e \in {AddedSurface(s, w), RemovedSurface(s)} PROVE Sound(Apply(m, e))
  <2> DEFINE n == Apply(m, e)
  <2>1. /\ e \in Event /\ DOMAIN e = {<<"home", s>>, <<"title", s>>}
        /\ e[<<"title", s>>] = None
    BY <1>1, <1>2, SurfaceEvents, ZenonT(30)
  <2>2. /\ n \in [Key -> Value] /\ n[<<"title", s>>] = None
        /\ \A j \in Key \ {<<"home", s>>, <<"title", s>>} : n[j] = m[j]
    BY <2>1, KeyFacts, ApplyFacts DEF Sound
  <2> HIDE DEF n
  <2>3. Sound(n)
    BY <2>2, KeyFacts DEF Sound
  <2> QED
    BY <2>3 DEF n
<1> QED
  BY <1>2

LEMMA ClosingSound ==
  ASSUME Sound(model), NEW w \in Workspaces
  PROVE  Sound(Closing(w))
<1> DEFINE tabs == {s \in Surfaces : model[<<"home", s>>] = w}
           gone == {<<"name", w>>, <<"field", w>>} \cup ({"home", "title"} \X tabs)
           n == Closing(w)
<1>1. n = [k \in Key |-> IF k \in gone THEN None ELSE model[k]]
  BY DEF Closing
<1>2. /\ \A v \in Workspaces : /\ <<"name", v>> \in gone <=> v = w
                               /\ <<"field", v>> \in gone <=> v = w
      /\ \A s \in Surfaces : /\ <<"home", s>> \in gone <=> s \in tabs
                             /\ <<"title", s>> \in gone <=> s \in tabs
  OBVIOUS
<1> HIDE DEF gone, tabs, n
<1>3. n \in [Key -> Value] /\ \A k \in Key : n[k] = IF k \in gone THEN None ELSE model[k]
  BY <1>1 DEF Sound, Value
<1>4. Sound(n)
  BY <1>2, <1>3, KeyFacts DEF Sound
<1> QED
  BY <1>4 DEF n

LEMMA ChangeSound ==
  ASSUME Sound(model), Change
  PROVE  Sound(model')
<1>0. model' \in Changes
  BY DEF Change
<1>1. /\ \A w \in There : w \in Workspaces /\ w \in Value /\ w # None
                          /\ model[<<"name", w>>] # None
      /\ \A s \in Tabs : s \in Surfaces /\ model[<<"home", s>>] # None
      /\ Spare \subseteq Tabs
      /\ \A v \in Values : v \in Value /\ v # None
      /\ None \in Value
  BY EventAssumption DEF There, Tabs, Spare, Present, Shown, Value
<1>2. ASSUME NEW w \in Workspaces \ There, NEW v \in Values, NEW s \in Surfaces \ Tabs,
             model' = Opened(model, w, v, s)
      PROVE  Sound(model')
  BY <1>2, OpenedSound
<1>3. ASSUME NEW w \in There, model' = Closing(w)
      PROVE  Sound(model')
  BY <1>1, <1>3, ClosingSound
<1>4. ASSUME NEW k \in Key, NEW v \in Value, model' = Apply(model, Becomes(k, v)),
             \/ k = <<"active", None>>
             \/ \E w \in There : k = <<"name", w>> /\ v # None
             \/ \E w \in There : k = <<"field", w>>
             \/ \E s \in Tabs : k = <<"title", s>>
             \/ \E s \in Tabs : k = <<"home", s>> /\ v # None
      PROVE  Sound(model')
  BY <1>1, <1>4, BecomesSound
<1>5. ASSUME NEW s \in Surfaces, NEW w \in There, model' = Apply(model, AddedSurface(s, w))
      PROVE  Sound(model')
  BY <1>1, <1>5, SurfaceChangeSound
<1>6. ASSUME NEW s \in Spare, model' = Apply(model, RemovedSurface(s))
      PROVE  Sound(model')
  BY <1>1, <1>6, SurfaceChangeSound, EventAssumption
<1>7. \/ \E w \in Workspaces \ There, v \in Values, s \in Surfaces \ Tabs :
           model' = Opened(model, w, v, s)
      \/ \E w \in There : model' = Closing(w)
      \/ \E w \in There : model' = Apply(model, Becomes(<<"active", None>>, w))
      \/ \E w \in There, v \in Values : model' = Apply(model, Becomes(<<"name", w>>, v))
      \/ \E w \in There, v \in Values \cup {None} :
           model' = Apply(model, Becomes(<<"field", w>>, v))
      \/ \E s \in Surfaces \ Tabs, w \in There : model' = Apply(model, AddedSurface(s, w))
      \/ \E s \in Spare : model' = Apply(model, RemovedSurface(s))
      \/ \E s \in Tabs, v \in Values : model' = Apply(model, Becomes(<<"title", s>>, v))
      \/ \E s \in Spare, w \in There : model' = Apply(model, Becomes(<<"home", s>>, w))
  BY <1>0, SMTT(20) DEF Changes
<1>8. CASE \E w \in There : model' = Apply(model, Becomes(<<"active", None>>, w))
  BY <1>1, <1>4, <1>8, KeyFacts
<1>9. CASE \E w \in There, v \in Values : model' = Apply(model, Becomes(<<"name", w>>, v))
  BY <1>1, <1>4, <1>9, KeyFacts
<1>10. CASE \E w \in There, v \in Values \cup {None} :
              model' = Apply(model, Becomes(<<"field", w>>, v))
  BY <1>1, <1>4, <1>10, KeyFacts
<1>11. CASE \E s \in Tabs, v \in Values : model' = Apply(model, Becomes(<<"title", s>>, v))
  BY <1>1, <1>4, <1>11, KeyFacts
<1>12. CASE \E s \in Spare, w \in There : model' = Apply(model, Becomes(<<"home", s>>, w))
  BY <1>1, <1>4, <1>12, KeyFacts
<1> QED
  BY <1>2, <1>3, <1>5, <1>6, <1>7, <1>8, <1>9, <1>10, <1>11, <1>12

-----------------------------------------------------------------------------
(* The inductive invariant.                                                *)

(* The model and both snapshots are worlds. *)
WorldInv == Sound(model) /\ Sound(prev) /\ Sound(next)

(* What a tick has yet to send says the snapshot it was taken from, or     *)
(* nothing; a tick that has sent all is over.                              *)
TickInv ==
  /\ pending \in Seq(Event)
  /\ pending = <<>> => prev = next
  /\ \A k \in Key : Silent(pending, k) \/ Tells(pending, k, next[k])

(* Only a connection that streams has told its client anything. *)
ClientInv ==
  /\ sub \in [Clients -> {"off", "subscribed", "replayed", "bare"}]
  /\ queue \in [Clients -> Seq(Event)]
  /\ missed \in [Clients -> BOOLEAN] /\ lagged \in [Clients -> BOOLEAN]
  /\ view \in [Clients -> [Key -> Value]]
  /\ unsure \in [Clients -> SUBSET Key]
  /\ \A c \in Clients :
       /\ sub[c] = "off" => queue[c] = <<>> /\ ~missed[c]
       /\ ~Live(c) => view[c] = Nothing /\ unsure[c] = Key /\ ~lagged[c]

(* A client that has the value u of k, and is told s, will have v, or it   *)
(* is told nothing of k and cannot be sure of it.                          *)
Heads(s, k, u, v, open) == Takes(s, k, u, v) \/ (k \in open /\ Silent(s, k))

(* What is in its queue and what is yet to be sent takes every client that *)
(* lost nothing to the snapshot the last tick took.                        *)
TruthInv ==
  \A c \in Clients : ~missed[c] /\ ~lagged[c] =>
    \A k \in Key : Heads(queue[c] \o pending, k, view[c][k], next[k], unsure[c])

StreamInv == WorldInv /\ TickInv /\ ClientInv /\ TruthInv

LEMMA StreamInit == Init => StreamInv
<1> SUFFICES ASSUME Init PROVE StreamInv
  OBVIOUS
<1>1. Sound(model) /\ prev = model /\ next = model /\ pending = <<>>
  <2>1. (CHOOSE v \in Values : TRUE) \in Values /\ First \in Workspaces
        /\ FirstTab \in Surfaces
    BY EventAssumption
  <2> QED
    BY <2>1, NothingSound, OpenedSound DEF Init
<1>2. WorldInv
  BY <1>1 DEF WorldInv
<1>3. TickInv
  <2>1. \A k \in Key : Silent(pending, k)
    BY <1>1, TakesNothing
  <2> QED
    BY <1>1, <2>1 DEF TickInv
<1>4. ClientInv
  <2>1. Nothing \in [Key -> Value] /\ <<>> \in Seq(Event)
    BY NothingSound DEF Sound
  <2> QED
    BY <2>1 DEF Init, ClientInv, Live
<1>5. TruthInv
  <2> SUFFICES ASSUME NEW c \in Clients, NEW k \in Key
               PROVE  Heads(queue[c] \o pending, k, view[c][k], next[k], unsure[c])
    BY DEF TruthInv
  <2>1. queue[c] \o pending = <<>> /\ k \in unsure[c]
    BY DEF Init
  <2> QED
    BY <2>1, TakesNothing DEF Heads
<1> QED
  BY <1>2, <1>3, <1>4, <1>5 DEF StreamInv

LEMMA WorldStep ==
  ASSUME WorldInv, [Next]_vars
  PROVE  WorldInv'
<1> USE DEF WorldInv
<1>1. CASE Change
  <2>1. Sound(model)'
    BY <1>1, ChangeSound
  <2> QED
    BY <1>1, <2>1 DEF Change, tickVars
<1>2. CASE Tick
  BY <1>2 DEF Tick, modelVars
<1>3. CASE Send
  BY <1>3 DEF Send, modelVars
<1>4. CASE UNCHANGED <<tickVars, modelVars>>
  BY <1>4 DEF tickVars, modelVars
<1> QED
  BY <1>1, <1>2, <1>3, <1>4 DEF Next, vars, Subscribe, Replay, SkipReplay, Receive,
     ReceiveLagged, Leave

(* A difference that tells nothing is one of equal worlds. *)
LEMMA DiffSilent ==
  ASSUME NEW b, NEW a, Sound(b), Sound(a), Diff(b, a) = <<>>
  PROVE  b = a
<1>1. ASSUME NEW k \in Key PROVE b[k] = a[k]
  <2>1. Takes(<<>>, k, b[k], a[k])
    BY DiffTakes
  <2> QED
    BY <2>1 DEF Takes, Tells
<1> QED
  BY <1>1 DEF Sound

LEMMA TickStep ==
  ASSUME WorldInv, TickInv, [Next]_vars
  PROVE  TickInv'
<1>1. CASE Tick
  <2>1. PICK d : d = Diff(prev, model)
    OBVIOUS
  <2>2. d \in Seq(Event) /\ \A k \in Key : Takes(d, k, prev[k], model[k])
    <3>1. ASSUME NEW k \in Key
          PROVE  d \in Seq(Event) /\ Takes(d, k, prev[k], model[k])
      BY <2>1, DiffTakes DEF WorldInv
    <3> QED
      BY <3>1, KeyFacts
  <2>3. d # <<>>
    BY <1>1, <2>1, DiffSilent DEF WorldInv, Tick
  <2>4. pending' = d /\ next' = model
    BY <1>1, <2>1 DEF Tick
  <2> QED
    BY <2>2, <2>3, <2>4 DEF TickInv, Takes
<1>2. CASE Send
  <2>1. pending # <<>> /\ pending' = Tail(pending) /\ next' = next
        /\ (pending' = <<>> => prev' = next)
    BY <1>2 DEF Send
  <2>2. ASSUME NEW k \in Key
        PROVE  Silent(Tail(pending), k) \/ Tells(Tail(pending), k, next[k])
    BY <2>1, SilentTail, TellsTail DEF TickInv
  <2>3. Tail(pending) \in Seq(Event)
    BY <2>1 DEF TickInv
  <2> QED
    BY <2>1, <2>2, <2>3 DEF TickInv
<1>3. CASE UNCHANGED tickVars
  BY <1>3 DEF tickVars, TickInv
<1> QED
  BY <1>1, <1>2, <1>3 DEF Next, vars, Change, Subscribe, Replay, SkipReplay, Receive,
     ReceiveLagged, Leave

(* A replay is the whole model. *)
LEMMA ReplayWhole ==
  ASSUME Sound(model)
  PROVE  ApplyAll(Nothing, Diff(Nothing, model)) = model
<1> DEFINE got == ApplyAll(Nothing, Diff(Nothing, model))
<1>1. ASSUME NEW k \in Key PROVE got[k] = model[k]
  <2>1. /\ Diff(Nothing, model) \in Seq(Event)
        /\ Takes(Diff(Nothing, model), k, Nothing[k], model[k])
    BY NothingSound, DiffTakes
  <2>2. Nothing \in [Key -> Value]
    BY NothingSound DEF Sound
  <2> QED
    BY <2>1, <2>2, ApplyAllFacts
<1>2. DOMAIN got = Key
  BY DEF ApplyAll
<1>3. got = [k \in Key |-> got[k]]
  BY DEF ApplyAll
<1> HIDE DEF got
<1>4. got = model
  BY <1>1, <1>2, <1>3 DEF Sound
<1> QED
  BY <1>4 DEF got

(* The ring buffer keeps the order of what it does not drop. *)
LEMMA EnqueueFacts ==
  ASSUME NEW q \in Seq(Event), NEW e \in Event
  PROVE  /\ Enqueue(q, e) \in Seq(Event)
         /\ Len(q) # Capacity => Enqueue(q, e) = Append(q, e)
<1>1. Capacity \in Nat \ {0}
  BY EventAssumption
<1>2. Len(q) = Capacity => q # <<>>
  BY <1>1
<1>3. Len(q) = Capacity => Tail(q) \in Seq(Event)
  BY <1>2
<1> QED
  BY <1>3 DEF Enqueue

LEMMA ClientStep ==
  ASSUME WorldInv, TickInv, ClientInv, [Next]_vars
  PROVE  ClientInv'
<1>1. CASE Send
  <2>1. pending # <<>> /\ Head(pending) \in Event
    BY <1>1 DEF Send, TickInv
  <2>2. UNCHANGED <<sub, view, lagged, unsure>>
    BY <1>1 DEF Send
  <2>3. queue' \in [Clients -> Seq(Event)] /\ missed' \in [Clients -> BOOLEAN]
    <3>1. \A c \in Clients : Enqueue(queue[c], Head(pending)) \in Seq(Event)
      BY <2>1, EnqueueFacts DEF ClientInv
    <3> QED
      BY <1>1, <3>1 DEF Send, ClientInv
  <2>4. ASSUME NEW c \in Clients, sub[c] = "off"
        PROVE  queue'[c] = <<>> /\ ~missed'[c]
    BY <1>1, <2>4 DEF Send, Receivers, ClientInv
  <2> QED
    BY <2>2, <2>3, <2>4 DEF ClientInv, Live
<1>2. ASSUME NEW c \in Clients, Subscribe(c) PROVE ClientInv'
  BY <1>2 DEF Subscribe, ClientInv, Live
<1>3. ASSUME NEW c \in Clients, Replay(c) PROVE ClientInv'
  <2>1. ApplyAll(view[c], Diff(Nothing, model)) = model
    <3>1. view[c] = Nothing
      BY <1>3 DEF Replay, ClientInv, Live
    <3> QED
      BY <3>1, ReplayWhole DEF WorldInv
  <2>2. view' = [view EXCEPT ![c] = model]
    BY <1>3, <2>1 DEF Replay
  <2>3. unsure' = [unsure EXCEPT ![c] = {k \in Key : model[k] # next[k]}]
        /\ sub' = [sub EXCEPT ![c] = "replayed"] /\ UNCHANGED <<queue, missed, lagged>>
    BY <1>3 DEF Replay
  <2>4. model \in [Key -> Value]
    BY DEF WorldInv, Sound
  <2> QED
    BY <2>2, <2>3, <2>4 DEF ClientInv, Live
<1>4. ASSUME NEW c \in Clients, SkipReplay(c) PROVE ClientInv'
  BY <1>4 DEF SkipReplay, ClientInv, Live
<1>5. ASSUME NEW c \in Clients, Receive(c) PROVE ClientInv'
  <2>1. Head(queue[c]) \in Event /\ Tail(queue[c]) \in Seq(Event)
    BY <1>5 DEF Receive, ClientInv
  <2>2. Apply(view[c], Head(queue[c])) \in [Key -> Value]
    BY <2>1, ApplyFacts DEF ClientInv
  <2>3. sub[c] # "off" /\ Live(c)
    BY <1>5 DEF Receive, Live
  <2>4. unsure[c] \ DOMAIN Head(queue[c]) \in SUBSET Key
    BY DEF ClientInv
  <2>5. queue' \in [Clients -> Seq(Event)] /\ view' \in [Clients -> [Key -> Value]]
        /\ unsure' \in [Clients -> SUBSET Key]
    BY <1>5, <2>1, <2>2, <2>4 DEF Receive, ClientInv
  <2>6. \A d \in Clients \ {c} :
          queue'[d] = queue[d] /\ view'[d] = view[d] /\ unsure'[d] = unsure[d]
    BY <1>5 DEF Receive, ClientInv
  <2>7. UNCHANGED <<sub, missed, lagged>>
    BY <1>5 DEF Receive
  <2> QED
    BY <2>3, <2>5, <2>6, <2>7 DEF ClientInv, Live
<1>6. ASSUME NEW c \in Clients, ReceiveLagged(c) PROVE ClientInv'
  BY <1>6 DEF ReceiveLagged, ClientInv, Live
<1>7. ASSUME NEW c \in Clients, Leave(c) PROVE ClientInv'
  <2>1. Nothing \in [Key -> Value] /\ <<>> \in Seq(Event)
    BY NothingSound DEF Sound
  <2> QED
    BY <1>7, <2>1 DEF Leave, ClientInv, Live
<1>8. CASE UNCHANGED clientVars
  BY <1>8 DEF clientVars, ClientInv, Live
<1> QED
  BY <1>1, <1>2, <1>3, <1>4, <1>5, <1>6, <1>7, <1>8 DEF Next, vars, Change, Tick

(* What is sent, or received, stays in its place in the order. *)
LEMMA PassedOn ==
  ASSUME NEW q \in Seq(Event), NEW s \in Seq(Event), s # <<>>
  PROVE  Append(q, Head(s)) \o Tail(s) = q \o s
<1>1. Head(s) \in Event /\ Tail(s) \in Seq(Event) /\ s = <<Head(s)>> \o Tail(s)
  OBVIOUS
<1>2. Append(q, Head(s)) = q \o <<Head(s)>>
  OBVIOUS
<1>3. (q \o <<Head(s)>>) \o Tail(s) = q \o (<<Head(s)>> \o Tail(s))
  BY <1>1, ConcatAssociative
<1> QED
  BY <1>1, <1>2, <1>3

LEMMA Received ==
  ASSUME NEW q \in Seq(Event), q # <<>>, NEW s \in Seq(Event)
  PROVE  /\ q \o s \in Seq(Event) /\ q \o s # <<>> /\ Head(q \o s) = Head(q)
         /\ Tail(q \o s) = Tail(q) \o s
OBVIOUS

(* Receiving an event is as good as having it in the queue. *)
LEMMA HeadsOn ==
  ASSUME NEW s \in Seq(Event), s # <<>>, NEW m \in [Key -> Value], NEW k \in Key, NEW v,
         NEW open, Heads(s, k, m[k], v, open)
  PROVE  Heads(Tail(s), k, Apply(m, Head(s))[k], v, open \ DOMAIN Head(s))
<1>1. Head(s) \in Event /\ Tail(s) \in Seq(Event)
  OBVIOUS
<1>2. Apply(m, Head(s))[k] = IF k \in DOMAIN Head(s) THEN Head(s)[k] ELSE m[k]
  BY <1>1, ApplyFacts
<1>3. CASE Tells(s, k, v)
  BY <1>2, <1>3, TellsTail DEF Heads, Takes
<1>4. CASE Silent(s, k)
  <2>1. k \notin DOMAIN Head(s) /\ Silent(Tail(s), k)
    BY <1>4, SilentTail
  <2>2. m[k] = v \/ k \in open \/ Tells(s, k, v)
    BY DEF Heads, Takes
  <2> QED
    BY <1>2, <1>3, <2>1, <2>2 DEF Heads, Takes
<1> QED
  BY <1>3, <1>4 DEF Heads, Takes

(* A tick that starts leads on from where the last one ended. *)
LEMMA HeadsDiff ==
  ASSUME NEW b, NEW a, Sound(b), Sound(a), NEW q \in Seq(Event), NEW k \in Key, NEW u,
         NEW open, Heads(q, k, u, b[k], open)
  PROVE  Heads(q \o Diff(b, a), k, u, a[k], open)
<1>1. PICK d : d = Diff(b, a)
  OBVIOUS
<1>2. d \in Seq(Event) /\ Takes(d, k, b[k], a[k])
  BY <1>1, DiffTakes
<1>3. CASE Takes(q, k, u, b[k])
  BY <1>1, <1>2, <1>3, TakesJoin DEF Heads
<1>4. CASE k \in open /\ Silent(q, k)
  BY <1>1, <1>2, <1>4, TellsLater, SilentJoin DEF Heads, Takes
<1> QED
  BY <1>3, <1>4 DEF Heads

LEMMA TruthTick ==
  ASSUME StreamInv, Tick
  PROVE  TruthInv'
<1>1. /\ pending = <<>> /\ prev = next /\ next' = model /\ pending' = Diff(prev, model)
      /\ UNCHANGED clientVars
  BY DEF Tick, StreamInv, TickInv
<1>2. ASSUME NEW c \in Clients, ~missed[c], ~lagged[c], NEW k \in Key
      PROVE  Heads(queue[c] \o Diff(prev, model), k, view[c][k], model[k], unsure[c])
  <2>1. queue[c] \in Seq(Event) /\ queue[c] \o pending = queue[c]
    BY <1>1 DEF StreamInv, ClientInv
  <2>2. Heads(queue[c], k, view[c][k], prev[k], unsure[c])
    BY <1>1, <1>2, <2>1 DEF StreamInv, TruthInv
  <2> QED
    BY <2>1, <2>2, HeadsDiff DEF StreamInv, WorldInv
<1> QED
  BY <1>1, <1>2 DEF TruthInv, clientVars

LEMMA TruthSend ==
  ASSUME StreamInv, Send, TickInv'
  PROVE  TruthInv'
<1>1. /\ pending # <<>> /\ pending \in Seq(Event) /\ pending' = Tail(pending)
      /\ UNCHANGED <<next, sub, view, lagged, unsure>>
  BY DEF Send, StreamInv, TickInv
<1>2. ASSUME NEW c \in Clients, ~missed'[c], ~lagged'[c], NEW k \in Key
      PROVE  Heads(queue'[c] \o pending', k, view'[c][k], next'[k], unsure'[c])
  <2>1. queue[c] \in Seq(Event)
    BY DEF StreamInv, ClientInv
  <2>2. CASE c \in Receivers
    <3>1. ~missed[c] /\ Len(queue[c]) # Capacity
          /\ queue'[c] = Enqueue(queue[c], Head(pending))
      BY <1>2, <2>2 DEF Send
    <3>2. queue'[c] = Append(queue[c], Head(pending))
      <4>1. Head(pending) \in Event
        BY <1>1
      <4> QED
        BY <2>1, <3>1, <4>1, EnqueueFacts
    <3>3. queue'[c] \o pending' = queue[c] \o pending
      BY <1>1, <2>1, <3>2, PassedOn
    <3>4. Heads(queue[c] \o pending, k, view[c][k], next[k], unsure[c])
      BY <1>1, <1>2, <3>1 DEF StreamInv, TruthInv
    <3> QED
      BY <1>1, <3>3, <3>4
  <2>3. CASE c \notin Receivers
    <3>1. queue'[c] = <<>> /\ unsure'[c] = Key
      BY <1>1, <2>3 DEF Send, Receivers, StreamInv, ClientInv, Live
    <3>2. queue'[c] \o pending' = pending'
      BY <1>1, <3>1
    <3>3. Silent(pending', k) \/ Tells(pending', k, next'[k])
      BY DEF TickInv
    <3> QED
      BY <3>1, <3>2, <3>3 DEF Heads, Takes
  <2> QED
    BY <2>2, <2>3
<1> QED
  BY <1>2 DEF TruthInv

LEMMA TruthReplay ==
  ASSUME StreamInv, NEW c \in Clients, Replay(c)
  PROVE  TruthInv'
<1>1. UNCHANGED <<pending, next, queue, missed, lagged>>
  BY DEF Replay, tickVars
<1>2. view' = [view EXCEPT ![c] = model]
      /\ unsure' = [unsure EXCEPT ![c] = {k \in Key : model[k] # next[k]}]
  <2>1. view[c] = Nothing
    BY DEF Replay, StreamInv, ClientInv, Live
  <2> QED
    BY <2>1, ReplayWhole DEF Replay, StreamInv, WorldInv
<1>3. ASSUME NEW d \in Clients, ~missed[d], ~lagged[d], NEW k \in Key
      PROVE  Heads(queue[d] \o pending, k, view'[d][k], next[k], unsure'[d])
  <2>1. Heads(queue[d] \o pending, k, view[d][k], next[k], unsure[d])
    BY <1>3 DEF StreamInv, TruthInv
  <2>2. CASE d # c
    BY <1>2, <2>1, <2>2 DEF StreamInv, ClientInv
  <2>3. CASE d = c
    <3>1. view'[d][k] = model[k] /\ (k \in unsure'[d] <=> model[k] # next[k])
      BY <1>2, <2>3 DEF StreamInv, ClientInv
    <3> QED
      BY <2>1, <3>1 DEF Heads, Takes
  <2> QED
    BY <2>2, <2>3
<1> QED
  BY <1>1, <1>3 DEF TruthInv

LEMMA TruthReceive ==
  ASSUME StreamInv, NEW c \in Clients, Receive(c)
  PROVE  TruthInv'
<1>1. UNCHANGED <<pending, next, missed, lagged>>
  BY DEF Receive, tickVars
<1>2. queue[c] \in Seq(Event) /\ queue[c] # <<>> /\ pending \in Seq(Event)
      /\ view[c] \in [Key -> Value]
  BY DEF Receive, StreamInv, ClientInv, TickInv
<1>3. ASSUME NEW d \in Clients, ~missed[d], ~lagged[d], NEW k \in Key
      PROVE  Heads(queue'[d] \o pending, k, view'[d][k], next[k], unsure'[d])
  <2>1. Heads(queue[d] \o pending, k, view[d][k], next[k], unsure[d])
    BY <1>3 DEF StreamInv, TruthInv
  <2>2. CASE d # c
    <3>1. queue'[d] = queue[d] /\ view'[d] = view[d] /\ unsure'[d] = unsure[d]
      BY <2>2 DEF Receive, StreamInv, ClientInv
    <3> QED
      BY <2>1, <3>1
  <2>3. CASE d = c
    <3> DEFINE s == queue[c] \o pending
    <3>1. s \in Seq(Event) /\ s # <<>> /\ Head(s) = Head(queue[c])
          /\ Tail(s) = Tail(queue[c]) \o pending
      BY <1>2, Received
    <3>2. /\ queue'[c] = Tail(queue[c]) /\ view'[c] = Apply(view[c], Head(queue[c]))
          /\ unsure'[c] = unsure[c] \ DOMAIN Head(queue[c])
      BY DEF Receive, StreamInv, ClientInv
    <3>3. Heads(s, k, view[c][k], next[k], unsure[c])
      BY <2>1, <2>3
    <3> HIDE DEF s
    <3>4. Heads(Tail(s), k, Apply(view[c], Head(s))[k], next[k],
                unsure[c] \ DOMAIN Head(s))
      BY <1>2, <3>1, <3>3, HeadsOn
    <3> QED
      BY <2>3, <3>1, <3>2, <3>4 DEF Heads
  <2> QED
    BY <2>2, <2>3
<1> QED
  BY <1>1, <1>3 DEF TruthInv

LEMMA TruthLeave ==
  ASSUME StreamInv, NEW c \in Clients, Leave(c)
  PROVE  TruthInv'
<1>1. UNCHANGED <<pending, next>>
  BY DEF Leave, tickVars
<1>2. ASSUME NEW d \in Clients, ~missed'[d], ~lagged'[d], NEW k \in Key
      PROVE  Heads(queue'[d] \o pending, k, view'[d][k], next[k], unsure'[d])
  <2>1. CASE d # c
    <3>1. /\ queue'[d] = queue[d] /\ view'[d] = view[d] /\ unsure'[d] = unsure[d]
          /\ missed'[d] = missed[d] /\ lagged'[d] = lagged[d]
      BY <2>1 DEF Leave, StreamInv, ClientInv
    <3> QED
      BY <1>2, <3>1 DEF StreamInv, TruthInv
  <2>2. CASE d = c
    <3>1. queue'[d] = <<>> /\ unsure'[d] = Key /\ pending \in Seq(Event)
      BY <2>2 DEF Leave, StreamInv, ClientInv, TickInv
    <3>2. queue'[d] \o pending = pending
      BY <3>1
    <3>3. Silent(pending, k) \/ Tells(pending, k, next[k])
      BY DEF StreamInv, TickInv
    <3> QED
      BY <3>1, <3>2, <3>3 DEF Heads, Takes
  <2> QED
    BY <2>1, <2>2
<1> QED
  BY <1>1, <1>2 DEF TruthInv

LEMMA TruthStep ==
  ASSUME StreamInv, [Next]_vars, TickInv'
  PROVE  TruthInv'
<1>1. ASSUME UNCHANGED <<tickVars, clientVars>> PROVE TruthInv'
  BY <1>1 DEF StreamInv, TruthInv, tickVars, clientVars
<1>2. CASE Change
  BY <1>1, <1>2 DEF Change
<1>3. ASSUME NEW c \in Clients, Subscribe(c) \/ SkipReplay(c) PROVE TruthInv'
  BY <1>3 DEF Subscribe, SkipReplay, StreamInv, TruthInv, tickVars
<1>4. ASSUME NEW c \in Clients, ReceiveLagged(c) PROVE TruthInv'
  <2>1. UNCHANGED <<pending, next, queue, view, unsure>>
    BY <1>4 DEF ReceiveLagged, tickVars
  <2>2. ASSUME NEW d \in Clients, ~lagged'[d]
        PROVE  missed'[d] = missed[d] /\ lagged'[d] = lagged[d]
    BY <1>4, <2>2 DEF ReceiveLagged, StreamInv, ClientInv
  <2> QED
    BY <2>1, <2>2 DEF StreamInv, TruthInv
<1>5. CASE UNCHANGED vars
  BY <1>1, <1>5 DEF vars
<1> QED
  BY <1>2, <1>3, <1>4, <1>5, TruthTick, TruthSend, TruthReplay, TruthReceive, TruthLeave
     DEF Next

LEMMA StreamStep == StreamInv /\ [Next]_vars => StreamInv'
<1> SUFFICES ASSUME StreamInv, [Next]_vars PROVE StreamInv'
  OBVIOUS
<1>1. WorldInv /\ TickInv /\ ClientInv
  BY DEF StreamInv
<1>2. WorldInv'
  BY <1>1, WorldStep
<1>3. TickInv'
  BY <1>1, TickStep
<1>4. ClientInv'
  BY <1>1, ClientStep
<1>5. TruthInv'
  BY <1>3, TruthStep
<1> QED
  BY <1>2, <1>3, <1>4, <1>5 DEF StreamInv

LEMMA StreamInvariant == Spec => []StreamInv
BY StreamInit, StreamStep, PTL DEF Spec

-----------------------------------------------------------------------------
(* Whatever happened to the model between two ticks (a workspace that was  *)
(* closed and one that was opened, a surface that moved, a name set back), *)
(* the events that event_diff lists in its order take a client that knew   *)
(* the first snapshot to exactly the second.                               *)
THEOREM DiffsAreExact == Spec => []DiffExact
<1>1. StreamInv => DiffExact
  <2> SUFFICES ASSUME Sound(prev), Sound(model) PROVE DiffExact
    BY DEF StreamInv, WorldInv
  <2> DEFINE got == ApplyAll(prev, Diff(prev, model))
  <2>1. ASSUME NEW k \in Key PROVE got[k] = model[k]
    <3>1. /\ Diff(prev, model) \in Seq(Event)
          /\ Takes(Diff(prev, model), k, prev[k], model[k])
      BY DiffTakes
    <3> QED
      BY <3>1, ApplyAllFacts DEF Sound
  <2>2. got = [k \in Key |-> got[k]]
    BY DEF ApplyAll
  <2> HIDE DEF got
  <2>3. got = model
    BY <2>1, <2>2 DEF Sound
  <2> QED
    BY <2>3 DEF got, DiffExact
<1> QED
  BY <1>1, StreamInvariant, PTL

(* A subscriber of stream_events that has received all that was broadcast, *)
(* and was not told that it lagged, agrees with the last snapshot of the   *)
(* tick on every key it may be sure of, for any number of subscribers, any *)
(* size of the ring buffer, and any race of a replay with a tick.          *)
THEOREM ClientsAreRight == Spec => []EventsAreTrue
<1>1. StreamInv => EventsAreTrue
  <2> SUFFICES ASSUME StreamInv, NEW c \in Clients, CaughtUp(c), NEW k \in Key \ unsure[c]
               PROVE  view[c][k] = prev[k]
    BY DEF EventsAreTrue
  <2>1. /\ pending = <<>> /\ queue[c] = <<>> /\ ~missed[c] /\ ~lagged[c] /\ prev = next
    BY DEF CaughtUp, StreamInv, TickInv
  <2>2. Heads(queue[c] \o pending, k, view[c][k], next[k], unsure[c])
    BY <2>1 DEF StreamInv, TruthInv
  <2>3. queue[c] \o pending = <<>>
    BY <2>1
  <2>4. Heads(<<>>, k, view[c][k], next[k], unsure[c])
    BY <2>2, <2>3
  <2> QED
    BY <2>1, <2>4 DEF Heads, Takes, Tells
<1> QED
  BY <1>1, StreamInvariant, PTL
=============================================================================
