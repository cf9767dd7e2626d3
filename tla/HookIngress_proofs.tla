-------------------------- MODULE HookIngress_proofs --------------------------
(***************************************************************************)
(* Proofs about HookIngress, for any sessions, surfaces, connections,      *)
(* clocks, orders and capacity of the registry.                            *)
(***************************************************************************)
EXTENDS HookIngress, TLAPS

-----------------------------------------------------------------------------
(* Records that may be absent.                                             *)

LEMMA ReqFields ==
  ASSUME TypeOK, NEW t \in Threads
  PROVE  /\ req[t].at \in {"idle", "entered", "resolved", "checked"}
         /\ req[t] = NoRequest <=> req[t].at = "idle"
         /\ req[t].at # "idle" =>
              /\ req[t] \in Request
              /\ req[t].event \in Event
              /\ req[t].target \in Surfaces \cup {NoSurface}
BY DEF TypeOK, Request, NoRequest

LEMMA EventFields ==
  ASSUME NEW e \in Event
  PROVE  /\ e.session \in Sessions
         /\ e.name \in DOMAIN Reports
         /\ Reports[e.name] \in {"running", "idle", "ended"}
         /\ e.clock \in Clocks
         /\ e.order \in Orders
         /\ e.surface \in Surfaces \cup {NoSurface}
         /\ Stamped(e) \in Stamp
BY DEF Event, Reports, Stamped, Stamp

LEMMA AgentFields ==
  ASSUME TypeOK, NEW s \in Surfaces
  PROVE  /\ agent[s].session \in Sessions \cup {NoSession}
         /\ agent[s].life \in {"running", "idle", "suspended", "ended"}
         /\ agent[s] # NoAgent <=> agent[s].session # NoSession
         /\ agent[s] # NoAgent => agent[s] \in Agent /\ agent[s].session \in Sessions
BY NoneAssumption DEF TypeOK, Agent, NoAgent

LEMMA TopoFields ==
  ASSUME TypeOK
  PROVE  /\ topo.surfaces \subseteq Surfaces
         /\ topo.gates \subseteq Surfaces
         /\ topo.todo \subseteq Sessions
         /\ topo # NoTopo => topo \in Topo
         /\ topo.op = "none" <=> topo = NoTopo
         /\ topo.at = "idle" <=> topo = NoTopo
BY DEF TypeOK, Topo, NoTopo

(* Only records that nobody serves are evicted. *)
LEMMA EvictedAreIdle ==
  ASSUME NEW k, NEW E \in Evicted(k)
  PROVE  E \subseteq registered /\ \A j \in E, t \in Threads : ~ Serving(t, j)
BY DEF Evicted

(* A step that leaves a hook command's record alone, or moves one.         *)
LEMMA RequestMoves ==
  ASSUME TypeOK, NEW t \in Threads, NEW r \in Request \cup {NoRequest},
         req' = [req EXCEPT ![t] = r]
  PROVE  /\ req' \in [Threads -> Request \cup {NoRequest}]
         /\ req'[t] = r
         /\ \A u \in Threads \ {t} : req'[u] = req[u]
BY DEF TypeOK

LEMMA ReturnMoves ==
  ASSUME TypeOK, NEW t \in Threads, Return(t)
  PROVE  /\ req' \in [Threads -> Request \cup {NoRequest}]
         /\ req'[t].at = "idle"
         /\ \A u \in Threads \ {t} : req'[u] = req[u]
<1>1. NoRequest \in Request \cup {NoRequest} /\ NoRequest.at = "idle"
  BY DEF NoRequest
<1> QED
  BY <1>1, RequestMoves DEF Return

-----------------------------------------------------------------------------
(* Each action's effect on the commands being served.                      *)

LEMMA EnterMoves ==
  ASSUME TypeOK, NEW t \in Threads, NEW e \in Event, Enter(t, e)
  PROVE  /\ req' \in [Threads -> Request \cup {NoRequest}]
         /\ req[t].at = "idle"
         /\ req'[t].at = "entered" /\ req'[t].event = e /\ req'[t].target = NoSurface
         /\ \A u \in Threads \ {t} : req'[u] = req[u]
<1> DEFINE r == [at |-> "entered", event |-> e, target |-> NoSurface]
<1>1. r \in Request /\ r.at = "entered" /\ r.event = e /\ r.target = NoSurface
  BY DEF Request
<1>2. req' = [req EXCEPT ![t] = r]
  BY DEF Enter
<1> HIDE DEF r
<1> QED
  BY <1>1, <1>2, RequestMoves, ReqFields, ZenonT(30) DEF Enter

LEMMA ResolveMoves ==
  ASSUME TypeOK, NEW t \in Threads, Resolve(t)
  PROVE  /\ req' \in [Threads -> Request \cup {NoRequest}]
         /\ req[t].at = "entered"
         /\ \/ /\ req'[t].at = "resolved" /\ req'[t].event = req[t].event
               /\ req'[t].target \in Targets(req[t].event)
            \/ req'[t].at = "idle"
         /\ \A u \in Threads \ {t} : req'[u] = req[u]
<1>0. req[t] \in Request /\ req[t].at = "entered" /\ req[t].event.session \in Sessions
  BY ReqFields, EventFields DEF Resolve
<1>1. PICK s \in Targets(req[t].event) :
        \/ req' = [req EXCEPT ![t] = [@ EXCEPT !.at = "resolved", !.target = s]]
        \/ Return(t)
  BY DEF Resolve
<1>2. s \in Surfaces \cup {NoSurface}
  BY <1>0, <1>1 DEF Targets, TypeOK
<1>3. CASE Return(t)
  BY <1>0, <1>3, ReturnMoves
<1>4. CASE req' = [req EXCEPT ![t] = [@ EXCEPT !.at = "resolved", !.target = s]]
  <2> DEFINE r == [req[t] EXCEPT !.at = "resolved", !.target = s]
  <2>1. r \in Request /\ r.at = "resolved" /\ r.event = req[t].event /\ r.target = s
    BY <1>0, <1>2 DEF Request
  <2>2. req' = [req EXCEPT ![t] = r]
    BY <1>4
  <2> HIDE DEF r
  <2> QED
    BY <1>0, <1>1, <2>1, <2>2, RequestMoves
<1> QED
  BY <1>1, <1>3, <1>4

LEMMA CheckMoves ==
  ASSUME TypeOK, NEW t \in Threads, Check(t)
  PROVE  /\ req' \in [Threads -> Request \cup {NoRequest}]
         /\ req[t].at = "resolved"
         /\ \/ /\ req'[t].at = "checked" /\ req'[t].event = req[t].event
               /\ req'[t].target = req[t].target
            \/ req'[t].at = "idle"
         /\ \A u \in Threads \ {t} : req'[u] = req[u]
<1>0. req[t] \in Request /\ req[t].at = "resolved"
  BY ReqFields DEF Check
<1>1. Return(t) \/ req' = [req EXCEPT ![t].at = "checked"]
  BY DEF Check
<1>2. CASE Return(t)
  BY <1>0, <1>2, ReturnMoves
<1>3. CASE req' = [req EXCEPT ![t].at = "checked"]
  <2> DEFINE r == [req[t] EXCEPT !.at = "checked"]
  <2>1. r \in Request /\ r.at = "checked" /\ r.event = req[t].event
        /\ r.target = req[t].target
    BY <1>0 DEF Request
  <2>2. req' = [req EXCEPT ![t] = r]
    BY <1>3
  <2> HIDE DEF r
  <2> QED
    BY <1>0, <2>1, <2>2, RequestMoves
<1> QED
  BY <1>1, <1>2, <1>3

LEMMA ApplyMoves ==
  ASSUME TypeOK, NEW t \in Threads, Apply(t)
  PROVE  /\ req' \in [Threads -> Request \cup {NoRequest}]
         /\ req[t].at = "checked" /\ req'[t].at = "idle"
         /\ \A u \in Threads \ {t} : req'[u] = req[u]
BY ReturnMoves DEF Apply

-----------------------------------------------------------------------------
(* Each action's effect on the records of sessions and on the agents.      *)

LEMMA EnterRecords ==
  ASSUME TypeOK, NEW t \in Threads, NEW e \in Event, Enter(t, e)
  PROVE  /\ registered' \subseteq Sessions
         /\ ingress' \in [Sessions -> Ingress]
         /\ e.session \in registered'
         /\ \A k \in registered : (\E u \in Threads : Serving(u, k)) => k \in registered'
         /\ \A k \in registered' : k \in registered \/ ingress'[k] = NewIngress
         /\ \A k \in Sessions :
              \/ ingress'[k] = ingress[k]
              \/ ingress'[k] = NewIngress /\ \A u \in Threads : Serving(u, k) => k \notin registered
<1>1. PICK E \in Evicted(e.session) :
        /\ registered' = (registered \ E) \cup {e.session}
        /\ ingress' = [k \in Sessions |->
             IF k \in E \cup ({e.session} \ registered) THEN NewIngress ELSE ingress[k]]
  BY DEF Enter
<1>2. E \subseteq registered /\ \A j \in E, u \in Threads : ~ Serving(u, j)
  BY EvictedAreIdle
<1>3. e.session \in Sessions /\ NewIngress \in Ingress
  BY EventFields DEF NewIngress, Ingress, Stamp, NoStamp
<1> QED
  BY <1>1, <1>2, <1>3 DEF TypeOK

LEMMA CheckRecords ==
  ASSUME TypeOK, NEW t \in Threads, Check(t)
  PROVE  LET k == req[t].event.session
             s == req[t].target
         IN /\ ingress' \in [Sessions -> Ingress]
            /\ k \in Sessions
            /\ \A j \in Sessions \ {k} : ingress'[j] = ingress[j]
            /\ ingress'[k].target = ingress[k].target
            /\ ingress'[k].watermark = ingress[k].watermark
            /\ req'[t].at = "checked" =>
                 /\ GateTakable(s)
                 /\ ~ Stale(req[t].event)
                 /\ s \in modelled =>
                      /\ agent[s].life # "suspended"
                      /\ agent[s].life \in {"running", "idle"} /\ agent[s].session # k =>
                           ingress'[k].takeover.from = agent[s].session
<1> DEFINE e == req[t].event
           s == req[t].target
           k == e.session
           owner == IF s \in modelled THEN agent[s] ELSE NoAgent
           contested == owner # NoAgent /\ owner.session # k /\ owner.life # "ended"
           takes == OpensTakeover(k) \/ ContinuesTakeover(e, owner.session)
           inert == owner.life = "suspended" \/ (contested /\ ~ takes)
           granted == [from |-> owner.session, name |-> e.name, stamp |-> Stamped(e)]
           value == IF contested THEN granted ELSE NoTakeover
<1>0. e \in Event /\ k \in Sessions /\ req[t].at = "resolved" /\ ingress[k] \in Ingress
  BY ReqFields, EventFields DEF Check, TypeOK
<1>1. /\ GateTakable(s)
      /\ ingress' = IF inert \/ owner = NoAgent THEN ingress
                    ELSE [ingress EXCEPT ![k].takeover = value]
      /\ IF inert \/ Stale(e) THEN Return(t) ELSE req' = [req EXCEPT ![t].at = "checked"]
  BY DEF Check
<1>2. req'[t].at = "checked" => ~ inert /\ ~ Stale(e)
  BY <1>1, ReturnMoves
<1>3. owner = NoAgent \/ owner \in Agent
  BY AgentFields DEF TypeOK
<1>4. NoAgent.life = "ended"
  BY DEF NoAgent
<1>5. contested => owner.session \in Sessions /\ granted \in Takeover
  BY <1>0, <1>3, EventFields DEF Agent, Takeover
<1>6. value \in Takeover \cup {NoTakeover}
  BY <1>5
<1>7. contested => value.from = owner.session
  OBVIOUS
<1>8. s \in modelled => owner = agent[s]
  OBVIOUS
<1>9. s \in modelled /\ agent[s].life \in {"running", "idle"} /\ agent[s].session # k =>
        contested
  BY <1>4
<1>10. inert <=> owner.life = "suspended" \/ (contested /\ ~ takes)
  OBVIOUS
<1>11. contested => owner # NoAgent
  OBVIOUS
<1> HIDE DEF owner, contested, takes, inert, granted, value
<1>12. CASE ingress' = ingress /\ (inert \/ owner = NoAgent)
  <2>1. req'[t].at = "checked" => ~ contested
    BY <1>2, <1>11, <1>12
  <2>2. req'[t].at = "checked" /\ s \in modelled => agent[s].life # "suspended"
    BY <1>2, <1>8, <1>10
  <2> QED
    BY <1>0, <1>1, <1>2, <1>9, <1>12, <2>1, <2>2 DEF TypeOK
<1>13. CASE ingress' = [ingress EXCEPT ![k].takeover = value]
  <2> DEFINE i == [ingress[k] EXCEPT !.takeover = value]
  <2>1. /\ i \in Ingress /\ i.takeover = value /\ i.target = ingress[k].target
        /\ i.watermark = ingress[k].watermark
    BY <1>0, <1>6 DEF Ingress
  <2>2. ingress' = [ingress EXCEPT ![k] = i]
    BY <1>13
  <2> HIDE DEF i
  <2>3. /\ ingress' \in [Sessions -> Ingress] /\ ingress'[k] = i
        /\ \A j \in Sessions \ {k} : ingress'[j] = ingress[j]
    BY <1>0, <2>1, <2>2 DEF TypeOK
  <2>4. req'[t].at = "checked" /\ s \in modelled => agent[s].life # "suspended"
    BY <1>2, <1>8, <1>10
  <2>5. contested => ingress'[k].takeover.from = owner.session
    BY <1>7, <2>1, <2>3
  <2> QED
    BY <1>0, <1>1, <1>2, <1>8, <1>9, <2>1, <2>3, <2>4, <2>5
<1> QED
  BY <1>1, <1>12, <1>13

LEMMA ApplyRecords ==
  ASSUME TypeOK, NEW t \in Threads, Apply(t)
  PROVE  LET e == req[t].event
             k == req[t].event.session
         IN /\ ingress' \in [Sessions -> Ingress]
            /\ k \in Sessions
            /\ \A j \in Sessions \ {k} : ingress'[j] = ingress[j]
            /\ ingress'[k].takeover = ingress[k].takeover
            /\ ingress'[k].target \in {ingress[k].target, req[t].target, NoSurface}
            /\ \/ ingress'[k].watermark = ingress[k].watermark
               \/ e.order # 0 /\ ingress'[k].watermark = Stamped(e)
<1> DEFINE e == req[t].event
           s == req[t].target
           k == e.session
<1>0. /\ e \in Event /\ k \in Sessions /\ req[t].at = "checked" /\ ingress[k] \in Ingress
      /\ s \in Surfaces \cup {NoSurface} /\ Stamped(e) \in Stamp
  BY ReqFields, EventFields DEF Apply, TypeOK
<1>1. CASE ingress' = ingress
  BY <1>0, <1>1 DEF TypeOK
<1>2. CASE ingress' = [ingress EXCEPT ![k] = Commit(e, s, @)]
  <2> DEFINE i == Commit(e, s, ingress[k])
  <2>1. /\ i \in Ingress /\ i.takeover = ingress[k].takeover
        /\ i.target \in {ingress[k].target, s, NoSurface}
        /\ i.watermark = ingress[k].watermark \/ (e.order # 0 /\ i.watermark = Stamped(e))
    <3> DEFINE target == IF e.command = "clearOther" /\ e.name = "end" THEN NoSurface
                         ELSE IF s # NoSurface THEN s ELSE ingress[k].target
               watermark == IF e.order # 0 THEN Stamped(e) ELSE ingress[k].watermark
    <3>1. i = [ingress[k] EXCEPT !.target = target, !.watermark = watermark]
      BY DEF Commit
    <3>2. /\ target \in {ingress[k].target, s, NoSurface}
          /\ target \in Surfaces \cup {NoSurface} /\ watermark \in Stamp
          /\ watermark = ingress[k].watermark \/ (e.order # 0 /\ watermark = Stamped(e))
      <4>1. ingress[k].target \in Surfaces \cup {NoSurface} /\ ingress[k].watermark \in Stamp
        BY <1>0 DEF Ingress
      <4>2. target \in {ingress[k].target, s, NoSurface}
        OBVIOUS
      <4>3. watermark = ingress[k].watermark \/ (e.order # 0 /\ watermark = Stamped(e))
        OBVIOUS
      <4> HIDE DEF target, watermark
      <4> QED
        BY <1>0, <4>1, <4>2, <4>3
    <3> HIDE DEF i, target, watermark
    <3> QED
      BY <1>0, <3>1, <3>2 DEF Ingress
  <2>2. ingress' = [ingress EXCEPT ![k] = i]
    BY <1>2
  <2> HIDE DEF i
  <2> QED
    BY <1>0, <2>1, <2>2 DEF TypeOK
<1> QED
  BY <1>1, <1>2 DEF Apply

(* The agent session a command writes is its own, or that of its target    *)
(* with another lifecycle.                                                 *)
LEMMA ApplyAgents ==
  ASSUME TypeOK, NEW t \in Threads, Apply(t)
  PROVE  /\ agent' \in [Surfaces -> Agent \cup {NoAgent}]
         /\ \A s \in Surfaces : s # req[t].target \/ s \notin modelled => agent'[s] = agent[s]
         /\ \A s \in Surfaces : agent'[s] # agent[s] => 
              /\ agent'[s].life \in {"running", "idle", "ended"}
              /\ agent'[s].session \in {agent[s].session, req[t].event.session}
<1> DEFINE e == req[t].event
           s == req[t].target
<1>0. /\ e \in Event /\ e.session \in Sessions /\ s \in Surfaces \cup {NoSurface}
      /\ Reports[e.name] \in {"running", "idle", "ended"}
  BY ReqFields, EventFields DEF Apply, TypeOK
<1>1. CASE agent' = agent
  BY <1>1 DEF TypeOK
<1>2. ASSUME s # NoSurface, NEW a \in Mutated(e, s), agent' = [agent EXCEPT ![s] = a]
      PROVE  /\ a \in Agent \cup {NoAgent}
             /\ s \notin modelled => a = agent[s]
             /\ a # agent[s] => /\ a.life \in {"running", "idle", "ended"}
                                /\ a.session \in {agent[s].session, e.session}
  <2>0. s \in Surfaces
    BY <1>0, <1>2
  <2>1. CASE a = agent[s]
    BY <2>0, <2>1 DEF TypeOK
  <2>2. CASE /\ s \in modelled
             /\ a = [session |-> e.session, life |-> Reports[e.name]]
    BY <1>0, <2>2 DEF Agent
  <2>3. CASE /\ s \in modelled /\ agent[s].session = e.session
             /\ a = [agent[s] EXCEPT !.life = "ended"]
    <3>1. agent[s] \in Agent
      BY <1>0, <2>0, <2>3, AgentFields, NoneAssumption DEF NoAgent
    <3> QED
      BY <2>3, <3>1 DEF Agent
  <2> QED
    BY <1>2, <2>1, <2>2, <2>3 DEF Mutated
<1>3. ASSUME s # NoSurface, NEW a \in Mutated(e, s), agent' = [agent EXCEPT ![s] = a]
      PROVE  /\ agent' \in [Surfaces -> Agent \cup {NoAgent}]
             /\ \A r \in Surfaces : r # s \/ r \notin modelled => agent'[r] = agent[r]
             /\ \A r \in Surfaces : agent'[r] # agent[r] =>
                  /\ agent'[r].life \in {"running", "idle", "ended"}
                  /\ agent'[r].session \in {agent[r].session, e.session}
  BY <1>0, <1>2, <1>3 DEF TypeOK
<1> QED
  BY <1>1, <1>3 DEF Apply

LEMMA LifecycleMoves ==
  ASSUME TypeOK, NEW s \in Surfaces,
         NEW life \in {"running", "idle", "suspended", "ended"},
         agent' = WithLifecycle(s, life)
  PROVE  /\ agent' \in [Surfaces -> Agent \cup {NoAgent}]
         /\ \A r \in Surfaces : agent'[r].session = agent[r].session
         /\ \A r \in Surfaces : r # s \/ agent[r] = NoAgent => agent'[r] = agent[r]
         /\ agent'[s] = agent[s] \/ agent'[s].life = life
<1>1. CASE agent[s] = NoAgent
  BY <1>1 DEF WithLifecycle, TypeOK
<1>2. CASE agent[s] # NoAgent
  <2> DEFINE a == [agent[s] EXCEPT !.life = life]
  <2>1. agent[s] \in Agent
    BY <1>2, AgentFields
  <2>2. a \in Agent /\ a.session = agent[s].session /\ a.life = life
    BY <2>1 DEF Agent
  <2>3. agent' = [agent EXCEPT ![s] = a]
    BY <1>2 DEF WithLifecycle
  <2> HIDE DEF a
  <2> QED
    BY <1>2, <2>2, <2>3 DEF TypeOK
<1> QED
  BY <1>1, <1>2

LEMMA TopoMoves ==
  ASSUME TypeOK, topo.at # "idle",
         NEW at \in {"gates", "commit", "closing", "evict", "evicting"},
         NEW gates \in SUBSET Surfaces, NEW todo \in SUBSET Sessions,
         topo' = [topo EXCEPT !.at = at, !.gates = gates, !.todo = todo]
  PROVE  /\ topo' \in Topo
         /\ topo'.op = topo.op /\ topo'.at = at /\ topo'.surfaces = topo.surfaces
         /\ topo'.gates = gates /\ topo'.todo = todo
<1>1. topo \in Topo
  BY TopoFields
<1> QED
  BY <1>1 DEF Topo

(* What the operations that hold the surface-set guard do to it. *)
LEMMA TopoSteps ==
  ASSUME TypeOK
  PROVE  /\ LockGate =>
              \E s \in topo.surfaces :
                /\ topo.op \in {"close", "hibernate"} /\ topo.at = "gates"
                /\ GateFree(s) /\ s \in Surfaces
                /\ topo' \in Topo /\ topo'.op = topo.op /\ topo'.surfaces = topo.surfaces
                /\ topo'.gates = topo.gates \cup {s} /\ topo'.todo = topo.todo
                /\ \/ topo'.at = "gates"
                   \/ topo'.at = "commit" /\ topo'.gates = topo'.surfaces
         /\ CommitClose =>
              /\ topo.op \in {"close", "gtkClose"} /\ topo.at = "commit"
              /\ \/ /\ topo' \in Topo /\ topo'.op = topo.op
                    /\ topo'.surfaces = topo.surfaces
                    /\ topo'.gates = {} /\ topo'.at = "evict"
                    /\ modelled' = modelled \ topo.surfaces
                    /\ agent' = [s \in Surfaces |->
                                   IF s \in topo.surfaces THEN NoAgent ELSE agent[s]]
                    /\ runtime' = [s \in Surfaces |->
                                     IF s \in topo.surfaces THEN "none" ELSE runtime[s]]
                 \/ topo' = NoTopo /\ UNCHANGED modelVars
         /\ LockRegistry =>
              /\ topo.at = "evict" /\ topo' \in Topo /\ topo'.op = topo.op
              /\ topo'.surfaces = topo.surfaces /\ topo'.gates = topo.gates
              /\ topo'.at = "evicting" /\ topo'.todo = registered
         /\ CleanRecord =>
              \E k \in topo.todo :
                /\ topo.at = "evicting" /\ IngressFree(k) /\ k \in Sessions
                /\ topo' \in Topo /\ topo'.op = topo.op
                /\ topo'.surfaces = topo.surfaces /\ topo'.gates = topo.gates
                /\ topo'.at = "evicting" /\ topo'.todo = topo.todo \ {k}
                /\ ingress' = IF ingress[k].target \in topo.surfaces
                              THEN [ingress EXCEPT ![k].target = NoSurface] ELSE ingress
         /\ Suspend =>
              /\ topo.op = "hibernate" /\ topo.at = "commit"
              /\ \E s \in topo.surfaces :
                   \/ /\ agent' = WithLifecycle(s, "suspended")
                      /\ topo' \in Topo /\ topo'.op = topo.op
                      /\ topo'.surfaces = topo.surfaces /\ topo'.gates = topo.gates
                      /\ topo'.at = "closing"
                   \/ topo' = NoTopo /\ UNCHANGED agent
<1>0. /\ topo.gates \subseteq Surfaces /\ topo.todo \subseteq Sessions
      /\ topo.surfaces \subseteq Surfaces /\ registered \subseteq Sessions
      /\ topo.at # "idle" => topo \in Topo
  BY TopoFields DEF TypeOK
<1>1. ASSUME LockGate
      PROVE  \E s \in topo.surfaces :
               /\ topo.op \in {"close", "hibernate"} /\ topo.at = "gates"
               /\ GateFree(s) /\ s \in Surfaces
               /\ topo' \in Topo /\ topo'.op = topo.op /\ topo'.surfaces = topo.surfaces
               /\ topo'.gates = topo.gates \cup {s} /\ topo'.todo = topo.todo
               /\ \/ topo'.at = "gates"
                  \/ topo'.at = "commit" /\ topo'.gates = topo'.surfaces
  <2>1. PICK s \in topo.surfaces \ topo.gates :
          /\ GateFree(s)
          /\ topo' = [topo EXCEPT !.gates = @ \cup {s},
                                  !.at = IF topo.surfaces = topo.gates \cup {s}
                                         THEN "commit" ELSE @]
    BY <1>1 DEF LockGate
  <2>2. topo.at = "gates" /\ topo \in Topo /\ topo.op \in {"close", "hibernate"}
    BY <1>0, <1>1 DEF LockGate, TopoAt
  <2> DEFINE gates == topo.gates \cup {s}
             at == IF topo.surfaces = gates THEN "commit" ELSE "gates"
  <2>3. gates \in SUBSET Surfaces /\ s \in Surfaces
        /\ at \in {"gates", "commit"} /\ (at = "commit" => topo.surfaces = gates)
    BY <1>0
  <2>4. topo' = [topo EXCEPT !.gates = gates, !.at = at]
    BY <2>1, <2>2
  <2> HIDE DEF at
  <2>5. /\ topo' \in Topo /\ topo'.op = topo.op /\ topo'.surfaces = topo.surfaces
        /\ topo'.gates = gates /\ topo'.todo = topo.todo /\ topo'.at = at
    BY <2>2, <2>3, <2>4 DEF Topo
  <2> QED
    BY <2>1, <2>2, <2>3, <2>5
<1>2. CommitClose =>
        /\ topo.op \in {"close", "gtkClose"} /\ topo.at = "commit"
        /\ \/ /\ topo' \in Topo /\ topo'.op = topo.op
              /\ topo'.surfaces = topo.surfaces
              /\ topo'.gates = {} /\ topo'.at = "evict"
              /\ modelled' = modelled \ topo.surfaces
              /\ agent' = [s \in Surfaces |->
                             IF s \in topo.surfaces THEN NoAgent ELSE agent[s]]
              /\ runtime' = [s \in Surfaces |->
                               IF s \in topo.surfaces THEN "none" ELSE runtime[s]]
           \/ topo' = NoTopo /\ UNCHANGED modelVars
  BY <1>0 DEF CommitClose, TopoAt, TopoDone, GatesWhileEvicting, Topo
<1>3. LockRegistry =>
        /\ topo.at = "evict" /\ topo' \in Topo /\ topo'.op = topo.op
        /\ topo'.surfaces = topo.surfaces /\ topo'.gates = topo.gates
        /\ topo'.at = "evicting" /\ topo'.todo = registered
  BY <1>0 DEF LockRegistry, Topo
<1>4. ASSUME CleanRecord
      PROVE  \E k \in topo.todo :
               /\ topo.at = "evicting" /\ IngressFree(k) /\ k \in Sessions
               /\ topo' \in Topo /\ topo'.op = topo.op
               /\ topo'.surfaces = topo.surfaces /\ topo'.gates = topo.gates
               /\ topo'.at = "evicting" /\ topo'.todo = topo.todo \ {k}
               /\ ingress' = IF ingress[k].target \in topo.surfaces
                             THEN [ingress EXCEPT ![k].target = NoSurface] ELSE ingress
  <2>1. PICK k \in topo.todo :
          /\ IngressFree(k)
          /\ ingress' = IF ingress[k].target \in topo.surfaces
                        THEN [ingress EXCEPT ![k].target = NoSurface] ELSE ingress
          /\ topo' = [topo EXCEPT !.todo = @ \ {k}]
    BY <1>4 DEF CleanRecord, Cleanable
  <2>2. topo.at = "evicting" /\ topo \in Topo /\ topo.todo \ {k} \in SUBSET Sessions
    BY <1>0, <1>4 DEF CleanRecord
  <2>3. /\ topo' \in Topo /\ topo'.op = topo.op
        /\ topo'.surfaces = topo.surfaces /\ topo'.gates = topo.gates
        /\ topo'.at = "evicting" /\ topo'.todo = topo.todo \ {k}
    BY <2>1, <2>2 DEF Topo
  <2> QED
    BY <1>0, <2>1, <2>2, <2>3
<1>5. Suspend =>
        /\ topo.op = "hibernate" /\ topo.at = "commit"
        /\ \E s \in topo.surfaces :
             \/ /\ agent' = WithLifecycle(s, "suspended")
                /\ topo' \in Topo /\ topo'.op = topo.op
                /\ topo'.surfaces = topo.surfaces /\ topo'.gates = topo.gates
                /\ topo'.at = "closing"
             \/ topo' = NoTopo /\ UNCHANGED agent
  BY <1>0 DEF Suspend, TopoAt, TopoDone, TopoGoes, Topo
<1> QED
  BY <1>1, <1>2, <1>3, <1>4, <1>5

LEMMA CleanRecords ==
  ASSUME TypeOK, NEW k \in Sessions,
         ingress' = IF ingress[k].target \in topo.surfaces
                    THEN [ingress EXCEPT ![k].target = NoSurface] ELSE ingress
  PROVE  /\ ingress' \in [Sessions -> Ingress]
         /\ \A j \in Sessions \ {k} : ingress'[j] = ingress[j]
         /\ ingress'[k].watermark = ingress[k].watermark
         /\ ingress'[k].takeover = ingress[k].takeover
         /\ ingress'[k].target = IF ingress[k].target \in topo.surfaces
                                 THEN NoSurface ELSE ingress[k].target
<1>0. ingress[k] \in Ingress
  BY DEF TypeOK
<1>1. CASE ingress[k].target \in topo.surfaces
  <2> DEFINE i == [ingress[k] EXCEPT !.target = NoSurface]
  <2>1. /\ i \in Ingress /\ i.target = NoSurface
        /\ i.watermark = ingress[k].watermark /\ i.takeover = ingress[k].takeover
    BY <1>0 DEF Ingress
  <2>2. ingress' = [ingress EXCEPT ![k] = i]
    BY <1>1
  <2> HIDE DEF i
  <2> QED
    BY <1>1, <2>1, <2>2 DEF TypeOK
<1>2. CASE ingress[k].target \notin topo.surfaces
  BY <1>2 DEF TypeOK
<1> QED
  BY <1>1, <1>2

-----------------------------------------------------------------------------
(* Type correctness.                                                       *)

Panel(s) == Forget(s) \/ UndoForget(s)

(* Only the agents panel changes what toasts offer, and only it and a      *)
(* command's check change what is known to have been put back.             *)
LEMMA PanelElsewhere ==
  ASSUME [Next]_vars
  PROVE  \/ \E s \in Surfaces : Panel(s)
         \/ \E t \in Threads : Check(t)
         \/ UNCHANGED panelVars
<1>1. TopoStep => UNCHANGED panelVars
  BY DEF TopoStep, LockGate, CommitClose, LockRegistry, CleanRecord, EndClose, Suspend,
         CloseHibernated
<1>2. ASSUME NEW S, NEW op, BeginClose(S, op) PROVE UNCHANGED panelVars
  BY <1>2 DEF BeginClose
<1>3. ASSUME NEW s, BeginHibernate(s) \/ ChildExit(s) \/ Respawn(s) PROVE UNCHANGED panelVars
  BY <1>3 DEF BeginHibernate, ChildExit, Respawn
<1>4. UNCHANGED vars => UNCHANGED panelVars
  BY DEF vars, panelVars
<1>5. ASSUME NEW t, Resolve(t) \/ Apply(t) \/ \E e \in Event : Enter(t, e)
      PROVE  UNCHANGED panelVars
  BY <1>5 DEF Resolve, Apply, Enter
<1> QED
  BY <1>1, <1>2, <1>3, <1>4, <1>5 DEF Next, HookStep, Panel

LEMMA PanelType ==
  ASSUME TypeOK, [Next]_vars
  PROVE  toast' \in [Surfaces -> Agent \cup {NoAgent}] /\ putBack' \subseteq Surfaces
<1>1. ASSUME NEW s \in Surfaces, Forget(s)
      PROVE  toast' \in [Surfaces -> Agent \cup {NoAgent}] /\ putBack' = putBack
  BY <1>1 DEF Forget, TypeOK
<1>2. ASSUME NEW s \in Surfaces, UndoForget(s)
      PROVE  /\ toast' \in [Surfaces -> Agent \cup {NoAgent}]
             /\ putBack' \subseteq putBack \cup {s}
  BY <1>2 DEF UndoForget, TypeOK
<1>3. ASSUME NEW t \in Threads, Check(t)
      PROVE  toast' = toast /\ putBack' \subseteq putBack
  BY <1>3 DEF Check
<1>4. toast \in [Surfaces -> Agent \cup {NoAgent}] /\ putBack \subseteq Surfaces
  BY DEF TypeOK
<1> QED
  BY <1>1, <1>2, <1>3, <1>4, PanelElsewhere DEF Panel, panelVars

LEMMA InitType == Init => TypeOK
<1> SUFFICES ASSUME Init PROVE TypeOK
  OBVIOUS
<1>1. agent \in [Surfaces -> Agent \cup {NoAgent}]
  BY DEF Init, Agent
<1>2. ingress \in [Sessions -> Ingress]
  BY DEF Init, Ingress, NewIngress, Stamp, NoStamp
<1> QED
  BY <1>1, <1>2, BoundAssumption DEF Init, TypeOK

LEMMA TypeStep == TypeOK /\ [Next]_vars => TypeOK'
<1> SUFFICES ASSUME TypeOK, [Next]_vars PROVE TypeOK'
  OBVIOUS
<1>0. toast' \in [Surfaces -> Agent \cup {NoAgent}] /\ putBack' \subseteq Surfaces
  BY PanelType
<1>1. ASSUME NEW t \in Threads, NEW e \in Event, Enter(t, e) PROVE TypeOK'
  <2>1. requests' \in 0 .. MaxRequests
    BY <1>1, BoundAssumption DEF Enter, TypeOK
  <2>2. registered' \subseteq Sessions /\ ingress' \in [Sessions -> Ingress]
    BY <1>1, EnterRecords
  <2>3. req' \in [Threads -> Request \cup {NoRequest}]
    BY <1>1, EnterMoves
  <2>4. UNCHANGED <<modelVars, topo>>
    BY <1>1 DEF Enter
  <2> QED
    BY <1>0, <2>1, <2>2, <2>3, <2>4 DEF TypeOK, modelVars
<1>2. ASSUME NEW t \in Threads, Resolve(t) PROVE TypeOK'
  BY <1>0, <1>2, ResolveMoves DEF Resolve, TypeOK, modelVars
<1>3. ASSUME NEW t \in Threads, Check(t) PROVE TypeOK'
  <2>1. ingress' \in [Sessions -> Ingress]
    BY <1>3, CheckRecords
  <2> QED
    BY <1>0, <1>3, <2>1, CheckMoves DEF Check, TypeOK, modelVars
<1>4. ASSUME NEW t \in Threads, Apply(t) PROVE TypeOK'
  <2>1. ingress' \in [Sessions -> Ingress]
    BY <1>4, ApplyRecords
  <2> QED
    BY <1>0, <1>4, <2>1, ApplyMoves, ApplyAgents DEF Apply, TypeOK
<1>5. ASSUME LockGate PROVE TypeOK'
  <2>1. topo' \in Topo
    BY <1>5, TopoSteps
  <2> QED
    BY <1>0, <1>5, <2>1 DEF LockGate, TypeOK, modelVars
<1>6. ASSUME CommitClose PROVE TypeOK'
  <2>1. UNCHANGED <<registered, ingress, req, requests>>
    BY <1>6 DEF CommitClose
  <2>2. CASE topo' = NoTopo /\ UNCHANGED modelVars
    BY <1>0, <2>1, <2>2 DEF TypeOK, modelVars
  <2>3. CASE ~ (topo' = NoTopo /\ UNCHANGED modelVars)
    <3>1. /\ topo' \in Topo
          /\ modelled' = modelled \ topo.surfaces
          /\ agent' = [s \in Surfaces |-> IF s \in topo.surfaces THEN NoAgent ELSE agent[s]]
          /\ runtime' = [s \in Surfaces |-> IF s \in topo.surfaces THEN "none" ELSE runtime[s]]
      BY <1>6, <2>3, TopoSteps
    <3> QED
      BY <1>0, <2>1, <3>1 DEF TypeOK
  <2> QED
    BY <2>2, <2>3
<1>7. ASSUME LockRegistry PROVE TypeOK'
  <2>1. topo' \in Topo
    BY <1>7, TopoSteps
  <2> QED
    BY <1>0, <1>7, <2>1 DEF LockRegistry, TypeOK, modelVars
<1>8. ASSUME CleanRecord PROVE TypeOK'
  <2>1. PICK k \in topo.todo :
          /\ k \in Sessions /\ topo' \in Topo
          /\ ingress' = IF ingress[k].target \in topo.surfaces
                        THEN [ingress EXCEPT ![k].target = NoSurface] ELSE ingress
    BY <1>8, TopoSteps
  <2>2. ingress' \in [Sessions -> Ingress]
    BY <2>1, CleanRecords
  <2> QED
    BY <1>0, <1>8, <2>1, <2>2 DEF CleanRecord, TypeOK, modelVars
<1>9. ASSUME EndClose PROVE TypeOK'
  BY <1>0, <1>9 DEF EndClose, TopoDone, TypeOK, modelVars
<1>10. ASSUME Suspend PROVE TypeOK'
  <2>1. PICK s \in topo.surfaces :
          \/ agent' = WithLifecycle(s, "suspended") /\ topo' \in Topo
          \/ topo' = NoTopo /\ UNCHANGED agent
    BY <1>10, TopoSteps
  <2>2. s \in Surfaces
    BY TopoFields
  <2>3. agent' \in [Surfaces -> Agent \cup {NoAgent}] /\ topo' \in Topo \cup {NoTopo}
    BY <2>1, <2>2, LifecycleMoves DEF TypeOK
  <2> QED
    BY <1>0, <1>10, <2>3 DEF Suspend, TypeOK
<1>11. ASSUME CloseHibernated PROVE TypeOK'
  <2>1. PICK s \in topo.surfaces :
          \/ runtime' = [runtime EXCEPT ![s] = "none"] /\ UNCHANGED agent
          \/ agent' = WithLifecycle(s, "idle") /\ UNCHANGED runtime
    BY <1>11 DEF CloseHibernated
  <2>2. s \in Surfaces
    BY TopoFields
  <2>3. /\ agent' \in [Surfaces -> Agent \cup {NoAgent}]
        /\ runtime' \in [Surfaces -> {"none", "running", "exited"}]
    BY <1>0, <2>1, <2>2, LifecycleMoves DEF TypeOK
  <2> QED
    BY <1>0, <1>11, <2>3 DEF CloseHibernated, TopoDone, TypeOK
<1>12. ASSUME NEW S \in SUBSET Surfaces, NEW op \in {"close", "gtkClose"}, BeginClose(S, op)
       PROVE  TypeOK'
  <2>1. topo' \in Topo
    BY <1>12 DEF BeginClose, Topo
  <2> QED
    BY <1>0, <1>12, <2>1, BoundAssumption DEF BeginClose, TypeOK, modelVars
<1>13. ASSUME NEW s \in Surfaces, BeginHibernate(s) PROVE TypeOK'
  <2>1. topo' \in Topo
    BY <1>13 DEF BeginHibernate, Topo
  <2> QED
    BY <1>0, <1>13, <2>1, BoundAssumption DEF BeginHibernate, TypeOK, modelVars
<1>14. ASSUME NEW s \in Surfaces, ChildExit(s) PROVE TypeOK'
  <2>1. agent' \in [Surfaces -> Agent \cup {NoAgent}]
    BY <1>14, LifecycleMoves DEF ChildExit
  <2> QED
    BY <1>0, <1>14, <2>1 DEF ChildExit, TypeOK
<1>15. ASSUME NEW s \in Surfaces, Respawn(s) PROVE TypeOK'
  BY <1>0, <1>15 DEF Respawn, TypeOK
<1>16. ASSUME NEW s \in Surfaces, Panel(s) PROVE TypeOK'
  <2>1. CASE Forget(s)
    <3>1. requests' \in 0 .. MaxRequests
      BY <2>1, BoundAssumption DEF Forget, TypeOK
    <3> QED
      BY <1>0, <2>1, <3>1 DEF Forget, TypeOK
  <2>2. CASE UndoForget(s)
    <3>1. agent' \in [Surfaces -> Agent \cup {NoAgent}]
      BY <2>2 DEF UndoForget, TypeOK
    <3> QED
      BY <1>0, <2>2, <3>1 DEF UndoForget, TypeOK
  <2> QED
    BY <1>16, <2>1, <2>2 DEF Panel
<1>17. CASE UNCHANGED vars
  BY <1>0, <1>17 DEF vars, modelVars, TypeOK
<1> QED
  BY <1>1, <1>2, <1>3, <1>4, <1>5, <1>6, <1>7, <1>8, <1>9, <1>10, <1>11, <1>12, <1>13,
     <1>14, <1>15, <1>16, <1>17 DEF Next, HookStep, TopoStep, Panel

(* In every reachable state the surfaces, agents, ingress records, hook    *)
(* commands and the operation under the surface-set guard are well formed. *)
THEOREM TypeCorrect == Spec => []TypeOK
<1> QED
  BY InitType, TypeStep, PTL DEF Spec

-----------------------------------------------------------------------------
(* Locks: who may be where at the same time.                               *)

Past(t) == req[t].at \in {"resolved", "checked"}
Checked(t, s) == req[t].at = "checked" /\ req[t].target = s

(* One command of a session at a time is past its entry, and its record    *)
(* stays registered.                                                       *)
RecordsHeld ==
  /\ \A t \in Threads : req[t].at # "idle" => req[t].event.session \in registered
  /\ \A t, u \in Threads :
       (Past(t) /\ Past(u) /\ req[t].event.session = req[u].event.session) => t = u

(* The gate of a surface has one holder: a command or a close.             *)
GatesExclusive ==
  \A s \in Surfaces, t \in Threads : Checked(t, s) =>
    /\ s \notin topo.gates
    /\ \A u \in Threads : Checked(u, s) => u = t

(* A close over the socket and a hibernation act with all their gates.     *)
ClosersHoldGates ==
  /\ topo.op = "hibernate" => topo.at \in {"gates", "commit", "closing"}
  /\ topo.op = "gtkClose" => topo.at \in {"commit", "evict", "evicting"}
  /\ topo.at = "closing" => topo.op = "hibernate"
  /\ (topo.op \in {"close", "hibernate"} /\ topo.at \in {"commit", "closing"}) =>
       topo.gates = topo.surfaces

LockInv == RecordsHeld /\ GatesExclusive /\ ClosersHoldGates

LEMMA LockInit == Init => LockInv
BY DEF Init, LockInv, RecordsHeld, GatesExclusive, ClosersHoldGates, Past, Checked,
       NoRequest, NoTopo

(* Only hook commands change the commands served and the registry. *)
LEMMA Elsewhere ==
  ASSUME [Next]_vars
  PROVE  \/ \E t \in Threads, e \in Event : Enter(t, e)
         \/ \E t \in Threads : Resolve(t) \/ Check(t) \/ Apply(t)
         \/ UNCHANGED <<req, registered>>
<1>1. TopoStep => UNCHANGED <<req, registered>>
  BY DEF TopoStep, LockGate, CommitClose, LockRegistry, CleanRecord, EndClose, Suspend,
         CloseHibernated
<1>2. ASSUME NEW S, NEW op, BeginClose(S, op) PROVE UNCHANGED <<req, registered>>
  BY <1>2 DEF BeginClose
<1>3. ASSUME NEW s, BeginHibernate(s) \/ ChildExit(s) \/ Respawn(s) \/ Panel(s)
      PROVE  UNCHANGED <<req, registered>>
  BY <1>3 DEF BeginHibernate, ChildExit, Respawn, Panel, Forget, UndoForget
<1>4. UNCHANGED vars => UNCHANGED <<req, registered>>
  BY DEF vars
<1> QED
  BY <1>1, <1>2, <1>3, <1>4 DEF Next, HookStep, Panel

LEMMA RecordsHeldStep ==
  ASSUME TypeOK, RecordsHeld, [Next]_vars
  PROVE  RecordsHeld'
<1>1. ASSUME NEW t \in Threads, NEW e \in Event, Enter(t, e) PROVE RecordsHeld'
  <2>1. /\ req[t].at = "idle" /\ req'[t].at = "entered" /\ req'[t].event = e
        /\ \A u \in Threads \ {t} : req'[u] = req[u]
    BY <1>1, EnterMoves
  <2>2. /\ e.session \in registered'
        /\ \A k \in registered : (\E u \in Threads : Serving(u, k)) => k \in registered'
    BY <1>1, EnterRecords
  <2>3. \A u \in Threads : req[u].at # "idle" => req[u].event.session \in registered'
    BY <2>2 DEF RecordsHeld, Serving
  <2> QED
    BY <2>1, <2>2, <2>3 DEF RecordsHeld, Past
<1>2. ASSUME NEW t \in Threads, Resolve(t) PROVE RecordsHeld'
  <2>1. /\ req[t].at = "entered"
        /\ req'[t].at = "idle" \/ req'[t].event = req[t].event
        /\ \A u \in Threads \ {t} : req'[u] = req[u]
    BY <1>2, ResolveMoves
  <2>2. IngressFree(req[t].event.session) /\ registered' = registered
    BY <1>2 DEF Resolve
  <2>3. \A u \in Threads : Past(u) => req[u].event.session # req[t].event.session
    BY <2>2 DEF IngressFree, Serving, Past
  <2> QED
    BY <2>1, <2>2, <2>3 DEF RecordsHeld, Past
<1>3. ASSUME NEW t \in Threads, Check(t) \/ Apply(t) PROVE RecordsHeld'
  <2>1. /\ Past(t)
        /\ req'[t].at = "idle" \/ req'[t].event = req[t].event
        /\ \A u \in Threads \ {t} : req'[u] = req[u]
    BY <1>3, CheckMoves, ApplyMoves DEF Past
  <2>2. registered' = registered
    BY <1>3 DEF Check, Apply
  <2> QED
    BY <2>1, <2>2 DEF RecordsHeld, Past
<1>4. CASE UNCHANGED <<req, registered>>
  BY <1>4 DEF RecordsHeld, Past
<1> QED
  BY <1>1, <1>2, <1>3, <1>4, Elsewhere

(* What happens to the operation that holds the surface-set guard.         *)
LEMMA TopoKinds ==
  ASSUME TypeOK, [Next]_vars
  PROVE  \/ topo' = topo
         \/ req' = req /\ (LockGate \/ CommitClose \/ LockRegistry \/ CleanRecord \/ Suspend)
         \/ /\ req' = req /\ topo' = NoTopo
            /\ EndClose \/ CloseHibernated
         \/ /\ req' = req /\ topo = NoTopo /\ topo' \in Topo /\ topo'.gates = {}
            /\ \/ topo'.op \in {"close", "hibernate"} /\ topo'.at = "gates"
               \/ topo'.op = "gtkClose" /\ topo'.at = "commit"
<1>1. ASSUME NEW t \in Threads, HookStep(t) \/ \E e \in Event : Enter(t, e) PROVE topo' = topo
  BY <1>1 DEF HookStep, Enter, Resolve, Check, Apply
<1>2. ASSUME NEW S \in SUBSET Surfaces, NEW op \in {"close", "gtkClose"}, BeginClose(S, op)
      PROVE  /\ req' = req /\ topo = NoTopo /\ topo' \in Topo /\ topo'.gates = {}
             /\ \/ topo'.op \in {"close", "hibernate"} /\ topo'.at = "gates"
                \/ topo'.op = "gtkClose" /\ topo'.at = "commit"
  BY <1>2 DEF BeginClose, Topo
<1>3. ASSUME NEW s \in Surfaces, BeginHibernate(s)
      PROVE  /\ req' = req /\ topo = NoTopo /\ topo' \in Topo /\ topo'.gates = {}
             /\ topo'.op \in {"close", "hibernate"} /\ topo'.at = "gates"
  BY <1>3 DEF BeginHibernate, Topo
<1>4. ASSUME NEW s \in Surfaces, ChildExit(s) \/ Respawn(s) \/ Panel(s) PROVE topo' = topo
  BY <1>4 DEF ChildExit, Respawn, Panel, Forget, UndoForget
<1>5. UNCHANGED vars => topo' = topo
  BY DEF vars
<1>6. TopoStep => req' = req
  BY DEF TopoStep, LockGate, CommitClose, LockRegistry, CleanRecord, EndClose, Suspend,
         CloseHibernated
<1>7. EndClose \/ CloseHibernated => topo' = NoTopo
  BY DEF EndClose, CloseHibernated, TopoDone
<1> QED
  BY <1>1, <1>2, <1>3, <1>4, <1>5, <1>6, <1>7 DEF Next, TopoStep, Panel

LEMMA GatesExclusiveStep ==
  ASSUME TypeOK, RecordsHeld, GatesExclusive, [Next]_vars
  PROVE  GatesExclusive'
<1>1. CASE topo' = topo
  <2>1. ASSUME NEW t \in Threads, Check(t), req'[t].at = "checked" PROVE GatesExclusive'
    <3>1. /\ req'[t].target = req[t].target /\ req[t].at = "resolved"
          /\ \A u \in Threads \ {t} : req'[u] = req[u]
      BY <2>1, CheckMoves
    <3>2. req[t].target = NoSurface \/ GateFree(req[t].target)
      BY <2>1 DEF Check, GateTakable
    <3>3. ASSUME NEW s \in Surfaces, req[t].target = s
          PROVE  s \notin topo.gates /\ \A u \in Threads : ~ Checked(u, s)
      BY <3>2, <3>3, NoneAssumption DEF GateFree, Checked
    <3> QED
      BY <1>1, <2>1, <3>1, <3>3 DEF GatesExclusive, Checked
  <2>2. ASSUME NEW t \in Threads, req'[t].at # "checked",
               \A u \in Threads \ {t} : req'[u] = req[u]
        PROVE  GatesExclusive'
    BY <1>1, <2>2 DEF GatesExclusive, Checked
  <2>3. ASSUME NEW t \in Threads, NEW e \in Event, Enter(t, e) PROVE GatesExclusive'
    BY <2>2, <2>3, EnterMoves
  <2>4. ASSUME NEW t \in Threads, Resolve(t) \/ Check(t) \/ Apply(t) PROVE GatesExclusive'
    BY <2>1, <2>2, <2>4, ResolveMoves, CheckMoves, ApplyMoves
  <2>5. CASE UNCHANGED <<req, registered>>
    BY <1>1, <2>5 DEF GatesExclusive, Checked
  <2> QED
    BY <2>3, <2>4, <2>5, Elsewhere
<1>2. CASE LockGate /\ req' = req
  <2>1. PICK s \in Surfaces : GateFree(s) /\ topo'.gates = topo.gates \cup {s}
    BY <1>2, TopoSteps
  <2> QED
    BY <1>2, <2>1 DEF GatesExclusive, GateFree, Checked
<1>3. ASSUME topo'.gates \subseteq topo.gates, req' = req PROVE GatesExclusive'
  BY <1>3 DEF GatesExclusive, Checked
<1>4. NoTopo.gates = {}
  BY DEF NoTopo
<1>5. CommitClose \/ LockRegistry \/ CleanRecord \/ Suspend => topo'.gates \subseteq topo.gates
  BY <1>4, TopoSteps
<1> QED
  BY <1>1, <1>2, <1>3, <1>4, <1>5, TopoKinds

LEMMA ClosersHoldGatesStep ==
  ASSUME TypeOK, ClosersHoldGates, [Next]_vars
  PROVE  ClosersHoldGates'
<1>1. CASE topo' = topo
  BY <1>1 DEF ClosersHoldGates
<1>2. CASE topo' = NoTopo
  BY <1>2 DEF ClosersHoldGates, NoTopo
<1>3. CASE LockGate
  BY <1>3, TopoSteps DEF ClosersHoldGates
<1>4. CASE CommitClose
  BY <1>2, <1>4, TopoSteps DEF ClosersHoldGates
<1>5. CASE LockRegistry \/ CleanRecord
  <2>1. topo'.op = topo.op /\ topo.at \in {"evict", "evicting"} /\ topo'.at = "evicting"
    BY <1>5, TopoSteps
  <2> QED
    BY <2>1 DEF ClosersHoldGates
<1>6. CASE Suspend
  BY <1>2, <1>6, TopoSteps DEF ClosersHoldGates
<1>7. CASE \/ topo'.op \in {"close", "hibernate"} /\ topo'.at = "gates"
           \/ topo'.op = "gtkClose" /\ topo'.at = "commit"
  BY <1>7 DEF ClosersHoldGates
<1> QED
  BY <1>1, <1>2, <1>3, <1>4, <1>5, <1>6, <1>7, TopoKinds

LEMMA LockStep == TypeOK /\ LockInv /\ [Next]_vars => LockInv'
BY RecordsHeldStep, GatesExclusiveStep, ClosersHoldGatesStep DEF LockInv

-----------------------------------------------------------------------------
(* What a command has checked stays true until it is applied.              *)

(* A surface that is gone has no agent.  The surface a checked command     *)
(* targets is not suspended, and if another live session owns it, the      *)
(* takeover from that owner is granted, unless Undo has put back a session *)
(* there since the check.                                                  *)
ClosedUnbound == \A s \in Surfaces : s \notin modelled => agent[s] = NoAgent
CheckStillGood ==
  \A s \in Surfaces, t \in Threads : Checked(t, s) /\ s \notin putBack =>
    /\ agent[s].life # "suspended"
    /\ (agent[s].life \in {"running", "idle"} /\ agent[s].session # req[t].event.session) =>
         ingress[req[t].event.session].takeover.from = agent[s].session
OwnerInv == ClosedUnbound /\ CheckStillGood

(* No event newer than a checked one is applied before it. *)
OrderInv == \A t \in Threads : req[t].at = "checked" => ~ Stale(req[t].event)

(* The effect of a step on the records and the agents, for commands that   *)
(* were and stay checked.                                                  *)
LEMMA StayChecked ==
  ASSUME TypeOK, LockInv, [Next]_vars, NEW u \in Threads,
         req[u].at = "checked", req'[u].at = "checked"
  PROVE  /\ req'[u] = req[u]
         /\ req[u].event \in Event
         /\ ingress'[req[u].event.session].watermark
              = ingress[req[u].event.session].watermark
         /\ ingress'[req[u].event.session].takeover
              = ingress[req[u].event.session].takeover
<1> DEFINE k == req[u].event.session
<1>0. req[u].event \in Event /\ k \in Sessions /\ k \in registered /\ Serving(u, k) /\ Past(u)
  BY ReqFields, EventFields DEF LockInv, RecordsHeld, Serving, Past
<1>1. ASSUME NEW t \in Threads, NEW e \in Event, Enter(t, e)
      PROVE  req'[u] = req[u] /\ ingress'[k] = ingress[k]
  BY <1>0, <1>1, EnterMoves, EnterRecords
<1>2. ASSUME NEW t \in Threads, Resolve(t)
      PROVE  req'[u] = req[u] /\ ingress'[k] = ingress[k]
  BY <1>2, ResolveMoves DEF Resolve
<1>3. ASSUME NEW t \in Threads, Check(t) \/ Apply(t)
      PROVE  req'[u] = req[u] /\ ingress'[k] = ingress[k]
  <2>1. t # u /\ Past(t)
    BY <1>3, CheckMoves, ApplyMoves DEF Past
  <2>2. req[t].event.session # k
    BY <1>0, <2>1 DEF LockInv, RecordsHeld
  <2>3. req'[u] = req[u]
    BY <1>3, <2>1, CheckMoves, ApplyMoves
  <2>4. \A j \in Sessions \ {req[t].event.session} : ingress'[j] = ingress[j]
    BY <1>3, CheckRecords, ApplyRecords
  <2> QED
    BY <1>0, <2>2, <2>3, <2>4
<1>4. ASSUME CleanRecord
      PROVE  /\ req'[u] = req[u]
             /\ ingress'[k].watermark = ingress[k].watermark
             /\ ingress'[k].takeover = ingress[k].takeover
  <2>1. PICK j \in topo.todo :
          /\ j \in Sessions
          /\ ingress' = IF ingress[j].target \in topo.surfaces
                        THEN [ingress EXCEPT ![j].target = NoSurface] ELSE ingress
    BY <1>4, TopoSteps
  <2>2. req' = req
    BY <1>4 DEF CleanRecord
  <2> QED
    BY <1>0, <2>1, <2>2, CleanRecords
<1>5. ASSUME TopoStep, ~ CleanRecord PROVE req' = req /\ ingress' = ingress
  BY <1>5 DEF TopoStep, LockGate, CommitClose, LockRegistry, EndClose, Suspend,
              CloseHibernated
<1>6. ASSUME NEW S, NEW op, BeginClose(S, op) PROVE req' = req /\ ingress' = ingress
  BY <1>6 DEF BeginClose
<1>7. ASSUME NEW s, BeginHibernate(s) \/ ChildExit(s) \/ Respawn(s) \/ Panel(s)
      PROVE  req' = req /\ ingress' = ingress
  BY <1>7 DEF BeginHibernate, ChildExit, Respawn, Panel, Forget, UndoForget
<1>8. UNCHANGED vars => req' = req /\ ingress' = ingress
  BY DEF vars
<1> QED
  BY <1>0, <1>1, <1>2, <1>3, <1>4, <1>5, <1>6, <1>7, <1>8 DEF Next, HookStep, Panel

(* A command becomes checked by its check. *)
LEMMA BecomesChecked ==
  ASSUME TypeOK, [Next]_vars, NEW u \in Threads,
         req[u].at # "checked", req'[u].at = "checked"
  PROVE  Check(u)
<1>1. ASSUME NEW t \in Threads, NEW e \in Event, Enter(t, e) PROVE FALSE
  <2>1. /\ req'[t].at = "entered"
        /\ \A v \in Threads \ {t} : req'[v] = req[v]
    BY <1>1, EnterMoves
  <2> QED
    BY <2>1
<1>2. ASSUME NEW t \in Threads, Resolve(t) \/ Apply(t) PROVE FALSE
  <2>1. /\ req'[t].at # "checked"
        /\ \A v \in Threads \ {t} : req'[v] = req[v]
    BY <1>2, ResolveMoves, ApplyMoves
  <2> QED
    BY <2>1
<1>3. ASSUME NEW t \in Threads, Check(t) PROVE t = u
  BY <1>3, CheckMoves
<1> QED
  BY <1>1, <1>2, <1>3, Elsewhere

LEMMA OrderInit == Init => OrderInv
BY DEF Init, OrderInv, NoRequest

LEMMA OrderStep == TypeOK /\ LockInv /\ OrderInv /\ [Next]_vars => OrderInv'
<1> SUFFICES ASSUME TypeOK, LockInv, OrderInv, [Next]_vars,
                    NEW u \in Threads, req'[u].at = "checked"
             PROVE  ~ Stale(req[u].event)'
  BY DEF OrderInv
<1>1. CASE req[u].at = "checked"
  <2>1. ~ Stale(req[u].event)
    BY <1>1 DEF OrderInv
  <2>2. /\ req'[u] = req[u]
        /\ ingress'[req[u].event.session].watermark
             = ingress[req[u].event.session].watermark
    BY <1>1, StayChecked
  <2> QED
    BY <2>1, <2>2 DEF Stale
<1>2. CASE req[u].at # "checked"
  <2>1. Check(u)
    BY <1>2, BecomesChecked
  <2>2. /\ ~ Stale(req[u].event)
        /\ ingress'[req[u].event.session].watermark
             = ingress[req[u].event.session].watermark
        /\ req'[u].event = req[u].event
    BY <2>1, CheckRecords, CheckMoves
  <2> QED
    BY <2>2 DEF Stale
<1> QED
  BY <1>1, <1>2

(* Every way an agent session bound to a surface changes. *)
LEMMA AgentSteps ==
  ASSUME TypeOK, LockInv, [Next]_vars, NEW s \in Surfaces
  PROVE  /\ s \notin modelled' => s \notin modelled \/ agent'[s] = NoAgent
         /\ \/ agent'[s] = agent[s]
            \/ agent'[s] = NoAgent
            \/ /\ agent[s] # NoAgent
               /\ agent'[s].session = agent[s].session
               /\ agent'[s].life = "ended" \/ s \in topo.gates
            \/ agent[s] = NoAgent /\ s \in modelled /\ s \in putBack'
            \/ \E t \in Threads :
                 /\ Apply(t) /\ Checked(t, s) /\ s \in modelled
                 /\ agent'[s].life \in {"running", "idle", "ended"}
                 /\ agent'[s].session \in {agent[s].session, req[t].event.session}
<1> DEFINE Goal ==
             /\ s \notin modelled' => s \notin modelled \/ agent'[s] = NoAgent
             /\ \/ agent'[s] = agent[s]
                \/ agent'[s] = NoAgent
                \/ /\ agent[s] # NoAgent
                   /\ agent'[s].session = agent[s].session
                   /\ agent'[s].life = "ended" \/ s \in topo.gates
                \/ agent[s] = NoAgent /\ s \in modelled /\ s \in putBack'
                \/ \E t \in Threads :
                     /\ Apply(t) /\ Checked(t, s) /\ s \in modelled
                     /\ agent'[s].life \in {"running", "idle", "ended"}
                     /\ agent'[s].session \in {agent[s].session, req[t].event.session}
<1> SUFFICES Goal
  OBVIOUS
<1>1. ASSUME modelled' = modelled, agent' = agent PROVE Goal
  BY <1>1
<1>2. ASSUME NEW t \in Threads, Apply(t) PROVE Goal
  <2>1. req[t].at = "checked" /\ modelled' = modelled
    BY <1>2 DEF Apply
  <2> QED
    BY <1>2, <2>1, ApplyAgents DEF Checked
<1>3. ASSUME CommitClose PROVE Goal
  <2>1. CASE UNCHANGED modelVars
    BY <1>1, <2>1 DEF modelVars
  <2>2. CASE /\ modelled' = modelled \ topo.surfaces
             /\ agent' = [r \in Surfaces |-> IF r \in topo.surfaces THEN NoAgent ELSE agent[r]]
    BY <2>2
  <2> QED
    BY <1>3, <2>1, <2>2, TopoSteps
<1>4. ASSUME NEW r \in topo.surfaces, NEW life \in {"idle", "suspended"},
             agent' = WithLifecycle(r, life), modelled' = modelled,
             topo.gates = topo.surfaces
      PROVE  Goal
  <2>1. r \in Surfaces
    BY TopoFields
  <2>2. /\ agent'[s].session = agent[s].session
        /\ s # r \/ agent[s] = NoAgent => agent'[s] = agent[s]
    BY <1>4, <2>1, LifecycleMoves
  <2> QED
    BY <1>4, <2>2
<1>5. ASSUME Suspend PROVE Goal
  <2>1. topo.gates = topo.surfaces /\ modelled' = modelled
    BY <1>5, TopoSteps DEF LockInv, ClosersHoldGates, Suspend
  <2>2. PICK r \in topo.surfaces : agent' = agent \/ agent' = WithLifecycle(r, "suspended")
    BY <1>5, TopoSteps
  <2> QED
    BY <1>1, <1>4, <2>1, <2>2
<1>6. ASSUME CloseHibernated PROVE Goal
  <2>1. topo.gates = topo.surfaces /\ modelled' = modelled
    BY <1>6 DEF LockInv, ClosersHoldGates, CloseHibernated
  <2>2. PICK r \in topo.surfaces : agent' = agent \/ agent' = WithLifecycle(r, "idle")
    BY <1>6 DEF CloseHibernated
  <2> QED
    BY <1>1, <1>4, <2>1, <2>2
<1>7. ASSUME NEW r \in Surfaces, ChildExit(r) PROVE Goal
  <2>1. agent' = WithLifecycle(r, "ended") /\ modelled' = modelled
    BY <1>7 DEF ChildExit
  <2>2. /\ agent'[s].session = agent[s].session
        /\ s # r \/ agent[s] = NoAgent => agent'[s] = agent[s]
        /\ agent'[r] = agent[r] \/ agent'[r].life = "ended"
    BY <2>1, LifecycleMoves
  <2> QED
    BY <2>1, <2>2
<1>8. ASSUME NEW r \in Surfaces, Panel(r) PROVE Goal
  <2>1. CASE Forget(r)
    BY <2>1 DEF Forget, TypeOK
  <2>2. CASE UndoForget(r)
    BY <1>1, <2>2 DEF UndoForget, Restorable, TypeOK
  <2> QED
    BY <1>8, <2>1, <2>2 DEF Panel
<1>9. ASSUME NEW t \in Threads, Resolve(t) \/ Check(t) \/ \E e \in Event : Enter(t, e)
      PROVE  modelled' = modelled /\ agent' = agent
  BY <1>9 DEF Resolve, Check, Enter, modelVars
<1>10. ASSUME LockGate \/ LockRegistry \/ CleanRecord \/ EndClose
       PROVE  modelled' = modelled /\ agent' = agent
  BY <1>10 DEF LockGate, LockRegistry, CleanRecord, EndClose, modelVars
<1>11. ASSUME NEW S, NEW op, BeginClose(S, op) PROVE modelled' = modelled /\ agent' = agent
  BY <1>11 DEF BeginClose, modelVars
<1>12. ASSUME NEW r, BeginHibernate(r) \/ Respawn(r)
       PROVE  modelled' = modelled /\ agent' = agent
  BY <1>12 DEF BeginHibernate, Respawn, modelVars
<1>13. UNCHANGED vars => modelled' = modelled /\ agent' = agent
  BY DEF vars
<1> HIDE DEF Goal
<1> QED
  BY <1>1, <1>2, <1>3, <1>5, <1>6, <1>7, <1>8, <1>9, <1>10, <1>11, <1>12, <1>13
     DEF Next, HookStep, TopoStep, Panel

(* A checked command's surface stays among those with a session put back,  *)
(* as no other command is checked on it.                                   *)
LEMMA PutBackStays ==
  ASSUME TypeOK, [Next]_vars, NEW s \in Surfaces, NEW u \in Threads,
         Checked(u, s), s \in putBack
  PROVE  s \in putBack'
<1>1. ASSUME NEW t \in Threads, Check(t) PROVE s \in putBack'
  <2>1. s # NoSurface
    BY NoneAssumption
  <2>2. req[t].target # s
    BY <1>1, <2>1 DEF Check, GateTakable, GateFree, Checked
  <2> QED
    BY <1>1, <2>2 DEF Check
<1>2. ASSUME NEW r \in Surfaces, Panel(r) PROVE s \in putBack'
  BY <1>2 DEF Panel, Forget, UndoForget
<1> QED
  BY <1>1, <1>2, PanelElsewhere DEF panelVars

LEMMA OwnerInit == Init => OwnerInv
BY DEF Init, OwnerInv, ClosedUnbound, CheckStillGood, Checked, NoRequest

LEMMA OwnerStep == TypeOK /\ LockInv /\ OwnerInv /\ [Next]_vars => OwnerInv'
<1> SUFFICES ASSUME TypeOK, LockInv, OwnerInv, [Next]_vars PROVE OwnerInv'
  OBVIOUS
<1>0. NoAgent.life = "ended" /\ NoAgent.session = NoSession
  BY DEF NoAgent
<1>1. ClosedUnbound'
  <2> SUFFICES ASSUME NEW s \in Surfaces, s \notin modelled' PROVE agent'[s] = NoAgent
    BY DEF ClosedUnbound
  <2>1. CASE s \in modelled
    BY <2>1, AgentSteps
  <2>2. CASE s \notin modelled
    BY <2>2, AgentSteps DEF OwnerInv, ClosedUnbound
  <2> QED
    BY <2>1, <2>2
<1>2. ASSUME NEW s \in Surfaces, NEW u \in Threads,
             req'[u].at = "checked", req'[u].target = s, s \notin putBack'
      PROVE  /\ agent'[s].life # "suspended"
             /\ (agent'[s].life \in {"running", "idle"}
                 /\ agent'[s].session # req'[u].event.session) =>
                  ingress'[req'[u].event.session].takeover.from = agent'[s].session
  <2>1. CASE req[u].at = "checked"
    <3>1. /\ req'[u] = req[u]
          /\ ingress'[req[u].event.session].takeover
               = ingress[req[u].event.session].takeover
      BY <1>2, <2>1, StayChecked
    <3>2. Checked(u, s) /\ s \notin putBack
      BY <1>2, <2>1, <3>1, PutBackStays DEF Checked
    <3>3. s \notin topo.gates
      BY <3>2 DEF LockInv, GatesExclusive
    <3>4. ASSUME NEW t \in Threads, Apply(t), Checked(t, s) PROVE FALSE
      <4>1. t = u
        BY <3>2, <3>4 DEF LockInv, GatesExclusive
      <4> QED
        BY <1>2, <3>4, <4>1, ApplyMoves
    <3>5. \/ agent'[s] = agent[s]
          \/ agent'[s].life = "ended"
      BY <1>0, <1>2, <3>3, <3>4, AgentSteps
    <3>6. /\ agent[s].life # "suspended"
          /\ (agent[s].life \in {"running", "idle"}
              /\ agent[s].session # req[u].event.session) =>
               ingress[req[u].event.session].takeover.from = agent[s].session
      BY <3>2 DEF OwnerInv, CheckStillGood
    <3> QED
      BY <3>1, <3>5, <3>6
  <2>2. CASE req[u].at # "checked"
    <3>1. Check(u)
      BY <1>2, <2>2, BecomesChecked
    <3>2. agent' = agent /\ modelled' = modelled
      BY <3>1 DEF Check, modelVars
    <3>3. req'[u].event = req[u].event /\ req'[u].target = req[u].target
      BY <1>2, <3>1, CheckMoves
    <3>4. CASE s \in modelled
      BY <1>2, <3>1, <3>2, <3>3, <3>4, CheckRecords
    <3>5. CASE s \notin modelled
      BY <1>0, <3>2, <3>5 DEF OwnerInv, ClosedUnbound
    <3> QED
      BY <3>4, <3>5
  <2> QED
    BY <2>1, <2>2
<1>3. CheckStillGood'
  BY <1>2 DEF CheckStillGood, Checked
<1> QED
  BY <1>1, <1>3 DEF OwnerInv

-----------------------------------------------------------------------------
(* What records learn.                                                     *)

(* A close that has forgotten its surfaces, but not yet the record of k.   *)
Doomed(s, k) ==
  /\ topo.at \in {"evict", "evicting"}
  /\ s \in topo.surfaces
  /\ topo.at = "evicting" => k \in topo.todo
LiveOrDoomed(s, k) == s \in modelled \cup {NoSurface} \/ Doomed(s, k)

LearnedLive == \A k \in registered : LiveOrDoomed(ingress[k].target, k)
TargetedLive ==
  \A t \in Threads : Past(t) => LiveOrDoomed(req[t].target, req[t].event.session)
LearnInv == LearnedLive /\ TargetedLive

LEMMA LearnInit == Init => LearnInv
BY DEF Init, LearnInv, LearnedLive, TargetedLive, Past, NoRequest

(* Hook commands move neither what is live nor what is doomed. *)
LEMMA HooksLearn ==
  ASSUME TypeOK, LockInv, LearnInv, [Next]_vars, NEW t \in Threads,
         HookStep(t) \/ \E e \in Event : Enter(t, e)
  PROVE  LearnInv'
<1>1. modelled' = modelled /\ topo' = topo
  BY DEF HookStep, Enter, Resolve, Check, Apply, modelVars
<1>2. ASSUME \A k \in registered' : LiveOrDoomed(ingress'[k].target, k),
             \A u \in Threads : Past(u)' =>
               LiveOrDoomed(req'[u].target, req'[u].event.session)
      PROVE  LearnInv'
  BY <1>1, <1>2 DEF LearnInv, LearnedLive, TargetedLive, LiveOrDoomed, Doomed
<1>3. ASSUME NEW e \in Event, Enter(t, e) PROVE LearnInv'
  <2>1. \A k \in registered' : LiveOrDoomed(ingress'[k].target, k)
    <3> SUFFICES ASSUME NEW k \in registered' PROVE LiveOrDoomed(ingress'[k].target, k)
      OBVIOUS
    <3>1. k \in Sessions /\ (k \in registered \/ ingress'[k] = NewIngress)
          /\ (ingress'[k] = ingress[k] \/ ingress'[k] = NewIngress)
      BY <1>3, EnterRecords
    <3> QED
      BY <3>1 DEF LearnInv, LearnedLive, LiveOrDoomed, NewIngress
  <2>2. /\ req'[t].at = "entered"
        /\ \A u \in Threads \ {t} : req'[u] = req[u]
    BY <1>3, EnterMoves
  <2> QED
    BY <1>2, <2>1, <2>2 DEF LearnInv, TargetedLive, Past
<1>4. ASSUME Resolve(t) PROVE LearnInv'
  <2>1. registered' = registered /\ ingress' = ingress
    BY <1>4 DEF Resolve
  <2>2. /\ \/ req'[t].target \in Targets(req[t].event)
           \/ req'[t].at = "idle"
        /\ \A u \in Threads \ {t} : req'[u] = req[u]
    BY <1>4, ResolveMoves
  <2>3. Targets(req[t].event) \subseteq modelled \cup {NoSurface}
    BY DEF Targets
  <2> QED
    BY <1>2, <2>1, <2>2, <2>3 DEF LearnInv, LearnedLive, TargetedLive, Past, LiveOrDoomed
<1>5. ASSUME Check(t) \/ Apply(t) PROVE LearnInv'
  <2>1. registered' = registered /\ Past(t)
    BY <1>5, CheckMoves DEF Check, Apply, Past
  <2>2. /\ \/ /\ req'[t].event = req[t].event
              /\ req'[t].target = req[t].target
           \/ req'[t].at = "idle"
        /\ \A u \in Threads \ {t} : req'[u] = req[u]
    BY <1>5, CheckMoves, ApplyMoves
  <2>3. \A k \in Sessions :
          \/ ingress'[k].target \in {ingress[k].target, NoSurface}
          \/ k = req[t].event.session /\ ingress'[k].target = req[t].target
    BY <1>5, CheckRecords, ApplyRecords
  <2>4. LiveOrDoomed(req[t].target, req[t].event.session)
    BY <2>1 DEF LearnInv, TargetedLive
  <2>5. \A k \in registered : LiveOrDoomed(ingress'[k].target, k)
    BY <2>3, <2>4 DEF LearnInv, LearnedLive, LiveOrDoomed, TypeOK
  <2> QED
    BY <1>2, <2>1, <2>2, <2>5 DEF LearnInv, TargetedLive, Past
<1> QED
  BY <1>3, <1>4, <1>5 DEF HookStep

(* Outside hook commands: every surface that was live or doomed is so.     *)
LEMMA OthersLearn ==
  ASSUME LearnInv, registered' = registered, ingress' = ingress, req' = req,
         \A k \in registered : \A s : LiveOrDoomed(s, k) => LiveOrDoomed(s, k)',
         RecordsHeld
  PROVE  LearnInv'
<1>1. \A t \in Threads : Past(t) => req[t].event.session \in registered
  BY DEF RecordsHeld, Past
<1> QED
  BY <1>1 DEF LearnInv, LearnedLive, TargetedLive, Past

LEMMA CleanLearns ==
  ASSUME TypeOK, LockInv, LearnInv, CleanRecord
  PROVE  LearnInv'
<1>1. PICK k \in topo.todo :
        /\ topo.at = "evicting" /\ IngressFree(k) /\ k \in Sessions
        /\ topo'.surfaces = topo.surfaces
        /\ topo'.at = "evicting" /\ topo'.todo = topo.todo \ {k}
        /\ ingress' = IF ingress[k].target \in topo.surfaces
                      THEN [ingress EXCEPT ![k].target = NoSurface] ELSE ingress
  BY TopoSteps
<1>2. modelled' = modelled /\ registered' = registered /\ req' = req
  BY DEF CleanRecord, modelVars
<1>3. ASSUME NEW s, NEW j, LiveOrDoomed(s, j), j # k \/ s \notin topo.surfaces
      PROVE  LiveOrDoomed(s, j)'
  BY <1>1, <1>2, <1>3 DEF LiveOrDoomed, Doomed
<1>4. ASSUME NEW j \in registered, NEW s, s = ingress'[j].target PROVE LiveOrDoomed(s, j)'
  <2>1. j \in Sessions /\ LiveOrDoomed(ingress[j].target, j)
    BY <1>4 DEF LearnInv, LearnedLive, TypeOK
  <2>2. CASE j # k
    BY <1>1, <1>3, <1>4, <2>1, <2>2, CleanRecords
  <2>3. CASE j = k
    <3>1. s = IF ingress[k].target \in topo.surfaces THEN NoSurface ELSE ingress[k].target
      BY <1>1, <1>4, <2>3, CleanRecords
    <3>2. CASE s = NoSurface
      BY <3>2 DEF LiveOrDoomed
    <3> QED
      BY <1>3, <2>1, <2>3, <3>1, <3>2
  <2> QED
    BY <2>2, <2>3
<1>5. ASSUME NEW t \in Threads, Past(t), NEW s, s = req[t].target
      PROVE  \A j : j = req[t].event.session => LiveOrDoomed(s, j)'
  <2>1. LiveOrDoomed(s, req[t].event.session)
    BY <1>5 DEF LearnInv, TargetedLive
  <2>2. req[t].event.session # k
    BY <1>1, <1>5 DEF IngressFree, Serving, Past
  <2> QED
    BY <1>3, <2>1, <2>2
<1> QED
  BY <1>2, <1>4, <1>5 DEF LearnInv, LearnedLive, TargetedLive, Past, LiveOrDoomed, Doomed

LEMMA LearnStep == TypeOK /\ LockInv /\ LearnInv /\ [Next]_vars => LearnInv'
<1> SUFFICES ASSUME TypeOK, LockInv, LearnInv, [Next]_vars PROVE LearnInv'
  OBVIOUS
<1>0. RecordsHeld /\ NoTopo.at = "idle"
  BY DEF LockInv, NoTopo
<1>1. ASSUME NEW t \in Threads, HookStep(t) \/ \E e \in Event : Enter(t, e)
      PROVE  LearnInv'
  BY <1>1, HooksLearn
<1>2. CASE CleanRecord
  BY <1>2, CleanLearns
<1>3. ASSUME registered' = registered, ingress' = ingress, req' = req,
             modelled' = modelled, topo' = topo
      PROVE  LearnInv'
  BY <1>0, <1>3, OthersLearn DEF LiveOrDoomed, Doomed
<1>4. ASSUME registered' = registered, ingress' = ingress, req' = req,
             modelled' = modelled, topo.at \notin {"evict", "evicting"}
      PROVE  LearnInv'
  BY <1>0, <1>4, OthersLearn DEF LiveOrDoomed, Doomed
<1>5. CASE LockGate
  <2>1. topo.at = "gates"
    BY <1>5 DEF LockGate, TopoAt
  <2> QED
    BY <1>4, <1>5, <2>1 DEF LockGate, modelVars
<1>6. CASE CommitClose
  <2>1. topo.at = "commit" /\ registered' = registered /\ ingress' = ingress /\ req' = req
    BY <1>6 DEF CommitClose, TopoAt
  <2>2. CASE UNCHANGED modelVars
    BY <1>4, <2>1, <2>2 DEF modelVars
  <2>3. CASE /\ topo'.surfaces = topo.surfaces /\ topo'.at = "evict"
             /\ modelled' = modelled \ topo.surfaces
    <3>1. \A k \in registered : \A s : LiveOrDoomed(s, k) => LiveOrDoomed(s, k)'
      BY <2>1, <2>3 DEF LiveOrDoomed, Doomed
    <3> QED
      BY <1>0, <2>1, <3>1, OthersLearn
  <2> QED
    BY <1>6, <2>2, <2>3, TopoSteps
<1>7. CASE LockRegistry
  <2>1. /\ topo.at = "evict" /\ topo'.surfaces = topo.surfaces
        /\ topo'.at = "evicting" /\ topo'.todo = registered
    BY <1>7, TopoSteps
  <2>2. registered' = registered /\ ingress' = ingress /\ req' = req /\ modelled' = modelled
    BY <1>7 DEF LockRegistry, modelVars
  <2>3. \A k \in registered : \A s : LiveOrDoomed(s, k) => LiveOrDoomed(s, k)'
    BY <2>1, <2>2 DEF LiveOrDoomed, Doomed
  <2> QED
    BY <1>0, <2>2, <2>3, OthersLearn
<1>8. CASE EndClose
  <2>1. /\ topo.at = "evicting" /\ topo.todo = {}
        /\ registered' = registered /\ ingress' = ingress /\ req' = req
        /\ modelled' = modelled
    BY <1>8 DEF EndClose, modelVars
  <2>2. \A k \in registered : \A s : LiveOrDoomed(s, k) => LiveOrDoomed(s, k)'
    BY <2>1 DEF LiveOrDoomed, Doomed
  <2> QED
    BY <1>0, <2>1, <2>2, OthersLearn
<1>9. CASE Suspend \/ CloseHibernated
  <2>1. topo.at \in {"commit", "closing"}
    BY <1>9 DEF Suspend, CloseHibernated, TopoAt
  <2> QED
    BY <1>4, <1>9, <2>1 DEF Suspend, CloseHibernated
<1>10. ASSUME NEW S, NEW op, BeginClose(S, op) PROVE LearnInv'
  <2>1. topo.at = "idle"
    BY <1>0, <1>10 DEF BeginClose
  <2> QED
    BY <1>4, <1>10, <2>1 DEF BeginClose, modelVars
<1>11. ASSUME NEW s, BeginHibernate(s) PROVE LearnInv'
  <2>1. topo.at = "idle"
    BY <1>0, <1>11 DEF BeginHibernate
  <2> QED
    BY <1>4, <1>11, <2>1 DEF BeginHibernate, modelVars
<1>12. ASSUME NEW s, ChildExit(s) \/ Respawn(s) \/ Panel(s) PROVE LearnInv'
  BY <1>3, <1>12 DEF ChildExit, Respawn, Panel, Forget, UndoForget
<1>13. CASE UNCHANGED vars
  BY <1>3, <1>13 DEF vars, modelVars
<1> QED
  BY <1>1, <1>2, <1>5, <1>6, <1>7, <1>8, <1>9, <1>10, <1>11, <1>12, <1>13
     DEF Next, TopoStep, Panel

-----------------------------------------------------------------------------
(* The theorems.                                                           *)

IngressInv == TypeOK /\ LockInv /\ OwnerInv /\ OrderInv /\ LearnInv

LEMMA IngressInvariant == Spec => []IngressInv
<1>1. Init => IngressInv
  BY InitType, LockInit, OwnerInit, OrderInit, LearnInit DEF IngressInv
<1>2. IngressInv /\ [Next]_vars => IngressInv'
  BY TypeStep, LockStep, OwnerStep, OrderStep, LearnStep DEF IngressInv
<1> QED
  BY <1>1, <1>2, PTL DEF Spec

(* Whenever no close or hibernation is under way, the target every ingress *)
(* record has learned is a surface that exists (or none): remove_surface   *)
(* leaves no record behind, and no event that was resolved before the      *)
(* close teaches one the closed surface afterwards.                        *)
THEOREM LearnedTargetsStayLive == Spec => []LearnedTargetsLive
<1>1. IngressInv => LearnedTargetsLive
  <2> SUFFICES ASSUME IngressInv, topo.op = "none", NEW k \in registered
               PROVE  ingress[k].target \in modelled \cup {NoSurface}
    BY DEF IngressInv, LearnedTargetsLive
  <2>1. topo.at = "idle"
    BY TopoFields DEF IngressInv
  <2> QED
    BY <2>1 DEF IngressInv, LearnInv, LearnedLive, LiveOrDoomed, Doomed
<1> QED
  BY <1>1, IngressInvariant, PTL

(* A hook event that comes late never touches a suspended agent session:   *)
(* the gate of the surface is held from the check of the lifecycle to the  *)
(* mutation, and a hibernation marks the session only with all its gates.  *)
(* The exception is a suspended session that Undo, which takes no gate,    *)
(* puts back between the two.                                              *)
THEOREM LateHooksStayInert == Spec => LateHooksAreInert
<1>1. ASSUME IngressInv, NEW t \in Threads, NEW s \in Surfaces, Apply(t),
             agent[s].life = "suspended", s \notin putBack
      PROVE  agent'[s] = agent[s]
  <2>1. req[t].at = "checked"
    BY <1>1 DEF Apply
  <2>2. s # req[t].target
    BY <1>1, <2>1 DEF IngressInv, OwnerInv, CheckStillGood, Checked
  <2> QED
    BY <1>1, <2>2, ApplyAgents DEF IngressInv
<1>2. IngressInv /\ [Next]_vars =>
        [\A t \in Threads, s \in Surfaces :
           (Apply(t) /\ agent[s].life = "suspended" /\ s \notin putBack)
             => agent'[s] = agent[s]]_vars
  BY <1>1
<1> QED
  BY <1>2, IngressInvariant, PTL DEF Spec, LateHooksAreInert

(* A surface with a live agent session passes to another session only by a *)
(* command of that session whose takeover from the very owner was granted: *)
(* the check of ownership under the gate is still good at the mutation,    *)
(* unless Undo has put a session back in between.                          *)
THEOREM TakeoversStayGranted == Spec => TakeoversAreGranted
<1>1. ASSUME IngressInv, [Next]_vars, NEW s \in Surfaces,
             agent'[s].session # agent[s].session, agent'[s].session # NoSession,
             agent[s].life \in {"running", "idle"}, s \notin putBack
      PROVE  ingress[agent'[s].session].takeover.from = agent[s].session
  <2>1. NoAgent.session = NoSession /\ NoAgent.life = "ended"
    BY DEF NoAgent
  <2>2. PICK t \in Threads :
          /\ Checked(t, s)
          /\ agent'[s].session \in {agent[s].session, req[t].event.session}
    BY <1>1, <2>1, AgentSteps DEF IngressInv
  <2>3. agent'[s].session = req[t].event.session
    BY <1>1, <2>2
  <2> QED
    BY <1>1, <2>2, <2>3 DEF IngressInv, OwnerInv, CheckStillGood
<1>2. IngressInv /\ [Next]_vars =>
        [\A s \in Surfaces :
           LET k == agent'[s].session
           IN (/\ k # agent[s].session /\ k # NoSession
               /\ agent[s].life \in {"running", "idle"} /\ s \notin putBack)
              => ingress[k].takeover.from = agent[s].session]_vars
  BY <1>1
<1> QED
  BY <1>2, IngressInvariant, PTL DEF Spec, TakeoversAreGranted

(* The watermark of a record stays, is forgotten with the record, or is    *)
(* that of an applied event that was not stale when it was checked.        *)
LEMMA WatermarkSteps ==
  ASSUME TypeOK, [Next]_vars, NEW k \in Sessions
  PROVE  \/ ingress'[k].watermark = ingress[k].watermark
         \/ ingress'[k].watermark = NoStamp
         \/ \E t \in Threads :
              /\ req[t].at = "checked" /\ req[t].event.session = k
              /\ req[t].event \in Event /\ req[t].event.order # 0
              /\ ingress'[k].watermark = Stamped(req[t].event)
<1>1. ASSUME NEW t \in Threads, NEW e \in Event, Enter(t, e)
      PROVE  ingress'[k].watermark \in {ingress[k].watermark, NoStamp}
  <2>1. ingress'[k] \in {ingress[k], NewIngress}
    BY <1>1, EnterRecords
  <2> QED
    BY <2>1 DEF NewIngress
<1>2. ASSUME NEW t \in Threads, Check(t)
      PROVE  ingress'[k].watermark = ingress[k].watermark
  BY <1>2, CheckRecords
<1>3. ASSUME NEW t \in Threads, Apply(t)
      PROVE  \/ ingress'[k].watermark = ingress[k].watermark
             \/ /\ req[t].at = "checked" /\ req[t].event.session = k
                /\ req[t].event \in Event /\ req[t].event.order # 0
                /\ ingress'[k].watermark = Stamped(req[t].event)
  <2>1. req[t].at = "checked" /\ req[t].event \in Event
    BY <1>3, ApplyMoves, ReqFields
  <2> QED
    BY <1>3, <2>1, ApplyRecords
<1>4. ASSUME CleanRecord PROVE ingress'[k].watermark = ingress[k].watermark
  <2>1. PICK j \in topo.todo :
          /\ j \in Sessions
          /\ ingress' = IF ingress[j].target \in topo.surfaces
                        THEN [ingress EXCEPT ![j].target = NoSurface] ELSE ingress
    BY <1>4, TopoSteps
  <2> QED
    BY <2>1, CleanRecords
<1>5. ASSUME NEW t \in Threads, Resolve(t) PROVE ingress' = ingress
  BY <1>5 DEF Resolve
<1>6. ASSUME TopoStep, ~ CleanRecord PROVE ingress' = ingress
  BY <1>6 DEF TopoStep, LockGate, CommitClose, LockRegistry, EndClose, Suspend,
              CloseHibernated
<1>7. ASSUME NEW S, NEW op, BeginClose(S, op) PROVE ingress' = ingress
  BY <1>7 DEF BeginClose
<1>8. ASSUME NEW s, BeginHibernate(s) \/ ChildExit(s) \/ Respawn(s) \/ Panel(s)
      PROVE  ingress' = ingress
  BY <1>8 DEF BeginHibernate, ChildExit, Respawn, Panel, Forget, UndoForget
<1>9. UNCHANGED vars => ingress' = ingress
  BY DEF vars
<1> QED
  BY <1>1, <1>2, <1>3, <1>4, <1>5, <1>6, <1>7, <1>8, <1>9 DEF Next, HookStep, Panel

(* While its record is kept, the events of a session are applied in their  *)
(* order: the record is locked from the comparison with the watermark to   *)
(* the moving of the watermark, so that no later event comes in between.   *)
THEOREM EventsApplyInOrder == Spec => AppliedInOrder
<1>1. ASSUME IngressInv, [Next]_vars, NEW k \in Sessions,
             ingress'[k].watermark # NoStamp,
             ingress'[k].watermark.clock = ingress[k].watermark.clock
      PROVE  ingress'[k].watermark.order >= ingress[k].watermark.order
  <2> DEFINE w == ingress[k].watermark
  <2>1. w \in Stamp
    BY <1>1 DEF IngressInv, TypeOK, Ingress
  <2>2. w.order \in Nat
    <3>1. w.order \in Orders \cup {0}
      BY <2>1 DEF Stamp
    <3>2. \A n \in Orders \cup {0} : n \in Nat
      BY BoundAssumption
    <3> QED
      BY <3>1, <3>2
  <2>3. CASE ingress'[k].watermark = w
    BY <2>2, <2>3
  <2>4. ASSUME NEW t \in Threads, req[t].at = "checked", req[t].event.session = k,
               req[t].event \in Event, req[t].event.order # 0,
               ingress'[k].watermark = Stamped(req[t].event)
        PROVE  ingress'[k].watermark.order >= w.order
    <3> DEFINE e == req[t].event
    <3>1. Stamped(e).clock = e.clock /\ Stamped(e).order = e.order
      BY DEF Stamped
    <3>2. e.clock \in Clocks /\ e.order \in Nat
      BY <2>4, EventFields, BoundAssumption
    <3>3. w # NoStamp
      BY <1>1, <2>4, <3>1, <3>2, NoneAssumption DEF NoStamp
    <3>4. ~ Stale(e)
      BY <1>1, <2>4 DEF IngressInv, OrderInv
    <3>5. ~ (e.order < w.order)
      BY <1>1, <2>4, <3>1, <3>3, <3>4 DEF Stale
    <3> QED
      BY <2>2, <2>4, <3>1, <3>2, <3>5
  <2> QED
    BY <1>1, <2>3, <2>4, WatermarkSteps DEF IngressInv
<1>2. IngressInv /\ [Next]_vars =>
        [\A k \in Sessions :
           LET before == ingress[k].watermark
               after == ingress'[k].watermark
           IN after # NoStamp /\ after.clock = before.clock
              => after.order >= before.order]_vars
  BY <1>1
<1> QED
  BY <1>2, IngressInvariant, PTL DEF Spec, AppliedInOrder
=============================================================================
