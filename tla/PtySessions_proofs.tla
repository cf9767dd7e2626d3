-------------------------- MODULE PtySessions_proofs --------------------------
(***************************************************************************)
(* Proofs about PtySessions, for any numbers of surfaces and commands.     *)
(*                                                                         *)
(* Stale sessions are kept away by two facts.  Ids of discarded sessions   *)
(* are below the mark from which new ids are handed out, over restarts     *)
(* because the session file holds that mark and not just the surfaces.     *)
(* And while a surface is still there, a discarded session is one of its   *)
(* pane, whose presence keeps any spawn out until the close has ended it.  *)
(* Neither holds of the sessions in missed, which the program does not     *)
(* end: those are what NeverStale excepts.                                 *)
(***************************************************************************)
EXTENDS PtySessions, SequenceTheorems, TLAPS

(* The file's surfaces are below its mark, as the model's are. *)
FileHolds(data) ==
  /\ data \in SessionData
  /\ data.surfaces \subseteq 1..data.next /\ data.agents \subseteq data.surfaces
  /\ data.next \in 0..MaxSurface
MarksHold == surfaces \subseteq 1..next /\ FileHolds(saved)

(* Without a process there is nothing but brokers and the file. *)
DownIsEmpty == ~UiAlive => pane = {} /\ attached = {}

(* The discarded sessions that the program does end. *)
Ending == discarded \ missed
DiscardedIsOut ==
  UiAlive => \A s \in Ending : s <= next /\ (s \in surfaces => s \in pane)

(* With the setting off, a session without a pane was kept at a turn-off. *)
OffIsKnown == UiAlive /\ ~persist => session \subseteq pane \cup preserved

(* A surface is there as long as its newest command would make a terminal. *)
Ends(q) == q = <<>> \/ q[Len(q)] = "close"
SpawnsAreModeled == \A s \in Ids : Ends(queue[s]) \/ s \in surfaces

Hidden == (pane \cap session) \ (agents \cup preserved \cup Ending)
Shown == Hidden \subseteq attached

IInv ==
  /\ TypeOK /\ MarksHold /\ DownIsEmpty /\ DiscardedIsOut
  /\ OffIsKnown /\ SpawnsAreModeled /\ Shown

-----------------------------------------------------------------------------

LEMMA SnapshotHolds ==
  ASSUME NEW shown \in SUBSET Ids, NEW agentsOf \in SUBSET shown,
         NEW n \in 0..MaxSurface, shown \subseteq 1..n
  PROVE  FileHolds([surfaces |-> shown, agents |-> agentsOf, next |-> n])
BY PtyAssumption DEF FileHolds, SessionData

LEMMA RebuiltQueues ==
  ASSUME NEW q \in [Ids -> Seq(Command)], NEW panes, NEW shown, NEW free,
         NEW r \in Rebuilt(q, panes, shown, free)
  PROVE  /\ r \in [Ids -> Seq(Command)]
         /\ \A s \in Ids : r[s] = q[s] \/ (s \in shown /\ r[s] = Append(q[s], "spawn"))
<1> DEFINE missing == {s \in shown : s \notin panes /\ ~HasEntry(q, panes, s)}
<1>1. PICK some \in SUBSET missing :
        r = [s \in Ids |-> IF s \in some THEN Append(q[s], "spawn") ELSE q[s]]
  BY DEF Rebuilt
<1>2. some \subseteq shown
  BY <1>1
<1>3. \A s \in Ids : Append(q[s], "spawn") \in Seq(Command) /\ q[s] \in Seq(Command)
  BY DEF Command
<1> QED
  BY <1>1, <1>2, <1>3

(* What the rest of a queue says of the surface is what the queue said. *)
LEMMA RestEnds ==
  ASSUME NEW q \in Seq(Command), q # <<>>, Ends(q)
  PROVE  Tail(q) \in Seq(Command) /\ Ends(Tail(q))
<1>0. Len(q) \in Nat /\ Len(q) >= 1
  OBVIOUS
<1>1. CASE Len(q) = 1
  <2>1. Tail(q) \in Seq(Command) /\ Len(Tail(q)) = 0
    BY <1>1
  <2>2. Tail(q) = <<>>
    BY <2>1, EmptySeq
  <2> QED
    BY <2>1, <2>2 DEF Ends
<1>2. CASE Len(q) > 1
  <2>1. Tail(q) \in Seq(Command) /\ Len(Tail(q)) = Len(q) - 1
    BY <1>2
  <2>2. Tail(q)[Len(q) - 1] = q[Len(q)]
    BY <1>2, <2>1
  <2> QED
    BY <1>2, <2>1, <2>2 DEF Ends
<1>3. Len(q) = 1 \/ Len(q) > 1
  <2>1. \A n \in Nat : n >= 1 => n = 1 \/ n > 1
    OBVIOUS
  <2> QED
    BY <1>0, <2>1
<1> QED
  BY <1>1, <1>2, <1>3

LEMMA RebuiltModeled ==
  ASSUME NEW q \in [Ids -> Seq(Command)], NEW panes, NEW free, NEW some, NEW shown,
         \A s \in Ids : Ends(q[s]) \/ s \in some,
         shown \subseteq some,
         NEW r \in Rebuilt(q, panes, shown, free)
  PROVE  \A s \in Ids : Ends(r[s]) \/ s \in some
BY RebuiltQueues

(* The application is down, with no session left by an earlier one.        *)
THEOREM InitHolds == Init => IInv
<1> SUFFICES ASSUME Init PROVE IInv
  OBVIOUS
<1> USE PtyAssumption DEF Init, NoCommands, NoFile, UiAlive
<1>1. TypeOK
  <2>1. queue \in [Ids -> Seq(Command)]
    OBVIOUS
  <2>2. saved \in SessionData
    BY DEF SessionData
  <2>3. /\ persist \in BOOLEAN /\ app \in {"off", "running", "closing"}
        /\ keep \in BOOLEAN
    OBVIOUS
  <2>4. /\ surfaces \subseteq Ids /\ agents \subseteq surfaces /\ next \in 0..MaxSurface
        /\ session \subseteq Ids /\ pane \subseteq Ids
        /\ attached \subseteq pane \cap session
        /\ discarded \subseteq session /\ missed \subseteq discarded /\ preserved \subseteq session
    OBVIOUS
  <2> QED
    BY ONLY <2>1, <2>2, <2>3, <2>4 DEF TypeOK
<1>2. MarksHold /\ DownIsEmpty /\ DiscardedIsOut /\ OffIsKnown
  BY DEF MarksHold, FileHolds, SessionData, DownIsEmpty, Ending, DiscardedIsOut, OffIsKnown
<1>3. SpawnsAreModeled /\ Shown
  BY DEF SpawnsAreModeled, Ends, Shown, Hidden, Ending
<1> QED
  BY <1>1, <1>2, <1>3 DEF IInv

LEMMA CreateHolds == IInv /\ Create => IInv'
<1> SUFFICES ASSUME IInv, Create PROVE IInv'
  OBVIOUS
<1> USE PtyAssumption DEF IInv, Ending, history, appVars, paneVars
<1>1. PICK s \in FreshIds(next, surfaces) :
        /\ surfaces' = surfaces \cup {s} /\ next' = s
        /\ queue' = [queue EXCEPT ![s] = @ \o <<"create">>]
  BY DEF Create, Enqueue
<1>2. s \in Ids /\ s > next
  BY DEF FreshIds
<1>3. TypeOK'
  BY <1>1, <1>2 DEF TypeOK, Create, Command, Ids
<1>4. MarksHold' /\ DownIsEmpty' /\ OffIsKnown' /\ Shown'
  BY <1>1, <1>2 DEF TypeOK, MarksHold, DownIsEmpty, OffIsKnown, Shown, Hidden, Create, UiAlive, Ids
<1>5. DiscardedIsOut'
  BY <1>1, <1>2 DEF TypeOK, DiscardedIsOut, Create, UiAlive, Ids
<1>6. SpawnsAreModeled'
  BY <1>1, <1>2 DEF TypeOK, SpawnsAreModeled
<1> QED
  BY <1>3, <1>4, <1>5, <1>6

LEMMA CloseHolds == ASSUME NEW s \in Ids PROVE IInv /\ Close(s) => IInv'
<1> SUFFICES ASSUME IInv, Close(s) PROVE IInv'
  OBVIOUS
<1> USE PtyAssumption DEF IInv, Ending, history, appVars, paneVars
<1> DEFINE closed == IF HasEntry(queue, pane, s)
                       THEN [queue EXCEPT ![s] = Append(@, "close")] ELSE queue
<1>1. /\ UiAlive /\ s \in surfaces /\ agents' = agents \ {s}
      /\ discarded' = discarded \cup ({s} \cap session) /\ missed' = missed \ {s}
      /\ UNCHANGED <<persist, app, keep, pane, attached, session, saved, preserved>>
  BY DEF Close
<1>2. /\ closed \in [Ids -> Seq(Command)] /\ Ends(closed[s])
      /\ \A t \in Ids : t # s => closed[t] = queue[t]
  BY DEF TypeOK, Command, HasEntry, Ends
<1> HIDE DEF closed
<1>3. \A t \in Ids : Ends(closed[t]) \/ t \in surfaces \ {s}
  BY <1>2 DEF SpawnsAreModeled
<1>4. CASE surfaces' = surfaces \ {s} /\ next' = next /\ queue' = closed
  <2>1. TypeOK'
    BY <1>1, <1>2, <1>4 DEF TypeOK
  <2>2. MarksHold' /\ DownIsEmpty' /\ OffIsKnown' /\ Shown'
    BY <1>1, <1>4 DEF TypeOK, MarksHold, DownIsEmpty, OffIsKnown, Shown, Hidden, UiAlive
  <2>3. DiscardedIsOut'
    <3>1. s <= next
      BY <1>1 DEF MarksHold
    <3> QED
      BY <1>1, <1>4, <3>1 DEF TypeOK, DiscardedIsOut, UiAlive
  <2>4. SpawnsAreModeled'
    BY <1>3, <1>4 DEF SpawnsAreModeled
  <2> QED
    BY <2>1, <2>2, <2>3, <2>4
<1>5. CASE \E new \in FreshIds(next, surfaces) :
             /\ surfaces' = (surfaces \ {s}) \cup {new} /\ next' = new
             /\ queue' = [closed EXCEPT ![new] = Append(@, "spawn")]
  <2>1. PICK new \in FreshIds(next, surfaces) :
             /\ surfaces' = (surfaces \ {s}) \cup {new} /\ next' = new
             /\ queue' = [closed EXCEPT ![new] = Append(@, "spawn")]
    BY <1>5
  <2>2. new \in Ids /\ new > next /\ new \notin surfaces
    BY DEF FreshIds
  <2>3. TypeOK'
    <3>1. queue' \in [Ids -> Seq(Command)]
      <4>1. Append(closed[new], "spawn") \in Seq(Command)
        BY <1>2, <2>2 DEF Command
      <4> QED
        BY <1>2, <2>1, <4>1
    <3>2. surfaces' \subseteq Ids /\ agents' \subseteq surfaces' /\ next' \in 0..MaxSurface
      BY <1>1, <2>1, <2>2 DEF TypeOK, Ids
    <3>3. discarded' \subseteq session' /\ missed' \subseteq discarded'
      BY <1>1 DEF TypeOK
    <3> QED
      BY <1>1, <3>1, <3>2, <3>3 DEF TypeOK
  <2>4. MarksHold' /\ DownIsEmpty' /\ OffIsKnown' /\ Shown'
    BY <1>1, <2>1, <2>2 DEF TypeOK, MarksHold, DownIsEmpty, OffIsKnown, Shown, Hidden, UiAlive, Ids
  <2>5. DiscardedIsOut'
    <3>1. \A t \in Ending' : t \in Nat /\ t <= next /\ (t \in surfaces \ {s} => t \in pane)
      BY <1>1 DEF TypeOK, MarksHold, DiscardedIsOut, Ids
    <3>2. next \in Nat /\ new \in Nat
      BY <2>2 DEF TypeOK, Ids
    <3> QED
      BY <1>1, <2>1, <2>2, <3>1, <3>2 DEF DiscardedIsOut
  <2>6. SpawnsAreModeled'
    BY <1>2, <1>3, <2>1, <2>2 DEF SpawnsAreModeled
  <2> QED
    BY <2>3, <2>4, <2>5, <2>6
<1> QED
  BY <1>4, <1>5 DEF Close, closed

LEMMA RestartHolds == ASSUME NEW s \in Ids PROVE IInv /\ Restart(s) => IInv'
<1> SUFFICES ASSUME IInv, Restart(s) PROVE IInv'
  OBVIOUS
<1> USE PtyAssumption DEF IInv, Ending, history, appVars, modelVars, paneVars
<1>1. /\ UiAlive /\ s \in surfaces
      /\ discarded' = discarded \cup ({s} \cap session)
      /\ missed' = (missed \ {s}) \cup (({s} \cap session) \ pane)
      /\ UNCHANGED <<appVars, modelVars, paneVars, saved, preserved>>
  BY DEF Restart
<1>2. PICK commands \in {<<"close", "spawn">>, <<"spawn">>} :
        queue' = [queue EXCEPT ![s] = @ \o commands]
  BY DEF Restart, Enqueue
<1>3. TypeOK'
  <2>1. "close" \in Command /\ "spawn" \in Command
    BY DEF Command
  <2>2. <<"close", "spawn">> \in Seq(Command) /\ <<"spawn">> \in Seq(Command)
    BY <2>1
  <2>3. queue' \in [Ids -> Seq(Command)]
    <3>1. commands \in Seq(Command)
      BY <2>2
    <3>2. queue[s] \o commands \in Seq(Command)
      BY <3>1 DEF TypeOK
    <3> QED
      BY <1>2, <3>2 DEF TypeOK
  <2> QED
    BY <1>1, <2>3 DEF TypeOK
<1>4. MarksHold' /\ DownIsEmpty' /\ OffIsKnown' /\ Shown'
  BY <1>1 DEF TypeOK, MarksHold, DownIsEmpty, OffIsKnown, Shown, Hidden, UiAlive
<1>5. DiscardedIsOut'
  <2>1. s <= next
    BY <1>1 DEF MarksHold
  <2> QED
    BY <1>1, <2>1 DEF TypeOK, DiscardedIsOut
<1>6. SpawnsAreModeled'
  BY <1>1, <1>2 DEF TypeOK, SpawnsAreModeled
<1> QED
  BY <1>3, <1>4, <1>5, <1>6

LEMMA TakeSpawnHolds == ASSUME NEW s \in Ids PROVE IInv /\ TakeSpawn(s) => IInv'
<1> SUFFICES ASSUME IInv, TakeSpawn(s) PROVE IInv'
  OBVIOUS
<1> USE PtyAssumption DEF IInv, Ending, history, appVars, modelVars, paneVars
<1>1. /\ UiAlive /\ queue[s] # <<>> /\ Head(queue[s]) # "close"
      /\ queue' = [queue EXCEPT ![s] = Tail(@)]
      /\ UNCHANGED <<appVars, modelVars>>
  BY DEF TakeSpawn
<1>2. queue[s] \in Seq(Command) /\ Tail(queue[s]) \in Seq(Command)
  BY <1>1 DEF TypeOK
<1>3. queue' \in [Ids -> Seq(Command)] /\ SpawnsAreModeled'
  <2>1. Ends(Tail(queue[s])) \/ s \in surfaces
    BY <1>1, <1>2, RestEnds DEF SpawnsAreModeled
  <2> QED
    BY <1>1, <1>2, <2>1 DEF TypeOK, SpawnsAreModeled
<1>4. CASE Dropped(s) /\ UNCHANGED <<paneVars, saved, history>>
  BY <1>1, <1>3, <1>4
     DEF TypeOK, MarksHold, DownIsEmpty, DiscardedIsOut, OffIsKnown, Shown, Hidden, UiAlive
<1>5. CASE /\ ~Dropped(s)
           /\ pane' = pane \cup {s}
           /\ IF Plan(s) THEN AttachOrCreate(s) ELSE UNCHANGED <<attached, session, history>>
           /\ saved' \in {saved, Snapshot'}
  <2>1. FileHolds(saved') /\ MarksHold'
    <3>1. FileHolds(Snapshot')
      BY <1>1, SnapshotHolds DEF TypeOK, MarksHold, Snapshot
    <3> QED
      BY <1>1, <1>5, <3>1 DEF MarksHold
  <2>2. TypeOK'
    BY <1>1, <1>3, <1>5, <2>1 DEF TypeOK, FileHolds, AttachOrCreate
  <2>3. DownIsEmpty' /\ DiscardedIsOut' /\ OffIsKnown'
    BY <1>1, <1>5 DEF TypeOK, DownIsEmpty, DiscardedIsOut, OffIsKnown, UiAlive, Plan, AttachOrCreate
  <2>4. Shown'
    <3>1. s \in surfaces
      <4>1. Len(queue[s]) = 1
        <5>1. Len(queue[s]) \in Nat \ {0}
          BY <1>1, <1>2, EmptySeq
        <5>2. ~(Len(queue[s]) > 1)
          BY <1>5 DEF Dropped
        <5>3. \A n \in Nat \ {0} : ~(n > 1) => n = 1
          OBVIOUS
        <5> QED
          BY <5>1, <5>2, <5>3
      <4>2. queue[s][Len(queue[s])] # "close"
        BY <1>1, <1>2, <4>1
      <4> QED
        BY <1>1, <4>2 DEF SpawnsAreModeled, Ends
    <3>2. CASE Plan(s)
      BY <1>1, <1>5, <3>2 DEF Shown, Hidden, AttachOrCreate
    <3>3. CASE ~persist
      BY <1>1, <1>5, <3>3 DEF OffIsKnown, Shown, Hidden, Plan
    <3>4. CASE s \in agents
      BY <1>1, <1>5, <3>4 DEF Shown, Hidden, Plan
    <3> QED
      BY <3>1, <3>2, <3>3, <3>4 DEF Plan
  <2> QED
    BY <1>3, <2>1, <2>2, <2>3, <2>4
<1> QED
  BY <1>4, <1>5 DEF TakeSpawn, MaySave, AttachOrCreate

LEMMA TakeSpawnFailsHolds == ASSUME NEW s \in Ids PROVE IInv /\ TakeSpawnFails(s) => IInv'
<1> SUFFICES ASSUME IInv, TakeSpawnFails(s) PROVE IInv'
  OBVIOUS
<1> USE PtyAssumption DEF IInv, Ending, history, appVars, paneVars
<1> DEFINE creation == queue[s] = <<"create">>
<1> DEFINE cut == [queue EXCEPT ![s] = <<"close">>]
<1>1. /\ UiAlive /\ ~Dropped(s)
      /\ surfaces' = IF creation THEN surfaces \ {s} ELSE surfaces
      /\ agents' = agents \cap surfaces' /\ next' = next
      /\ saved' \in {saved, Snapshot'}
      /\ queue' \in Rebuilt(cut, pane, surfaces' \ {s}, creation \/ GuardFree)
      /\ UNCHANGED <<appVars, paneVars, history>>
  BY DEF TakeSpawnFails, MaySave
<1>2. s \notin pane
  BY <1>1 DEF Dropped
<1>3. cut \in [Ids -> Seq(Command)]
  <2>1. <<"close">> \in Seq(Command)
    BY DEF Command
  <2> QED
    BY <2>1 DEF TypeOK
<1>4. \A t \in Ids : Ends(cut[t]) \/ t \in surfaces'
  BY <1>1 DEF TypeOK, SpawnsAreModeled, Ends
<1> HIDE DEF cut, creation
<1>5. queue' \in [Ids -> Seq(Command)]
  BY <1>1, <1>3, RebuiltQueues
<1>6. SpawnsAreModeled'
  <2>1. surfaces' \ {s} \subseteq surfaces'
    OBVIOUS
  <2> QED
    BY <1>1, <1>3, <1>4, <2>1, RebuiltModeled DEF SpawnsAreModeled
<1>7. surfaces' \subseteq surfaces /\ agents' \subseteq surfaces'
  BY <1>1
<1>8. FileHolds(saved') /\ MarksHold'
  <2>1. surfaces' \subseteq 1..next' /\ surfaces' \subseteq Ids /\ next' \in 0..MaxSurface
    BY <1>1, <1>7 DEF TypeOK, MarksHold
  <2>2. FileHolds(Snapshot')
    BY <1>7, <2>1, SnapshotHolds DEF Snapshot
  <2> QED
    BY <1>1, <2>1, <2>2 DEF MarksHold
<1>9. TypeOK'
  BY <1>1, <1>5, <1>7, <1>8 DEF TypeOK, FileHolds
<1>10. DownIsEmpty' /\ DiscardedIsOut' /\ OffIsKnown'
  BY <1>1, <1>7 DEF DownIsEmpty, DiscardedIsOut, OffIsKnown, UiAlive
<1>11. Shown'
  BY <1>1, <1>2, <1>7 DEF TypeOK, Shown, Hidden
<1> QED
  BY <1>6, <1>8, <1>9, <1>10, <1>11

LEMMA TakeCloseHolds == ASSUME NEW s \in Ids PROVE IInv /\ TakeClose(s) => IInv'
<1> SUFFICES ASSUME IInv, TakeClose(s) PROVE IInv'
  OBVIOUS
<1> USE PtyAssumption DEF IInv, Ending, history, appVars, modelVars, paneVars
<1> DEFINE rest == [queue EXCEPT ![s] = Tail(@)]
<1>1. /\ UiAlive /\ queue[s] # <<>>
      /\ UNCHANGED <<appVars, modelVars, saved>>
  BY DEF TakeClose
<1>2. queue[s] \in Seq(Command) /\ Tail(queue[s]) \in Seq(Command)
  BY <1>1 DEF TypeOK
<1>3. rest \in [Ids -> Seq(Command)] /\ \A t \in Ids : Ends(rest[t]) \/ t \in surfaces
  <2>1. Ends(Tail(queue[s])) \/ s \in surfaces
    BY <1>1, <1>2, RestEnds DEF SpawnsAreModeled
  <2> QED
    BY <1>2, <2>1 DEF TypeOK, SpawnsAreModeled
<1> HIDE DEF rest
<1>4. MarksHold'
  BY <1>1 DEF MarksHold
<1>5. CASE queue' = rest /\ UNCHANGED <<paneVars, history>>
  BY <1>1, <1>3, <1>4, <1>5
     DEF TypeOK, SpawnsAreModeled, DownIsEmpty, DiscardedIsOut, OffIsKnown, Shown, Hidden, UiAlive
<1>6. CASE EndOfPane(s) /\ queue' \in Rebuilt(rest, pane', surfaces, GuardFree)
  <2>1. queue' \in [Ids -> Seq(Command)]
    BY <1>3, <1>6, RebuiltQueues
  <2>2. SpawnsAreModeled'
    BY <1>1, <1>3, <1>6, RebuiltModeled DEF SpawnsAreModeled
  <2>3. /\ pane' = pane \ {s} /\ attached' = attached \ {s}
        /\ session' = session \ {s}
        /\ discarded' = discarded \ {s} /\ missed' = missed \ {s}
        /\ preserved' = preserved \ {s}
    BY <1>6 DEF EndOfPane, EndSessions
  <2>4. TypeOK'
    BY <1>1, <2>1, <2>3 DEF TypeOK
  <2>5. DownIsEmpty' /\ DiscardedIsOut' /\ OffIsKnown' /\ Shown'
    BY <1>1, <2>3 DEF DownIsEmpty, DiscardedIsOut, OffIsKnown, Shown, Hidden, UiAlive
  <2> QED
    BY <1>4, <2>2, <2>4, <2>5
<1> QED
  BY <1>5, <1>6 DEF TakeClose, rest

LEMMA ReconcileHolds == IInv /\ Reconcile => IInv'
<1> SUFFICES ASSUME IInv, Reconcile PROVE IInv'
  OBVIOUS
<1> USE DEF IInv, Ending, history, appVars, modelVars, paneVars
<1>1. /\ queue' \in Rebuilt(queue, pane, surfaces, GuardFree)
      /\ UNCHANGED <<appVars, modelVars, paneVars, saved, history>>
  BY DEF Reconcile
<1>2. queue' \in [Ids -> Seq(Command)]
  BY <1>1, RebuiltQueues DEF TypeOK
<1>3. SpawnsAreModeled'
  BY <1>1, RebuiltModeled DEF TypeOK, SpawnsAreModeled
<1>4. TypeOK'
  BY <1>1, <1>2 DEF TypeOK
<1>5. /\ MarksHold' /\ DownIsEmpty' /\ DiscardedIsOut' /\ OffIsKnown' /\ Shown'
  BY <1>1 DEF MarksHold, DownIsEmpty, DiscardedIsOut, OffIsKnown, Shown, Hidden, UiAlive
<1> QED
  BY <1>3, <1>4, <1>5

(* Hooks, the setting, the window and processes that end by themselves.    *)
LEMMA SettingHolds == IInv /\ (TurnOn \/ TurnOff) => IInv'
<1> SUFFICES ASSUME IInv, TurnOn \/ TurnOff PROVE IInv'
  OBVIOUS
<1> USE DEF IInv, Ending, history, modelVars, paneVars
<1>1. UNCHANGED <<app, keep, modelVars, queue, pane, saved>>
  BY DEF TurnOn, TurnOff
<1>2. MarksHold' /\ SpawnsAreModeled'
  BY <1>1 DEF MarksHold, SpawnsAreModeled
<1>3. CASE TurnOn
  BY <1>1, <1>2, <1>3 DEF TurnOn, TypeOK, DownIsEmpty, DiscardedIsOut, OffIsKnown, Shown, Hidden, UiAlive
<1>4. CASE TurnOff
  <2>1. TypeOK'
    BY <1>1, <1>4 DEF TurnOff, TypeOK
  <2>2. DownIsEmpty' /\ DiscardedIsOut' /\ OffIsKnown' /\ Shown'
    BY <1>1, <1>4
       DEF TurnOff, DownIsEmpty, DiscardedIsOut, OffIsKnown, Shown, Hidden, UiAlive
  <2> QED
    BY <1>2, <2>1, <2>2
<1> QED
  BY <1>3, <1>4

LEMMA ProcessHolds ==
  ASSUME NEW s \in Ids
  PROVE  IInv /\ (HookLearns(s) \/ WorkloadEnds(s)) => IInv'
<1> SUFFICES ASSUME IInv, HookLearns(s) \/ WorkloadEnds(s) PROVE IInv'
  OBVIOUS
<1> USE DEF IInv, Ending, history, appVars, modelVars, paneVars
<1>1. UNCHANGED <<appVars, surfaces, next, queue, pane, saved>>
  BY DEF HookLearns, WorkloadEnds
<1>2. MarksHold' /\ SpawnsAreModeled'
  BY <1>1 DEF MarksHold, SpawnsAreModeled
<1>3. CASE HookLearns(s)
  BY <1>1, <1>2, <1>3
     DEF HookLearns, TypeOK, DownIsEmpty, DiscardedIsOut, OffIsKnown, Shown, Hidden, UiAlive
<1>4. CASE WorkloadEnds(s)
  BY <1>1, <1>2, <1>4
     DEF WorkloadEnds, EndSessions, TypeOK, DownIsEmpty, DiscardedIsOut, OffIsKnown, Shown, Hidden, UiAlive
<1> QED
  BY <1>3, <1>4

LEMMA AutosaveHolds == IInv /\ (Autosave \/ CloseWindow) => IInv'
<1> SUFFICES ASSUME IInv, Autosave \/ CloseWindow PROVE IInv'
  OBVIOUS
<1> USE DEF IInv, Ending, history, appVars, modelVars, paneVars
<1>1. /\ UiAlive /\ saved' \in {saved, Snapshot}
      /\ UNCHANGED <<persist, modelVars, queue, paneVars, history>>
      /\ app' \in {app, "closing"} /\ keep' \in {keep, persist}
  BY DEF Autosave, CloseWindow, UiAlive
<1>2. FileHolds(saved') /\ MarksHold'
  <2>1. FileHolds(Snapshot)
    BY SnapshotHolds DEF TypeOK, MarksHold, Snapshot
  <2> QED
    BY <1>1, <2>1 DEF MarksHold
<1>3. TypeOK'
  BY <1>1, <1>2 DEF TypeOK, FileHolds
<1>4. DownIsEmpty' /\ DiscardedIsOut' /\ OffIsKnown' /\ Shown' /\ SpawnsAreModeled'
  BY <1>1 DEF DownIsEmpty, DiscardedIsOut, OffIsKnown, Shown, Hidden, SpawnsAreModeled, UiAlive
<1> QED
  BY <1>2, <1>3, <1>4

LEMMA DownHolds == IInv /\ (Finish \/ Kill) => IInv'
<1> SUFFICES ASSUME IInv, Finish \/ Kill PROVE IInv'
  OBVIOUS
<1> USE PtyAssumption DEF IInv, Ending, history
<1>1. Down /\ saved' \in {saved, Snapshot} /\ ~UiAlive'
  BY DEF Finish, Kill, Down, UiAlive
<1>2. /\ session' \subseteq session /\ discarded' \subseteq session'
      /\ missed' \subseteq discarded' /\ preserved' \subseteq session'
  BY DEF Finish, Kill, EndSessions, TypeOK
<1>3. FileHolds(saved')
  <2>1. FileHolds(Snapshot)
    BY SnapshotHolds DEF TypeOK, MarksHold, Snapshot
  <2> QED
    BY <1>1, <2>1 DEF MarksHold
<1>4. NoCommands \in [Ids -> Seq(Command)] /\ \A t \in Ids : Ends(NoCommands[t])
  BY DEF NoCommands, Ends
<1>5. TypeOK'
  <2>1. queue' \in [Ids -> Seq(Command)]
    BY <1>1, <1>4 DEF Down
  <2>2. /\ surfaces' = {} /\ agents' = {} /\ next' = 0 /\ pane' = {} /\ attached' = {}
        /\ app' = "off" /\ keep' = FALSE /\ persist' = persist
    BY <1>1 DEF Down
  <2>3. /\ persist' \in BOOLEAN /\ keep' \in BOOLEAN
        /\ app' \in {"off", "running", "closing"}
    BY <2>2 DEF TypeOK
  <2>4. session' \subseteq Ids /\ next' \in 0..MaxSurface /\ saved' \in SessionData
    BY <1>2, <1>3, <2>2 DEF TypeOK, FileHolds
  <2> QED
    BY <1>2, <2>1, <2>2, <2>3, <2>4 DEF TypeOK
<1>6. MarksHold' /\ DownIsEmpty' /\ DiscardedIsOut' /\ OffIsKnown' /\ Shown'
  BY <1>1, <1>3 DEF Down, MarksHold, DownIsEmpty, DiscardedIsOut, OffIsKnown, Shown, Hidden
<1>7. SpawnsAreModeled'
  BY <1>1, <1>4 DEF Down, SpawnsAreModeled
<1> QED
  BY <1>5, <1>6, <1>7

(* A restored model hands out ids from the mark of the file on. *)
LEMMA HighWaterIsMark ==
  ASSUME NEW data, FileHolds(data)
  PROVE  HighWater(data) = data.next
<1> DEFINE Ids0 == {data.next} \cup data.surfaces
<1> DEFINE Top(n) == n \in Ids0 /\ \A m \in Ids0 : m <= n
<1>1. data.next \in Nat /\ \A m \in Ids0 : m \in Nat /\ m <= data.next
  BY PtyAssumption DEF FileHolds
<1>2. Top(data.next)
  BY <1>1
<1>3. \A n : Top(n) => n = data.next
  BY <1>1
<1>4. HighWater(data) = CHOOSE n : Top(n)
  BY DEF HighWater
<1> HIDE DEF Top
<1> QED
  BY <1>2, <1>3, <1>4

LEMMA LaunchHolds == IInv /\ Launch => IInv'
<1> SUFFICES ASSUME IInv, Launch PROVE IInv'
  OBVIOUS
<1> USE PtyAssumption DEF IInv, Ending, history
<1>1. /\ app = "off" /\ app' = "running" /\ ~UiAlive
      /\ UNCHANGED <<persist, keep, pane, attached, saved>>
      /\ session' = session \ EndedAtStart /\ preserved' = {}
      /\ discarded' = session' \ saved.surfaces
  BY DEF Launch, UiAlive
<1>2. pane' = {} /\ attached' = {}
  BY <1>1 DEF DownIsEmpty
<1>3. NoCommands \in [Ids -> Seq(Command)] /\ \A t \in Ids : Ends(NoCommands[t])
  BY DEF NoCommands, Ends
<1>4. /\ queue' \in [Ids -> Seq(Command)] /\ SpawnsAreModeled'
      /\ surfaces' \subseteq Ids /\ agents' \subseteq surfaces' /\ next' \in 0..MaxSurface
      /\ surfaces' \subseteq 1..next'
      /\ missed' \subseteq discarded' /\ \A s \in Ending' : s <= next' /\ s \notin surfaces'
  <2>1. CASE /\ surfaces' = saved.surfaces /\ agents' = saved.agents
             /\ next' = HighWater(saved)
             /\ queue' \in Rebuilt(NoCommands, {}, surfaces', TRUE)
             /\ missed' = {s \in discarded' : s > saved.next}
    <3>1. next' = saved.next
      BY <2>1, HighWaterIsMark DEF MarksHold
    <3>2. queue' \in [Ids -> Seq(Command)]
      BY <1>3, <2>1, RebuiltQueues
    <3>3. SpawnsAreModeled'
      BY <1>3, <2>1, RebuiltModeled DEF SpawnsAreModeled
    <3>4. saved.next \in Nat /\ discarded' \subseteq Nat
      <4>1. saved.next \in Nat /\ session \subseteq Ids
        BY DEF TypeOK, SessionData
      <4>2. Ids \subseteq Nat
        BY DEF Ids
      <4> QED
        BY <1>1, <4>1, <4>2
    <3>5. missed' \subseteq discarded' /\ \A s \in Ending' : s <= next' /\ s \notin surfaces'
      BY <1>1, <2>1, <3>1, <3>4
    <3> QED
      BY <2>1, <3>1, <3>2, <3>3, <3>5 DEF MarksHold, FileHolds, SessionData
  <2>2. CASE \E s \in FreshIds(0, {}) :
               /\ surfaces' = {s} /\ agents' = {} /\ next' = s /\ missed' = discarded'
               /\ queue' = [NoCommands EXCEPT ![s] = <<"spawn">>]
    <3>1. PICK s \in Ids :
               /\ surfaces' = {s} /\ agents' = {} /\ next' = s /\ missed' = discarded'
               /\ queue' = [NoCommands EXCEPT ![s] = <<"spawn">>]
      BY <2>2 DEF FreshIds
    <3>2. queue' \in [Ids -> Seq(Command)]
      <4>1. <<"spawn">> \in Seq(Command)
        BY DEF Command
      <4> QED
        BY <1>3, <3>1, <4>1
    <3>3. SpawnsAreModeled'
      BY <1>3, <3>1 DEF SpawnsAreModeled
    <3> QED
      BY <3>1, <3>2, <3>3 DEF Ids
  <2> QED
    BY <2>1, <2>2 DEF Launch
<1>5. TypeOK'
  BY <1>1, <1>2, <1>4 DEF TypeOK
<1>6. MarksHold' /\ DownIsEmpty' /\ DiscardedIsOut' /\ OffIsKnown' /\ Shown'
  BY <1>1, <1>2, <1>4
     DEF TypeOK, MarksHold, DownIsEmpty, DiscardedIsOut, OffIsKnown, Shown, Hidden, UiAlive, EndedAtStart
<1> QED
  BY <1>4, <1>5, <1>6

LEMMA StutterHolds == IInv /\ UNCHANGED vars => IInv'
BY DEF IInv, Ending, vars, history, appVars, modelVars, paneVars, TypeOK, MarksHold,
       DownIsEmpty, DiscardedIsOut, OffIsKnown, SpawnsAreModeled, Shown, Hidden, UiAlive

(* Every step of the user, of GTK and of the processes keeps it.           *)
THEOREM StepHolds == IInv /\ [Next]_vars => IInv'
BY CreateHolds, CloseHolds, RestartHolds, TakeSpawnHolds, TakeSpawnFailsHolds, TakeCloseHolds,
   ReconcileHolds, SettingHolds, ProcessHolds, AutosaveHolds, DownHolds, LaunchHolds, StutterHolds
   DEF Next

(* The invariant holds in every behaviour.                                 *)
THEOREM Invariance == Spec => []IInv
BY InitHolds, StepHolds, PTL DEF Spec

-----------------------------------------------------------------------------

(* For any number of surfaces, no live session runs behind a second shell  *)
(* in the pane of its surface, except where an agent was started in it,    *)
(* its end is queued, or it had no pane when the setting was turned off.   *)
THEOREM SessionsAreShown == Spec => []NoHiddenSession
<1>1. IInv => NoHiddenSession
  BY DEF IInv, NoHiddenSession, Shown, Hidden, Ending
<1> QED
  BY <1>1, Invariance, PTL

(* Only a spawn attaches, and where a spawn is not dropped, no pane is left *)
(* whose session could be one that was discarded.                          *)
LEMMA AttachingIsFresh ==
  ASSUME IInv, [Next]_vars, NEW s \in Ids, s \in attached' \ attached
  PROVE  s \notin discarded \ missed
<1>1. PICK t \in Ids : TakeSpawn(t)
  BY DEF Next, vars, history, appVars, modelVars, paneVars, Create, Reconcile, TurnOn, TurnOff, Autosave,
         CloseWindow, Finish, Kill, Down, Launch, Close, Restart, HookLearns, WorkloadEnds,
         TakeSpawnFails, TakeClose, EndOfPane
<1>2. s = t /\ UiAlive /\ Plan(t) /\ ~Dropped(t)
  BY <1>1 DEF TakeSpawn, AttachOrCreate, paneVars
<1> QED
  BY <1>2 DEF IInv, Ending, DiscardedIsOut, Plan, Dropped

(* For any number of surfaces, restarts and kills, no pane comes to show   *)
(* the session of a surface that was closed, or restarted with a pane, or  *)
(* that a session file which knows its id no longer holds.                 *)
THEOREM StaleStaysAway == Spec => NeverStale
<1>1. IInv /\ [Next]_vars =>
        [\A s \in Ids :
           s \in attached' \ attached /\ s \in session => s \notin discarded \ missed]_vars
  BY AttachingIsFresh
<1> QED
  BY <1>1, Invariance, PTL DEF Spec, NeverStale
=============================================================================
