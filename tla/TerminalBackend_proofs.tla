----------------------- MODULE TerminalBackend_proofs -----------------------
(***************************************************************************)
(* Proofs about TerminalBackend, for any set of surfaces and of calls and  *)
(* any number of generations: first types, leases and generations, then    *)
(* what the command channel holds, hence that entries and panes do not     *)
(* strand each other, and that sends implement CommandDelivery.            *)
(***************************************************************************)
EXTENDS TerminalBackend, TLAPS, FiniteSetTheorems

-----------------------------------------------------------------------------
(* Typing, in two parts: the calls in flight, and all the rest.            *)

CallsType ==
  /\ call \in [Calls -> Call]
  /\ \A c \in Calls :
       call[c].at \notin {"idle", "done"} => call[c].generation \in Generation

RestType ==
  /\ generationOf \in [Surfaces -> 0 .. MaxGeneration]
  /\ ready \in [Surfaces -> BOOLEAN]
  /\ leases \in [Surfaces -> Nat]
  /\ nextGeneration \in 0 .. MaxGeneration
  /\ receiving \in BOOLEAN
  /\ queue \in Seq(Command)
  /\ gtk \in Gtk
  /\ leased \in SUBSET (Surfaces \X Generation)
  /\ pane \in [Surfaces -> 0 .. MaxGeneration]
  /\ built \in [Surfaces -> SUBSET Generation]
  /\ observedBy \in [Surfaces -> 0 .. MaxGeneration]
  /\ forgotten \in SUBSET Surfaces

LEMMA TypeParts == TypeOK <=> RestType /\ CallsType
BY DEF TypeOK, RestType, CallsType

LEMMA CallRecordType ==
  ASSUME NEW op \in Op, NEW at \in CallAt, NEW s \in Surfaces,
         NEW g \in 0 .. MaxGeneration, NEW r \in {"none", "ok", "err", "timeout"}
  PROVE  /\ CallRecord(op, at, s, g, r) \in Call
         /\ CallRecord(op, at, s, g, r).at = at
         /\ CallRecord(op, at, s, g, r).generation = g
BY MaxGenerationAssumption DEF CallRecord, Call, None

LEMMA IdleCallType ==
  ASSUME NEW s \in Surfaces
  PROVE  IdleCall(s) \in Call /\ IdleCall(s).at = "idle"
BY CallRecordType, MaxGenerationAssumption DEF IdleCall, Op, CallAt, None

(* One call moves, the others stay as they are. *)
LEMMA CallMoves ==
  ASSUME CallsType, NEW c \in Calls, NEW r \in Call,
         r.at \in {"idle", "done"} \/ r.generation \in Generation,
         call' = [call EXCEPT ![c] = r]
  PROVE  CallsType'
BY DEF CallsType

LEMMA FinishType ==
  ASSUME CallsType, NEW c \in Calls,
         NEW r \in {"none", "ok", "err", "timeout"}, Finish(c, r)
  PROVE  CallsType'
<1> DEFINE rec == [call[c] EXCEPT !.at = "done", !.result = r]
<1>1. call[c] \in Call
  BY DEF CallsType
<1>2. rec \in Call /\ rec.at \in {"idle", "done"}
  BY <1>1 DEF Call, CallAt
<1>3. call' = [call EXCEPT ![c] = rec]
  BY DEF Finish
<1> HIDE DEF rec
<1>4. QED
  BY <1>2, <1>3, CallMoves

LEMMA FinishAtOnceType ==
  ASSUME CallsType, NEW c \in Calls, NEW s \in Surfaces, NEW op \in Op,
         NEW r \in {"ok", "err"}, FinishAtOnce(c, op, s, r)
  PROVE  CallsType'
<1> DEFINE rec == CallRecord(op, "done", s, None, r)
<1>1. rec \in Call /\ rec.at = "done"
  BY CallRecordType, MaxGenerationAssumption DEF CallAt, None
<1>2. call' = [call EXCEPT ![c] = rec]
  BY DEF FinishAtOnce
<1> HIDE DEF rec
<1>3. QED
  BY <1>1, <1>2, CallMoves

LEMMA BeginType ==
  ASSUME CallsType, NEW c \in Calls, NEW s \in Surfaces, NEW op \in Op,
         NEW at \in CallAt, NEW g \in Generation, Begin(c, op, s, at, g)
  PROVE  CallsType'
<1> DEFINE rec == CallRecord(op, at, s, g, "none")
<1>1. rec \in Call /\ rec.generation \in Generation
  BY CallRecordType DEF Generation
<1>2. call' = [call EXCEPT ![c] = rec]
  BY DEF Begin
<1> HIDE DEF rec
<1>3. QED
  BY <1>1, <1>2, CallMoves

(* A call that is under way moves on. *)
LEMMA AdvanceType ==
  ASSUME CallsType, NEW c \in Calls, call[c].at \notin {"idle", "done"},
         NEW at \in CallAt, call' = [call EXCEPT ![c].at = at]
  PROVE  CallsType'
<1> DEFINE rec == [call[c] EXCEPT !.at = at]
<1>1. call[c] \in Call /\ call[c].generation \in Generation
  BY DEF CallsType
<1>2. rec \in Call /\ rec.generation \in Generation
  BY <1>1 DEF Call
<1>3. call' = [call EXCEPT ![c] = rec]
  OBVIOUS
<1> HIDE DEF rec
<1>4. QED
  BY <1>2, <1>3, CallMoves

LEMMA CloseFailedType ==
  ASSUME CallsType, NEW c \in Calls, call[c].at \notin {"idle", "done"}, CloseFailed(c)
  PROVE  CallsType'
<1>1. CASE call[c].op = "closeReplacement"
  <2>1. "forgetting" \in CallAt
    BY DEF CallAt
  <2>2. QED
    BY <1>1, <2>1, AdvanceType DEF CloseFailed
<1>2. CASE call[c].op # "closeReplacement"
  BY <1>2, FinishType DEF CloseFailed
<1>3. QED
  BY <1>1, <1>2

LEMMA RemoveEntryType ==
  ASSUME NEW s \in Surfaces, RestType, RemoveEntry(s)
  PROVE  /\ generationOf' \in [Surfaces -> 0 .. MaxGeneration]
         /\ ready' \in [Surfaces -> BOOLEAN]
         /\ leases' \in [Surfaces -> Nat]
         /\ nextGeneration' \in 0 .. MaxGeneration
BY MaxGenerationAssumption DEF RestType, RemoveEntry, None

LEMMA SendType ==
  ASSUME RestType, NEW cmd \in Command, Send(cmd)
  PROVE  queue' \in Seq(Command)
BY DEF RestType, Send

LEMMA TakeType ==
  ASSUME RestType, NEW kind, NEW at, Take(kind, at),
         \/ at \in NotServing /\ (kind # "SendText" \/ at = "idle")
         \/ at \in Serving /\ kind = "SendText"
  PROVE  /\ queue' \in Seq(Command)
         /\ gtk' \in Gtk
         /\ gtk'.surface \in Surfaces
         /\ gtk'.generation \in Generation
         /\ Head(queue) \in Command
<1>1. Head(queue) \in Command /\ Tail(queue) \in Seq(Command)
  BY DEF RestType, Take
<1>2. QED
  BY <1>1 DEF Take, Command, Gtk, Serving, NotServing

LEMMA InitType == Init => TypeOK
<1> SUFFICES ASSUME Init PROVE TypeOK
  OBVIOUS
<1>1. PICK s \in Surfaces :
        /\ gtk = [at |-> "idle", surface |-> s, generation |-> 1, call |-> NoCall,
                  ok |-> FALSE]
        /\ call = [c \in Calls |-> IdleCall(s)]
  BY DEF Init
<1>2. gtk \in Gtk
  BY <1>1, MaxGenerationAssumption DEF Gtk, NotServing, Generation
<1>3. CallsType
  BY <1>1, IdleCallType DEF CallsType
<1>4. RestType
  BY <1>2, MaxGenerationAssumption DEF Init, RestType, None
<1>5. QED
  BY <1>3, <1>4, TypeParts

LEMMA SpawnType ==
  ASSUME RestType, CallsType, NEW c \in Calls, NEW s \in Surfaces, Spawn(c, s)
  PROVE  RestType' /\ CallsType'
<1>1. CallsType'
  <2>1. \/ FinishAtOnce(c, "spawn", s, "err")
        \/ FinishAtOnce(c, "spawn", s, "ok")
    BY DEF Spawn
  <2>2. "spawn" \in Op
    BY DEF Op
  <2>3. QED
    BY <2>1, <2>2, FinishAtOnceType
<1>2. RestType'
  <2>1. CASE UNCHANGED <<runtimeVars, queue>>
    BY <2>1 DEF Spawn, RestType, runtimeVars, gtkVars
  <2>2. CASE nextGeneration # 0 /\ AllocateGeneration
    <3>1. nextGeneration \in Generation /\ nextGeneration' \in 0 .. MaxGeneration
      BY <2>2, MaxGenerationAssumption DEF RestType, Generation, AllocateGeneration
    <3>2. CASE UNCHANGED <<generationOf, ready, leases, queue>>
      BY <3>1, <3>2 DEF Spawn, RestType, gtkVars
    <3>3. CASE /\ generationOf' = [generationOf EXCEPT ![s] = nextGeneration]
               /\ ready' = [ready EXCEPT ![s] = FALSE]
               /\ leases' = [leases EXCEPT ![s] = 0]
               /\ Send([kind |-> "Spawn", surface |-> s,
                        generation |-> nextGeneration, call |-> NoCall])
      <4>1. queue' \in Seq(Command)
        BY <3>1, <3>3, SendType DEF Command
      <4>2. QED
        BY <3>1, <3>3, <4>1 DEF Spawn, RestType, gtkVars, Generation
    <3>4. QED
      BY <2>2, <3>2, <3>3 DEF Spawn, runtimeVars
  <2>3. QED
    BY <2>1, <2>2 DEF Spawn
<1>3. QED
  BY <1>1, <1>2

LEMMA CloseType ==
  ASSUME RestType, CallsType, NEW c \in Calls, Close(c)
  PROVE  RestType' /\ CallsType'
<1> DEFINE s == call[c].surface
           g == call[c].generation
<1>1. s \in Surfaces /\ g \in Generation /\ call[c].at \notin {"idle", "done"}
  BY DEF CallsType, Call, Close
<1>2. CallsType'
  <2>1. Finish(c, "err") \/ Finish(c, "ok") \/ CloseFailed(c)
    BY DEF Close
  <2>2. QED
    BY <1>1, <2>1, FinishType, CloseFailedType
<1>3. RestType'
  <2>1. CASE UNCHANGED <<runtimeVars, queue>>
    BY <2>1 DEF Close, RestType, runtimeVars, gtkVars
  <2>2. CASE /\ RemoveEntry(s)
             /\ Send([kind |-> "Close", surface |-> s, generation |-> g,
                      call |-> NoCall])
    <3>1. queue' \in Seq(Command)
      BY <1>1, <2>2, SendType DEF Command
    <3>2. QED
      BY <1>1, <2>2, <3>1, RemoveEntryType DEF Close, RestType, gtkVars
  <2>3. QED
    BY <2>1, <2>2 DEF Close
<1>4. QED
  BY <1>2, <1>3

(* Steps of a call that leave the map and the GTK thread alone. *)
LEMMA CallOnlyType ==
  ASSUME RestType, CallsType, NEW c \in Calls,
         \/ CloseWaits(c) \/ CloseTimesOut(c) \/ EnqueueSend(c)
         \/ ReceiveReply(c) \/ ReceiveDisconnect(c) \/ ReplyTimesOut(c)
         \/ CancelPending(c) \/ Reuse(c)
         \/ \E s \in Surfaces : BeginClose(c, s) \/ BeginSend(c, s)
  PROVE  RestType' /\ CallsType'
<1>0. call[c] \in Call
  BY DEF CallsType
<1>1. CASE CloseWaits(c)
  <2>1. "waiting" \in CallAt
    BY DEF CallAt
  <2>2. CallsType'
    BY <1>1, <2>1, AdvanceType DEF CloseWaits
  <2>3. QED
    BY <1>1, <2>2 DEF CloseWaits, RestType, runtimeVars, gtkVars
<1>2. CASE CloseTimesOut(c)
  <2>1. CallsType'
    BY <1>2, CloseFailedType DEF CloseTimesOut
  <2>2. QED
    BY <1>2, <2>1 DEF CloseTimesOut, RestType, runtimeVars, gtkVars
<1>3. CASE EnqueueSend(c)
  <2>1. "awaiting" \in CallAt
    BY DEF CallAt
  <2>2. CallsType'
    BY <1>3, <2>1, AdvanceType, FinishType DEF EnqueueSend
  <2>3. call[c].surface \in Surfaces /\ call[c].generation \in Generation
    BY <1>0, <1>3 DEF EnqueueSend, CallsType, Call
  <2>4. queue' \in Seq(Command)
    BY <1>3, <2>3, SendType DEF EnqueueSend, RestType, Command
  <2>5. QED
    BY <1>3, <2>2, <2>4 DEF EnqueueSend, RestType, runtimeVars, gtkVars
<1>4. CASE ReceiveReply(c)
  <2>1. CallsType'
    BY <1>4, FinishType DEF ReceiveReply
  <2>2. QED
    BY <1>4, <2>1 DEF ReceiveReply, RestType, runtimeVars, gtkVars
<1>5. CASE ReceiveDisconnect(c)
  <2> DEFINE rec == [call[c] EXCEPT !.at = "done", !.result = "err", !.exec = "Cancelled"]
  <2>1. rec \in Call /\ rec.at = "done"
    BY <1>0 DEF Call, CallAt
  <2>2. call' = [call EXCEPT ![c] = rec]
    BY <1>5 DEF ReceiveDisconnect
  <2> HIDE DEF rec
  <2>3. CallsType'
    BY <2>1, <2>2, CallMoves
  <2>4. QED
    BY <1>5, <2>3 DEF ReceiveDisconnect, RestType, runtimeVars, gtkVars
<1>6. CASE ReplyTimesOut(c)
  <2>1. "expired" \in CallAt
    BY DEF CallAt
  <2>2. CallsType'
    BY <1>6, <2>1, AdvanceType DEF ReplyTimesOut
  <2>3. QED
    BY <1>6, <2>2 DEF ReplyTimesOut, RestType, runtimeVars, gtkVars
<1>7. CASE CancelPending(c)
  <2> DEFINE rec == [call[c] EXCEPT !.exec = "Cancelled", !.at = "done",
                                    !.result = "timeout"]
  <2>1. rec \in Call /\ rec.at = "done"
    BY <1>0 DEF Call, CallAt
  <2>2. "claimed" \in CallAt
    BY DEF CallAt
  <2>3. \/ call' = [call EXCEPT ![c] = rec]
        \/ call' = [call EXCEPT ![c].at = "claimed"]
    BY <1>7 DEF CancelPending
  <2> HIDE DEF rec
  <2>4. CallsType'
    BY <1>7, <2>1, <2>2, <2>3, CallMoves, AdvanceType DEF CancelPending
  <2>5. QED
    BY <1>7, <2>4 DEF CancelPending, RestType, runtimeVars, gtkVars
<1>8. CASE Reuse(c)
  <2> DEFINE rec == IdleCall(call[c].surface)
  <2>1. rec \in Call /\ rec.at = "idle"
    BY <1>0, IdleCallType DEF Call
  <2>2. call' = [call EXCEPT ![c] = rec]
    BY <1>8 DEF Reuse
  <2> HIDE DEF rec
  <2>3. CallsType'
    BY <2>1, <2>2, CallMoves
  <2>4. QED
    BY <1>8, <2>3 DEF Reuse, RestType, runtimeVars, gtkVars
<1>9. ASSUME NEW s \in Surfaces, BeginClose(c, s)
      PROVE  RestType' /\ CallsType'
  <2>1. PICK op \in {"close", "closeReplacement"} :
          IF generationOf[s] = None
          THEN FinishAtOnce(c, op, s, "err")
          ELSE Begin(c, op, s, "closing", generationOf[s])
    BY <1>9 DEF BeginClose
  <2>2. op \in Op /\ "closing" \in CallAt
    BY DEF Op, CallAt
  <2>3. generationOf[s] # None => generationOf[s] \in Generation
    BY DEF RestType, Generation, None
  <2>4. CallsType'
    BY <2>1, <2>2, <2>3, FinishAtOnceType, BeginType
  <2>5. QED
    BY <1>9, <2>4 DEF BeginClose, RestType, runtimeVars, gtkVars
<1>10. ASSUME NEW s \in Surfaces, BeginSend(c, s)
       PROVE  RestType' /\ CallsType'
  <2>1. "send" \in Op /\ "enqueue" \in CallAt
    BY DEF Op, CallAt
  <2>2. generationOf[s] # None => generationOf[s] \in Generation
    BY DEF RestType, Generation, None
  <2>3. CallsType'
    BY <1>10, <2>1, <2>2, FinishAtOnceType, BeginType DEF BeginSend
  <2>4. QED
    BY <1>10, <2>3 DEF BeginSend, RestType, runtimeVars, gtkVars
<1>11. QED
  BY <1>1, <1>2, <1>3, <1>4, <1>5, <1>6, <1>7, <1>8, <1>9, <1>10

LEMMA ForgetType ==
  ASSUME RestType, CallsType, NEW c \in Calls, Forget(c)
  PROVE  RestType' /\ CallsType'
<1>1. call[c].surface \in Surfaces
  BY DEF CallsType, Call
<1>2. CallsType'
  BY FinishType DEF Forget
<1>3. RestType'
  BY <1>1, RemoveEntryType DEF Forget, RestType, runtimeVars, gtkVars
<1>4. QED
  BY <1>2, <1>3

-----------------------------------------------------------------------------
(* Leases.                                                                 *)

(* Current incarnations of different surfaces: one at most for each. *)
LEMMA LeaseCount ==
  ASSUME NEW incarnations, incarnations \subseteq Surfaces \X Generation,
         \A i \in incarnations : IsCurrent(i[1], i[2]),
         NEW s \in Surfaces
  PROVE  Cardinality({i \in incarnations : i[1] = s})
           = IF \E i \in incarnations : i[1] = s THEN 1 ELSE 0
<1>1. CASE \E i \in incarnations : i[1] = s
  <2>1. {i \in incarnations : i[1] = s} = {<<s, generationOf[s]>>}
    BY <1>1 DEF IsCurrent
  <2>2. QED
    BY <1>1, <2>1, FS_Singleton
<1>2. CASE ~ \E i \in incarnations : i[1] = s
  <2>1. {i \in incarnations : i[1] = s} = {}
    BY <1>2
  <2>2. QED
    BY <1>2, <2>1, FS_EmptySet
<1>3. QED
  BY <1>1, <1>2

LEMMA AcquireType ==
  ASSUME RestType, NEW incarnations, incarnations \subseteq Surfaces \X Generation,
         NEW requireReady, CanLease(incarnations, requireReady),
         AcquireLease(incarnations)
  PROVE  /\ leases' \in [Surfaces -> Nat]
         /\ leased' \in SUBSET (Surfaces \X Generation)
<1>1. ASSUME NEW s \in Surfaces
      PROVE  leases[s] + Cardinality({i \in incarnations : i[1] = s}) \in Nat
  <2> DEFINE n == Cardinality({i \in incarnations : i[1] = s})
  <2>1. n \in {0, 1}
    BY LeaseCount DEF CanLease
  <2>2. leases[s] \in Nat
    BY DEF RestType
  <2> HIDE DEF n
  <2>3. leases[s] + n \in Nat
    BY <2>1, <2>2
  <2>4. QED
    BY <2>3 DEF n
<1>2. QED
  BY <1>1 DEF AcquireLease

LEMMA ReleaseType ==
  ASSUME RestType, ReleaseLease
  PROVE  /\ leases' \in [Surfaces -> Nat]
         /\ leased' \in SUBSET (Surfaces \X Generation)
BY DEF RestType, ReleaseLease

(* What the GTK thread is at stays well formed. *)
LEMMA GtkMoveType ==
  ASSUME gtk \in Gtk
  PROVE  /\ GtkIdle => gtk' \in Gtk
         /\ \A at \in NotServing :
              gtk.at \in NotServing /\ GtkTo(at) => gtk' \in Gtk
         /\ gtk.at \in Serving /\ GtkTo("running") => gtk' \in Gtk
         /\ \A ok \in BOOLEAN :
              /\ gtk.at \in Serving
              /\ gtk' = [gtk EXCEPT !.at = "replying", !.ok = ok]
              => gtk' \in Gtk
<1>1. GtkIdle => gtk' \in Gtk
  BY DEF GtkIdle, Gtk, Serving, NotServing
<1>2. ASSUME NEW at \in NotServing, gtk.at \in NotServing, GtkTo(at)
      PROVE  gtk' \in Gtk
  BY <1>2 DEF GtkTo, Gtk, Serving, NotServing
<1>3. gtk.at \in Serving /\ GtkTo("running") => gtk' \in Gtk
  BY DEF GtkTo, Gtk, Serving, NotServing
<1>4. ASSUME NEW ok \in BOOLEAN, gtk.at \in Serving,
             gtk' = [gtk EXCEPT !.at = "replying", !.ok = ok]
      PROVE  gtk' \in Gtk
  BY <1>4 DEF Gtk, Serving, NotServing
<1>5. QED
  BY <1>1, <1>2, <1>3, <1>4

LEMMA GtkFields ==
  ASSUME gtk \in Gtk
  PROVE  /\ gtk.surface \in Surfaces
         /\ gtk.generation \in Generation
         /\ gtk.at \in Serving \cup NotServing
         /\ gtk.at \in Serving => gtk.call \in Calls
         /\ {<<gtk.surface, gtk.generation>>} \subseteq Surfaces \X Generation
BY DEF Gtk, Serving, NotServing

LEMMA TearDownType ==
  ASSUME RestType, NEW s \in Surfaces, TearDown(s)
  PROVE  /\ pane' \in [Surfaces -> 0 .. MaxGeneration]
         /\ observedBy' \in [Surfaces -> 0 .. MaxGeneration]
<1>1. pane' \in [Surfaces -> 0 .. MaxGeneration]
  BY MaxGenerationAssumption DEF TearDown, RestType, None
<1>2. observedBy' \in [Surfaces -> 0 .. MaxGeneration]
  BY DEF TearDown, RestType
<1>3. QED
  BY <1>1, <1>2

(* Taking a command from the channel. *)
LEMMA GtkTakeType ==
  ASSUME RestType, CallsType, GtkTake
  PROVE  RestType' /\ CallsType'
<1>1. CASE TakeSpawn
  <2>1. queue' \in Seq(Command) /\ gtk' \in Gtk
    BY <1>1, TakeType DEF TakeSpawn, NotServing
  <2>2. QED
    BY <1>1, <2>1 DEF TakeSpawn, RestType, CallsType, runtimeVars
<1>2. CASE TakeClose
  <2>1. queue' \in Seq(Command) /\ gtk' \in Gtk /\ gtk'.surface \in Surfaces
    BY <1>2, TakeType DEF TakeClose, NotServing
  <2>2. TearDown(gtk'.surface) \/ UNCHANGED <<pane, observedBy>>
    BY <1>2 DEF TakeClose
  <2>3. /\ pane' \in [Surfaces -> 0 .. MaxGeneration]
        /\ observedBy' \in [Surfaces -> 0 .. MaxGeneration]
    BY <2>1, <2>2, TearDownType DEF RestType
  <2>4. QED
    BY <1>2, <2>1, <2>3 DEF TakeClose, RestType, CallsType, runtimeVars
<1>3. CASE TakeSend
  <2> DEFINE c == Head(queue).call
             rec == [call[c] EXCEPT !.exec = "Claimed"]
  <2>1. queue' \in Seq(Command) /\ gtk' \in Gtk /\ Head(queue) \in Command
    BY <1>3, TakeType DEF TakeSend, Serving, NotServing
  <2>2. c \in Calls
    BY <1>3, <2>1 DEF TakeSend, Take, Command
  <2>3. CASE UNCHANGED call
    BY <2>1, <2>3, <1>3 DEF TakeSend, RestType, CallsType, runtimeVars
  <2>4. CASE call' = [call EXCEPT ![c].exec = "Claimed"]
    <3>1. rec \in Call /\ (rec.at \in {"idle", "done"} \/ rec.generation \in Generation)
      BY <2>2 DEF CallsType, Call
    <3>2. call' = [call EXCEPT ![c] = rec]
      BY <2>4
    <3> HIDE DEF rec
    <3>3. CallsType'
      BY <2>2, <3>1, <3>2, CallMoves
    <3>4. QED
      BY <1>3, <2>1, <3>3 DEF TakeSend, RestType, runtimeVars
  <2>5. QED
    BY <1>3, <2>3, <2>4 DEF TakeSend
<1>4. QED
  BY <1>1, <1>2, <1>3 DEF GtkTake

(* The GTK thread goes on with what it has taken. *)
LEMMA GtkWorkType ==
  ASSUME RestType, CallsType, GtkWork
  PROVE  RestType' /\ CallsType'
<1> DEFINE here == {<<gtk.surface, gtk.generation>>}
<1>0. gtk \in Gtk
  BY DEF RestType
<1> USE GtkFields
<1>1. CASE BuildPane
  <2>1. built' \in [Surfaces -> SUBSET Generation]
    BY <1>0, <1>1 DEF BuildPane, RestType
  <2>2. gtk' \in Gtk
    BY <1>0, <1>1, GtkMoveType DEF BuildPane, NotServing
  <2>3. /\ leases' \in [Surfaces -> Nat]
        /\ leased' \in SUBSET (Surfaces \X Generation)
    <3>1. CASE CanLease(here, FALSE)
      BY <1>0, <1>1, <3>1, AcquireType DEF BuildPane
    <3>2. CASE ~ CanLease(here, FALSE)
      BY <1>1, <3>2 DEF BuildPane, RestType
    <3>3. QED
      BY <3>1, <3>2
  <2>4. QED
    BY <1>1, <2>1, <2>2, <2>3 DEF BuildPane, RestType, CallsType
<1>2. CASE InsertPane
  <2>1. gtk' \in Gtk
    BY <1>0, <1>2, GtkMoveType DEF InsertPane
  <2>2. pane' \in [Surfaces -> 0 .. MaxGeneration]
    BY <1>0, <1>2 DEF InsertPane, RestType, Generation
  <2>3. QED
    BY <1>2, <2>1, <2>2, ReleaseType DEF InsertPane, RestType, CallsType
<1>3. CASE BuildFails
  <2>1. gtk' \in Gtk
    BY <1>0, <1>3, GtkMoveType DEF BuildFails, NotServing
  <2>2. QED
    BY <1>3, <2>1 DEF BuildFails, RestType, CallsType, runtimeVars
<1>4. CASE CloseFailedSpawn
  <2>1. gtk' \in Gtk
    BY <1>0, <1>4, GtkMoveType DEF CloseFailedSpawn
  <2>2. CASE UNCHANGED <<runtimeVars, queue>>
    BY <1>4, <2>1, <2>2 DEF CloseFailedSpawn, RestType, CallsType, runtimeVars
  <2>3. CASE /\ RemoveEntry(gtk.surface)
             /\ Send([kind |-> "Close", surface |-> gtk.surface,
                      generation |-> gtk.generation, call |-> NoCall])
    <3>1. queue' \in Seq(Command)
      BY <1>0, <2>3, SendType DEF Command
    <3>2. QED
      BY <1>0, <1>4, <2>1, <2>3, <3>1, RemoveEntryType
         DEF CloseFailedSpawn, RestType, CallsType
  <2>4. QED
    BY <1>4, <2>2, <2>3 DEF CloseFailedSpawn
<1>5. CASE LeaseForSend
  <2>1. gtk' \in Gtk
    BY <1>0, <1>5, GtkMoveType DEF LeaseForSend, Serving
  <2>2. /\ leases' \in [Surfaces -> Nat]
        /\ leased' \in SUBSET (Surfaces \X Generation)
    <3>1. CASE CanLease(here, TRUE)
      BY <1>0, <1>5, <3>1, AcquireType DEF LeaseForSend
    <3>2. CASE ~ CanLease(here, TRUE)
      BY <1>5, <3>2 DEF LeaseForSend, RestType
    <3>3. QED
      BY <3>1, <3>2
  <2>3. QED
    BY <1>5, <2>1, <2>2 DEF LeaseForSend, RestType, CallsType
<1>6. CASE RunSend
  <2>0. gtk.at \in Serving /\ gtk.call \in Calls
    BY <1>0, <1>6 DEF RunSend, Serving
  <2>1. gtk' \in Gtk
    BY <1>0, <1>6, <2>0, GtkMoveType DEF RunSend
  <2>2. CallsType'
    <3> DEFINE c == gtk.call
               g == pane[gtk.surface]
               rec == [call[c] EXCEPT !.delivered = g]
    <3>0. call[c] \in Call /\ g \in 0 .. MaxGeneration
      BY <1>0, <2>0 DEF RestType, CallsType
    <3>1. rec \in Call /\ (rec.at \in {"idle", "done"} \/ rec.generation \in Generation)
      BY <2>0, <3>0 DEF CallsType, Call
    <3>2. UNCHANGED call \/ call' = [call EXCEPT ![c] = rec]
      BY <1>6 DEF RunSend
    <3> HIDE DEF rec
    <3>3. QED
      BY <2>0, <3>1, <3>2, CallMoves DEF CallsType
  <2>3. QED
    BY <1>6, <2>1, <2>2, ReleaseType DEF RunSend, RestType
<1>7. CASE Reply
  <2>0. gtk.at \in Serving /\ gtk.call \in Calls
    BY <1>0, <1>7 DEF Reply, Serving
  <2>1. gtk' \in Gtk
    BY <1>0, <1>7, GtkMoveType DEF Reply, GtkIdle
  <2>2. CallsType'
    <3> DEFINE c == gtk.call
               rec == [call[c] EXCEPT !.reply = IF gtk.ok THEN "ok" ELSE "err"]
    <3>1. rec \in Call /\ (rec.at \in {"idle", "done"} \/ rec.generation \in Generation)
      BY <2>0 DEF CallsType, Call
    <3>2. call' = [call EXCEPT ![c] = rec]
      BY <1>7 DEF Reply
    <3> HIDE DEF rec
    <3>3. QED
      BY <2>0, <3>1, <3>2, CallMoves
  <2>3. QED
    BY <1>7, <2>1, <2>2 DEF Reply, RestType, runtimeVars
<1>8. CASE CommitCallback
  <2>1. gtk' \in Gtk
    BY <1>0, <1>8, GtkMoveType DEF CommitCallback
  <2>2. observedBy' \in [Surfaces -> 0 .. MaxGeneration]
    BY <1>0, <1>8 DEF CommitCallback, RestType, Generation
  <2>3. QED
    BY <1>8, <2>1, <2>2, ReleaseType DEF CommitCallback, RestType, CallsType
<1>9. CASE CommitSnapshot
  <2>1. gtk' \in Gtk
    BY <1>0, <1>9, GtkMoveType DEF CommitSnapshot
  <2>2. observedBy' \in [Surfaces -> 0 .. MaxGeneration]
    BY <1>9 DEF CommitSnapshot, RestType
  <2>3. QED
    BY <1>9, <2>1, <2>2, ReleaseType DEF CommitSnapshot, RestType, CallsType
<1>10. QED
  BY <1>1, <1>2, <1>3, <1>4, <1>5, <1>6, <1>7, <1>8, <1>9 DEF GtkWork

(* Widget signals, scrollback snapshots and the end of the GTK thread. *)
LEMMA GtkSignalType ==
  ASSUME RestType, CallsType,
         \/ \E s \in Surfaces : CallbackReady(s) \/ BeginCallback(s)
         \/ BeginSnapshot \/ Quit
  PROVE  RestType' /\ CallsType'
<1>0. gtk \in Gtk
  BY DEF RestType
<1>1. ASSUME NEW s \in Surfaces, CallbackReady(s) PROVE RestType' /\ CallsType'
  BY <1>1 DEF CallbackReady, RestType, CallsType, gtkVars
<1>2. ASSUME NEW s \in Surfaces, BeginCallback(s) PROVE RestType' /\ CallsType'
  <2>1. PICK g \in built[s] :
          /\ CanLease({<<s, g>>}, FALSE)
          /\ AcquireLease({<<s, g>>})
          /\ gtk' = [gtk EXCEPT !.at = "observing", !.surface = s, !.generation = g]
    BY <1>2 DEF BeginCallback
  <2>2. g \in Generation
    BY DEF RestType
  <2>3. gtk' \in Gtk
    BY <1>0, <1>2, <2>1, <2>2 DEF BeginCallback, Gtk, Serving, NotServing
  <2>4. {<<s, g>>} \subseteq Surfaces \X Generation
    BY <2>2
  <2>5. /\ leases' \in [Surfaces -> Nat]
        /\ leased' \in SUBSET (Surfaces \X Generation)
    BY <2>1, <2>4, AcquireType
  <2>6. QED
    BY <1>2, <2>3, <2>5 DEF BeginCallback, RestType, CallsType
<1>3. CASE BeginSnapshot
  <2> DEFINE current == {<<s, pane[s]>> : s \in {t \in Surfaces :
                           pane[t] # None /\ IsCurrent(t, pane[t])}}
  <2>1. current \subseteq Surfaces \X Generation
    BY DEF RestType, Generation, None
  <2>2. CanLease(current, FALSE)
    BY DEF CanLease
  <2>3. AcquireLease(current) /\ GtkTo("snapshotting") /\ gtk.at = "idle"
    BY <1>3 DEF BeginSnapshot
  <2> HIDE DEF current
  <2>4. /\ leases' \in [Surfaces -> Nat]
        /\ leased' \in SUBSET (Surfaces \X Generation)
    BY <2>1, <2>2, <2>3, AcquireType
  <2>5. gtk' \in Gtk
    BY <1>0, <2>3, GtkMoveType DEF NotServing
  <2>6. QED
    BY <1>3, <2>4, <2>5 DEF BeginSnapshot, RestType, CallsType
<1>4. CASE Quit
  <2>1. ASSUME NEW c \in Calls
        PROVE  /\ call'[c] \in Call
               /\ call'[c].at \notin {"idle", "done"} => call'[c].generation \in Generation
    <3> DEFINE rec == [call[c] EXCEPT !.reply = "disconnected"]
    <3>1. call[c] \in Call
      BY DEF CallsType
    <3>2. rec \in Call /\ rec.at = call[c].at /\ rec.generation = call[c].generation
      BY <3>1 DEF Call
    <3>3. call'[c] = rec \/ call'[c] = call[c]
      BY <1>4 DEF Quit
    <3> HIDE DEF rec
    <3>4. QED
      BY <3>1, <3>2, <3>3 DEF CallsType
  <2>2. call' = [c \in Calls |-> call'[c]]
    BY <1>4 DEF Quit
  <2>3. call' \in [Calls -> Call]
    BY <2>1, <2>2
  <2>4. CallsType'
    BY <2>1, <2>3 DEF CallsType
  <2>5. <<>> \in Seq(Command)
    OBVIOUS
  <2>6. QED
    BY <1>4, <2>4, <2>5 DEF Quit, RestType, runtimeVars, gtkVars
<1>5. QED
  BY <1>1, <1>2, <1>3, <1>4

LEMMA TypeStep == TypeOK /\ [Next]_vars => TypeOK'
<1> SUFFICES ASSUME RestType, CallsType, [Next]_vars
             PROVE  RestType' /\ CallsType'
  BY TypeParts DEF TypeOK, RestType, CallsType
<1>1. ASSUME NEW c \in Calls, CallStep(c) \/ Reuse(c)
      PROVE  RestType' /\ CallsType'
  BY <1>1, CloseType, CallOnlyType, ForgetType DEF CallStep
<1>2. ASSUME NEW c \in Calls, NEW s \in Surfaces,
             Spawn(c, s) \/ BeginClose(c, s) \/ BeginSend(c, s)
      PROVE  RestType' /\ CallsType'
  BY <1>2, SpawnType, CallOnlyType
<1>3. CASE UNCHANGED vars
  BY <1>3 DEF vars, RestType, CallsType
<1>4. QED
  BY <1>1, <1>2, <1>3, GtkWorkType, GtkTakeType, GtkSignalType DEF Next

(* The types of TerminalBackend hold in every reachable state: generations *)
(* never pass u64::MAX, commands and calls are always well formed.         *)
THEOREM TypeCorrect == Spec => []TypeOK
BY InitType, TypeStep, PTL DEF Spec

-----------------------------------------------------------------------------
(* Leases.                                                                 *)

Unleasing == {"idle", "building", "failed", "claimed", "replying"}

LeaseMatch ==
  /\ \A i \in leased : IsCurrent(i[1], i[2])
  /\ \A s \in Surfaces : leases[s] = IF \E i \in leased : i[1] = s THEN 1 ELSE 0

LeaseInv ==
  /\ LeaseMatch
  /\ gtk.at \in Unleasing => leased = {}

LEMMA AcquireKeeps ==
  ASSUME RestType, LeaseMatch, leased = {},
         NEW incarnations, incarnations \subseteq Surfaces \X Generation,
         NEW requireReady, CanLease(incarnations, requireReady),
         AcquireLease(incarnations), UNCHANGED generationOf
  PROVE  LeaseMatch'
<1>1. \A i \in leased' : IsCurrent(i[1], i[2])'
  BY DEF AcquireLease, CanLease, IsCurrent
<1>2. ASSUME NEW s \in Surfaces
      PROVE  leases'[s] = IF \E i \in leased' : i[1] = s THEN 1 ELSE 0
  <2> DEFINE n == Cardinality({i \in incarnations : i[1] = s})
  <2>1. n = IF \E i \in incarnations : i[1] = s THEN 1 ELSE 0
    BY LeaseCount DEF CanLease
  <2>2. leases[s] = 0
    BY DEF LeaseMatch
  <2>3. leases'[s] = leases[s] + n
    BY DEF AcquireLease
  <2>4. leased' = incarnations
    BY DEF AcquireLease
  <2> HIDE DEF n
  <2>5. QED
    BY <2>1, <2>2, <2>3, <2>4
<1>3. QED
  BY <1>1, <1>2 DEF LeaseMatch

LEMMA ReleaseKeeps ==
  ASSUME RestType, LeaseMatch, ReleaseLease, UNCHANGED generationOf
  PROVE  LeaseMatch' /\ leased' = {}
<1>1. ASSUME NEW s \in Surfaces
      PROVE  leases'[s] = 0
  <2>1. leases'[s] = IF <<s, generationOf[s]>> \in leased /\ leases[s] > 0
                     THEN leases[s] - 1 ELSE leases[s]
    BY DEF ReleaseLease
  <2>2. CASE \E i \in leased : i[1] = s
    <3>1. PICK i \in leased : i[1] = s
      BY <2>2
    <3>2. i = <<s, generationOf[s]>>
      BY <3>1 DEF RestType, LeaseMatch, IsCurrent
    <3>3. leases[s] = 1
      BY <2>2 DEF LeaseMatch
    <3>4. QED
      BY <2>1, <3>2, <3>3
  <2>3. CASE ~ \E i \in leased : i[1] = s
    <3>1. leases[s] = 0
      BY <2>3 DEF LeaseMatch
    <3>2. QED
      BY <2>1, <3>1
  <2>4. QED
    BY <2>2, <2>3
<1>2. leased' = {}
  BY DEF ReleaseLease
<1>3. QED
  BY <1>1, <1>2 DEF LeaseMatch

LEMMA RemoveKeeps ==
  ASSUME RestType, LeaseMatch, NEW s \in Surfaces, Unleased(s), RemoveEntry(s),
         UNCHANGED leased
  PROVE  LeaseMatch'
<1>1. ~ \E i \in leased : i[1] = s
  BY DEF LeaseMatch, Unleased
<1>2. QED
  BY <1>1 DEF RestType, LeaseMatch, RemoveEntry, IsCurrent

LEMMA LeaseStep ==
  ASSUME RestType, CallsType, LeaseInv, [Next]_vars
  PROVE  LeaseInv'
<1>0. gtk \in Gtk
  BY DEF RestType
<1> USE GtkFields
<1> DEFINE Still == UNCHANGED <<generationOf, leases, leased, gtk>>
<1>1. CASE Still
  BY <1>1 DEF LeaseInv, LeaseMatch, IsCurrent
<1>2. ASSUME NEW c \in Calls, NEW s \in Surfaces, Spawn(c, s)
      PROVE  LeaseInv'
  <2>1. CASE Still
    BY <1>1, <2>1
  <2>2. CASE /\ generationOf[s] = None
             /\ generationOf' = [generationOf EXCEPT ![s] = nextGeneration]
             /\ leases' = [leases EXCEPT ![s] = 0]
    <3>1. UNCHANGED <<leased, gtk>>
      BY <1>2 DEF Spawn, gtkVars
    <3>2. ~ \E i \in leased : i[1] = s
      BY <2>2 DEF RestType, LeaseInv, LeaseMatch, IsCurrent, Generation, None
    <3>3. QED
      BY <2>2, <3>1, <3>2 DEF RestType, LeaseInv, LeaseMatch, IsCurrent
  <2>3. QED
    BY <1>2, <2>1, <2>2 DEF Spawn, runtimeVars, gtkVars
<1>3. ASSUME NEW c \in Calls, Close(c) \/ Forget(c)
      PROVE  LeaseInv'
  <2>1. call[c].surface \in Surfaces
    BY DEF CallsType, Call
  <2>2. UNCHANGED <<leased, gtk>>
    BY <1>3 DEF Close, Forget, gtkVars
  <2>3. \/ UNCHANGED runtimeVars
        \/ Unleased(call[c].surface) /\ RemoveEntry(call[c].surface)
    BY <1>3 DEF Close, Forget, Unleased
  <2>4. QED
    BY <1>1, <2>1, <2>2, <2>3, RemoveKeeps DEF LeaseInv, runtimeVars
<1>4. CASE CloseFailedSpawn
  <2>1. UNCHANGED leased /\ leased = {}
    BY <1>4 DEF CloseFailedSpawn, LeaseInv, Unleasing
  <2>2. UNCHANGED runtimeVars \/ (Unleased(gtk.surface) /\ RemoveEntry(gtk.surface))
    BY <1>4 DEF CloseFailedSpawn
  <2>3. LeaseMatch'
    BY <1>0, <2>1, <2>2, RemoveKeeps DEF LeaseInv, LeaseMatch, runtimeVars, IsCurrent
  <2>4. QED
    BY <2>1, <2>3 DEF LeaseInv
<1>5. CASE BuildPane \/ LeaseForSend
  <2> DEFINE here == {<<gtk.surface, gtk.generation>>}
  <2>1. leased = {} /\ UNCHANGED generationOf
    BY <1>5 DEF BuildPane, LeaseForSend, LeaseInv, Unleasing
  <2>2. CASE UNCHANGED <<leases, leased>>
    BY <2>1, <2>2 DEF LeaseInv, LeaseMatch, IsCurrent
  <2>3. CASE \E r \in BOOLEAN : CanLease(here, r) /\ AcquireLease(here)
    <3>1. here \subseteq Surfaces \X Generation
      BY <1>0
    <3> HIDE DEF here
    <3>2. LeaseMatch'
      BY <2>1, <2>3, <3>1, AcquireKeeps DEF LeaseInv
    <3>3. gtk'.at \in {"inserting", "running"} \/ leased' = {}
      BY <1>0, <1>5, <2>1 DEF BuildPane, LeaseForSend, GtkTo, GtkIdle, Gtk
    <3>4. QED
      BY <3>2, <3>3 DEF LeaseInv, Unleasing
  <2>4. QED
    BY <1>5, <2>2, <2>3 DEF BuildPane, LeaseForSend
<1>6. CASE ReleaseLease /\ UNCHANGED generationOf
  BY <1>6, ReleaseKeeps DEF LeaseInv
<1>7. CASE UNCHANGED <<generationOf, leases, leased>> /\ gtk.at \in Unleasing
  BY <1>7 DEF LeaseInv, LeaseMatch, IsCurrent
<1>8. ASSUME NEW s \in Surfaces, BeginCallback(s)
      PROVE  LeaseInv'
  <2>1. PICK g \in built[s] :
          /\ CanLease({<<s, g>>}, FALSE)
          /\ AcquireLease({<<s, g>>})
          /\ gtk' = [gtk EXCEPT !.at = "observing", !.surface = s, !.generation = g]
    BY <1>8 DEF BeginCallback
  <2>2. {<<s, g>>} \subseteq Surfaces \X Generation
    BY DEF RestType
  <2>3. leased = {} /\ UNCHANGED generationOf
    BY <1>8 DEF BeginCallback, LeaseInv, Unleasing
  <2>4. LeaseMatch'
    BY <2>1, <2>2, <2>3, AcquireKeeps DEF LeaseInv
  <2>5. gtk'.at = "observing"
    BY <1>0, <2>1 DEF Gtk
  <2>6. QED
    BY <2>4, <2>5 DEF LeaseInv, Unleasing
<1>9. CASE BeginSnapshot
  <2> DEFINE current == {<<s, pane[s]>> : s \in {t \in Surfaces :
                           pane[t] # None /\ IsCurrent(t, pane[t])}}
  <2>1. current \subseteq Surfaces \X Generation
    BY DEF RestType, Generation, None
  <2>2. CanLease(current, FALSE)
    BY DEF CanLease
  <2>3. AcquireLease(current) /\ GtkTo("snapshotting") /\ gtk.at = "idle"
    BY <1>9 DEF BeginSnapshot
  <2> HIDE DEF current
  <2>4. leased = {} /\ UNCHANGED generationOf
    BY <1>9, <2>3 DEF BeginSnapshot, LeaseInv, Unleasing
  <2>5. LeaseMatch'
    BY <2>1, <2>2, <2>3, <2>4, AcquireKeeps DEF LeaseInv
  <2>6. gtk'.at = "snapshotting"
    BY <1>0, <2>3 DEF Gtk, GtkTo
  <2>7. QED
    BY <2>5, <2>6 DEF LeaseInv, Unleasing
<1>10. CASE \E c \in Calls :
              \/ CloseWaits(c) \/ CloseTimesOut(c) \/ EnqueueSend(c)
              \/ ReceiveReply(c) \/ ReceiveDisconnect(c) \/ ReplyTimesOut(c)
              \/ CancelPending(c) \/ Reuse(c)
              \/ \E s \in Surfaces : BeginClose(c, s) \/ BeginSend(c, s)
  BY <1>1, <1>10 DEF CloseWaits, CloseTimesOut, EnqueueSend, ReceiveReply,
       ReceiveDisconnect, ReplyTimesOut, CancelPending, Reuse, BeginClose, BeginSend,
       runtimeVars, gtkVars
<1>11. CASE \/ Quit \/ UNCHANGED vars \/ \E s \in Surfaces : CallbackReady(s)
  BY <1>1, <1>11 DEF Quit, CallbackReady, vars, runtimeVars, gtkVars
<1>12. CASE GtkTake \/ BuildFails \/ Reply
  BY <1>7, <1>12 DEF GtkTake, TakeSpawn, TakeClose, TakeSend, Take, BuildFails, Reply,
       Unleasing, runtimeVars
<1>13. CASE InsertPane \/ RunSend \/ CommitCallback \/ CommitSnapshot
  BY <1>6, <1>13 DEF InsertPane, RunSend, CommitCallback, CommitSnapshot
<1>14. QED
  BY <1>2, <1>3, <1>4, <1>5, <1>8, <1>9, <1>10, <1>11, <1>12, <1>13
     DEF Next, CallStep, GtkWork

LEMMA LeaseInvariant == Spec => [](TypeOK /\ LeaseInv)
<1>1. Init => TypeOK /\ LeaseInv
  <2>1. Init => LeaseInv
    BY DEF Init, LeaseInv, LeaseMatch
  <2>2. QED
    BY <2>1, InitType
<1>2. TypeOK /\ LeaseInv /\ [Next]_vars => (TypeOK /\ LeaseInv)'
  BY TypeStep, LeaseStep, TypeParts
<1>3. QED
  BY <1>1, <1>2, PTL DEF Spec

(* No close, respawn or forget removes an incarnation while a callback or  *)
(* a command of the GTK thread holds a lease of it: the callback may write *)
(* the model without holding the runtime mutex (backend.rs:374-381).       *)
THEOREM LeasesProtect == Spec => []LeasedIncarnationStays
<1>1. TypeOK /\ LeaseInv => LeasedIncarnationStays
  <2> SUFFICES ASSUME RestType, LeaseInv, NEW i \in leased
               PROVE  IsCurrent(i[1], i[2]) /\ leases[i[1]] > 0
    BY TypeParts DEF LeasedIncarnationStays
  <2>1. i[1] \in Surfaces
    BY DEF RestType
  <2>2. QED
    BY <2>1 DEF LeaseInv, LeaseMatch
<1>2. QED
  BY <1>1, LeaseInvariant, PTL

(* The lease counter of an entry is exactly the number of leases held, so  *)
(* a close waits as long as it has to and no longer.                       *)
THEOREM LeasesCounted == Spec => []LeaseCountExact
<1>1. TypeOK /\ LeaseInv => LeaseCountExact
  <2> SUFFICES ASSUME RestType, LeaseInv, NEW s \in Surfaces
               PROVE  leases[s] = Cardinality({i \in leased : i[1] = s})
    BY TypeParts DEF LeaseCountExact
  <2>1. leased \subseteq Surfaces \X Generation
    BY DEF RestType
  <2>2. \A i \in leased : IsCurrent(i[1], i[2])
    BY DEF LeaseInv, LeaseMatch
  <2>3. Cardinality({i \in leased : i[1] = s})
          = IF \E i \in leased : i[1] = s THEN 1 ELSE 0
    BY <2>1, <2>2, LeaseCount
  <2>4. QED
    BY <2>3 DEF LeaseInv, LeaseMatch
<1>2. QED
  BY <1>1, LeaseInvariant, PTL

-----------------------------------------------------------------------------
(* Generations.  No generation in use for a surface is later than its      *)
(* entry's, nor than the next one to be given out.                         *)

Latest(s, g) ==
  /\ generationOf[s] # None => g <= generationOf[s]
  /\ nextGeneration # 0 => g < nextGeneration

LatestInv ==
  /\ \A s \in Surfaces :
       /\ nextGeneration # 0 => generationOf[s] < nextGeneration
       /\ Latest(s, pane[s])
       /\ Latest(s, observedBy[s])
       /\ \A g \in built[s] : Latest(s, g)
  /\ \A i \in DOMAIN queue :
       queue[i].kind = "Spawn" => Latest(queue[i].surface, queue[i].generation)
  /\ gtk.at \in {"building", "inserting"} => Latest(gtk.surface, gtk.generation)

(* A pane on screen is the latest incarnation built and observed.          *)
PaneInv ==
  /\ \A s \in Surfaces : pane[s] # None =>
       /\ observedBy[s] <= pane[s]
       /\ \A g \in built[s] : g <= pane[s]
  /\ gtk.at \in {"building", "inserting"} => pane[gtk.surface] = None

(* What the GTK thread writes to the model is about what it has leased.    *)
WriterInv ==
  /\ gtk.at \in {"inserting", "observing"} =>
       leased = {<<gtk.surface, gtk.generation>>}
  /\ gtk.at = "observing" => gtk.generation \in built[gtk.surface]
  /\ gtk.at = "snapshotting" => \A i \in leased : i[2] = pane[i[1]]

GenerationInv == LatestInv /\ PaneInv /\ WriterInv

(* What was not later than the entry and the next generation stays so. *)
LEMMA LatestCarries ==
  ASSUME RestType, CallsType, LatestInv, [Next]_vars, NEW s \in Surfaces
  PROVE  /\ nextGeneration' # 0 => generationOf'[s] < nextGeneration'
         /\ \A g \in 0 .. MaxGeneration : Latest(s, g) => Latest(s, g)'
<1> USE MaxGenerationAssumption
<1>0. /\ nextGeneration \in Nat
      /\ generationOf[s] \in Nat
      /\ nextGeneration # 0 => generationOf[s] < nextGeneration
  BY DEF RestType, LatestInv
<1>1. CASE nextGeneration' = nextGeneration /\ generationOf'[s] \in {generationOf[s], None}
  BY <1>0, <1>1 DEF Latest, None
<1>2. ASSUME NEW c \in Calls, NEW r \in Surfaces, Spawn(c, r)
      PROVE  /\ nextGeneration' # 0 => generationOf'[s] < nextGeneration'
             /\ \A g \in 0 .. MaxGeneration : Latest(s, g) => Latest(s, g)'
  <2>1. CASE UNCHANGED runtimeVars
    BY <1>1, <2>1 DEF runtimeVars
  <2>2. CASE /\ nextGeneration # 0
             /\ AllocateGeneration
             /\ generationOf'[s] \in {generationOf[s], nextGeneration}
    <3>1. nextGeneration' = 0 \/ nextGeneration' = nextGeneration + 1
      BY <2>2 DEF AllocateGeneration
    <3>2. QED
      BY <1>0, <2>2, <3>1 DEF Latest
  <2>3. nextGeneration # 0 /\ AllocateGeneration =>
          generationOf'[s] \in {generationOf[s], nextGeneration}
    BY <1>2 DEF Spawn, RestType, runtimeVars
  <2>4. QED
    BY <1>2, <2>1, <2>2, <2>3 DEF Spawn
<1>3. ASSUME NEW r \in Surfaces, RemoveEntry(r)
      PROVE  nextGeneration' = nextGeneration /\ generationOf'[s] \in {generationOf[s], None}
  BY <1>3 DEF RemoveEntry, RestType
<1>4. ASSUME NEW c \in Calls, Close(c) \/ Forget(c)
      PROVE  nextGeneration' = nextGeneration /\ generationOf'[s] \in {generationOf[s], None}
  <2>1. call[c].surface \in Surfaces
    BY DEF CallsType, Call
  <2>2. UNCHANGED runtimeVars \/ RemoveEntry(call[c].surface)
    BY <1>4 DEF Close, Forget
  <2>3. QED
    BY <1>3, <2>1, <2>2 DEF runtimeVars
<1>5. CASE CloseFailedSpawn
  <2>1. gtk.surface \in Surfaces
    BY GtkFields DEF RestType
  <2>2. UNCHANGED runtimeVars \/ RemoveEntry(gtk.surface)
    BY <1>5 DEF CloseFailedSpawn
  <2>3. QED
    BY <1>1, <1>3, <2>1, <2>2 DEF runtimeVars
<1>6. CASE UNCHANGED <<generationOf, nextGeneration>>
  BY <1>1, <1>6
<1>7. CASE \E c \in Calls :
             \/ CloseWaits(c) \/ CloseTimesOut(c) \/ EnqueueSend(c)
             \/ ReceiveReply(c) \/ ReceiveDisconnect(c) \/ ReplyTimesOut(c)
             \/ CancelPending(c) \/ Reuse(c)
             \/ \E r \in Surfaces : BeginClose(c, r) \/ BeginSend(c, r)
  BY <1>6, <1>7 DEF CloseWaits, CloseTimesOut, EnqueueSend, ReceiveReply,
       ReceiveDisconnect, ReplyTimesOut, CancelPending, Reuse, BeginClose, BeginSend,
       runtimeVars
<1>8. CASE \/ BuildPane \/ InsertPane \/ BuildFails \/ LeaseForSend \/ RunSend
           \/ Reply \/ CommitCallback \/ CommitSnapshot \/ GtkTake
  BY <1>6, <1>8 DEF BuildPane, InsertPane, BuildFails, LeaseForSend, RunSend, Reply,
       CommitCallback, CommitSnapshot, GtkTake, TakeSpawn, TakeClose, TakeSend,
       runtimeVars
<1>9. CASE \/ BeginSnapshot \/ Quit \/ UNCHANGED vars
           \/ \E r \in Surfaces : CallbackReady(r) \/ BeginCallback(r)
  BY <1>6, <1>9 DEF BeginSnapshot, Quit, vars, CallbackReady, BeginCallback, runtimeVars
<1>10. QED
  BY <1>1, <1>2, <1>4, <1>5, <1>7, <1>8, <1>9 DEF Next, CallStep, GtkWork

(* Where the panes, the widgets and the model's observations come from. *)
LEMMA WidgetSources ==
  ASSUME RestType, CallsType, [Next]_vars, NEW s \in Surfaces
  PROVE  /\ \/ pane'[s] = pane[s]
            \/ pane'[s] = None
            \/ InsertPane /\ s = gtk.surface /\ pane'[s] = gtk.generation
         /\ \/ observedBy'[s] = observedBy[s]
            \/ TakeClose /\ pane[s] # None /\ observedBy'[s] = pane[s]
            \/ CommitSnapshot /\ (\E i \in leased : i[1] = s) /\ observedBy'[s] = pane[s]
            \/ CommitCallback /\ s = gtk.surface /\ observedBy'[s] = gtk.generation
         /\ \A g \in built'[s] :
              g \in built[s] \/ (BuildPane /\ s = gtk.surface /\ g = gtk.generation)
<1>0. gtk.surface \in Surfaces /\ gtk.generation \in Generation
  BY GtkFields DEF RestType
<1>1. CASE UNCHANGED <<pane, observedBy, built>>
  BY <1>1
<1>2. CASE BuildPane
  BY <1>2 DEF BuildPane, RestType
<1>3. CASE InsertPane
  BY <1>3 DEF InsertPane, RestType
<1>4. CASE CommitCallback
  BY <1>4 DEF CommitCallback, RestType
<1>5. CASE CommitSnapshot
  BY <1>5 DEF CommitSnapshot, RestType
<1>6. CASE TakeClose
  <2>1. gtk'.surface \in Surfaces /\ gtk'.generation \in Generation
    BY <1>6, TakeType DEF TakeClose, NotServing
  <2>2. CASE UNCHANGED <<pane, observedBy>>
    BY <1>6, <2>2 DEF TakeClose
  <2>3. CASE pane[gtk'.surface] = gtk'.generation /\ TearDown(gtk'.surface)
    BY <1>6, <2>1, <2>3 DEF TakeClose, TearDown, RestType, Generation, None
  <2>4. QED
    BY <1>6, <2>2, <2>3 DEF TakeClose
<1>7. CASE \E c \in Calls :
             \/ Close(c) \/ Forget(c)
             \/ CloseWaits(c) \/ CloseTimesOut(c) \/ EnqueueSend(c)
             \/ ReceiveReply(c) \/ ReceiveDisconnect(c) \/ ReplyTimesOut(c)
             \/ CancelPending(c) \/ Reuse(c)
             \/ \E r \in Surfaces : Spawn(c, r) \/ BeginClose(c, r) \/ BeginSend(c, r)
  BY <1>1, <1>7 DEF Close, Forget, CloseWaits, CloseTimesOut, EnqueueSend, ReceiveReply,
       ReceiveDisconnect, ReplyTimesOut, CancelPending, Reuse, Spawn, BeginClose,
       BeginSend, gtkVars
<1>8. CASE \/ BuildFails \/ CloseFailedSpawn \/ LeaseForSend \/ RunSend
           \/ Reply \/ TakeSpawn \/ TakeSend
  BY <1>1, <1>8 DEF BuildFails, CloseFailedSpawn, LeaseForSend, RunSend, Reply,
       TakeSpawn, TakeSend
<1>9. CASE \/ BeginSnapshot \/ Quit \/ UNCHANGED vars
           \/ \E r \in Surfaces : CallbackReady(r) \/ BeginCallback(r)
  BY <1>1, <1>9 DEF BeginSnapshot, Quit, vars, CallbackReady, BeginCallback, gtkVars
<1>10. QED
  BY <1>2, <1>3, <1>4, <1>5, <1>6, <1>7, <1>8, <1>9 DEF Next, CallStep, GtkWork, GtkTake

LEMMA SendSource ==
  ASSUME RestType, NEW cmd \in Command, Send(cmd), NEW i \in DOMAIN queue'
  PROVE  queue'[i] = cmd \/ \E j \in DOMAIN queue : queue'[i] = queue[j]
BY DEF RestType, Send

LEMMA TakeSource ==
  ASSUME RestType, NEW kind, NEW at, Take(kind, at)
  PROVE  /\ \A i \in DOMAIN queue' : \E j \in DOMAIN queue : queue'[i] = queue[j]
         /\ 1 \in DOMAIN queue
         /\ queue[1].kind = kind
         /\ gtk'.at = at
         /\ gtk'.surface = queue[1].surface
         /\ gtk'.generation = queue[1].generation
<1>1. /\ queue \in Seq(Command)
      /\ queue # <<>>
      /\ queue' = Tail(queue)
      /\ Head(queue).kind = kind
  BY DEF RestType, Take
<1>2. Head(queue) = queue[1] /\ 1 \in DOMAIN queue
  BY <1>1
<1>3. ASSUME NEW i \in DOMAIN queue'
      PROVE  \E j \in DOMAIN queue : queue'[i] = queue[j]
  <2>1. i + 1 \in DOMAIN queue /\ queue'[i] = queue[i + 1]
    BY <1>1
  <2>2. QED
    BY <2>1
<1>4. QED
  BY <1>1, <1>2, <1>3 DEF Take

(* Spawn commands come from enqueue_spawn and from nowhere else. *)
LEMMA QueueSources ==
  ASSUME RestType, CallsType, [Next]_vars, NEW i \in DOMAIN queue',
         queue'[i].kind = "Spawn"
  PROVE  \/ \E j \in DOMAIN queue : queue'[i] = queue[j]
         \/ /\ nextGeneration # 0
            /\ AllocateGeneration
            /\ queue'[i].surface \in Surfaces
            /\ queue'[i].generation = nextGeneration
            /\ generationOf'[queue'[i].surface] = nextGeneration
<1> DEFINE Old == \E j \in DOMAIN queue : queue'[i] = queue[j]
           New == /\ nextGeneration # 0
                  /\ AllocateGeneration
                  /\ queue'[i].surface \in Surfaces
                  /\ queue'[i].generation = nextGeneration
                  /\ generationOf'[queue'[i].surface] = nextGeneration
<1>1. CASE UNCHANGED queue
  BY <1>1
<1>2. ASSUME NEW cmd \in Command, cmd.kind # "Spawn", Send(cmd)
      PROVE  Old
  BY <1>2, SendSource
<1>3. ASSUME NEW c \in Calls, NEW s \in Surfaces, Spawn(c, s)
      PROVE  Old \/ New
  <2> DEFINE cmd == [kind |-> "Spawn", surface |-> s,
                     generation |-> nextGeneration, call |-> NoCall]
  <2>1. CASE /\ nextGeneration # 0
             /\ AllocateGeneration
             /\ generationOf' = [generationOf EXCEPT ![s] = nextGeneration]
             /\ Send(cmd)
    <3>1. cmd \in Command /\ cmd.surface = s /\ cmd.generation = nextGeneration
      BY <2>1, MaxGenerationAssumption DEF RestType, Command, Generation
    <3>2. generationOf'[s] = nextGeneration
      BY <2>1 DEF RestType
    <3> HIDE DEF cmd
    <3>3. QED
      BY <2>1, <3>1, <3>2, SendSource
  <2>2. QED
    BY <1>1, <1>3, <2>1 DEF Spawn
<1>4. ASSUME NEW c \in Calls, Close(c) PROVE Old
  <2> DEFINE cmd == [kind |-> "Close", surface |-> call[c].surface,
                     generation |-> call[c].generation, call |-> NoCall]
  <2>1. cmd \in Command /\ cmd.kind = "Close"
    BY <1>4 DEF CallsType, Call, Close, Command
  <2>2. UNCHANGED queue \/ Send(cmd)
    BY <1>4 DEF Close
  <2> HIDE DEF cmd
  <2>3. QED
    BY <1>1, <1>2, <2>1, <2>2
<1>5. ASSUME NEW c \in Calls, EnqueueSend(c) PROVE Old
  <2> DEFINE cmd == [kind |-> "SendText", surface |-> call[c].surface,
                     generation |-> call[c].generation, call |-> c]
  <2>1. cmd \in Command /\ cmd.kind = "SendText"
    BY <1>5 DEF CallsType, Call, EnqueueSend, Command
  <2>2. UNCHANGED queue \/ Send(cmd)
    BY <1>5 DEF EnqueueSend
  <2> HIDE DEF cmd
  <2>3. QED
    BY <1>1, <1>2, <2>1, <2>2
<1>6. CASE CloseFailedSpawn
  <2> DEFINE cmd == [kind |-> "Close", surface |-> gtk.surface,
                     generation |-> gtk.generation, call |-> NoCall]
  <2>1. cmd \in Command /\ cmd.kind = "Close"
    BY GtkFields DEF RestType, Command
  <2>2. UNCHANGED queue \/ Send(cmd)
    BY <1>6 DEF CloseFailedSpawn
  <2> HIDE DEF cmd
  <2>3. QED
    BY <1>1, <1>2, <2>1, <2>2
<1>7. CASE GtkTake
  BY <1>7, TakeSource DEF GtkTake, TakeSpawn, TakeClose, TakeSend
<1>8. CASE Quit
  BY <1>8 DEF Quit
<1>9. CASE \E c \in Calls :
             \/ Forget(c) \/ CloseWaits(c) \/ CloseTimesOut(c)
             \/ ReceiveReply(c) \/ ReceiveDisconnect(c) \/ ReplyTimesOut(c)
             \/ CancelPending(c) \/ Reuse(c)
             \/ \E r \in Surfaces : BeginClose(c, r) \/ BeginSend(c, r)
  BY <1>1, <1>9 DEF Forget, CloseWaits, CloseTimesOut, ReceiveReply,
       ReceiveDisconnect, ReplyTimesOut, CancelPending, Reuse, BeginClose, BeginSend
<1>10. CASE \/ BuildPane \/ InsertPane \/ BuildFails \/ LeaseForSend \/ RunSend
            \/ Reply \/ CommitCallback \/ CommitSnapshot
  BY <1>1, <1>10 DEF BuildPane, InsertPane, BuildFails, LeaseForSend, RunSend, Reply,
       CommitCallback, CommitSnapshot
<1>11. CASE \/ BeginSnapshot \/ UNCHANGED vars
            \/ \E r \in Surfaces : CallbackReady(r) \/ BeginCallback(r)
  BY <1>1, <1>11 DEF BeginSnapshot, vars, CallbackReady, BeginCallback
<1>12. QED
  BY <1>3, <1>4, <1>5, <1>6, <1>7, <1>8, <1>9, <1>10, <1>11 DEF Next, CallStep, GtkWork

(* The GTK thread builds a pane only for a Spawn command it has taken, and *)
(* only where none is shown.                                               *)
LEMMA BuildSources ==
  ASSUME RestType, CallsType, [Next]_vars, gtk'.at \in {"building", "inserting"}
  PROVE  \/ /\ gtk.at \in {"building", "inserting"}
            /\ gtk'.surface = gtk.surface
            /\ gtk'.generation = gtk.generation
            /\ UNCHANGED pane
            /\ \/ gtk'.at = gtk.at /\ UNCHANGED leased
               \/ leased' = {<<gtk.surface, gtk.generation>>}
         \/ /\ TakeSpawn
            /\ gtk'.at = "building"
            /\ UNCHANGED pane
            /\ pane[gtk'.surface] = None
            /\ \E j \in DOMAIN queue :
                 /\ queue[j].kind = "Spawn"
                 /\ gtk'.surface = queue[j].surface
                 /\ gtk'.generation = queue[j].generation
<1>0. gtk \in Gtk
  BY DEF RestType
<1>1. CASE UNCHANGED <<gtk, pane, leased>>
  BY <1>1
<1>2. CASE BuildPane
  BY <1>0, <1>2 DEF BuildPane, GtkIdle, GtkTo, Gtk, AcquireLease
<1>3. CASE TakeSpawn
  BY <1>3, TakeSource DEF TakeSpawn
<1>4. CASE \/ InsertPane \/ BuildFails \/ CloseFailedSpawn \/ LeaseForSend \/ RunSend
           \/ Reply \/ CommitCallback \/ CommitSnapshot
  BY <1>0, <1>4 DEF InsertPane, BuildFails, CloseFailedSpawn, LeaseForSend, RunSend, Reply,
       CommitCallback, CommitSnapshot, GtkIdle, GtkTo, Gtk
<1>5. CASE TakeClose \/ TakeSend
  BY <1>5, TakeSource DEF TakeClose, TakeSend
<1>6. CASE BeginSnapshot \/ \E s \in Surfaces : BeginCallback(s)
  BY <1>0, <1>6 DEF BeginSnapshot, BeginCallback, GtkTo, Gtk
<1>7. CASE \E c \in Calls :
             \/ Close(c) \/ Forget(c)
             \/ CloseWaits(c) \/ CloseTimesOut(c) \/ EnqueueSend(c)
             \/ ReceiveReply(c) \/ ReceiveDisconnect(c) \/ ReplyTimesOut(c)
             \/ CancelPending(c) \/ Reuse(c)
             \/ \E r \in Surfaces : Spawn(c, r) \/ BeginClose(c, r) \/ BeginSend(c, r)
  BY <1>1, <1>7 DEF Close, Forget, CloseWaits, CloseTimesOut, EnqueueSend, ReceiveReply,
       ReceiveDisconnect, ReplyTimesOut, CancelPending, Reuse, Spawn, BeginClose,
       BeginSend, gtkVars
<1>8. CASE Quit \/ UNCHANGED vars \/ \E s \in Surfaces : CallbackReady(s)
  BY <1>1, <1>8 DEF Quit, vars, CallbackReady, gtkVars
<1>9. QED
  BY <1>2, <1>3, <1>4, <1>5, <1>6, <1>7, <1>8 DEF Next, CallStep, GtkWork, GtkTake

LEMMA LatestStep ==
  ASSUME RestType, CallsType, GenerationInv, [Next]_vars
  PROVE  LatestInv'
<1> USE DEF GenerationInv
<1>0. /\ gtk.surface \in Surfaces
      /\ gtk.generation \in 0 .. MaxGeneration
  BY GtkFields, MaxGenerationAssumption DEF RestType, Generation
<1>1. ASSUME NEW s \in Surfaces
      PROVE  /\ nextGeneration' # 0 => generationOf'[s] < nextGeneration'
             /\ Latest(s, pane[s])'
             /\ Latest(s, observedBy[s])'
             /\ \A g \in built'[s] : Latest(s, g)'
  <2>1. /\ pane[s] \in 0 .. MaxGeneration /\ observedBy[s] \in 0 .. MaxGeneration
        /\ built[s] \subseteq 0 .. MaxGeneration
        /\ None \in 0 .. MaxGeneration
    BY MaxGenerationAssumption DEF RestType, Generation, None
  <2>2. \A g \in 0 .. MaxGeneration : Latest(s, g) => Latest(s, g)'
    BY LatestCarries
  <2>3. Latest(s, None)
    BY MaxGenerationAssumption DEF Latest, RestType, None
  <2>4. gtk.at \in {"building", "inserting"} => Latest(gtk.surface, gtk.generation)
    BY DEF LatestInv
  <2>5. Latest(s, pane[s]) /\ Latest(s, observedBy[s]) /\ \A g \in built[s] : Latest(s, g)
    BY DEF LatestInv
  <2>6. Latest(s, pane'[s])
    BY <2>3, <2>4, <2>5, WidgetSources DEF InsertPane
  <2>7. Latest(s, observedBy'[s])
    <3>1. CommitCallback /\ s = gtk.surface => Latest(s, gtk.generation)
      BY <2>5 DEF CommitCallback, WriterInv
    <3>2. QED
      BY <2>5, <3>1, WidgetSources
  <2>8. \A g \in built'[s] : Latest(s, g)
    BY <2>4, <2>5, WidgetSources DEF BuildPane
  <2>9. pane'[s] \in 0 .. MaxGeneration /\ observedBy'[s] \in 0 .. MaxGeneration
        /\ built'[s] \subseteq 0 .. MaxGeneration
    BY <1>0, <2>1, WidgetSources
  <2>10. QED
    BY <2>2, <2>6, <2>7, <2>8, <2>9, LatestCarries DEF Latest
<1>2. ASSUME NEW i \in DOMAIN queue', queue'[i].kind = "Spawn"
      PROVE  Latest(queue[i].surface, queue[i].generation)'
  <2>1. CASE \E j \in DOMAIN queue : queue'[i] = queue[j]
    <3>1. PICK j \in DOMAIN queue : queue'[i] = queue[j]
      BY <2>1
    <3>2. queue[j] \in Command
      BY DEF RestType
    <3>3. PICK s \in Surfaces, g \in 0 .. MaxGeneration :
            s = queue[j].surface /\ g = queue[j].generation
      BY <3>2 DEF Command, Generation
    <3>4. Latest(s, g)
      BY <1>2, <3>1, <3>3 DEF LatestInv
    <3>5. Latest(s, g)'
      BY <3>4, LatestCarries
    <3>6. QED
      BY <3>1, <3>3, <3>5 DEF Latest
  <2>2. CASE /\ nextGeneration # 0
             /\ AllocateGeneration
             /\ queue'[i].generation = nextGeneration
             /\ generationOf'[queue'[i].surface] = nextGeneration
    BY <2>2, MaxGenerationAssumption DEF Latest, AllocateGeneration, RestType
  <2>3. QED
    BY <1>2, <2>1, <2>2, QueueSources
<1>3. ASSUME gtk'.at \in {"building", "inserting"}
      PROVE  Latest(gtk.surface, gtk.generation)'
  <2>1. /\ gtk'.surface \in Surfaces
        /\ gtk'.generation \in 0 .. MaxGeneration
        /\ Latest(gtk'.surface, gtk'.generation)
    <3>1. CASE /\ gtk.at \in {"building", "inserting"}
               /\ gtk'.surface = gtk.surface
               /\ gtk'.generation = gtk.generation
      BY <1>0, <3>1 DEF LatestInv
    <3>2. CASE \E j \in DOMAIN queue :
                 /\ queue[j].kind = "Spawn"
                 /\ gtk'.surface = queue[j].surface
                 /\ gtk'.generation = queue[j].generation
      <4>1. PICK j \in DOMAIN queue :
                 /\ queue[j].kind = "Spawn"
                 /\ gtk'.surface = queue[j].surface
                 /\ gtk'.generation = queue[j].generation
        BY <3>2
      <4>2. queue[j] \in Command
        BY DEF RestType
      <4>3. QED
        BY <4>1, <4>2 DEF LatestInv, Command, Generation
    <3>3. QED
      BY <1>3, <3>1, <3>2, BuildSources
  <2>2. QED
    BY <2>1, LatestCarries DEF Latest
<1>4. QED
  BY <1>1, <1>2, <1>3 DEF LatestInv

LEMMA ObserveSources ==
  ASSUME RestType, CallsType, [Next]_vars, gtk'.at \in {"observing", "snapshotting"}
  PROVE  \/ UNCHANGED <<gtk, leased, pane, built>>
         \/ BeginSnapshot
         \/ \E s \in Surfaces : BeginCallback(s)
<1>0. gtk \in Gtk
  BY DEF RestType
<1>1. CASE \/ BuildPane \/ InsertPane \/ BuildFails \/ CloseFailedSpawn \/ LeaseForSend
           \/ RunSend \/ Reply \/ CommitCallback \/ CommitSnapshot
  BY <1>0, <1>1 DEF BuildPane, InsertPane, BuildFails, CloseFailedSpawn, LeaseForSend,
       RunSend, Reply, CommitCallback, CommitSnapshot, GtkIdle, GtkTo, Gtk
<1>2. CASE GtkTake
  BY <1>2, TakeSource DEF GtkTake, TakeSpawn, TakeClose, TakeSend
<1>3. CASE \E c \in Calls :
             \/ Close(c) \/ Forget(c)
             \/ CloseWaits(c) \/ CloseTimesOut(c) \/ EnqueueSend(c)
             \/ ReceiveReply(c) \/ ReceiveDisconnect(c) \/ ReplyTimesOut(c)
             \/ CancelPending(c) \/ Reuse(c)
             \/ \E r \in Surfaces : Spawn(c, r) \/ BeginClose(c, r) \/ BeginSend(c, r)
  <2>1. UNCHANGED gtkVars
    BY <1>3 DEF Close, Forget, CloseWaits, CloseTimesOut, EnqueueSend, ReceiveReply,
         ReceiveDisconnect, ReplyTimesOut, CancelPending, Reuse, Spawn, BeginClose,
         BeginSend
  <2>2. QED
    BY <2>1 DEF gtkVars
<1>4. CASE Quit \/ UNCHANGED vars \/ \E s \in Surfaces : CallbackReady(s)
  BY <1>4 DEF Quit, vars, CallbackReady, gtkVars
<1>5. QED
  BY <1>1, <1>2, <1>3, <1>4 DEF Next, CallStep, GtkWork

LEMMA WriterStep ==
  ASSUME RestType, CallsType, GenerationInv, [Next]_vars
  PROVE  WriterInv'
<1> USE DEF GenerationInv
<1>0. gtk \in Gtk
  BY DEF RestType
<1>1. gtk'.at = "inserting" => leased' = {<<gtk'.surface, gtk'.generation>>}
  BY BuildSources DEF WriterInv
<1>2. ASSUME NEW s \in Surfaces, BeginCallback(s)
      PROVE  WriterInv'
  BY <1>0, <1>2 DEF BeginCallback, AcquireLease, WriterInv, Gtk
<1>3. CASE BeginSnapshot
  BY <1>0, <1>3 DEF BeginSnapshot, AcquireLease, WriterInv, GtkTo, Gtk
<1>4. CASE UNCHANGED <<gtk, leased, pane, built>>
  BY <1>4 DEF WriterInv
<1>5. CASE gtk'.at \notin {"observing", "snapshotting"}
  BY <1>1, <1>5 DEF WriterInv
<1>6. QED
  BY <1>2, <1>3, <1>4, <1>5, ObserveSources

(* The incarnation the GTK thread works for under its one lease. *)
LEMMA LeasedIsCurrent ==
  ASSUME RestType, LeaseInv, WriterInv, gtk.at \in {"inserting", "observing"}
  PROVE  generationOf[gtk.surface] = gtk.generation /\ gtk.generation # None
<1>1. <<gtk.surface, gtk.generation>> \in leased
  BY DEF WriterInv
<1>2. QED
  BY <1>1, GtkFields DEF LeaseInv, LeaseMatch, IsCurrent, RestType, Generation, None

LEMMA PaneStep ==
  ASSUME RestType, CallsType, LeaseInv, GenerationInv, [Next]_vars
  PROVE  PaneInv'
<1> USE DEF GenerationInv
<1>1. ASSUME NEW s \in Surfaces, pane'[s] # None
      PROVE  observedBy'[s] <= pane'[s] /\ \A g \in built'[s] : g <= pane'[s]
  <2>1. CASE pane'[s] = pane[s]
    <3>1. observedBy[s] <= pane[s] /\ \A g \in built[s] : g <= pane[s]
      BY <1>1, <2>1 DEF PaneInv
    <3>2. observedBy'[s] <= pane[s]
      <4>1. CommitCallback /\ s = gtk.surface => gtk.generation \in built[s]
        BY DEF CommitCallback, WriterInv
      <4>2. pane[s] \in Nat
        BY DEF RestType
      <4>3. QED
        BY <3>1, <4>1, <4>2, WidgetSources
    <3>3. \A g \in built'[s] : g \in built[s]
      <4>1. ~ (BuildPane /\ s = gtk.surface)
        BY <1>1, <2>1 DEF BuildPane, PaneInv
      <4>2. QED
        BY <4>1, WidgetSources
    <3>4. QED
      BY <2>1, <3>1, <3>2, <3>3
  <2>2. CASE InsertPane /\ s = gtk.surface /\ pane'[s] = gtk.generation
    <3>1. generationOf[s] = gtk.generation /\ gtk.generation # None
      BY <2>2, LeasedIsCurrent DEF InsertPane
    <3>2. observedBy[s] <= gtk.generation /\ \A g \in built[s] : g <= gtk.generation
      BY <3>1 DEF LatestInv, Latest
    <3>3. UNCHANGED <<observedBy, built>>
      BY <2>2 DEF InsertPane
    <3>4. QED
      BY <2>2, <3>2, <3>3
  <2>3. QED
    BY <1>1, <2>1, <2>2, WidgetSources
<1>2. gtk'.at \in {"building", "inserting"} => pane'[gtk'.surface] = None
  BY BuildSources DEF PaneInv
<1>3. QED
  BY <1>1, <1>2 DEF PaneInv

LEMMA ForwardStep ==
  ASSUME RestType, CallsType, LeaseInv, GenerationInv, [Next]_vars, NEW s \in Surfaces
  PROVE  observedBy'[s] >= observedBy[s]
<1> USE DEF GenerationInv
<1>0. observedBy[s] \in Nat /\ pane[s] \in Nat
  BY DEF RestType
<1>1. CASE observedBy'[s] = observedBy[s]
  BY <1>0, <1>1
<1>2. CASE pane[s] # None /\ observedBy'[s] = pane[s]
  BY <1>0, <1>2 DEF PaneInv
<1>3. CASE CommitSnapshot /\ (\E i \in leased : i[1] = s) /\ observedBy'[s] = pane[s]
  <2>1. PICK i \in leased : i[1] = s
    BY <1>3
  <2>2. i[2] = pane[s] /\ i[2] \in Generation
    BY <1>3, <2>1 DEF CommitSnapshot, WriterInv, RestType
  <2>3. QED
    BY <1>2, <1>3, <2>2 DEF Generation, None
<1>4. CASE CommitCallback /\ s = gtk.surface /\ observedBy'[s] = gtk.generation
  <2>1. generationOf[s] = gtk.generation /\ gtk.generation # None
    BY <1>4, LeasedIsCurrent DEF CommitCallback
  <2>2. gtk.generation \in Nat
    BY GtkFields DEF RestType, Generation
  <2>3. QED
    BY <1>0, <1>4, <2>1, <2>2 DEF LatestInv, Latest
<1>5. QED
  BY <1>1, <1>2, <1>3, <1>4, WidgetSources

(* No callback of an earlier incarnation, and no scrollback saved when its *)
(* pane is closed, overwrites in the model what a later incarnation wrote  *)
(* there: the channel is FIFO, generations only grow, and everything else  *)
(* is written under a lease of the current one.                            *)
THEOREM ModelMovesForward == Spec => ObservationsMoveForward
<1> DEFINE IInv == RestType /\ CallsType /\ LeaseInv /\ GenerationInv
<1>1. Init => IInv
  <2>1. Init => LeaseInv
    BY DEF Init, LeaseInv, LeaseMatch
  <2>2. Init => GenerationInv
    BY MaxGenerationAssumption DEF Init, GenerationInv, LatestInv, PaneInv, WriterInv,
         Latest, None
  <2>3. QED
    BY <2>1, <2>2, InitType, TypeParts
<1>2. IInv /\ [Next]_vars => IInv'
  <2> SUFFICES ASSUME IInv, [Next]_vars PROVE IInv'
    OBVIOUS
  <2>1. RestType' /\ CallsType'
    BY TypeStep, TypeParts DEF TypeOK, RestType, CallsType
  <2>2. GenerationInv'
    BY LatestStep, PaneStep, WriterStep DEF GenerationInv
  <2>3. QED
    BY <2>1, <2>2, LeaseStep
<1>3. IInv /\ [Next]_vars => [\A s \in Surfaces : observedBy'[s] >= observedBy[s]]_vars
  BY ForwardStep
<1> HIDE DEF IInv
<1>4. QED
  BY <1>1, <1>2, <1>3, PTL DEF Spec, ObservationsMoveForward

-----------------------------------------------------------------------------
(* The channel.  A Close is of an incarnation whose entry is gone for good,*)
(* and comes after every Spawn that is not later.                          *)

Past(s, g) ==
  /\ generationOf[s] # None => g < generationOf[s]
  /\ nextGeneration # 0 => g < nextGeneration

ClosedArePast ==
  \A i \in DOMAIN queue :
    queue[i].kind = "Close" => Past(queue[i].surface, queue[i].generation)

ClosesFollowSpawns ==
  \A i, j \in DOMAIN queue :
    /\ queue[i].kind = "Spawn" /\ queue[j].kind = "Close"
    /\ queue[i].surface = queue[j].surface
    /\ i < j
    => queue[i].generation <= queue[j].generation

ForgottenAreGone == \A s \in forgotten : generationOf[s] = None

ChannelInv == ClosedArePast /\ ClosesFollowSpawns /\ ForgottenAreGone

(* Appending keeps what is queued; taking keeps all but the head.          *)
LEMMA SendKeeps ==
  ASSUME RestType, NEW cmd \in Command, Send(cmd)
  PROVE  /\ \A kind, s, g : Queued(kind, s, g) => Queued(kind, s, g)'
         /\ Queued(cmd.kind, cmd.surface, cmd.generation)'
         /\ DOMAIN queue' = 1 .. Len(queue) + 1
         /\ \A i \in DOMAIN queue : queue'[i] = queue[i]
         /\ queue'[Len(queue) + 1] = cmd
<1>1. queue \in Seq(Command) /\ queue' = Append(queue, cmd)
  BY DEF RestType, Send
<1>2. /\ DOMAIN queue = 1 .. Len(queue) /\ Len(queue) \in Nat
      /\ DOMAIN queue' = 1 .. Len(queue) + 1
      /\ \A i \in DOMAIN queue : queue'[i] = queue[i]
      /\ queue'[Len(queue) + 1] = cmd
  BY <1>1
<1> QED
  BY <1>2 DEF Queued

LEMMA TakeKeeps ==
  ASSUME RestType, NEW kind, NEW at, Take(kind, at)
  PROVE  /\ \A k, s, g : Queued(k, s, g) =>
              \/ Queued(k, s, g)'
              \/ k = kind /\ s = gtk'.surface /\ g = gtk'.generation
         /\ Len(queue) \in Nat /\ DOMAIN queue = 1 .. Len(queue)
         /\ DOMAIN queue' = 1 .. Len(queue) - 1
         /\ \A i \in DOMAIN queue' : i + 1 \in DOMAIN queue /\ queue'[i] = queue[i + 1]
<1>1. queue \in Seq(Command) /\ queue # <<>> /\ queue' = Tail(queue)
  BY DEF RestType, Take
<1>2. /\ DOMAIN queue = 1 .. Len(queue) /\ Len(queue) \in Nat
      /\ DOMAIN queue' = 1 .. Len(queue) - 1
      /\ \A i \in DOMAIN queue' : i + 1 \in DOMAIN queue /\ queue'[i] = queue[i + 1]
  BY <1>1
<1>3. ASSUME NEW k, NEW s, NEW g, Queued(k, s, g)
      PROVE  \/ Queued(k, s, g)'
             \/ k = kind /\ s = gtk'.surface /\ g = gtk'.generation
  <2>1. PICK i \in DOMAIN queue :
          queue[i].kind = k /\ queue[i].surface = s /\ queue[i].generation = g
    BY <1>3 DEF Queued
  <2>2. CASE i = 1
    BY <2>1, <2>2, TakeSource
  <2>3. CASE i # 1
    <3>1. i - 1 \in DOMAIN queue' /\ queue'[i - 1] = queue[i]
      BY <1>2, <2>3
    <3> QED
      BY <2>1, <3>1 DEF Queued
  <2> QED
    BY <2>2, <2>3
<1> QED
  BY <1>2, <1>3

(* Steps that neither touch the channel nor the map's generations.         *)
Aside == UNCHANGED <<queue, generationOf, nextGeneration, forgotten>>

LEMMA AsideSteps ==
  ASSUME [Next]_vars
  PROVE  \/ Aside
         \/ \E c \in Calls : Close(c) \/ Forget(c) \/ EnqueueSend(c)
                             \/ \E s \in Surfaces : Spawn(c, s)
         \/ CloseFailedSpawn
         \/ GtkTake
         \/ Quit
<1>1. CASE \E c \in Calls :
             \/ CloseWaits(c) \/ CloseTimesOut(c)
             \/ ReceiveReply(c) \/ ReceiveDisconnect(c) \/ ReplyTimesOut(c)
             \/ CancelPending(c) \/ Reuse(c)
             \/ \E r \in Surfaces : BeginClose(c, r) \/ BeginSend(c, r)
  BY <1>1 DEF CloseWaits, CloseTimesOut, ReceiveReply, ReceiveDisconnect,
       ReplyTimesOut, CancelPending, Reuse, BeginClose, BeginSend, runtimeVars, Aside
<1>2. CASE \/ BuildPane \/ InsertPane \/ BuildFails \/ LeaseForSend \/ RunSend
           \/ Reply \/ CommitCallback \/ CommitSnapshot
  BY <1>2 DEF BuildPane, InsertPane, BuildFails, LeaseForSend, RunSend, Reply,
       CommitCallback, CommitSnapshot, runtimeVars, Aside
<1>3. CASE \/ BeginSnapshot \/ UNCHANGED vars
           \/ \E r \in Surfaces : CallbackReady(r) \/ BeginCallback(r)
  BY <1>3 DEF BeginSnapshot, vars, CallbackReady, BeginCallback, Aside
<1> QED
  BY <1>1, <1>2, <1>3 DEF Next, CallStep, GtkWork

(* Closing an incarnation: its entry goes and its Close is queued. *)
LEMMA ClosingKeepsChannel ==
  ASSUME RestType, LatestInv, ChannelInv, NEW s \in Surfaces, NEW g \in Generation,
         IsCurrent(s, g), RemoveEntry(s), UNCHANGED forgotten,
         Send([kind |-> "Close", surface |-> s, generation |-> g, call |-> NoCall])
  PROVE  ChannelInv'
<1> DEFINE cmd == [kind |-> "Close", surface |-> s, generation |-> g, call |-> NoCall]
<1>1. cmd \in Command /\ cmd.kind = "Close" /\ cmd.surface = s /\ cmd.generation = g
  BY DEF Command
<1> HIDE DEF cmd
<1>2. /\ DOMAIN queue' = 1 .. Len(queue) + 1 /\ DOMAIN queue = 1 .. Len(queue)
      /\ Len(queue) \in Nat
      /\ \A i \in DOMAIN queue : queue'[i] = queue[i]
      /\ queue'[Len(queue) + 1] = cmd
  BY <1>1, SendKeeps DEF RestType, cmd
<1>3. /\ UNCHANGED nextGeneration
      /\ \A r \in Surfaces : generationOf'[r] \in {generationOf[r], None}
      /\ generationOf'[s] = None
  BY DEF RemoveEntry, RestType
<1>4. \A i \in DOMAIN queue : queue[i] \in Command /\ queue[i].surface \in Surfaces
  BY DEF RestType, Command
<1>5. ClosedArePast'
  <2>1. ASSUME NEW i \in DOMAIN queue, queue[i].kind = "Close"
        PROVE  Past(queue[i].surface, queue[i].generation)'
    BY <1>2, <1>3, <1>4, <2>1 DEF ChannelInv, ClosedArePast, Past
  <2>2. Past(cmd.surface, cmd.generation)'
    BY <1>1, <1>3 DEF LatestInv, Past, IsCurrent
  <2> QED
    BY <1>2, <2>1, <2>2 DEF ClosedArePast, Past
<1>6. ClosesFollowSpawns'
  <2>1. ASSUME NEW i \in DOMAIN queue, queue[i].kind = "Spawn", queue[i].surface = s
        PROVE  queue[i].generation <= g
    BY <2>1 DEF LatestInv, Latest, IsCurrent, Generation, None
  <2> QED
    BY <1>1, <1>2, <2>1 DEF ChannelInv, ClosesFollowSpawns
<1>7. ForgottenAreGone'
  BY <1>3 DEF ChannelInv, ForgottenAreGone, RestType
<1> QED
  BY <1>5, <1>6, <1>7 DEF ChannelInv

LEMMA SpawningKeepsChannel ==
  ASSUME RestType, ChannelInv, NEW c \in Calls, NEW s \in Surfaces, Spawn(c, s)
  PROVE  ChannelInv'
<1> DEFINE cmd == [kind |-> "Spawn", surface |-> s,
                   generation |-> nextGeneration, call |-> NoCall]
<1>0. \A i \in DOMAIN queue : queue[i].surface \in Surfaces /\ queue[i].generation \in Nat
  BY DEF RestType, Command, Generation
<1>1. CASE Aside
  BY <1>1 DEF Aside, ChannelInv, ClosedArePast, ClosesFollowSpawns, ForgottenAreGone, Past
<1>2. CASE nextGeneration # 0 /\ AllocateGeneration
  <2>0. /\ nextGeneration' = 0 \/ nextGeneration' = nextGeneration + 1
        /\ nextGeneration \in Nat
        /\ UNCHANGED forgotten /\ s \notin forgotten
    BY <1>2, <1>2 DEF AllocateGeneration, RestType, Spawn
  <2>1. CASE UNCHANGED <<generationOf, queue>>
    BY <1>0, <1>2, <2>0, <2>1
       DEF ChannelInv, ClosedArePast, ClosesFollowSpawns, ForgottenAreGone, Past
  <2>2. CASE /\ generationOf' = [generationOf EXCEPT ![s] = nextGeneration]
             /\ Send(cmd)
    <3>1. cmd \in Command /\ cmd.kind = "Spawn"
      BY <1>2, MaxGenerationAssumption DEF RestType, Command, Generation
    <3> HIDE DEF cmd
    <3>2. /\ DOMAIN queue' = 1 .. Len(queue) + 1 /\ DOMAIN queue = 1 .. Len(queue)
          /\ Len(queue) \in Nat
          /\ \A i \in DOMAIN queue : queue'[i] = queue[i]
          /\ queue'[Len(queue) + 1] = cmd
      BY <2>2, <3>1, SendKeeps DEF RestType
    <3>3. /\ \A r \in Surfaces \ {s} : generationOf'[r] = generationOf[r]
          /\ generationOf'[s] = nextGeneration
      BY <2>2 DEF RestType
    <3>4. ClosedArePast'
      <4> SUFFICES ASSUME NEW i \in DOMAIN queue', queue'[i].kind = "Close"
                   PROVE  Past(queue[i].surface, queue[i].generation)'
        BY DEF ClosedArePast, Past
      <4>1. i \in DOMAIN queue /\ queue'[i] = queue[i]
        BY <3>1, <3>2
      <4>2. Past(queue[i].surface, queue[i].generation)
        BY <4>1 DEF ChannelInv, ClosedArePast
      <4> QED
        BY <1>0, <1>2, <2>0, <3>3, <4>1, <4>2 DEF Past
    <3>5. ClosesFollowSpawns'
      BY <3>1, <3>2 DEF ChannelInv, ClosesFollowSpawns
    <3>6. ForgottenAreGone'
      BY <2>0, <3>3 DEF ChannelInv, ForgottenAreGone, RestType
    <3> QED
      BY <3>4, <3>5, <3>6 DEF ChannelInv
  <2> QED
    BY <1>2, <2>1, <2>2 DEF Spawn, runtimeVars, AllocateGeneration
<1> QED
  BY <1>1, <1>2 DEF Spawn, runtimeVars, Aside

LEMMA TakingKeepsChannel ==
  ASSUME RestType, ChannelInv, GtkTake
  PROVE  ChannelInv'
<1>1. PICK kind, at : Take(kind, at)
  BY DEF GtkTake, TakeSpawn, TakeClose, TakeSend
<1>2. /\ Len(queue) \in Nat /\ DOMAIN queue = 1 .. Len(queue)
      /\ DOMAIN queue' = 1 .. Len(queue) - 1
      /\ \A i \in DOMAIN queue' : i + 1 \in DOMAIN queue /\ queue'[i] = queue[i + 1]
  BY <1>1, TakeKeeps
<1>3. UNCHANGED <<generationOf, nextGeneration, forgotten>>
  BY DEF GtkTake, TakeSpawn, TakeClose, TakeSend, runtimeVars
<1> QED
  BY <1>2, <1>3, SMTT(20) DEF ChannelInv, ClosedArePast, ClosesFollowSpawns, ForgottenAreGone, Past

LEMMA ChannelStep ==
  ASSUME RestType, CallsType, LatestInv, ChannelInv, [Next]_vars
  PROVE  ChannelInv'
<1>1. CASE Aside
  BY <1>1 DEF Aside, ChannelInv, ClosedArePast, ClosesFollowSpawns, ForgottenAreGone, Past
<1>2. ASSUME NEW c \in Calls, Close(c) PROVE ChannelInv'
  <2>1. call[c].surface \in Surfaces /\ call[c].generation \in Generation
    BY <1>2 DEF CallsType, Call, Close
  <2> QED
    BY <1>1, <1>2, <2>1, ClosingKeepsChannel DEF Close, Aside, runtimeVars
<1>3. ASSUME NEW c \in Calls, Forget(c) PROVE ChannelInv'
  <2>1. call[c].surface \in Surfaces
    BY DEF CallsType, Call
  <2>2. CASE /\ RemoveEntry(call[c].surface)
             /\ forgotten' = forgotten \cup {call[c].surface}
    <3>1. UNCHANGED <<queue, nextGeneration>>
      BY <1>3, <2>2 DEF Forget, RemoveEntry
    <3>2. /\ \A r \in Surfaces : generationOf'[r] \in {generationOf[r], None}
          /\ generationOf'[call[c].surface] = None
      BY <2>1, <2>2 DEF RemoveEntry, RestType
    <3>3. \A i \in DOMAIN queue : queue[i].surface \in Surfaces
      BY DEF RestType, Command
    <3> QED
      BY <2>2, <3>1, <3>2, <3>3
         DEF ChannelInv, ClosedArePast, ClosesFollowSpawns, ForgottenAreGone, Past, RestType
  <2> QED
    BY <1>1, <1>3, <2>2 DEF Forget, Aside, runtimeVars
<1>4. ASSUME NEW c \in Calls, EnqueueSend(c) PROVE ChannelInv'
  <2> DEFINE cmd == [kind |-> "SendText", surface |-> call[c].surface,
                     generation |-> call[c].generation, call |-> c]
  <2>1. cmd \in Command /\ cmd.kind = "SendText"
    BY <1>4 DEF CallsType, Call, EnqueueSend, Command
  <2>2. UNCHANGED <<generationOf, nextGeneration, forgotten>>
    BY <1>4 DEF EnqueueSend, runtimeVars
  <2>3. CASE Send(cmd)
    <3> HIDE DEF cmd
    <3>1. /\ DOMAIN queue' = 1 .. Len(queue) + 1 /\ DOMAIN queue = 1 .. Len(queue)
          /\ Len(queue) \in Nat
          /\ \A i \in DOMAIN queue : queue'[i] = queue[i]
          /\ queue'[Len(queue) + 1] = cmd
      BY <2>1, <2>3, SendKeeps DEF RestType
    <3>2. ClosedArePast'
      BY <2>1, <2>2, <3>1 DEF ChannelInv, ClosedArePast, Past
    <3>3. ClosesFollowSpawns'
      BY <2>1, <3>1 DEF ChannelInv, ClosesFollowSpawns
    <3> QED
      BY <2>2, <3>2, <3>3 DEF ChannelInv, ForgottenAreGone
  <2> QED
    BY <1>1, <1>4, <2>2, <2>3 DEF EnqueueSend, Aside
<1>5. ASSUME NEW c \in Calls, NEW s \in Surfaces, Spawn(c, s) PROVE ChannelInv'
  BY <1>5, SpawningKeepsChannel
<1>6. CASE CloseFailedSpawn
  <2>1. gtk.surface \in Surfaces /\ gtk.generation \in Generation
    BY GtkFields DEF RestType
  <2> QED
    BY <1>1, <1>6, <2>1, ClosingKeepsChannel DEF CloseFailedSpawn, Aside, runtimeVars
<1>7. CASE GtkTake
  BY <1>7, TakingKeepsChannel
<1>8. CASE Quit
  <2>1. queue' = <<>> /\ UNCHANGED <<generationOf, forgotten>>
    BY <1>8 DEF Quit, runtimeVars
  <2> QED
    BY <2>1 DEF ChannelInv, ClosedArePast, ClosesFollowSpawns, ForgottenAreGone
<1> QED
  BY <1>1, <1>2, <1>3, <1>4, <1>5, <1>6, <1>7, <1>8, AsideSteps

-----------------------------------------------------------------------------
(* Entries and panes.                                                      *)

EntryServed(s) ==
  generationOf[s] # None =>
    \/ Queued("Spawn", s, generationOf[s])
    \/ Materializing(s, generationOf[s])
    \/ pane[s] = generationOf[s]

PaneOwned(s) ==
  pane[s] # None =>
    IsCurrent(s, pane[s]) \/ Queued("Close", s, pane[s]) \/ s \in forgotten

LEMMA StrandParts ==
  NoStrandedIncarnation <=>
    (receiving => \A s \in Surfaces : EntryServed(s) /\ PaneOwned(s))
BY DEF NoStrandedIncarnation, EntryServed, PaneOwned

(* The incarnation the GTK thread is making, if it makes one.              *)
SameWork ==
  \A s \in Surfaces, g \in Generation : Materializing(s, g) => Materializing(s, g)'

(* A step that only adds to the channel and leaves entries, panes and the  *)
(* pane that is being made alone.                                          *)
LEMMA NothingStranded ==
  ASSUME RestType, NEW s \in Surfaces, EntryServed(s), PaneOwned(s),
         SameWork, generationOf'[s] = generationOf[s], pane'[s] = pane[s],
         forgotten \subseteq forgotten',
         \A kind, g : Queued(kind, s, g) => Queued(kind, s, g)'
  PROVE  EntryServed(s)' /\ PaneOwned(s)'
<1>1. generationOf[s] # None => generationOf[s] \in Generation
  BY DEF RestType, Generation, None
<1>2. EntryServed(s)'
  BY <1>1 DEF EntryServed, SameWork
<1>3. PaneOwned(s)'
  BY DEF PaneOwned, IsCurrent
<1> QED
  BY <1>2, <1>3

(* Closing an incarnation leaves its pane to the Close that is queued. *)
LEMMA ClosingStrandsNothing ==
  ASSUME RestType, NEW r \in Surfaces, NEW g \in Generation,
         IsCurrent(r, g), RemoveEntry(r), UNCHANGED <<pane, forgotten>>,
         Send([kind |-> "Close", surface |-> r, generation |-> g, call |-> NoCall]),
         NEW s \in Surfaces, EntryServed(s), PaneOwned(s),
         SameWork \/ (gtk.surface = r /\ gtk.generation = g)
  PROVE  EntryServed(s)' /\ PaneOwned(s)'
<1> DEFINE cmd == [kind |-> "Close", surface |-> r, generation |-> g, call |-> NoCall]
<1>1. cmd \in Command /\ cmd.kind = "Close" /\ cmd.surface = r /\ cmd.generation = g
  BY DEF Command
<1> HIDE DEF cmd
<1>2. /\ \A kind, h : Queued(kind, s, h) => Queued(kind, s, h)'
      /\ Queued("Close", r, g)'
  BY <1>1, SendKeeps DEF cmd
<1>3. CASE s = r
  <2>1. generationOf'[s] = None
    BY <1>3 DEF RemoveEntry, RestType
  <2> QED
    BY <1>2, <1>3, <2>1 DEF EntryServed, PaneOwned, IsCurrent
<1>4. CASE s # r
  <2>1. generationOf'[s] = generationOf[s]
    BY <1>4 DEF RemoveEntry, RestType
  <2>2. ~ Materializing(s, generationOf[s]) \/ SameWork
    BY <1>4 DEF Materializing
  <2>3. EntryServed(s)'
    <3>1. generationOf[s] # None => generationOf[s] \in Generation
      BY DEF RestType, Generation, None
    <3> QED
      BY <1>2, <2>1, <2>2, <3>1 DEF EntryServed, SameWork
  <2>4. PaneOwned(s)'
    BY <1>2, <2>1 DEF PaneOwned, IsCurrent
  <2> QED
    BY <2>3, <2>4
<1> QED
  BY <1>3, <1>4

(* A Spawn that is dropped was for an incarnation that is gone or shown:   *)
(* a pane of an earlier one would still have its Close behind the Spawn.   *)
LEMMA TakeSpawnStrandsNothing ==
  ASSUME RestType, LatestInv, ChannelInv, TakeSpawn,
         \A s \in Surfaces : EntryServed(s) /\ PaneOwned(s),
         NEW s \in Surfaces
  PROVE  EntryServed(s)' /\ PaneOwned(s)'
<1>0. UNCHANGED <<generationOf, pane, forgotten>> /\ gtk.at = "idle"
  BY DEF TakeSpawn, runtimeVars, Take
<1>1. PICK at : Take("Spawn", at)
  BY DEF TakeSpawn
<1>2. \A k, r, g : Queued(k, r, g) =>
        Queued(k, r, g)' \/ (k = "Spawn" /\ r = gtk'.surface /\ g = gtk'.generation)
  BY <1>1, TakeKeeps
<1>3. PaneOwned(s)'
  BY <1>0, <1>2 DEF PaneOwned, IsCurrent
<1>4. CASE generationOf[s] = None \/ s # gtk'.surface \/ generationOf[s] # gtk'.generation
  BY <1>0, <1>2, <1>3, <1>4 DEF EntryServed, Materializing
<1>5. CASE generationOf[s] # None /\ s = gtk'.surface /\ generationOf[s] = gtk'.generation
  <2>1. CASE pane[s] = None
    <3>1. gtk'.at = "building"
      BY <1>5, <2>1, TakeSource DEF TakeSpawn, IsCurrent
    <3> QED
      BY <1>0, <1>3, <1>5, <3>1 DEF EntryServed, Materializing
  <2>2. CASE pane[s] # None /\ pane[s] # generationOf[s]
    <3>1. s \notin forgotten
      BY <1>5 DEF ChannelInv, ForgottenAreGone
    <3>2. PICK j \in DOMAIN queue :
            queue[j].kind = "Close" /\ queue[j].surface = s /\ queue[j].generation = pane[s]
      BY <2>2, <3>1 DEF PaneOwned, IsCurrent, Queued
    <3>3. /\ 1 \in DOMAIN queue /\ queue[1].kind = "Spawn"
          /\ queue[1].surface = s /\ queue[1].generation = generationOf[s]
      BY <1>1, <1>5, TakeSource
    <3>4. DOMAIN queue = 1 .. Len(queue) /\ Len(queue) \in Nat
      BY DEF RestType
    <3>5. 1 < j
      BY <3>2, <3>3, <3>4
    <3>6. generationOf[s] <= pane[s]
      BY <3>2, <3>3, <3>5 DEF ChannelInv, ClosesFollowSpawns
    <3>7. pane[s] < generationOf[s]
      BY <1>5, <3>2 DEF ChannelInv, ClosedArePast, Past
    <3> QED
      BY <3>6, <3>7 DEF RestType
  <2>3. CASE pane[s] = generationOf[s]
    BY <1>0, <1>3, <2>3 DEF EntryServed
  <2> QED
    BY <2>1, <2>2, <2>3
<1> QED
  BY <1>3, <1>4, <1>5

(* The pane a Close tears down has no entry any more. *)
LEMMA TakeCloseStrandsNothing ==
  ASSUME RestType, ChannelInv, TakeClose, NEW s \in Surfaces,
         EntryServed(s), PaneOwned(s)
  PROVE  EntryServed(s)' /\ PaneOwned(s)'
<1>0. /\ UNCHANGED <<generationOf, forgotten>> /\ gtk.at = "idle"
      /\ gtk'.surface \in Surfaces
  BY TakeType DEF TakeClose, runtimeVars, Take, NotServing
<1>1. \A k, r, g : Queued(k, r, g) =>
        Queued(k, r, g)' \/ (k = "Close" /\ r = gtk'.surface /\ g = gtk'.generation)
  BY TakeKeeps DEF TakeClose
<1>2. pane'[s] = IF s = gtk'.surface /\ pane[s] = gtk'.generation THEN None ELSE pane[s]
  BY <1>0 DEF TakeClose, TearDown, RestType
<1>3. PaneOwned(s)'
  BY <1>0, <1>1, <1>2 DEF PaneOwned, IsCurrent
<1>4. s = gtk'.surface => generationOf[s] = None \/ generationOf[s] # gtk'.generation
  <2>1. /\ 1 \in DOMAIN queue /\ queue[1].kind = "Close"
        /\ queue[1].surface = gtk'.surface /\ queue[1].generation = gtk'.generation
    BY TakeSource DEF TakeClose
  <2> QED
    BY <2>1 DEF ChannelInv, ClosedArePast, Past, RestType
<1>5. EntryServed(s)'
  BY <1>0, <1>1, <1>2, <1>4 DEF EntryServed, Materializing
<1> QED
  BY <1>3, <1>5

(* What the GTK thread has in hand stays there unless it is done with. *)
LEMMA WorkSteps ==
  ASSUME RestType, [Next]_vars
  PROVE  \/ SameWork /\ UNCHANGED pane
         \/ TakeClose \/ TakeSpawn
         \/ BuildPane \/ InsertPane \/ CloseFailedSpawn
<1>0. gtk \in Gtk
  BY DEF RestType
<1> USE DEF SameWork, Materializing
<1>1. CASE UNCHANGED <<gtk, pane>>
  BY <1>1
<1>2. CASE \E c \in Calls :
             \/ Close(c) \/ Forget(c)
             \/ CloseWaits(c) \/ CloseTimesOut(c) \/ EnqueueSend(c)
             \/ ReceiveReply(c) \/ ReceiveDisconnect(c) \/ ReplyTimesOut(c)
             \/ CancelPending(c) \/ Reuse(c)
             \/ \E r \in Surfaces : Spawn(c, r) \/ BeginClose(c, r) \/ BeginSend(c, r)
  BY <1>1, <1>2 DEF Close, Forget, CloseWaits, CloseTimesOut, EnqueueSend, ReceiveReply,
       ReceiveDisconnect, ReplyTimesOut, CancelPending, Reuse, Spawn, BeginClose,
       BeginSend, gtkVars
<1>3. CASE TakeSend \/ LeaseForSend \/ RunSend \/ Reply \/ CommitCallback \/ CommitSnapshot
  BY <1>0, <1>3 DEF TakeSend, Take, LeaseForSend, RunSend, Reply, CommitCallback,
       CommitSnapshot
<1>4. CASE BuildFails
  BY <1>0, <1>4 DEF BuildFails, GtkTo, Gtk
<1>5. CASE BeginSnapshot \/ \E r \in Surfaces : BeginCallback(r)
  BY <1>5 DEF BeginSnapshot, BeginCallback
<1>6. CASE Quit \/ UNCHANGED vars \/ \E s \in Surfaces : CallbackReady(s)
  BY <1>1, <1>6 DEF Quit, vars, CallbackReady, gtkVars
<1> QED
  BY <1>2, <1>3, <1>4, <1>5, <1>6 DEF Next, CallStep, GtkWork, GtkTake

LEMMA StrandStep ==
  ASSUME RestType, CallsType, LeaseInv, GenerationInv, ChannelInv,
         NoStrandedIncarnation, [Next]_vars
  PROVE  NoStrandedIncarnation'
<1> USE DEF GenerationInv
<1> SUFFICES ASSUME receiving', NEW s \in Surfaces
             PROVE  EntryServed(s)' /\ PaneOwned(s)'
  BY StrandParts DEF NoStrandedIncarnation, EntryServed, PaneOwned
<1>0. receiving /\ ~Quit
  <2>1. receiving' # receiving => Quit
    BY DEF Next, CallStep, GtkWork, GtkTake, Spawn, BeginClose, BeginSend, Close, Forget,
       CloseWaits, CloseTimesOut, EnqueueSend, ReceiveReply, ReceiveDisconnect,
       ReplyTimesOut, CancelPending, Reuse, BuildPane, InsertPane, BuildFails,
       CloseFailedSpawn, LeaseForSend, RunSend, Reply, CommitCallback, CommitSnapshot,
       TakeSpawn, TakeClose, TakeSend, CallbackReady, BeginCallback, BeginSnapshot, vars
  <2> QED
    BY <2>1 DEF Quit, RestType
<1>1. \A r \in Surfaces : EntryServed(r) /\ PaneOwned(r)
  BY <1>0, StrandParts
<1>2. ASSUME SameWork, UNCHANGED pane, Aside
      PROVE  EntryServed(s)' /\ PaneOwned(s)'
  <2>1. \A kind, g : Queued(kind, s, g) => Queued(kind, s, g)'
    BY <1>2 DEF Queued, Aside
  <2> QED
    BY <1>1, <1>2, <2>1, NothingStranded DEF Aside
<1>3. CASE TakeSpawn
  BY <1>1, <1>3, TakeSpawnStrandsNothing
<1>4. CASE TakeClose
  BY <1>1, <1>4, TakeCloseStrandsNothing
<1>5. CASE TakeSend
  <2>1. SameWork /\ UNCHANGED <<pane, generationOf, forgotten>>
    BY <1>5 DEF TakeSend, Take, SameWork, Materializing, runtimeVars
  <2>2. \A kind, g : kind # "SendText" /\ Queued(kind, s, g) => Queued(kind, s, g)'
    BY <1>5, TakeKeeps DEF TakeSend
  <2> QED
    BY <1>1, <2>1, <2>2 DEF EntryServed, PaneOwned, SameWork, IsCurrent, RestType,
       Generation, None
<1>6. CASE BuildPane
  <2>1. UNCHANGED <<pane, generationOf, forgotten, queue>>
    BY <1>6 DEF BuildPane
  <2>2. \/ gtk' = [gtk EXCEPT !.at = "inserting"]
        \/ ~IsCurrent(gtk.surface, gtk.generation)
    BY <1>6 DEF BuildPane, CanLease, GtkTo
  <2>3. gtk \in Gtk
    BY DEF RestType
  <2>4. Materializing(s, generationOf[s]) => Materializing(s, generationOf[s])'
    BY <2>1, <2>2, <2>3 DEF Materializing, IsCurrent, Gtk
  <2> QED
    BY <1>1, <2>1, <2>4 DEF EntryServed, PaneOwned, Queued, IsCurrent
<1>7. CASE InsertPane
  <2>1. UNCHANGED <<generationOf, forgotten, queue>> /\ gtk.surface \in Surfaces
    BY <1>7, GtkFields DEF InsertPane, RestType
  <2>2. generationOf[gtk.surface] = gtk.generation
    BY <1>7, LeasedIsCurrent DEF InsertPane
  <2>3. pane'[s] = IF s = gtk.surface THEN gtk.generation ELSE pane[s]
    BY <1>7, <2>1 DEF InsertPane, RestType
  <2> QED
    BY <1>1, <2>1, <2>2, <2>3 DEF EntryServed, PaneOwned, Queued, IsCurrent, Materializing
<1>8. CASE CloseFailedSpawn
  <2>1. gtk.surface \in Surfaces /\ gtk.generation \in Generation
    BY GtkFields DEF RestType
  <2>2. UNCHANGED <<pane, forgotten>>
    BY <1>8 DEF CloseFailedSpawn
  <2>3. Unleased(gtk.surface)
    BY <1>8, <2>1 DEF CloseFailedSpawn, LeaseInv, LeaseMatch, Unleasing, Unleased
  <2>4. CASE IsCurrent(gtk.surface, gtk.generation)
    BY <1>1, <1>8, <2>1, <2>2, <2>3, <2>4, ClosingStrandsNothing DEF CloseFailedSpawn
  <2>5. CASE ~ IsCurrent(gtk.surface, gtk.generation)
    <3>1. UNCHANGED <<generationOf, queue>>
      BY <1>8, <2>5 DEF CloseFailedSpawn, runtimeVars
    <3> QED
      BY <1>1, <2>2, <2>5, <3>1 DEF EntryServed, PaneOwned, Queued, IsCurrent, Materializing
  <2> QED
    BY <2>4, <2>5
<1>9. ASSUME NEW c \in Calls, Close(c)
      PROVE  EntryServed(s)' /\ PaneOwned(s)'
  <2>1. call[c].surface \in Surfaces /\ call[c].generation \in Generation
    BY <1>9 DEF CallsType, Call, Close
  <2>2. UNCHANGED <<gtk, pane, forgotten>>
    BY <1>9 DEF Close, gtkVars
  <2>3. SameWork
    BY <2>2 DEF SameWork, Materializing
  <2>4. CASE UNCHANGED <<runtimeVars, queue>>
    BY <1>2, <2>2, <2>3, <2>4 DEF Aside, runtimeVars
  <2> QED
    BY <1>1, <1>9, <2>1, <2>2, <2>3, <2>4, ClosingStrandsNothing DEF Close
<1>10. ASSUME NEW c \in Calls, Forget(c)
       PROVE  EntryServed(s)' /\ PaneOwned(s)'
  <2>1. UNCHANGED <<gtk, pane, queue>>
    BY <1>10 DEF Forget, gtkVars
  <2>2. SameWork /\ \A kind, g : Queued(kind, s, g) => Queued(kind, s, g)'
    BY <2>1 DEF SameWork, Materializing, Queued
  <2>3. \/ /\ generationOf'[s] = generationOf[s] /\ forgotten \subseteq forgotten'
        \/ generationOf'[s] = None /\ s \in forgotten'
    <3>1. call[c].surface \in Surfaces
      BY DEF CallsType, Call
    <3> QED
      BY <1>10, <3>1 DEF Forget, RemoveEntry, RestType, runtimeVars
  <2>4. CASE generationOf'[s] = None /\ s \in forgotten'
    BY <2>4 DEF EntryServed, PaneOwned
  <2> QED
    BY <1>1, <2>1, <2>2, <2>3, <2>4, NothingStranded
<1>11. ASSUME NEW c \in Calls, EnqueueSend(c)
       PROVE  EntryServed(s)' /\ PaneOwned(s)'
  <2> DEFINE cmd == [kind |-> "SendText", surface |-> call[c].surface,
                     generation |-> call[c].generation, call |-> c]
  <2>1. cmd \in Command
    BY <1>11 DEF CallsType, Call, EnqueueSend, Command
  <2>2. UNCHANGED <<generationOf, forgotten, gtk, pane>>
    BY <1>11 DEF EnqueueSend, runtimeVars, gtkVars
  <2>3. UNCHANGED queue \/ Send(cmd)
    BY <1>11 DEF EnqueueSend
  <2> HIDE DEF cmd
  <2>4. \A kind, g : Queued(kind, s, g) => Queued(kind, s, g)'
    BY <2>1, <2>3, SendKeeps DEF Queued
  <2>5. SameWork
    BY <2>2 DEF SameWork, Materializing
  <2> QED
    BY <1>1, <2>2, <2>4, <2>5, NothingStranded
<1>12. ASSUME NEW c \in Calls, NEW r \in Surfaces, Spawn(c, r)
       PROVE  EntryServed(s)' /\ PaneOwned(s)'
  <2> DEFINE cmd == [kind |-> "Spawn", surface |-> r,
                     generation |-> nextGeneration, call |-> NoCall]
  <2>1. UNCHANGED <<gtk, pane, forgotten>>
    BY <1>12 DEF Spawn, gtkVars
  <2>2. SameWork
    BY <2>1 DEF SameWork, Materializing
  <2>3. CASE /\ generationOf[r] = None /\ nextGeneration # 0
             /\ generationOf' = [generationOf EXCEPT ![r] = nextGeneration]
             /\ Send(cmd)
    <3>1. cmd \in Command /\ cmd.surface = r /\ cmd.kind = "Spawn"
                          /\ cmd.generation = nextGeneration
      BY <2>3, MaxGenerationAssumption DEF RestType, Command, Generation
    <3> HIDE DEF cmd
    <3>0. generationOf'[r] = cmd.generation
      BY <2>3, <3>1 DEF RestType
    <3>2. /\ \A kind, g : Queued(kind, s, g) => Queued(kind, s, g)'
          /\ Queued("Spawn", r, generationOf[r])'
      <4>1. /\ DOMAIN queue' = 1 .. Len(queue) + 1
            /\ queue'[Len(queue) + 1] = cmd
            /\ \A kind, g : Queued(kind, s, g) => Queued(kind, s, g)'
        BY <2>3, <3>1, SendKeeps
      <4>2. Len(queue) + 1 \in 1 .. Len(queue) + 1
        BY DEF RestType
      <4> QED
        BY <3>0, <3>1, <4>1, <4>2 DEF Queued
    <3>3. generationOf'[s] = IF s = r THEN nextGeneration ELSE generationOf[s]
      BY <2>3 DEF RestType
    <3>4. CASE s # r
      BY <1>1, <2>1, <2>2, <3>2, <3>3, <3>4, NothingStranded
    <3>5. CASE s = r
      BY <1>1, <2>1, <2>3, <3>2, <3>3, <3>5 DEF EntryServed, PaneOwned, IsCurrent
    <3> QED
      BY <3>4, <3>5
  <2>4. CASE UNCHANGED <<generationOf, queue>>
    <3>1. \A kind, g : Queued(kind, s, g) => Queued(kind, s, g)'
      BY <2>4 DEF Queued
    <3> QED
      BY <1>1, <2>1, <2>2, <2>4, <3>1, NothingStranded
  <2> QED
    BY <1>12, <2>3, <2>4 DEF Spawn, runtimeVars
<1> QED
  BY <1>0, <1>2, <1>3, <1>4, <1>5, <1>6, <1>7, <1>8, <1>9, <1>10, <1>11, <1>12,
     AsideSteps, WorkSteps DEF GtkTake

(* The invariant that the theorems of this module share. *)
BackendInv ==
  RestType /\ CallsType /\ LeaseInv /\ GenerationInv /\ ChannelInv /\ NoStrandedIncarnation

LEMMA BackendInvariantInit == Init => BackendInv
<1> SUFFICES ASSUME Init PROVE BackendInv
  OBVIOUS
<1>1. RestType /\ CallsType
  BY InitType, TypeParts
<1>2. LeaseInv
  BY DEF Init, LeaseInv, LeaseMatch
<1>3. GenerationInv
  BY MaxGenerationAssumption DEF Init, GenerationInv, LatestInv, PaneInv, WriterInv,
       Latest, None
<1>4. ChannelInv
  BY DEF Init, ChannelInv, ClosedArePast, ClosesFollowSpawns, ForgottenAreGone
<1>5. NoStrandedIncarnation
  BY DEF Init, NoStrandedIncarnation
<1> QED
  BY <1>1, <1>2, <1>3, <1>4, <1>5 DEF BackendInv

LEMMA BackendInvariantStep == BackendInv /\ [Next]_vars => BackendInv'
<1> SUFFICES ASSUME BackendInv, [Next]_vars PROVE BackendInv'
  OBVIOUS
<1> USE DEF BackendInv
<1>1. RestType' /\ CallsType'
  BY TypeStep, TypeParts DEF TypeOK, RestType, CallsType
<1>2. GenerationInv'
  BY LatestStep, PaneStep, WriterStep DEF GenerationInv
<1>3. ChannelInv'
  BY ChannelStep DEF GenerationInv
<1> QED
  BY <1>1, <1>2, <1>3, LeaseStep, StrandStep

LEMMA BackendInvariant == Spec => []BackendInv
BY BackendInvariantInit, BackendInvariantStep, PTL DEF Spec

(* While the GTK thread is there, every runtime entry has its Spawn queued,*)
(* in hand or carried out, and every pane its entry or its Close: what is  *)
(* closed, respawned, refused or built in between leaves neither a dead    *)
(* entry nor a terminal that nothing can close (backend.rs:303-395,        *)
(* controller.rs:384-497).                                                 *)
THEOREM NothingIsStranded == Spec => []NoStrandedIncarnation
BY BackendInvariant, PTL DEF BackendInv
-----------------------------------------------------------------------------
(* A send and its command.                                                 *)

Carried(c) == \E i \in DOMAIN queue : queue[i].call = c
Served(c) == gtk.call = c

Untouched(c) ==
  /\ call[c].exec = "Pending" /\ call[c].reply = "none" /\ call[c].delivered = None
  /\ ~ Carried(c) /\ ~ Served(c)

(* Only a send gets past its first critical section into the channel. *)
Waiting(c) ==
  /\ call[c].at = "done" <=> call[c].result # "none"
  /\ call[c].at \in {"enqueue", "awaiting", "expired", "claimed"} => call[c].op = "send"
  /\ call[c].at \in {"closing", "waiting", "forgetting"} => call[c].op # "send"
  /\ call[c].op # "send" \/ call[c].at \in {"idle", "enqueue"} => Untouched(c)
  /\ call[c].at = "claimed" => call[c].exec = "Claimed"

(* A queued command has not been claimed, and is not the command in hand.  *)
Once(c) == \A i, j \in DOMAIN queue : queue[i].call = c /\ queue[j].call = c => i = j

CarriedOnce(c) ==
  /\ Once(c)
  /\ Carried(c) =>
       /\ ~ Served(c)
       /\ call[c].reply = "none" /\ call[c].delivered = None
       /\ \/ call[c].exec = "Pending" /\ call[c].at \in {"awaiting", "expired"}
          \/ call[c].exec = "Cancelled" /\ call[c].at = "done"

(* The command in hand is claimed, unanswered, and its caller waits. *)
ServedOnce(c) ==
  Served(c) =>
    /\ call[c].exec = "Claimed" /\ call[c].reply = "none"
    /\ call[c].at \in {"awaiting", "expired", "claimed"}
    /\ call[c].delivered # None <=> gtk.at = "replying" /\ gtk.ok

(* What has become of the command agrees with the reply and the answer.    *)
Truthful(c) ==
  /\ call[c].exec = "Claimed" => Served(c) \/ call[c].reply \in {"ok", "err"}
  /\ call[c].delivered # None \/ call[c].reply \in {"ok", "err"} =>
       call[c].exec = "Claimed"
  /\ call[c].reply = "ok" => call[c].delivered # None
  /\ call[c].reply = "err" => call[c].delivered = None
  /\ call[c].exec = "Cancelled" => call[c].at = "done"
  /\ call[c].op = "send" => 
       /\ call[c].result = "ok" => call[c].delivered # None
       /\ call[c].result = "err" => call[c].delivered = None
       /\ call[c].result = "timeout" => call[c].exec = "Cancelled"

CallInv(c) == Waiting(c) /\ CarriedOnce(c) /\ ServedOnce(c) /\ Truthful(c)
DeliveryInv == \A c \in Calls : CallInv(c)

LEMMA DeliveryInit == Init => DeliveryInv
<1> SUFFICES ASSUME Init, NEW c \in Calls PROVE CallInv(c)
  BY DEF DeliveryInv
<1>1. PICK s \in Surfaces : gtk.call = NoCall /\ call[c] = IdleCall(s)
  BY DEF Init
<1>2. call[c].at = "idle" /\ call[c].op = "send" /\ call[c].result = "none"
      /\ call[c].exec = "Pending" /\ call[c].reply = "none" /\ call[c].delivered = None
  BY <1>1 DEF IdleCall, CallRecord
<1>3. queue = <<>> /\ ~ Served(c)
  BY <1>1, NoCallAssumption DEF Init, Served
<1> QED
  BY <1>2, <1>3 DEF CallInv, Waiting, Untouched, CarriedOnce, Once, Carried, ServedOnce,
       Truthful

-----------------------------------------------------------------------------
(* What a step does to one call: nothing, or one of the moves below.  They *)
(* are what the steps of the model do to its record, to its command in the *)
(* channel and to the command in the GTK thread's hand.                    *)

SameChannel(c) == (Carried(c)' <=> Carried(c)) /\ (Once(c) => Once(c)')

SameService(c) ==
  /\ Served(c)' <=> Served(c)
  /\ Served(c) => gtk'.at = gtk.at /\ gtk'.ok = gtk.ok

Bystander(c) == call'[c] = call[c] /\ SameChannel(c) /\ SameService(c)

Started(c) ==
  /\ call[c].at = "idle"
  /\ \E op \in Op, at \in CallAt, s \in Surfaces, g \in 0 .. MaxGeneration,
        r \in {"none", "ok", "err"} :
       /\ call'[c] = CallRecord(op, at, s, g, r)
       /\ \/ op # "send" /\ at = "done" /\ r # "none"
          \/ op # "send" /\ at = "closing" /\ r = "none"
          \/ op = "send" /\ at = "enqueue" /\ r = "none"
          \/ op = "send" /\ at = "done" /\ r = "err"

(* A close goes on, or any call that has nothing in the channel ends. *)
WentOn(c) ==
  /\ call[c].at \in {"closing", "waiting", "forgetting"}
  /\ \/ \E at \in {"waiting", "forgetting"} : call'[c] = [call[c] EXCEPT !.at = at]
     \/ \E r \in {"ok", "err"} :
          call'[c] = [call[c] EXCEPT !.at = "done", !.result = r]

TurnedAway(c) ==
  /\ call[c].at = "enqueue"
  /\ call'[c] = [call[c] EXCEPT !.at = "done", !.result = "err"]

Answered(c) ==
  /\ call[c].at \in {"awaiting", "claimed"}
  /\ call[c].reply \in {"ok", "err"}
  /\ call'[c] = [call[c] EXCEPT !.at = "done", !.result = call[c].reply]

GaveUp(c) ==
  \/ /\ call[c].at = "awaiting" /\ call[c].reply = "disconnected"
     /\ call'[c] = [call[c] EXCEPT !.at = "done", !.result = "err", !.exec = "Cancelled"]
  \/ /\ call[c].at = "expired" /\ call[c].exec = "Pending"
     /\ call'[c] = [call[c] EXCEPT !.exec = "Cancelled", !.at = "done",
                                   !.result = "timeout"]

Waited(c) ==
  \/ /\ call[c].at = "awaiting" /\ call[c].reply = "none"
     /\ call'[c] = [call[c] EXCEPT !.at = "expired"]
  \/ /\ call[c].at = "expired" /\ call[c].exec # "Pending"
     /\ call'[c] = [call[c] EXCEPT !.at = "claimed"]

Recycled(c) ==
  /\ call[c].at = "done" /\ ~ Served(c) /\ ~ Carried(c)
  /\ \E s \in Surfaces : call'[c] = IdleCall(s)

ByCaller(c) ==
  /\ SameChannel(c) /\ SameService(c)
  /\ \/ Started(c) \/ WentOn(c) \/ TurnedAway(c) \/ Answered(c) \/ GaveUp(c)
     \/ Waited(c) \/ Recycled(c)

Submitted(c) ==
  /\ call[c].at = "enqueue"
  /\ call'[c] = [call[c] EXCEPT !.at = "awaiting"]
  /\ Carried(c)' /\ (~ Carried(c) => Once(c)')
  /\ SameService(c)

Taken(c) ==
  /\ Carried(c) /\ ~ Served(c)
  /\ Once(c) => ~ Carried(c)' /\ Once(c)'
  /\ \/ /\ call[c].exec = "Pending"
        /\ call'[c] = [call[c] EXCEPT !.exec = "Claimed"]
        /\ Served(c)' /\ gtk'.at = "claimed"
     \/ /\ call[c].exec # "Pending"
        /\ call'[c] = call[c]
        /\ ~ Served(c)'

Ran(c) ==
  /\ Served(c) /\ SameChannel(c)
  /\ \/ /\ gtk.at = "claimed" /\ gtk'.at = "running"
        /\ Served(c)' /\ call'[c] = call[c]
     \/ /\ gtk.at = "claimed" /\ gtk'.at = "replying" /\ ~ gtk'.ok
        /\ Served(c)' /\ call'[c] = call[c]
     \/ /\ gtk.at = "running" /\ gtk'.at = "replying" /\ ~ gtk'.ok
        /\ Served(c)' /\ call'[c] = call[c]
     \/ /\ gtk.at = "running" /\ gtk'.at = "replying" /\ gtk'.ok
        /\ Served(c)'
        /\ \E g \in Generation : call'[c] = [call[c] EXCEPT !.delivered = g]
     \/ /\ gtk.at = "replying" /\ ~ Served(c)'
        /\ call'[c] = [call[c] EXCEPT !.reply = IF gtk.ok THEN "ok" ELSE "err"]

Dropped(c) ==
  /\ Carried(c) /\ ~ Carried(c)' /\ Once(c)' /\ SameService(c)
  /\ call'[c] = [call[c] EXCEPT !.reply = "disconnected"]

Moved(c) == ByCaller(c) \/ Submitted(c) \/ Taken(c) \/ Ran(c) \/ Dropped(c)
(* Every move keeps a call's invariant ...                                 *)
LEMMA BystanderKeeps ==
  ASSUME NEW c \in Calls, call[c] \in Call, CallInv(c), Bystander(c)
  PROVE  CallInv(c)'
BY DEF CallInv, Waiting, Untouched, CarriedOnce, ServedOnce, Truthful, Bystander,
       SameChannel, SameService, None

LEMMA StartKeeps ==
  ASSUME NEW c \in Calls, call[c] \in Call, CallInv(c),
         SameChannel(c), SameService(c), Started(c) \/ Recycled(c)
  PROVE  CallInv(c)'
<1>1. ~ Carried(c) /\ ~ Served(c) /\ Once(c)
  BY DEF CallInv, Waiting, Untouched, CarriedOnce, Started, Recycled
<1>2. PICK op \in Op, at \in CallAt, s \in Surfaces, g \in 0 .. MaxGeneration,
           r \in {"none", "ok", "err"} :
        /\ call'[c] = CallRecord(op, at, s, g, r)
        /\ \/ op # "send" /\ at = "done" /\ r # "none"
           \/ op # "send" /\ at = "closing" /\ r = "none"
           \/ op = "send" /\ at = "enqueue" /\ r = "none"
           \/ op = "send" /\ at = "done" /\ r = "err"
           \/ op = "send" /\ at = "idle" /\ r = "none"
  BY MaxGenerationAssumption DEF Started, Recycled, IdleCall, Op, CallAt, None
<1>3. /\ call'[c].op = op /\ call'[c].at = at /\ call'[c].result = r
      /\ call'[c].exec = "Pending" /\ call'[c].reply = "none"
      /\ call'[c].delivered = None
  BY <1>2 DEF CallRecord
<1> QED
  BY <1>1, <1>2, <1>3 DEF CallInv, Waiting, Untouched, CarriedOnce, ServedOnce, Truthful,
     SameChannel, SameService

LEMMA CallerKeeps ==
  ASSUME NEW c \in Calls, call[c] \in Call, CallInv(c), ByCaller(c)
  PROVE  CallInv(c)'
<1> USE DEF CallInv, Waiting, Untouched, CarriedOnce, ServedOnce, Truthful,
            SameChannel, SameService, ByCaller, Call
<1>1. CASE Started(c) \/ Recycled(c)
  BY <1>1, StartKeeps
<1>2. CASE WentOn(c)
  <2>1. /\ call[c].op # "send" /\ call'[c].op = call[c].op
        /\ call'[c].exec = call[c].exec /\ call'[c].reply = call[c].reply
        /\ call'[c].delivered = call[c].delivered
        /\ \/ call'[c].at \in {"waiting", "forgetting"} /\ call'[c].result = call[c].result
           \/ call'[c].at = "done" /\ call'[c].result \in {"ok", "err"}
    BY <1>2 DEF WentOn
  <2> QED
    BY <1>2, <2>1 DEF WentOn
<1>3. CASE TurnedAway(c)
  <2>1. /\ call[c].op = "send" /\ call'[c].op = call[c].op
        /\ call'[c].exec = call[c].exec /\ call'[c].reply = call[c].reply
        /\ call'[c].delivered = call[c].delivered
        /\ call'[c].at = "done" /\ call'[c].result = "err"
    BY <1>3 DEF TurnedAway
  <2> QED
    BY <1>3, <2>1 DEF TurnedAway
<1>4. CASE Answered(c)
  <2>1. /\ call[c].op = "send" /\ call'[c].op = call[c].op
        /\ call'[c].exec = call[c].exec /\ call'[c].reply = call[c].reply
        /\ call'[c].delivered = call[c].delivered
        /\ call'[c].at = "done" /\ call'[c].result = call[c].reply
    BY <1>4 DEF Answered
  <2> QED
    BY <1>4, <2>1 DEF Answered
<1>5. CASE GaveUp(c)
  <2>1. /\ call[c].op = "send" /\ call'[c].op = call[c].op
        /\ call'[c].exec = "Cancelled" /\ call'[c].reply = call[c].reply
        /\ call'[c].delivered = call[c].delivered
        /\ call'[c].at = "done" /\ call'[c].result \in {"err", "timeout"}
    BY <1>5 DEF GaveUp
  <2> QED
    BY <1>5, <2>1 DEF GaveUp
<1>6. CASE Waited(c)
  <2>1. /\ call[c].op = "send" /\ call'[c].op = call[c].op
        /\ call'[c].exec = call[c].exec /\ call'[c].reply = call[c].reply
        /\ call'[c].delivered = call[c].delivered
        /\ call'[c].at \in {"expired", "claimed"} /\ call'[c].result = call[c].result
        /\ call'[c].at = "claimed" => call[c].exec # "Pending"
    BY <1>6 DEF Waited
  <2> QED
    BY <1>6, <2>1 DEF Waited
<1> QED
  BY <1>1, <1>2, <1>3, <1>4, <1>5, <1>6

LEMMA ChannelMoveKeeps ==
  ASSUME NEW c \in Calls, call[c] \in Call, CallInv(c),
         Submitted(c) \/ Taken(c) \/ Dropped(c)
  PROVE  CallInv(c)'
<1> USE DEF CallInv, Waiting, Untouched, CarriedOnce, ServedOnce, Truthful, SameService, Call
<1>1. CASE Submitted(c)
  <2>1. /\ call[c].op = "send" /\ call'[c].op = call[c].op
        /\ call'[c].exec = call[c].exec /\ call'[c].reply = call[c].reply
        /\ call'[c].delivered = call[c].delivered
        /\ call'[c].at = "awaiting" /\ call'[c].result = call[c].result
    BY <1>1 DEF Submitted
  <2> QED
    BY <1>1, <2>1 DEF Submitted
<1>2. CASE Taken(c)
  <2>1. /\ call[c].op = "send" /\ call'[c].op = call[c].op
        /\ call'[c].exec \in {"Claimed", "Cancelled"} /\ call'[c].reply = call[c].reply
        /\ call'[c].exec = "Claimed" <=> call[c].exec = "Pending"
        /\ call'[c].delivered = call[c].delivered
        /\ call'[c].at = call[c].at /\ call'[c].result = call[c].result
    BY <1>2 DEF Taken
  <2> QED
    BY <1>2, <2>1 DEF Taken
<1>3. CASE Dropped(c)
  <2>1. /\ call[c].op = "send" /\ call'[c].op = call[c].op
        /\ call'[c].exec = call[c].exec /\ call'[c].reply = "disconnected"
        /\ call'[c].delivered = call[c].delivered
        /\ call'[c].at = call[c].at /\ call'[c].result = call[c].result
    BY <1>3 DEF Dropped
  <2> QED
    BY <1>3, <2>1 DEF Dropped
<1> QED
  BY <1>1, <1>2, <1>3

LEMMA ServiceKeeps ==
  ASSUME NEW c \in Calls, call[c] \in Call, CallInv(c), Ran(c)
  PROVE  CallInv(c)'
<1> USE DEF CallInv, Waiting, Untouched, CarriedOnce, ServedOnce, Truthful, SameChannel,
            Call, None
<1>1. /\ call[c].op = "send" /\ call'[c].op = call[c].op
      /\ call'[c].exec = call[c].exec
      /\ call'[c].at = call[c].at /\ call'[c].result = call[c].result
  BY DEF Ran
<1>2. CASE /\ call'[c] = call[c] /\ gtk.at \in {"claimed", "running"}
           /\ gtk'.at = "running" \/ ~ gtk'.ok
           /\ Served(c)'
  BY <1>1, <1>2 DEF Ran
<1>3. ASSUME NEW g \in Generation, call'[c] = [call[c] EXCEPT !.delivered = g],
             gtk'.at = "replying", gtk'.ok, Served(c)'
      PROVE  CallInv(c)'
  <2>1. call'[c].delivered # None /\ call'[c].reply = call[c].reply
    BY <1>3 DEF Generation
  <2> QED
    BY <1>1, <1>3, <2>1 DEF Ran
<1>4. CASE /\ gtk.at = "replying" /\ ~ Served(c)'
           /\ call'[c] = [call[c] EXCEPT !.reply = IF gtk.ok THEN "ok" ELSE "err"]
  <2>1. /\ call'[c].delivered = call[c].delivered
        /\ call'[c].reply = IF gtk.ok THEN "ok" ELSE "err"
    BY <1>4
  <2> QED
    BY <1>1, <1>4, <2>1 DEF Ran
<1> QED
  BY <1>2, <1>3, <1>4 DEF Ran

LEMMA MoveKeeps ==
  ASSUME NEW c \in Calls, call[c] \in Call, CallInv(c), Bystander(c) \/ Moved(c)
  PROVE  CallInv(c)'
BY BystanderKeeps, CallerKeeps, ChannelMoveKeeps, ServiceKeeps DEF Moved
(* ... and is a step of the abstract protocol, or none.                    *)
SameStory(c) == FateOf(c)' = FateOf(c) /\ ToldTo(c)' = ToldTo(c)

Honest(c) ==
  \/ SameStory(c)
  \/ /\ FateOf(c) = "none" /\ FateOf(c)' = "pending"
     /\ ToldTo(c) = "nothing" /\ ToldTo(c)' = "nothing"
  \/ /\ FateOf(c) = "pending" /\ FateOf(c)' \in {"delivered", "refused"}
     /\ ToldTo(c)' = ToldTo(c)
  \/ /\ FateOf(c) = "pending" /\ FateOf(c)' = "abandoned"
     /\ ToldTo(c)' \in {"timeout", "err"}
  \/ /\ FateOf(c)' = FateOf(c) /\ ToldTo(c) = "nothing"
     /\ \/ FateOf(c) = "delivered" /\ ToldTo(c)' = "ok"
        \/ FateOf(c) = "refused" /\ ToldTo(c)' = "err"
  \/ /\ FateOf(c) = "none" /\ FateOf(c)' = "refused"
     /\ ToldTo(c) = "nothing" /\ ToldTo(c)' = "err"
  \/ ToldTo(c) # "nothing" /\ FateOf(c)' = "none" /\ ToldTo(c)' = "nothing"

LEMMA BystanderIsStill ==
  ASSUME NEW c \in Calls, Bystander(c)
  PROVE  SameStory(c)
BY DEF SameStory, FateOf, Refused, ToldTo, Bystander, SameService, Served

LEMMA DroppedIsStill ==
  ASSUME NEW c \in Calls, call[c] \in Call, CallInv(c), Dropped(c)
  PROVE  SameStory(c)
<1>1. /\ call[c].reply = "none" /\ ~ Served(c) /\ ~ Served(c)'
      /\ call'[c].op = call[c].op /\ call'[c].exec = call[c].exec
      /\ call'[c].delivered = call[c].delivered /\ call'[c].reply = "disconnected"
      /\ call'[c].at = call[c].at /\ call'[c].result = call[c].result
  BY DEF Dropped, CallInv, CarriedOnce, SameService, Call
<1> QED
  BY <1>1 DEF SameStory, FateOf, Refused, ToldTo, Served

(* The two operators, read as rules. *)
LEMMA FateRules ==
  ASSUME NEW c \in Calls
  PROVE  /\ call[c].op # "send" \/ call[c].at \in {"idle", "enqueue"} =>
              FateOf(c) = "none"
         /\ call[c].op = "send" /\ call[c].at \notin {"idle", "enqueue"} =>
              /\ call[c].delivered # None => FateOf(c) = "delivered"
              /\ call[c].delivered = None /\ call[c].exec = "Cancelled" =>
                   FateOf(c) = "abandoned"
              /\ call[c].delivered = None /\ call[c].exec # "Cancelled" =>
                   /\ Refused(c) => FateOf(c) = "refused"
                   /\ ~ Refused(c) => FateOf(c) = "pending"
         /\ call[c].op # "send" => ToldTo(c) = "nothing"
         /\ call[c].op = "send" =>
              ToldTo(c) = IF call[c].result = "none" THEN "nothing" ELSE call[c].result
<1>1. call[c].op # "send" \/ call[c].at \in {"idle", "enqueue"} => FateOf(c) = "none"
  BY DEF FateOf
<1>2. ASSUME call[c].op = "send", call[c].at \notin {"idle", "enqueue"}
      PROVE  FateOf(c) =
               IF call[c].delivered # None THEN "delivered"
               ELSE IF call[c].exec = "Cancelled" THEN "abandoned"
               ELSE IF Refused(c) THEN "refused" ELSE "pending"
  BY <1>2 DEF FateOf
<1>3. call[c].op # "send" => ToldTo(c) = "nothing"
  BY DEF ToldTo
<1>4. call[c].op = "send" =>
        ToldTo(c) = IF call[c].result = "none" THEN "nothing" ELSE call[c].result
  BY DEF ToldTo
<1> QED
  BY <1>1, <1>2, <1>3, <1>4

LEMMA FateRulesAfter ==
  ASSUME NEW c \in Calls
  PROVE  /\ call'[c].op # "send" \/ call'[c].at \in {"idle", "enqueue"} =>
              FateOf(c)' = "none"
         /\ call'[c].op = "send" /\ call'[c].at \notin {"idle", "enqueue"} =>
              /\ call'[c].delivered # None => FateOf(c)' = "delivered"
              /\ call'[c].delivered = None /\ call'[c].exec = "Cancelled" =>
                   FateOf(c)' = "abandoned"
              /\ call'[c].delivered = None /\ call'[c].exec # "Cancelled" =>
                   /\ Refused(c)' => FateOf(c)' = "refused"
                   /\ ~ Refused(c)' => FateOf(c)' = "pending"
         /\ call'[c].op # "send" => ToldTo(c)' = "nothing"
         /\ call'[c].op = "send" =>
              ToldTo(c)' = IF call'[c].result = "none" THEN "nothing" ELSE call'[c].result
<1>1. call'[c].op # "send" \/ call'[c].at \in {"idle", "enqueue"} => FateOf(c)' = "none"
  BY DEF FateOf
<1>2. ASSUME call'[c].op = "send", call'[c].at \notin {"idle", "enqueue"}
      PROVE  FateOf(c)' =
               IF call'[c].delivered # None THEN "delivered"
               ELSE IF call'[c].exec = "Cancelled" THEN "abandoned"
               ELSE IF Refused(c)' THEN "refused" ELSE "pending"
  BY <1>2 DEF FateOf
<1>3. call'[c].op # "send" => ToldTo(c)' = "nothing"
  BY DEF ToldTo
<1>4. call'[c].op = "send" =>
        ToldTo(c)' = IF call'[c].result = "none" THEN "nothing" ELSE call'[c].result
  BY DEF ToldTo
<1> QED
  BY <1>1, <1>2, <1>3, <1>4

LEMMA CallerIsHonest ==
  ASSUME NEW c \in Calls, call[c] \in Call, CallInv(c), ByCaller(c)
  PROVE  Honest(c)
<1> USE FateRules, FateRulesAfter DEF Refused, Served
<1>0. /\ Waiting(c) /\ ServedOnce(c) /\ Truthful(c) /\ SameService(c)
      /\ call[c].op \in Op
  BY DEF CallInv, ByCaller, Call
<1>1. CASE Started(c)
  <2>1. FateOf(c) = "none" /\ ToldTo(c) = "nothing" /\ ~ Served(c)'
    BY <1>0, <1>1 DEF Started, Waiting, Untouched, SameService
  <2>2. PICK op \in Op, at \in CallAt, s \in Surfaces, g \in 0 .. MaxGeneration,
             r \in {"none", "ok", "err"} :
          /\ call'[c] = CallRecord(op, at, s, g, r)
          /\ \/ op # "send" /\ at = "done" /\ r # "none"
             \/ op # "send" /\ at = "closing" /\ r = "none"
             \/ op = "send" /\ at = "enqueue" /\ r = "none"
             \/ op = "send" /\ at = "done" /\ r = "err"
    BY <1>1 DEF Started
  <2>3. /\ call'[c].op = op /\ call'[c].at = at /\ call'[c].result = r
        /\ call'[c].exec = "Pending" /\ call'[c].delivered = None
    BY <2>2 DEF CallRecord
  <2>4. CASE op # "send" \/ at = "enqueue"
    BY <2>1, <2>2, <2>3, <2>4 DEF Honest, SameStory
  <2>5. CASE op = "send" /\ at = "done" /\ r = "err"
    <3>1. FateOf(c)' = "refused" /\ ToldTo(c)' = "err"
      BY <2>3, <2>5
    <3> QED
      BY <2>1, <3>1 DEF Honest
  <2> QED
    BY <2>2, <2>4, <2>5
<1>2. CASE WentOn(c)
  <2>1. call[c].op # "send" /\ call'[c].op = call[c].op
    BY <1>0, <1>2 DEF WentOn, Waiting, Call
  <2> QED
    BY <2>1 DEF Honest, SameStory
<1>3. CASE TurnedAway(c)
  <2>1. /\ call'[c].op = call[c].op /\ call'[c].exec = call[c].exec
        /\ call'[c].delivered = call[c].delivered
        /\ call'[c].at = "done" /\ call'[c].result = "err"
    BY <1>3 DEF TurnedAway, Call
  <2>2. /\ call[c].op = "send" /\ call[c].at = "enqueue" /\ call[c].result = "none"
        /\ call[c].delivered = None /\ call[c].exec = "Pending"
    BY <1>0, <1>3 DEF Waiting, Untouched, TurnedAway
  <2>3. FateOf(c)' = "refused" /\ ToldTo(c)' = "err"
    BY <2>1, <2>2
  <2> QED
    BY <2>2, <2>3 DEF Honest
<1>4. CASE Answered(c)
  <2>1. /\ call'[c].op = call[c].op /\ call'[c].exec = call[c].exec
        /\ call'[c].delivered = call[c].delivered /\ call'[c].reply = call[c].reply
        /\ call'[c].at = "done" /\ call'[c].result = call[c].reply
    BY <1>4 DEF Answered, Call
  <2>2. /\ call[c].op = "send" /\ call[c].result = "none"
        /\ call[c].at \notin {"idle", "enqueue"}
        /\ call[c].exec = "Claimed"
        /\ \/ call[c].reply = "ok" /\ call[c].delivered # None
           \/ call[c].reply = "err" /\ call[c].delivered = None
    BY <1>0, <1>4 DEF Waiting, Truthful, Answered
  <2>3. \/ FateOf(c) = "delivered" /\ FateOf(c)' = "delivered" /\ ToldTo(c)' = "ok"
        \/ FateOf(c) = "refused" /\ FateOf(c)' = "refused" /\ ToldTo(c)' = "err"
    BY <2>1, <2>2
  <2> QED
    BY <2>2, <2>3 DEF Honest
<1>5. CASE GaveUp(c)
  <2>1. /\ call'[c].op = call[c].op /\ call'[c].exec = "Cancelled"
        /\ call'[c].delivered = call[c].delivered
        /\ call'[c].at = "done" /\ call'[c].result \in {"err", "timeout"}
    BY <1>5 DEF GaveUp, Call
  <2>2. /\ call[c].op = "send" /\ call[c].result = "none"
        /\ call[c].at \notin {"idle", "enqueue", "done"}
        /\ call[c].reply # "err"
        /\ ~ Served(c) /\ call[c].delivered = None /\ call[c].exec # "Cancelled"
    BY <1>0, <1>5 DEF Waiting, Truthful, ServedOnce, GaveUp
  <2>3. FateOf(c) = "pending" /\ FateOf(c)' = "abandoned"
    BY <2>1, <2>2
  <2>4. ToldTo(c)' \in {"timeout", "err"}
    BY <2>1, <2>2
  <2> QED
    BY <2>3, <2>4 DEF Honest
<1>6. CASE Waited(c)
  <2>1. /\ call'[c].op = call[c].op /\ call'[c].exec = call[c].exec
        /\ call'[c].delivered = call[c].delivered /\ call'[c].reply = call[c].reply
        /\ call'[c].at \in {"expired", "claimed"} /\ call'[c].result = call[c].result
    BY <1>6 DEF Waited, Call
  <2>2. call[c].op = "send" /\ call[c].at \notin {"idle", "enqueue"}
    BY <1>0, <1>6 DEF Waiting, Waited
  <2>3. gtk.at = "replying" /\ Served(c) <=> gtk'.at = "replying" /\ Served(c)'
    BY <1>0 DEF SameService
  <2> QED
    BY <2>1, <2>2, <2>3 DEF Honest, SameStory
<1>7. CASE Recycled(c)
  <2>1. /\ call'[c].op = "send" /\ call'[c].at = "idle" /\ call'[c].result = "none"
    BY <1>7 DEF Recycled, IdleCall, CallRecord
  <2>2. call[c].result # "none"
    BY <1>0, <1>7 DEF Waiting, Recycled
  <2>3. FateOf(c)' = "none" /\ ToldTo(c)' = "nothing"
    BY <2>1
  <2>4. CASE call[c].op = "send"
    <3>1. ToldTo(c) = call[c].result
      BY <2>2, <2>4
    <3>2. call[c].result # "nothing"
      BY DEF Call
    <3> QED
      BY <2>3, <3>1, <3>2 DEF Honest
  <2>5. CASE call[c].op # "send"
    BY <2>3, <2>5 DEF Honest, SameStory
  <2> QED
    BY <2>4, <2>5
<1> QED
  BY <1>1, <1>2, <1>3, <1>4, <1>5, <1>6, <1>7 DEF ByCaller

LEMMA ServiceIsHonest ==
  ASSUME NEW c \in Calls, call[c] \in Call, CallInv(c), Ran(c)
  PROVE  Honest(c)
<1> USE FateRules, FateRulesAfter DEF Refused, Served
<1>1. /\ call[c].op = "send" /\ call[c].exec = "Claimed" /\ call[c].reply = "none"
      /\ call[c].at \notin {"idle", "enqueue"} /\ call[c].result = "none"
      /\ call[c].delivered # None <=> gtk.at = "replying" /\ gtk.ok
      /\ Served(c)
  BY DEF CallInv, Waiting, ServedOnce, Ran, Untouched
<1>2. CASE /\ call'[c] = call[c] /\ Served(c)'
           /\ gtk.at = "claimed" /\ gtk'.at = "running"
  BY <1>1, <1>2 DEF Honest, SameStory
<1>3. CASE /\ call'[c] = call[c] /\ Served(c)'
           /\ gtk.at \in {"claimed", "running"} /\ gtk'.at = "replying"
  BY <1>1, <1>3 DEF Honest
<1>4. ASSUME NEW g \in Generation, call'[c] = [call[c] EXCEPT !.delivered = g],
             gtk.at = "running"
      PROVE  Honest(c)
  <2>1. /\ call'[c].delivered # None /\ call'[c].op = call[c].op
        /\ call'[c].at = call[c].at /\ call'[c].result = call[c].result
        /\ call'[c].exec = call[c].exec
    BY <1>4 DEF Generation, None, Call
  <2>2. FateOf(c) = "pending" /\ FateOf(c)' = "delivered"
    BY <1>1, <1>4, <2>1
  <2> QED
    BY <1>1, <2>1, <2>2 DEF Honest
<1>5. CASE /\ gtk.at = "replying"
           /\ call'[c] = [call[c] EXCEPT !.reply = IF gtk.ok THEN "ok" ELSE "err"]
  <2>1. /\ call'[c].delivered = call[c].delivered /\ call'[c].op = call[c].op
        /\ call'[c].at = call[c].at /\ call'[c].result = call[c].result
        /\ call'[c].exec = call[c].exec
        /\ call'[c].reply = IF gtk.ok THEN "ok" ELSE "err"
    BY <1>5 DEF Call
  <2>2. CASE call[c].delivered # None
    <3>1. FateOf(c) = "delivered"
      BY <1>1, <2>2
    <3>2. FateOf(c)' = "delivered"
      BY <1>1, <2>1, <2>2
    <3> QED
      BY <1>1, <2>1, <3>1, <3>2 DEF Honest, SameStory
  <2>3. CASE call[c].delivered = None
    <3>1. call'[c].reply = "err"
      BY <1>1, <1>5, <2>1, <2>3
    <3>2. FateOf(c) = "refused"
      BY <1>1, <1>5, <2>3
    <3>3. FateOf(c)' = "refused"
      BY <1>1, <2>1, <2>3, <3>1
    <3> QED
      BY <1>1, <2>1, <3>2, <3>3 DEF Honest, SameStory
  <2> QED
    BY <2>2, <2>3
<1> QED
  BY <1>2, <1>3, <1>4, <1>5 DEF Ran

LEMMA MoveIsHonest ==
  ASSUME NEW c \in Calls, call[c] \in Call, CallInv(c), Moved(c)
  PROVE  Honest(c)
<1> USE FateRules, FateRulesAfter DEF Refused, Served
<1>1. CASE Submitted(c)
  <2>1. /\ call'[c].op = call[c].op /\ call'[c].at = "awaiting"
        /\ call'[c].exec = call[c].exec /\ call'[c].reply = call[c].reply
        /\ call'[c].delivered = call[c].delivered /\ call'[c].result = call[c].result
    BY <1>1 DEF Submitted, Call
  <2>2. /\ call[c].op = "send" /\ call[c].at = "enqueue" /\ call[c].result = "none"
        /\ call[c].exec = "Pending" /\ call[c].reply = "none"
        /\ call[c].delivered = None /\ ~ Served(c)'
    BY <1>1 DEF CallInv, Waiting, Untouched, Submitted, SameService
  <2>3. FateOf(c) = "none" /\ FateOf(c)' = "pending"
    BY <2>1, <2>2
  <2> QED
    BY <2>1, <2>2, <2>3 DEF Honest
<1>2. CASE Taken(c)
  <2>1. /\ call'[c].op = call[c].op /\ call'[c].at = call[c].at
        /\ call[c].exec = "Cancelled" <=> call'[c].exec = "Cancelled"
        /\ call'[c].reply = call[c].reply
        /\ call'[c].delivered = call[c].delivered /\ call'[c].result = call[c].result
    BY <1>2 DEF Taken, Call
  <2>2. ~ Served(c) /\ ~ (gtk'.at = "replying" /\ Served(c)')
    BY <1>2 DEF Taken
  <2> QED
    BY <2>1, <2>2 DEF Honest, SameStory
<1> QED
  BY <1>1, <1>2, CallerIsHonest, ServiceIsHonest, DroppedIsStill DEF Moved, Honest

(* One call at most has something to tell. *)
LEMMA HonestSteps ==
  ASSUME \/ \A c \in Calls : SameStory(c)
         \/ \E c \in Calls : Honest(c) /\ \A d \in Calls \ {c} : SameStory(d)
  PROVE  [Delivery!Next]_(Delivery!vars)
<1> DEFINE fate == [c \in Calls |-> FateOf(c)]
           told == [c \in Calls |-> ToldTo(c)]
<1>1. CASE \A c \in Calls : SameStory(c)
  <2>1. fate' = fate /\ told' = told
    BY <1>1 DEF SameStory
  <2> QED
    BY <2>1 DEF Delivery!vars
<1>2. ASSUME NEW c \in Calls, Honest(c), \A d \in Calls \ {c} : SameStory(d)
      PROVE  [Delivery!Next]_(Delivery!vars)
  <2>1. /\ fate' = [fate EXCEPT ![c] = FateOf(c)']
        /\ told' = [told EXCEPT ![c] = ToldTo(c)']
    BY <1>2 DEF SameStory
  <2>2. /\ fate[c] = FateOf(c) /\ told[c] = ToldTo(c)
        /\ FateOf(c)' = FateOf(c) => fate' = fate
        /\ ToldTo(c)' = ToldTo(c) => told' = told
    BY <1>2 DEF SameStory
  <2> HIDE DEF fate, told
  <2>3. \/ fate' = fate /\ told' = told
        \/ \E d \in Calls :
             \/ /\ fate[d] = "none" /\ told[d] = "nothing"
                /\ fate' = [fate EXCEPT ![d] = "pending"]
                /\ told' = told
             \/ /\ fate[d] = "pending"
                /\ \E f \in {"delivered", "refused"} : fate' = [fate EXCEPT ![d] = f]
                /\ told' = told
             \/ /\ fate[d] = "pending"
                /\ fate' = [fate EXCEPT ![d] = "abandoned"]
                /\ \E t \in {"timeout", "err"} : told' = [told EXCEPT ![d] = t]
             \/ /\ told[d] = "nothing"
                /\ \/ fate[d] = "delivered" /\ told' = [told EXCEPT ![d] = "ok"]
                   \/ fate[d] = "refused" /\ told' = [told EXCEPT ![d] = "err"]
                /\ fate' = fate
             \/ /\ fate[d] = "none" /\ told[d] = "nothing"
                /\ fate' = [fate EXCEPT ![d] = "refused"]
                /\ told' = [told EXCEPT ![d] = "err"]
             \/ /\ told[d] # "nothing"
                /\ fate' = [fate EXCEPT ![d] = "none"]
                /\ told' = [told EXCEPT ![d] = "nothing"]
    BY <1>2, <2>1, <2>2 DEF Honest, SameStory
  <2> QED
    BY <2>3 DEF fate, told, Delivery!vars, Delivery!Next, Delivery!Submit,
       Delivery!Resolve, Delivery!Abandon, Delivery!Answer, Delivery!Reject,
       Delivery!Reuse
<1> QED
  BY <1>1, <1>2
-----------------------------------------------------------------------------
(* Which calls a step moves.                                               *)

OneMoves == \E c \in Calls : Moved(c) /\ \A d \in Calls \ {c} : Bystander(d)
NoneMoves == \A c \in Calls : Bystander(c) \/ Dropped(c)

LEMMA ChannelUnchanged ==
  ASSUME UNCHANGED queue, NEW c \in Calls
  PROVE  SameChannel(c)
BY DEF SameChannel, Carried, Once

LEMMA ChannelSend ==
  ASSUME RestType, NEW cmd \in Command, Send(cmd), NEW c \in Calls
  PROVE  /\ cmd.call # c => SameChannel(c)
         /\ cmd.call = c => Carried(c)' /\ (~ Carried(c) => Once(c)')
<1>1. /\ DOMAIN queue' = 1 .. Len(queue) + 1 /\ DOMAIN queue = 1 .. Len(queue)
      /\ Len(queue) \in Nat
      /\ \A i \in DOMAIN queue : queue'[i] = queue[i]
      /\ queue'[Len(queue) + 1] = cmd
  BY SendKeeps DEF RestType
<1> QED
  BY <1>1 DEF SameChannel, Carried, Once

LEMMA ChannelTake ==
  ASSUME RestType, NEW kind, NEW at, Take(kind, at), NEW c \in Calls
  PROVE  /\ Head(queue).call # c => SameChannel(c)
         /\ Head(queue).call = c => Carried(c) /\ (Once(c) => ~ Carried(c)' /\ Once(c)')
<1>1. /\ Len(queue) \in Nat /\ DOMAIN queue = 1 .. Len(queue)
      /\ DOMAIN queue' = 1 .. Len(queue) - 1
      /\ \A i \in DOMAIN queue' : i + 1 \in DOMAIN queue /\ queue'[i] = queue[i + 1]
  BY TakeKeeps
<1>2. 1 \in DOMAIN queue /\ queue[1] = Head(queue)
  BY DEF RestType, Take
<1>3. \A i \in DOMAIN queue : i # 1 => i - 1 \in DOMAIN queue' /\ queue'[i - 1] = queue[i]
  BY <1>1
<1>4. CASE Head(queue).call # c
  <2>1. Carried(c) <=> Carried(c)'
    BY <1>1, <1>2, <1>3, <1>4 DEF Carried
  <2>2. Once(c) => Once(c)'
    BY <1>1 DEF Once
  <2> QED
    BY <1>4, <2>1, <2>2 DEF SameChannel
<1>5. CASE Head(queue).call = c
  <2>1. Carried(c)
    BY <1>2, <1>5 DEF Carried
  <2>2. ASSUME Once(c) PROVE ~ Carried(c)' /\ Once(c)'
    BY <1>1, <1>2, <1>5, <2>2 DEF Carried, Once
  <2> QED
    BY <1>5, <2>1, <2>2
<1> QED
  BY <1>4, <1>5

LEMMA NotServingNobody ==
  ASSUME gtk \in Gtk, gtk.at \notin Serving
  PROVE  gtk.call = NoCall /\ \A c \in Calls : ~ Served(c)
BY NoCallAssumption DEF Gtk, Serving, NotServing, Served

LEMMA ServiceUnchanged ==
  ASSUME gtk' = gtk \/ (gtk.call = NoCall /\ gtk'.call = NoCall), NEW c \in Calls
  PROVE  SameService(c)
BY NoCallAssumption DEF SameService, Served

(* A step of a caller that sends at most a command nobody waits for. *)
LEMMA CallerMoves ==
  ASSUME RestType, CallsType, UNCHANGED gtk, NEW c \in Calls, NEW r,
         call' = [call EXCEPT ![c] = r],
         \/ UNCHANGED queue
         \/ \E cmd \in Command : cmd.call = NoCall /\ Send(cmd),
         \/ Started(c) \/ WentOn(c) \/ TurnedAway(c) \/ Answered(c) \/ GaveUp(c)
         \/ Waited(c) \/ Recycled(c)
  PROVE  OneMoves
<1>1. \A d \in Calls : SameChannel(d) /\ SameService(d)
  BY ChannelUnchanged, ChannelSend, ServiceUnchanged, NoCallAssumption
<1>2. \A d \in Calls \ {c} : call'[d] = call[d]
  BY DEF CallsType
<1> QED
  BY <1>1, <1>2 DEF OneMoves, Moved, ByCaller, Bystander

LEMMA CallStepMoves ==
  ASSUME RestType, CallsType, NEW c \in Calls,
         \/ CallStep(c) \/ Reuse(c)
         \/ \E s \in Surfaces : Spawn(c, s) \/ BeginClose(c, s) \/ BeginSend(c, s)
  PROVE  OneMoves
<1>0. call[c] \in Call /\ call[c].surface \in Surfaces
  BY DEF CallsType, Call
<1> USE <1>0, CallerMoves
<1>1. ASSUME NEW s \in Surfaces, Spawn(c, s) PROVE OneMoves
  <2>1. PICK r \in {"ok", "err"} : FinishAtOnce(c, "spawn", s, r)
    BY <1>1 DEF Spawn
  <2>2. Started(c)
    BY <1>1, <2>1, MaxGenerationAssumption
       DEF Spawn, FinishAtOnce, Started, CallsType, Op, CallAt, None
  <2>3. \/ UNCHANGED queue
        \/ \E cmd \in Command : cmd.call = NoCall /\ Send(cmd)
    <3>1. CASE Send([kind |-> "Spawn", surface |-> s,
                     generation |-> nextGeneration, call |-> NoCall]) /\ nextGeneration # 0
      <4>1. [kind |-> "Spawn", surface |-> s,
             generation |-> nextGeneration, call |-> NoCall] \in Command
        BY <3>1, MaxGenerationAssumption DEF RestType, Command, Generation
      <4> QED
        BY <3>1, <4>1
    <3> QED
      BY <1>1, <3>1 DEF Spawn
  <2> QED
    BY <1>1, <2>1, <2>2, <2>3 DEF Spawn, gtkVars, FinishAtOnce
<1>2. ASSUME NEW s \in Surfaces, BeginClose(c, s) PROVE OneMoves
  <2>1. PICK op \in {"close", "closeReplacement"} :
          IF generationOf[s] = None
          THEN FinishAtOnce(c, op, s, "err")
          ELSE Begin(c, op, s, "closing", generationOf[s])
    BY <1>2 DEF BeginClose
  <2>2. op \in Op /\ op # "send" /\ generationOf[s] \in 0 .. MaxGeneration
        /\ "done" \in CallAt /\ "closing" \in CallAt /\ None \in 0 .. MaxGeneration
    BY MaxGenerationAssumption DEF Op, RestType, CallAt, None
  <2>3. Started(c)
    BY <1>2, <2>1, <2>2 DEF BeginClose, FinishAtOnce, Begin, Started, CallsType
  <2> QED
    BY <1>2, <2>1, <2>3 DEF BeginClose, gtkVars, FinishAtOnce, Begin
<1>3. ASSUME NEW s \in Surfaces, BeginSend(c, s) PROVE OneMoves
  <2>1. \/ FinishAtOnce(c, "send", s, "err")
        \/ Begin(c, "send", s, "enqueue", generationOf[s])
    BY <1>3 DEF BeginSend
  <2>2. "send" \in Op /\ generationOf[s] \in 0 .. MaxGeneration
        /\ "done" \in CallAt /\ "enqueue" \in CallAt /\ None \in 0 .. MaxGeneration
    BY MaxGenerationAssumption DEF Op, RestType, CallAt, None
  <2>3. Started(c)
    BY <1>3, <2>1, <2>2 DEF BeginSend, FinishAtOnce, Begin, Started, CallsType
  <2> QED
    BY <1>3, <2>1, <2>3 DEF BeginSend, gtkVars, FinishAtOnce, Begin
<1>4. CASE Close(c)
  <2>1. call[c].generation \in Generation
    BY <1>4 DEF Close, CallsType
  <2>2. Finish(c, "err") \/ Finish(c, "ok") \/ CloseFailed(c)
    BY <1>4 DEF Close
  <2>3. WentOn(c)
    BY <1>4, <2>2 DEF Close, Finish, CloseFailed, WentOn, CallsType
  <2>4. \/ UNCHANGED queue
        \/ \E cmd \in Command : cmd.call = NoCall /\ Send(cmd)
    <3>1. [kind |-> "Close", surface |-> call[c].surface,
           generation |-> call[c].generation, call |-> NoCall] \in Command
      BY <2>1 DEF Command
    <3> QED
      BY <1>4, <3>1 DEF Close
  <2> QED
    BY <1>4, <2>2, <2>3, <2>4 DEF Close, gtkVars, Finish, CloseFailed
<1>5. CASE CloseWaits(c)
  <2>1. WentOn(c)
    BY <1>5 DEF CloseWaits, WentOn, CallsType
  <2> QED
    BY <1>5, <2>1 DEF CloseWaits, gtkVars
<1>6. CASE CloseTimesOut(c)
  <2>1. WentOn(c)
    BY <1>6 DEF CloseTimesOut, Finish, CloseFailed, WentOn, CallsType
  <2> QED
    BY <1>6, <2>1 DEF CloseTimesOut, gtkVars, Finish, CloseFailed
<1>7. CASE Forget(c)
  <2>1. WentOn(c)
    BY <1>7 DEF Forget, Finish, WentOn, CallsType
  <2> QED
    BY <1>7, <2>1 DEF Forget, gtkVars, Finish
<1>8. CASE EnqueueSend(c)
  <2>1. CASE ~ receiving
    <3>1. TurnedAway(c)
      BY <1>8, <2>1 DEF EnqueueSend, Finish, TurnedAway, CallsType
    <3> QED
      BY <1>8, <2>1, <3>1 DEF EnqueueSend, gtkVars, Finish
  <2>2. CASE receiving
    <3> DEFINE cmd == [kind |-> "SendText", surface |-> call[c].surface,
                       generation |-> call[c].generation, call |-> c]
    <3>1. cmd \in Command /\ cmd.call = c
      BY <1>8 DEF CallsType, Call, EnqueueSend, Command
    <3>2. Send(cmd) /\ call' = [call EXCEPT ![c].at = "awaiting"] /\ gtk' = gtk
      BY <1>8, <2>2 DEF EnqueueSend, gtkVars
    <3> HIDE DEF cmd
    <3>3. /\ Carried(c)' /\ (~ Carried(c) => Once(c)')
          /\ \A d \in Calls \ {c} : SameChannel(d)
      BY <3>1, <3>2, ChannelSend
    <3>4. \A d \in Calls : SameService(d)
      BY <3>2, ServiceUnchanged
    <3>5. Submitted(c)
      BY <1>8, <3>2, <3>3, <3>4 DEF Submitted, EnqueueSend, CallsType
    <3>6. \A d \in Calls \ {c} : call'[d] = call[d]
      BY <3>2 DEF CallsType
    <3> QED
      BY <3>3, <3>4, <3>5, <3>6 DEF OneMoves, Moved, Bystander
  <2> QED
    BY <2>1, <2>2 DEF RestType
<1>9. CASE ReceiveReply(c)
  <2>1. Answered(c)
    BY <1>9 DEF ReceiveReply, Finish, Answered, CallsType
  <2> QED
    BY <1>9, <2>1 DEF ReceiveReply, gtkVars, Finish
<1>10. CASE ReceiveDisconnect(c)
  <2>1. GaveUp(c)
    BY <1>10 DEF ReceiveDisconnect, GaveUp, CallsType
  <2> QED
    BY <1>10, <2>1 DEF ReceiveDisconnect, gtkVars
<1>11. CASE ReplyTimesOut(c)
  <2>1. Waited(c)
    BY <1>11 DEF ReplyTimesOut, Waited, CallsType
  <2> QED
    BY <1>11, <2>1 DEF ReplyTimesOut, gtkVars
<1>12. CASE CancelPending(c)
  <2>1. Waited(c) \/ GaveUp(c)
    BY <1>12 DEF CancelPending, Waited, GaveUp, CallsType
  <2> QED
    BY <1>12, <2>1 DEF CancelPending, gtkVars
<1>13. CASE Reuse(c)
  <2>1. Recycled(c)
    BY <1>13 DEF Reuse, Recycled, Served, Carried, CallsType
  <2> QED
    BY <1>13, <2>1 DEF Reuse, gtkVars
<1> QED
  BY <1>1, <1>2, <1>3, <1>4, <1>5, <1>6, <1>7, <1>8, <1>9, <1>10, <1>11, <1>12, <1>13
     DEF CallStep
(* The GTK thread's steps: only those of a send move its call. *)
LEMMA GtkStill ==
  ASSUME RestType, CallsType, UNCHANGED call,
         \A c \in Calls : SameChannel(c),
         gtk' = gtk \/ (gtk.at \notin Serving /\ gtk'.call = NoCall)
  PROVE  NoneMoves
BY NotServingNobody, ServiceUnchanged DEF RestType, NoneMoves, Bystander

LEMMA GtkTakeMoves ==
  ASSUME RestType, CallsType, GtkTake
  PROVE  NoneMoves \/ OneMoves
<1>0. gtk \in Gtk /\ gtk.at = "idle" /\ queue # <<>>
  BY DEF RestType, GtkTake, TakeSpawn, TakeClose, TakeSend, Take
<1>1. gtk.at \notin Serving /\ gtk.call = NoCall /\ \A c \in Calls : ~ Served(c)
  BY <1>0, NotServingNobody DEF Serving
<1>2. Head(queue) \in Command
  BY <1>0 DEF RestType
<1>3. CASE TakeSpawn \/ TakeClose
  <2>1. PICK kind, at : kind \in {"Spawn", "Close"} /\ Take(kind, at)
    BY <1>3 DEF TakeSpawn, TakeClose
  <2>2. Head(queue).call = NoCall /\ gtk'.call = NoCall
    BY <1>2, <2>1 DEF Take, Command
  <2>3. \A c \in Calls : SameChannel(c)
    BY <2>1, <2>2, ChannelTake, NoCallAssumption
  <2>4. UNCHANGED call
    BY <1>3 DEF TakeSpawn, TakeClose
  <2> QED
    BY <1>1, <2>2, <2>3, <2>4, GtkStill
<1>4. CASE TakeSend
  <2>0. PICK c \in Calls : c = Head(queue).call
    BY <1>2, <1>4 DEF TakeSend, Take, Command
  <2>1. PICK at \in {"claimed", "idle"} :
          /\ Take("SendText", at)
          /\ \/ /\ at = "claimed" /\ call[c].exec = "Pending"
                /\ call' = [call EXCEPT ![c].exec = "Claimed"]
             \/ /\ at = "idle" /\ call[c].exec # "Pending" /\ UNCHANGED call
    BY <1>4, <2>0 DEF TakeSend
  <2>3. gtk'.at = at /\ gtk'.call = IF at = "idle" THEN NoCall ELSE c
    BY <2>0, <2>1 DEF Take
  <2>4. /\ Carried(c) /\ (Once(c) => ~ Carried(c)' /\ Once(c)')
        /\ \A d \in Calls \ {c} : SameChannel(d)
    BY <2>0, <2>1, ChannelTake
  <2>5. Taken(c)
    BY <1>1, <2>1, <2>3, <2>4, NoCallAssumption DEF Taken, Served, CallsType
  <2>6. ASSUME NEW d \in Calls \ {c} PROVE Bystander(d)
    <3>1. call'[d] = call[d]
      BY <2>1 DEF CallsType
    <3>2. ~ Served(d) /\ ~ Served(d)'
      BY <1>1, <2>3, NoCallAssumption DEF Served
    <3> QED
      BY <2>4, <3>1, <3>2 DEF Bystander, SameService
  <2> QED
    BY <2>5, <2>6 DEF OneMoves, Moved
<1> QED
  BY <1>3, <1>4 DEF GtkTake

(* A step of the GTK thread on the send it has in hand. *)
LEMMA ServiceMoves ==
  ASSUME RestType, CallsType, LeaseForSend \/ RunSend \/ Reply, GenerationInv
  PROVE  OneMoves
<1>a. gtk \in Gtk /\ gtk.at \in Serving /\ gtk.call \in Calls
  BY GtkFields DEF RestType, LeaseForSend, RunSend, Reply, Serving
<1>b. PICK c \in Calls : c = gtk.call
  BY <1>a
<1>0. gtk \in Gtk /\ gtk.at \in Serving /\ gtk.call = c
  BY <1>a, <1>b
<1>1. UNCHANGED queue
  BY DEF LeaseForSend, RunSend, Reply
<1>2. \A d \in Calls : SameChannel(d)
  BY <1>1, ChannelUnchanged
<1>3. gtk'.call \in {c, NoCall} /\ Served(c)
  BY <1>0 DEF LeaseForSend, RunSend, Reply, GtkTo, Served, Gtk
<1>4. \A d \in Calls \ {c} : call'[d] = call[d]
  BY <1>0 DEF LeaseForSend, RunSend, Reply, CallsType
<1>5. \A d \in Calls \ {c} : Bystander(d)
  BY <1>2, <1>3, <1>4, NoCallAssumption DEF Bystander, SameService, Served
<1>6. Ran(c)
  <2>1. CASE LeaseForSend
    <3>1. /\ gtk.at = "claimed" /\ call' = call /\ gtk'.call = c
          /\ gtk'.at = "running" \/ (gtk'.at = "replying" /\ ~ gtk'.ok)
      BY <1>0, <2>1 DEF LeaseForSend, GtkTo, Gtk
    <3> QED
      BY <1>0, <1>2, <1>3, <3>1 DEF Ran, Served
  <2>2. CASE RunSend
    <3>1. PICK ok \in BOOLEAN :
            /\ ok => pane[gtk.surface] = gtk.generation
            /\ gtk' = [gtk EXCEPT !.at = "replying", !.ok = ok]
            /\ call' = IF ok
                       THEN [call EXCEPT ![gtk.call].delivered = pane[gtk.surface]]
                       ELSE call
      BY <2>2 DEF RunSend
    <3>2. gtk'.at = "replying" /\ gtk'.ok = ok /\ gtk'.call = c /\ gtk.at = "running"
      BY <1>0, <2>2, <3>1 DEF Gtk, RunSend
    <3>3. CASE ok = TRUE
      <4>1. pane[gtk.surface] \in Generation
        BY <1>0, <3>1, <3>3, GtkFields
      <4>2. call'[c] = [call[c] EXCEPT !.delivered = pane[gtk.surface]]
        BY <1>0, <3>1, <3>3 DEF CallsType
      <4> QED
        BY <1>0, <1>2, <1>3, <3>2, <3>3, <4>1, <4>2 DEF Ran, Served
    <3>4. CASE ok = FALSE
      BY <1>0, <1>2, <1>3, <3>1, <3>2, <3>4 DEF Ran, Served
    <3> QED
      BY <3>3, <3>4
  <2>3. CASE Reply
    <3>1. gtk'.call = NoCall /\ gtk.at = "replying"
      BY <1>0, <2>3 DEF Reply, Gtk
    <3>2. call'[c] = [call[c] EXCEPT !.reply = IF gtk.ok THEN "ok" ELSE "err"]
      BY <1>0, <2>3 DEF Reply, CallsType
    <3> QED
      BY <1>0, <1>2, <1>3, <3>1, <3>2, NoCallAssumption DEF Ran, Served
  <2> QED
    BY <2>1, <2>2, <2>3
<1> QED
  BY <1>0, <1>5, <1>6 DEF OneMoves, Moved

LEMMA OtherGtkWork ==
  ASSUME RestType, CallsType,
         \/ BuildPane \/ InsertPane \/ BuildFails \/ CloseFailedSpawn
         \/ CommitCallback \/ CommitSnapshot \/ BeginSnapshot
         \/ \E s \in Surfaces : CallbackReady(s) \/ BeginCallback(s)
  PROVE  NoneMoves
<1>0. gtk \in Gtk
  BY DEF RestType
<1>1. UNCHANGED call
  BY DEF BuildPane, InsertPane, BuildFails, CloseFailedSpawn, CommitCallback,
     CommitSnapshot, BeginSnapshot, CallbackReady, BeginCallback
<1>2. \A c \in Calls : SameChannel(c)
  <2>1. CASE UNCHANGED queue
    BY <2>1, ChannelUnchanged
  <2> DEFINE cmd == [kind |-> "Close", surface |-> gtk.surface,
                     generation |-> gtk.generation, call |-> NoCall]
  <2>2. CASE Send(cmd)
    <3>1. cmd \in Command /\ cmd.call = NoCall
      BY <1>0, GtkFields DEF Command
    <3> HIDE DEF cmd
    <3> QED
      BY <2>2, <3>1, ChannelSend, NoCallAssumption
  <2> QED
    BY <2>1, <2>2 DEF BuildPane, InsertPane, BuildFails, CloseFailedSpawn,
       CommitCallback, CommitSnapshot, BeginSnapshot, CallbackReady, BeginCallback
<1>3. gtk' = gtk \/ gtk.at \notin Serving
  BY DEF BuildPane, InsertPane, BuildFails, CloseFailedSpawn, CommitCallback,
     CommitSnapshot, BeginSnapshot, CallbackReady, BeginCallback, gtkVars, Serving
<1>4. gtk' = gtk \/ gtk'.call \in {gtk.call, NoCall}
  BY <1>0 DEF BuildPane, InsertPane, BuildFails, CloseFailedSpawn, CommitCallback,
     CommitSnapshot, BeginSnapshot, CallbackReady, BeginCallback, gtkVars, GtkTo,
     GtkIdle, Gtk
<1> QED
  BY <1>0, <1>1, <1>2, <1>3, <1>4, GtkStill, NotServingNobody

LEMMA QuitMoves ==
  ASSUME RestType, CallsType, Quit
  PROVE  NoneMoves
<1> SUFFICES ASSUME NEW c \in Calls PROVE Bystander(c) \/ Dropped(c)
  BY DEF NoneMoves
<1>1. SameService(c)
  BY ServiceUnchanged DEF Quit, gtkVars
<1>2. ~ Carried(c)' /\ Once(c)'
  BY DEF Quit, Carried, Once
<1>3. call'[c] = IF Carried(c) THEN [call[c] EXCEPT !.reply = "disconnected"] ELSE call[c]
  BY DEF Quit, Carried
<1> QED
  BY <1>1, <1>2, <1>3 DEF Bystander, Dropped, SameChannel

LEMMA StepMoves ==
  ASSUME RestType, CallsType, GenerationInv, [Next]_vars
  PROVE  NoneMoves \/ OneMoves
<1>1. CASE UNCHANGED vars
  BY <1>1, GtkStill, ChannelUnchanged DEF vars
<1> QED
  BY <1>1, CallStepMoves, GtkTakeMoves, ServiceMoves, OtherGtkWork, QuitMoves
     DEF Next, GtkWork

LEMMA DeliveryStep ==
  ASSUME RestType, CallsType, GenerationInv, DeliveryInv, [Next]_vars
  PROVE  DeliveryInv' /\ [Delivery!Next]_(Delivery!vars)
<1>0. \A c \in Calls : call[c] \in Call /\ CallInv(c)
  BY DEF CallsType, DeliveryInv
<1>1. CASE NoneMoves
  <2>1. \A c \in Calls : CallInv(c)'
    BY <1>0, <1>1, MoveKeeps DEF NoneMoves, Moved
  <2>2. \A c \in Calls : SameStory(c)
    BY <1>0, <1>1, BystanderIsStill, DroppedIsStill DEF NoneMoves
  <2> QED
    BY <2>1, <2>2, HonestSteps DEF DeliveryInv
<1>2. ASSUME NEW c \in Calls, Moved(c), \A d \in Calls \ {c} : Bystander(d)
      PROVE  DeliveryInv' /\ [Delivery!Next]_(Delivery!vars)
  <2>1. \A d \in Calls : CallInv(d)'
    BY <1>0, <1>2, MoveKeeps
  <2>2. Honest(c) /\ \A d \in Calls \ {c} : SameStory(d)
    BY <1>0, <1>2, MoveIsHonest, BystanderIsStill
  <2> QED
    BY <2>1, <2>2, HonestSteps DEF DeliveryInv
<1> QED
  BY <1>1, <1>2, StepMoves DEF OneMoves

(* Sends implement CommandDelivery, for any number of callers, surfaces    *)
(* and incarnations: a text is delivered at most once, the caller is told  *)
(* truthfully whether it was, and one that was told of a timeout or of the *)
(* GTK thread's end never sees it run afterwards (backend.rs:404-533,      *)
(* controller.rs:499-577).                                                 *)
THEOREM DeliveryProved == Spec => DeliveryIsHonest
<1>1. Init => Delivery!Init
  <2> SUFFICES ASSUME Init, NEW c \in Calls
               PROVE  FateOf(c) = "none" /\ ToldTo(c) = "nothing"
    BY DEF Delivery!Init
  <2>1. PICK s \in Surfaces : call[c] = IdleCall(s)
    BY DEF Init
  <2> QED
    BY <2>1 DEF IdleCall, CallRecord, FateOf, ToldTo
<1>2. Init => BackendInv /\ DeliveryInv
  BY BackendInvariantInit, DeliveryInit
<1>3. BackendInv /\ DeliveryInv /\ [Next]_vars
        => BackendInv' /\ DeliveryInv' /\ [Delivery!Next]_(Delivery!vars)
  BY BackendInvariantStep, DeliveryStep DEF BackendInv
<1> QED
  BY <1>1, <1>2, <1>3, PTL DEF Spec, DeliveryIsHonest, Delivery!Spec
=============================================================================
