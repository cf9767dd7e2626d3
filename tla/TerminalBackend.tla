--------------------------- MODULE TerminalBackend ---------------------------
(***************************************************************************)
(* The GTK terminal backend (gtk_app/backend.rs) and the part of the       *)
(* controller that serves it (gtk_app/controller.rs).                      *)
(*                                                                         *)
(* Socket threads spawn, close and write to terminals through a runtime    *)
(* map behind a mutex and a FIFO channel of commands to the one GTK        *)
(* thread, which owns the panes.  Every spawn gives its surface id a new   *)
(* generation, so that a command or a widget callback of an earlier        *)
(* incarnation can be told from one of the current incarnation; a lease    *)
(* keeps the incarnation in the map while a callback works on it outside   *)
(* the mutex.  Each action below is one critical section of that mutex, or *)
(* one step of the GTK thread between two of them.                         *)
(*                                                                         *)
(* SendText stands for ReadText too: they run the same protocol.           *)
(***************************************************************************)
EXTENDS Integers, Sequences, FiniteSets

CONSTANTS
  Surfaces,        \* surface ids
  Calls,           \* slots for backend calls in flight, one thread each
  NoCall,          \* the call of a command nobody waits for
  MaxGeneration    \* stands for u64::MAX

ASSUME NoCallAssumption == NoCall \notin Calls
ASSUME MaxGenerationAssumption == MaxGeneration \in Nat \ {0}

Generation == 1 .. MaxGeneration
None == 0                      \* no entry, or no pane

VARIABLES
  generationOf,    \* generation of a surface's runtime entry, None without one
  ready,           \* may the incarnation take text?
  leases,          \* active_generation_leases of the entry
  nextGeneration,  \* next generation to allocate, None once exhausted
  receiving,       \* is the GTK end of the channel still there?
  queue,           \* the command channel
  gtk,             \* what the GTK thread is doing
  leased,          \* the incarnations the GTK thread holds a lease of
  pane,            \* generation of the pane shown for a surface
  built,           \* generations whose widget has existed (callbacks may linger)
  observedBy,      \* generation whose callback last wrote the model for a surface
  forgotten,       \* replacement ids dropped from the map without a Close
  call             \* the backend calls in flight

runtimeVars == <<generationOf, ready, leases, nextGeneration>>
gtkVars == <<gtk, leased, pane, built, observedBy>>
vars == <<generationOf, ready, leases, nextGeneration, receiving, queue,
          gtk, leased, pane, built, observedBy, forgotten, call>>

Command ==
  [kind : {"Spawn", "Close"}, surface : Surfaces, generation : Generation,
   call : {NoCall}]
  \cup
  [kind : {"SendText"}, surface : Surfaces, generation : Generation, call : Calls]

Serving == {"claimed", "running", "replying"}
NotServing == {"idle", "building", "inserting", "failed", "observing", "snapshotting"}
Gtk ==
  [at : Serving, surface : Surfaces, generation : Generation, call : Calls,
   ok : BOOLEAN]
  \cup
  [at : NotServing, surface : Surfaces, generation : Generation, call : {NoCall},
   ok : BOOLEAN]

Op == {"send", "spawn", "close", "closeReplacement"}
CallAt == {"idle", "enqueue", "awaiting", "expired", "claimed", "closing",
           "waiting", "forgetting", "done"}
Call == [op : Op, at : CallAt, surface : Surfaces, generation : 0 .. MaxGeneration,
         exec : {"Pending", "Claimed", "Cancelled"},
         reply : {"none", "ok", "err", "disconnected"},
         delivered : 0 .. MaxGeneration,
         result : {"none", "ok", "err", "timeout"}]

TypeOK ==
  /\ generationOf \in [Surfaces -> 0 .. MaxGeneration]
  /\ ready \in [Surfaces -> BOOLEAN]
  /\ leases \in [Surfaces -> Nat]
  /\ nextGeneration \in 0 .. MaxGeneration
  /\ receiving \in BOOLEAN
  /\ queue \in Seq(Command)
  /\ gtk \in Gtk
  /\ leased \in SUBSET (Surfaces \X Generation)
  /\ pane \in [Surfaces -> 0 .. MaxGeneration]
  /\ built \in [Surfaces -> SUBSET Generation]
  /\ observedBy \in [Surfaces -> 0 .. MaxGeneration]
  /\ forgotten \in SUBSET Surfaces
  /\ call \in [Calls -> Call]
  /\ \A c \in Calls :
       call[c].at \notin {"idle", "done"} => call[c].generation \in Generation

CallRecord(op, at, s, g, result) ==
  [op |-> op, at |-> at, surface |-> s, generation |-> g, exec |-> "Pending",
   reply |-> "none", delivered |-> None, result |-> result]

IdleCall(s) == CallRecord("send", "idle", s, None, "none")

Init ==
  /\ generationOf = [s \in Surfaces |-> None]
  /\ ready = [s \in Surfaces |-> FALSE]
  /\ leases = [s \in Surfaces |-> 0]
  /\ nextGeneration = 1
  /\ receiving = TRUE
  /\ queue = <<>>
  /\ \E s \in Surfaces :
       /\ gtk = [at |-> "idle", surface |-> s, generation |-> 1, call |-> NoCall,
                 ok |-> FALSE]
       /\ call = [c \in Calls |-> IdleCall(s)]
  /\ leased = {}
  /\ pane = [s \in Surfaces |-> None]
  /\ built = [s \in Surfaces |-> {}]
  /\ observedBy = [s \in Surfaces |-> None]
  /\ forgotten = {}

-----------------------------------------------------------------------------
(* The runtime map.                                                        *)

IsCurrent(s, g) == generationOf[s] = g

(* A bug: the counter is not checked for overflow. *)
AllocateUnchecked == nextGeneration' = nextGeneration + 1

(* allocate_generation: u64::MAX is the last one, 0 means exhausted. *)
AllocateGeneration ==
  nextGeneration' = IF nextGeneration = MaxGeneration THEN 0 ELSE nextGeneration + 1

(* Remove the entry of s from the map. *)
RemoveEntry(s) ==
  /\ generationOf' = [generationOf EXCEPT ![s] = None]
  /\ ready' = [ready EXCEPT ![s] = FALSE]
  /\ leases' = [leases EXCEPT ![s] = 0]
  /\ UNCHANGED nextGeneration

(* wait_for_generation_leases: who removes an entry finds it unleased.     *)
(* A bug: the wait is given up early.                                      *)
Unawaited(s) == TRUE
Unleased(s) == leases[s] = 0

(* A bug: a lease is given to any incarnation of the surface. *)
CanLeaseSurface(incarnations, requireReady) ==
  \A i \in incarnations :
    generationOf[i[1]] # None /\ (requireReady => ready[i[1]])

(* acquire_surface_generation_lease: all the named incarnations or none. *)
CanLease(incarnations, requireReady) ==
  \A i \in incarnations : IsCurrent(i[1], i[2]) /\ (requireReady => ready[i[1]])

AcquireLease(incarnations) ==
  /\ leases' = [s \in Surfaces |->
       leases[s] + Cardinality({i \in incarnations : i[1] = s})]
  /\ leased' = incarnations

(* A bug: a lease is dropped without being counted down.                   *)
ReleaseNothing == leased' = {} /\ UNCHANGED leases

(* Drop of SurfaceGenerationLease: only an entry that is still the leased  *)
(* incarnation is counted down.                                            *)
ReleaseLease ==
  /\ leases' = [s \in Surfaces |->
       IF <<s, generationOf[s]>> \in leased /\ leases[s] > 0
       THEN leases[s] - 1 ELSE leases[s]]
  /\ leased' = {}

Send(command) == queue' = Append(queue, command)

-----------------------------------------------------------------------------
(* Calls from socket threads and surface transactions.                     *)

Begin(c, op, s, at, g) ==
  call' = [call EXCEPT ![c] = CallRecord(op, at, s, g, "none")]

FinishAtOnce(c, op, s, result) ==
  call' = [call EXCEPT ![c] = CallRecord(op, "done", s, None, result)]

Finish(c, result) ==
  call' = [call EXCEPT ![c] = [@ EXCEPT !.at = "done", !.result = result]]

(* enqueue_spawn: the entry and its Spawn command appear under one lock;   *)
(* a dead channel removes the entry again but the generation stays used.   *)
Spawn(c, s) ==
  /\ call[c].at = "idle"
  /\ s \notin forgotten
  /\ \/ /\ generationOf[s] # None \/ nextGeneration = 0
        /\ FinishAtOnce(c, "spawn", s, "err")
        /\ UNCHANGED <<runtimeVars, queue>>
     \/ /\ generationOf[s] = None
        /\ nextGeneration # 0
        /\ AllocateGeneration
        /\ IF receiving
           THEN /\ generationOf' = [generationOf EXCEPT ![s] = nextGeneration]
                /\ ready' = [ready EXCEPT ![s] = FALSE]
                /\ leases' = [leases EXCEPT ![s] = 0]
                /\ Send([kind |-> "Spawn", surface |-> s,
                         generation |-> nextGeneration, call |-> NoCall])
                /\ FinishAtOnce(c, "spawn", s, "ok")
           ELSE /\ FinishAtOnce(c, "spawn", s, "err")
                /\ UNCHANGED <<generationOf, ready, leases, queue>>
  /\ UNCHANGED <<receiving, gtkVars, forgotten>>

(* close and close_replacement first read the current generation. *)
BeginClose(c, s) ==
  /\ call[c].at = "idle"
  /\ \E op \in {"close", "closeReplacement"} :
       IF generationOf[s] = None
       THEN FinishAtOnce(c, op, s, "err")
       ELSE Begin(c, op, s, "closing", generationOf[s])
  /\ UNCHANGED <<runtimeVars, receiving, queue, gtkVars, forgotten>>

(* What a failed close does next: a replacement's entry is forgotten. *)
CloseFailed(c) ==
  IF call[c].op = "closeReplacement"
  THEN call' = [call EXCEPT ![c].at = "forgetting"]
  ELSE Finish(c, "err")

(* close_for_generation once wait_for_generation_leases has returned, at   *)
(* once or after a wait: the entry leaves the map and the Close command    *)
(* enters the channel under one lock.                                      *)
Close(c) ==
  LET s == call[c].surface
      g == call[c].generation
  IN /\ call[c].at \in {"closing", "waiting"}
     /\ \/ /\ generationOf[s] = None
           /\ Finish(c, "err")
           /\ UNCHANGED <<runtimeVars, queue>>
        \/ /\ generationOf[s] \notin {None, g}
           /\ CloseFailed(c)
           /\ UNCHANGED <<runtimeVars, queue>>
        \/ /\ IsCurrent(s, g)
           /\ Unleased(s)
           /\ IF receiving
              THEN /\ RemoveEntry(s)
                   /\ Send([kind |-> "Close", surface |-> s, generation |-> g,
                            call |-> NoCall])
                   /\ Finish(c, "ok")
              ELSE /\ CloseFailed(c)
                   /\ UNCHANGED <<runtimeVars, queue>>
     /\ UNCHANGED <<receiving, gtkVars, forgotten>>

CloseWaits(c) ==
  LET s == call[c].surface
  IN /\ call[c].at = "closing"
     /\ IsCurrent(s, call[c].generation)
     /\ ~ Unleased(s)
     /\ call' = [call EXCEPT ![c].at = "waiting"]
     /\ UNCHANGED <<runtimeVars, receiving, queue, gtkVars, forgotten>>

(* generation_lease_timeout passes with the lease still held. *)
CloseTimesOut(c) ==
  LET s == call[c].surface
  IN /\ call[c].at = "waiting"
     /\ IsCurrent(s, call[c].generation)
     /\ ~ Unleased(s)
     /\ CloseFailed(c)
     /\ UNCHANGED <<runtimeVars, receiving, queue, gtkVars, forgotten>>

(* forget_surface of a replacement whose close failed.  It waits for the   *)
(* leases as close does; its caller never uses that surface id again.      *)
Forget(c) ==
  LET s == call[c].surface
  IN /\ call[c].at = "forgetting"
     /\ IF generationOf[s] # None /\ Unleased(s)
        THEN RemoveEntry(s) /\ forgotten' = forgotten \cup {s}
        ELSE UNCHANGED <<runtimeVars, forgotten>>
     /\ Finish(c, "err")
     /\ UNCHANGED <<receiving, queue, gtkVars>>

(* send_text reads the entry under the lock and drops the lock ... *)
BeginSend(c, s) ==
  /\ call[c].at = "idle"
  /\ IF generationOf[s] # None /\ ready[s]
     THEN Begin(c, "send", s, "enqueue", generationOf[s])
     ELSE FinishAtOnce(c, "send", s, "err")
  /\ UNCHANGED <<runtimeVars, receiving, queue, gtkVars, forgotten>>

(* ... and only then sends the command. *)
EnqueueSend(c) ==
  /\ call[c].at = "enqueue"
  /\ IF receiving
     THEN /\ Send([kind |-> "SendText", surface |-> call[c].surface,
                   generation |-> call[c].generation, call |-> c])
          /\ call' = [call EXCEPT ![c].at = "awaiting"]
     ELSE Finish(c, "err") /\ UNCHANGED queue
  /\ UNCHANGED <<runtimeVars, receiving, gtkVars, forgotten>>

(* recv_timeout, or the unbounded recv after GTK has claimed the command. *)
ReceiveReply(c) ==
  /\ call[c].at \in {"awaiting", "claimed"}
  /\ call[c].reply \in {"ok", "err"}
  /\ Finish(c, call[c].reply)
  /\ UNCHANGED <<runtimeVars, receiving, queue, gtkVars, forgotten>>

ReceiveDisconnect(c) ==
  /\ call[c].at = "awaiting"
  /\ call[c].reply = "disconnected"
  /\ call' = [call EXCEPT ![c] =
       [@ EXCEPT !.at = "done", !.result = "err", !.exec = "Cancelled"]]
  /\ UNCHANGED <<runtimeVars, receiving, queue, gtkVars, forgotten>>

(* command_reply_timeout passes without a reply. *)
ReplyTimesOut(c) ==
  /\ call[c].at = "awaiting"
  /\ call[c].reply = "none"
  /\ call' = [call EXCEPT ![c].at = "expired"]
  /\ UNCHANGED <<runtimeVars, receiving, queue, gtkVars, forgotten>>

(* A bug: the caller gives up without asking whether GTK has claimed it. *)
CancelUnconditionally(c) ==
  /\ call[c].at = "expired"
  /\ call' = [call EXCEPT ![c] =
       [@ EXCEPT !.exec = "Cancelled", !.at = "done", !.result = "timeout"]]
  /\ UNCHANGED <<runtimeVars, receiving, queue, gtkVars, forgotten>>

(* cancel_pending: compare-and-swap against the GTK thread's claim. *)
CancelPending(c) ==
  /\ call[c].at = "expired"
  /\ IF call[c].exec = "Pending"
     THEN call' = [call EXCEPT ![c] =
            [@ EXCEPT !.exec = "Cancelled", !.at = "done", !.result = "timeout"]]
     ELSE call' = [call EXCEPT ![c].at = "claimed"]
  /\ UNCHANGED <<runtimeVars, receiving, queue, gtkVars, forgotten>>

(* The slot serves another request once nothing refers to the old one. *)
Reuse(c) ==
  /\ call[c].at = "done"
  /\ gtk.call # c
  /\ \A i \in DOMAIN queue : queue[i].call # c
  /\ call' = [call EXCEPT ![c] = IdleCall(@.surface)]
  /\ UNCHANGED <<runtimeVars, receiving, queue, gtkVars, forgotten>>

-----------------------------------------------------------------------------
(* The GTK thread: one command per frame (app.rs), callbacks in between.   *)

GtkTo(at) == gtk' = [gtk EXCEPT !.at = at]
GtkIdle == gtk' = [gtk EXCEPT !.at = "idle", !.call = NoCall]

Take(kind, at) ==
  /\ gtk.at = "idle"
  /\ queue # <<>>
  /\ Head(queue).kind = kind
  /\ queue' = Tail(queue)
  /\ gtk' = [at |-> at, surface |-> Head(queue).surface,
             generation |-> Head(queue).generation,
             call |-> IF at = "idle" THEN NoCall ELSE Head(queue).call, ok |-> FALSE]

(* TerminalController::spawn: a stale command and an already materialized  *)
(* surface are dropped, otherwise the widget is built outside the mutex.   *)
TakeSpawn ==
  /\ \/ /\ Take("Spawn", "building")
        /\ IsCurrent(gtk'.surface, gtk'.generation)
        /\ pane[gtk'.surface] = None
     \/ /\ Take("Spawn", "idle")
        /\ \/ ~ IsCurrent(gtk'.surface, gtk'.generation)
           \/ pane[gtk'.surface] # None
  /\ UNCHANGED <<runtimeVars, receiving, leased, pane, built, observedBy, forgotten,
                 call>>

(* The widget exists; it is shown only under a lease of its incarnation.   *)
BuildPane ==
  LET incarnation == {<<gtk.surface, gtk.generation>>}
  IN /\ gtk.at = "building"
     /\ built' = [built EXCEPT ![gtk.surface] = @ \cup {gtk.generation}]
     /\ IF CanLease(incarnation, FALSE)
        THEN AcquireLease(incarnation) /\ GtkTo("inserting")
        ELSE GtkIdle /\ UNCHANGED <<leases, leased>>
     /\ UNCHANGED <<generationOf, ready, nextGeneration, receiving, queue, pane,
                    observedBy, forgotten, call>>

InsertPane ==
  /\ gtk.at = "inserting"
  /\ pane' = [pane EXCEPT ![gtk.surface] = gtk.generation]
  /\ ReleaseLease
  /\ GtkIdle
  /\ UNCHANGED <<generationOf, ready, nextGeneration, receiving, queue, built,
                 observedBy, forgotten, call>>

BuildFails ==
  /\ gtk.at = "building"
  /\ GtkTo("failed")
  /\ UNCHANGED <<runtimeVars, receiving, queue, leased, pane, built, observedBy,
                 forgotten, call>>

(* A failed spawn closes its own incarnation, ignoring the outcome.        *)
CloseFailedSpawn ==
  /\ gtk.at = "failed"
  /\ IF IsCurrent(gtk.surface, gtk.generation) /\ Unleased(gtk.surface)
     THEN /\ RemoveEntry(gtk.surface)
          /\ Send([kind |-> "Close", surface |-> gtk.surface,
                   generation |-> gtk.generation, call |-> NoCall])
     ELSE UNCHANGED <<runtimeVars, queue>>
  /\ GtkIdle
  /\ UNCHANGED <<receiving, leased, pane, built, observedBy, forgotten, call>>

(* Close: the pane of the named incarnation is torn down, and its last     *)
(* scrollback goes to the model, without a lease: its entry is gone.       *)
TearDown(s) ==
  /\ pane' = [pane EXCEPT ![s] = None]
  /\ \E saved \in BOOLEAN :
       observedBy' = IF saved THEN [observedBy EXCEPT ![s] = pane[s]] ELSE observedBy

(* A bug: a pane is looked for under the entry the map has by now.         *)
TakeCloseOfCurrentEntry ==
  /\ Take("Close", "idle")
  /\ LET s == gtk'.surface
     IN IF pane[s] # None /\ pane[s] = generationOf[s]
        THEN TearDown(s) ELSE UNCHANGED <<pane, observedBy>>
  /\ UNCHANGED <<runtimeVars, receiving, leased, built, forgotten, call>>

TakeClose ==
  /\ Take("Close", "idle")
  /\ LET s == gtk'.surface
     IN IF pane[s] = gtk'.generation
        THEN TearDown(s) ELSE UNCHANGED <<pane, observedBy>>
  /\ UNCHANGED <<runtimeVars, receiving, leased, built, forgotten, call>>

(* execute_terminal_command: claim the command or drop it.                 *)
TakeSend ==
  LET c == Head(queue).call
  IN /\ \/ /\ Take("SendText", "claimed")
           /\ call[c].exec = "Pending"
           /\ call' = [call EXCEPT ![c].exec = "Claimed"]
        \/ /\ Take("SendText", "idle")
           /\ call[c].exec # "Pending"
           /\ UNCHANGED call
     /\ UNCHANGED <<runtimeVars, receiving, leased, pane, built, observedBy, forgotten>>

(* run_if_current_generation: refused unless the incarnation is current    *)
(* and ready.                                                              *)
LeaseForSend ==
  LET incarnation == {<<gtk.surface, gtk.generation>>}
  IN /\ gtk.at = "claimed"
     /\ IF CanLease(incarnation, TRUE)
        THEN AcquireLease(incarnation) /\ GtkTo("running")
        ELSE /\ gtk' = [gtk EXCEPT !.at = "replying", !.ok = FALSE]
             /\ UNCHANGED <<leases, leased>>
     /\ UNCHANGED <<generationOf, ready, nextGeneration, receiving, queue, pane, built,
                    observedBy, forgotten, call>>

(* The text goes to the pane of the same generation, if the embedding      *)
(* library accepts it.                                                     *)
RunSend ==
  /\ gtk.at = "running"
  /\ \E ok \in BOOLEAN :
       /\ ok => pane[gtk.surface] = gtk.generation
       /\ gtk' = [gtk EXCEPT !.at = "replying", !.ok = ok]
       /\ call' = IF ok
                  THEN [call EXCEPT ![gtk.call].delivered = pane[gtk.surface]]
                  ELSE call
  /\ ReleaseLease
  /\ UNCHANGED <<generationOf, ready, nextGeneration, receiving, queue, pane, built,
                 observedBy, forgotten>>

(* A bug: a command that found its incarnation gone is dropped unanswered. *)
ReplyOnlyOnSuccess ==
  /\ gtk.at = "replying"
  /\ call' = IF gtk.ok THEN [call EXCEPT ![gtk.call].reply = "ok"] ELSE call
  /\ gtk' = [gtk EXCEPT !.at = "idle", !.call = NoCall]
  /\ UNCHANGED <<runtimeVars, receiving, queue, leased, pane, built, observedBy,
                 forgotten>>

Reply ==
  /\ gtk.at = "replying"
  /\ call' = [call EXCEPT ![gtk.call].reply = IF gtk.ok THEN "ok" ELSE "err"]
  /\ gtk' = [gtk EXCEPT !.at = "idle", !.call = NoCall]
  /\ UNCHANGED <<runtimeVars, receiving, queue, leased, pane, built, observedBy,
                 forgotten>>

(* The widget's init signal: mark_surface_ready_for_generation.            *)
CallbackReady(s) ==
  /\ gtk.at = "idle"
  /\ \E g \in built[s] :
       /\ IsCurrent(s, g)
       /\ ready' = [ready EXCEPT ![s] = TRUE]
  /\ UNCHANGED <<generationOf, leases, nextGeneration, receiving, queue, gtkVars,
                 forgotten, call>>

(* A title, focus, PID or exit callback of any widget that ever existed;   *)
(* a child's exit also takes the incarnation out of the ready set.         *)
BeginCallback(s) ==
  /\ gtk.at = "idle"
  /\ \E g \in built[s] :
       /\ CanLease({<<s, g>>}, FALSE)
       /\ AcquireLease({<<s, g>>})
       /\ gtk' = [gtk EXCEPT !.at = "observing", !.surface = s, !.generation = g]
  /\ \E exited \in BOOLEAN : ready' = IF exited THEN [ready EXCEPT ![s] = FALSE] ELSE ready
  /\ UNCHANGED <<generationOf, nextGeneration, receiving, queue, pane, built,
                 observedBy, forgotten, call>>

CommitCallback ==
  /\ gtk.at = "observing"
  /\ observedBy' = [observedBy EXCEPT ![gtk.surface] = gtk.generation]
  /\ ReleaseLease
  /\ GtkIdle
  /\ UNCHANGED <<generationOf, ready, nextGeneration, receiving, queue, pane, built,
                 forgotten, call>>

(* snapshot_current_generation_scrollback_with: one lease of every pane    *)
(* that is still current; stale ones have been left out one by one.        *)
BeginSnapshot ==
  LET current == {<<s, pane[s]>> : s \in {t \in Surfaces :
                    pane[t] # None /\ IsCurrent(t, pane[t])}}
  IN /\ gtk.at = "idle"
     /\ current # {}
     /\ AcquireLease(current)
     /\ GtkTo("snapshotting")
     /\ UNCHANGED <<generationOf, ready, nextGeneration, receiving, queue, pane, built,
                    observedBy, forgotten, call>>

CommitSnapshot ==
  /\ gtk.at = "snapshotting"
  /\ observedBy' = [s \in Surfaces |->
       IF \E i \in leased : i[1] = s THEN pane[s] ELSE observedBy[s]]
  /\ ReleaseLease
  /\ GtkIdle
  /\ UNCHANGED <<generationOf, ready, nextGeneration, receiving, queue, pane, built,
                 forgotten, call>>

(* The window goes away and the channel's receiver with it: commands still *)
(* queued are dropped, and their callers see a closed reply channel.       *)
Quit ==
  /\ receiving
  /\ gtk.at = "idle"
  /\ receiving' = FALSE
  /\ queue' = <<>>
  /\ call' = [c \in Calls |->
       IF \E i \in DOMAIN queue : queue[i].call = c
       THEN [call[c] EXCEPT !.reply = "disconnected"] ELSE call[c]]
  /\ UNCHANGED <<runtimeVars, gtkVars, forgotten>>

-----------------------------------------------------------------------------
CallStep(c) ==
  \/ Close(c) \/ CloseWaits(c) \/ CloseTimesOut(c) \/ Forget(c)
  \/ EnqueueSend(c) \/ ReceiveReply(c) \/ ReceiveDisconnect(c)
  \/ ReplyTimesOut(c) \/ CancelPending(c)

GtkWork ==
  \/ BuildPane \/ InsertPane \/ BuildFails \/ CloseFailedSpawn
  \/ LeaseForSend \/ RunSend \/ Reply
  \/ CommitCallback \/ CommitSnapshot

GtkTake == TakeSpawn \/ TakeClose \/ TakeSend

Next ==
  \/ \E c \in Calls :
       \/ CallStep(c) \/ Reuse(c)
       \/ \E s \in Surfaces : Spawn(c, s) \/ BeginClose(c, s) \/ BeginSend(c, s)
  \/ GtkWork
  \/ GtkTake
  \/ \E s \in Surfaces : CallbackReady(s) \/ BeginCallback(s)
  \/ BeginSnapshot
  \/ Quit

Spec == Init /\ [][Next]_vars

(* A thread that has entered a call keeps running it, its timed waits end, *)
(* and the GTK main loop finishes what it has begun.  Nothing is assumed   *)
(* about how soon the GTK thread gets to the next command: the 2 s         *)
(* timeouts exist because it may be busy.                                  *)
Fairness ==
  /\ \A c \in Calls : WF_vars(CallStep(c))
  /\ WF_vars(GtkWork)

FairSpec == Spec /\ Fairness

-----------------------------------------------------------------------------
(* Properties.                                                             *)

(* An incarnation under a lease stays in the map until the lease is        *)
(* dropped: close, forget and respawn all wait for it (backend.rs:374-381).*)
LeasedIncarnationStays ==
  \A i \in leased : IsCurrent(i[1], i[2]) /\ leases[i[1]] > 0

(* active_generation_leases counts the leases really held: it neither      *)
(* drops below them (a close could tear down a leased incarnation) nor     *)
(* stays above them (no close would ever succeed again).                   *)
LeaseCountExact ==
  \A s \in Surfaces : leases[s] = Cardinality({i \in leased : i[1] = s})

(* What a later incarnation's callbacks have written to the model for a    *)
(* surface is never overwritten by a callback of an earlier incarnation    *)
(* (title, exit status, PID of a widget that lingers), nor by the last      *)
(* scrollback that closing a pane saves without holding a lease.           *)
ObservationsMoveForward ==
  [][\A s \in Surfaces : observedBy'[s] >= observedBy[s]]_vars

(* While the GTK end is there, an entry and a pane never lose each other:  *)
(* an entry's spawn is still to be handled or its pane is shown, and a     *)
(* pane without its entry has its Close still to come.  Only a forgotten   *)
(* replacement may leave a pane behind.                                    *)
Queued(kind, s, g) ==
  \E i \in DOMAIN queue :
    queue[i].kind = kind /\ queue[i].surface = s /\ queue[i].generation = g

Materializing(s, g) ==
  /\ gtk.at \in {"building", "inserting", "failed"}
  /\ gtk.surface = s
  /\ gtk.generation = g

NoStrandedIncarnation ==
  receiving =>
    \A s \in Surfaces :
      /\ generationOf[s] # None =>
           \/ Queued("Spawn", s, generationOf[s])
           \/ Materializing(s, generationOf[s])
           \/ pane[s] = generationOf[s]
      /\ pane[s] # None =>
           \/ IsCurrent(s, pane[s])
           \/ Queued("Close", s, pane[s])
           \/ s \in forgotten

(* Every backend call returns, whatever the GTK thread does: a close waits *)
(* for leases with a timeout, a send gives up unless GTK has claimed it,   *)
(* and a claimed send is always answered.                                  *)
CallsReturn ==
  \A c \in Calls : call[c].at # "idle" ~> call[c].at = "done"

(* Text is delivered at most once and the caller's answer is true, as      *)
(* CommandDelivery states it.                                              *)
Refused(c) ==
  (gtk.at = "replying" /\ gtk.call = c) \/ call[c].reply = "err" \/ call[c].result = "err"

FateOf(c) ==
  IF call[c].op # "send" \/ call[c].at \in {"idle", "enqueue"} THEN "none"
  ELSE IF call[c].delivered # None THEN "delivered"
  ELSE IF call[c].exec = "Cancelled" THEN "abandoned"
  ELSE IF Refused(c) THEN "refused"
  ELSE "pending"

ToldTo(c) ==
  IF call[c].op # "send" \/ call[c].result = "none" THEN "nothing" ELSE call[c].result

Delivery == INSTANCE CommandDelivery WITH
  fate <- [c \in Calls |-> FateOf(c)],
  told <- [c \in Calls |-> ToldTo(c)]

DeliveryIsHonest == Delivery!Spec
=============================================================================
