------------------------------ MODULE EventStream ------------------------------
(***************************************************************************)
(* The event stream of the socket server: a task that compares the model   *)
(* with the last snapshot it took and broadcasts the differences, and the  *)
(* connections that replay the model to a subscriber and then pass on what *)
(* is broadcast (forktty-core, events.rs; forktty-socket, lib.rs           *)
(* spawn_event_tick and connection.rs stream_events).                      *)
(*                                                                         *)
(* The model changes at any time, also between two ticks, between a tick's *)
(* snapshot and its last event, and while a subscriber is served.  The     *)
(* model, a snapshot and what a client makes of the events it got are all  *)
(* functions from keys to values; an event gives values to some keys.      *)
(*                                                                         *)
(* A workspace stands for its name and one of the fields that are compared *)
(* alike (focused surface, status, progress, ports, pull request), a       *)
(* surface for its workspace and its title.  Notifications are announced   *)
(* and never withdrawn, and are left out; so is a poisoned model lock,     *)
(* after which no tick compares anything.  A tick that finds the model     *)
(* locked does nothing.                                                    *)
(***************************************************************************)
EXTENDS Naturals, SequencesExt

CONSTANTS
  Clients,
  Workspaces,
  Surfaces,
  Values,      \* of names, fields and titles
  None,        \* not there, or not set
  First,       \* the workspace, and the surface, the model starts with
  FirstTab,
  Capacity,    \* EVENTS_CHANNEL_CAPACITY
  MaxChanges   \* bound on changes of the model

ASSUME EventAssumption ==
  /\ First \in Workspaces /\ FirstTab \in Surfaces /\ Values # {}
  /\ IsFiniteSet(Workspaces) /\ IsFiniteSet(Surfaces)
  /\ None \notin Workspaces \cup Values
  /\ Capacity \in Nat \ {0} /\ MaxChanges \in Nat

VARIABLES
  model,
  prev,     \* the snapshot the last tick ended with
  next,     \* the snapshot whose events are being broadcast, prev if none is
  pending,  \* the events of it that are yet to be sent
  changes,
  sub,      \* where the connection of a client is in stream_events
  queue,    \* what its receiver has yet to receive
  missed,   \* the receiver was overtaken by the ring buffer
  view,     \* what the client makes of the events it got
  lagged,   \* it was told that it lost some
  unsure    \* keys the client need not be right about, a history variable

tickVars == <<prev, next, pending>>
modelVars == <<model, changes>>
clientVars == <<sub, queue, missed, view, lagged, unsure>>
vars == <<tickVars, modelVars, clientVars>>

Key == ({"active"} \X {None}) \cup ({"name", "field"} \X Workspaces)
         \cup ({"home", "title"} \X Surfaces)

Present(world, w) == world[<<"name", w>>] # None
Shown(world, s) == world[<<"home", s>>] # None

(* What a subscriber is given the differences to, when it asks for replay. *)
Nothing == [k \in Key |-> None]

-----------------------------------------------------------------------------
(* diff: the events that take one snapshot to another.                     *)

RemovedWorkspace(w) == [k \in {"name", "field"} \X {w} |-> None]
AddedWorkspace(w, name) ==
  [k \in {"name", "field"} \X {w} |-> IF k = <<"name", w>> THEN name ELSE None]
RemovedSurface(s) == [k \in {"home", "title"} \X {s} |-> None]
AddedSurface(s, home) ==
  [k \in {"home", "title"} \X {s} |-> IF k = <<"home", s>> THEN home ELSE None]
Becomes(k, v) == [j \in {k} |-> v]

Only(world, k) == Becomes(k, world[k])

(* A mutant: a surface that changed its workspace is not announced. *)
ReplacedNone(before, after) == {}

(* A surface with another owner is announced as removed and added. *)
Replaced(before, after) ==
  {s \in Surfaces : /\ Shown(before, s) /\ Shown(after, s)
                    /\ before[<<"home", s>>] # after[<<"home", s>>]}

Diff(before, after) ==
  LET gone == {w \in Workspaces : Present(before, w) /\ ~Present(after, w)}
      added == {w \in Workspaces : ~Present(before, w) /\ Present(after, w)}
      replaced == Replaced(before, after)
      leaving == {s \in Surfaces : Shown(before, s) /\ ~Shown(after, s)} \cup replaced
      coming == {s \in Surfaces : ~Shown(before, s) /\ Shown(after, s)} \cup replaced
      Changed(k) == before[k] # after[k]
      renamed == {w \in Workspaces : Present(before, w) /\ Present(after, w)
                                       /\ Changed(<<"name", w>>)}
      \* What is new is compared with nothing.
      fields == {w \in Workspaces : Present(after, w) /\ Changed(<<"field", w>>)}
      titles == {s \in Surfaces :
                   Shown(after, s) /\
                   after[<<"title", s>>] # IF s \in replaced THEN None
                                           ELSE before[<<"title", s>>]}
      selected == IF Changed(<<"active", None>>) THEN {Only(after, <<"active", None>>)} ELSE {}
  IN SetToSeq({RemovedWorkspace(w) : w \in gone})
     \o SetToSeq({AddedWorkspace(w, after[<<"name", w>>]) : w \in added})
     \o SetToSeq({RemovedSurface(s) : s \in leaving})
     \o SetToSeq({AddedSurface(s, after[<<"home", s>>]) : s \in coming})
     \o SetToSeq(selected)
     \o SetToSeq({Only(after, <<"name", w>>) : w \in renamed})
     \o SetToSeq({Only(after, <<"field", w>>) : w \in fields})
     \o SetToSeq({Only(after, <<"title", s>>) : s \in titles})

(* A client that keeps what it is told. *)
Apply(world, event) ==
  [k \in Key |-> IF k \in DOMAIN event THEN event[k] ELSE world[k]]

(* Of several events the last one on a key counts. *)
ApplyAll(world, events) ==
  LET Telling(k) == {i \in DOMAIN events : k \in DOMAIN events[i]}
  IN [k \in Key |-> IF Telling(k) = {} THEN world[k] ELSE events[Max(Telling(k))][k]]

-----------------------------------------------------------------------------
(* A workspace is made with a surface and selected. *)
Opened(world, w, name, s) ==
  LET made == Apply(world, AddedWorkspace(w, name))
      shown == Apply(made, AddedSurface(s, w))
  IN Apply(shown, Becomes(<<"active", None>>, w))

Init ==
  /\ model = Opened(Nothing, First, CHOOSE v \in Values : TRUE, FirstTab)
  /\ prev = model /\ next = model /\ pending = <<>>
  /\ changes = 0
  /\ sub = [c \in Clients |-> "off"]
  /\ queue = [c \in Clients |-> <<>>]
  /\ missed = [c \in Clients |-> FALSE] /\ lagged = [c \in Clients |-> FALSE]
  /\ view = [c \in Clients |-> Nothing]
  /\ unsure = [c \in Clients |-> Key]

-----------------------------------------------------------------------------
(* The model, changed by GTK or by requests.                               *)

Closing(w) ==
  LET tabs == {s \in Surfaces : model[<<"home", s>>] = w}
  IN [k \in Key |-> IF k \in {<<"name", w>>, <<"field", w>>}
                         \cup ({"home", "title"} \X tabs) THEN None ELSE model[k]]

There == {w \in Workspaces : Present(model, w)}
Tabs == {s \in Surfaces : Shown(model, s)}

(* A workspace keeps a surface as long as it is there.                     *)
Spare == {s \in Tabs : \E t \in Tabs \ {s} : model[<<"home", t>>] = model[<<"home", s>>]}

(* A repaired session may move a surface to another workspace. *)
Changes ==
  {Opened(model, w, v, s) : w \in Workspaces \ There, v \in Values, s \in Surfaces \ Tabs}
  \cup {Closing(w) : w \in There \ {model[<<"active", None>>]}}
  \cup {Apply(model, Becomes(<<"active", None>>, w)) : w \in There}
  \cup {Apply(model, Becomes(<<"name", w>>, v)) : w \in There, v \in Values}
  \cup {Apply(model, Becomes(<<"field", w>>, v)) : w \in There, v \in Values \cup {None}}
  \cup {Apply(model, AddedSurface(s, w)) : s \in Surfaces \ Tabs, w \in There}
  \cup {Apply(model, RemovedSurface(s)) : s \in Spare}
  \cup {Apply(model, Becomes(<<"title", s>>, v)) : s \in Tabs, v \in Values}
  \cup {Apply(model, Becomes(<<"home", s>>, w)) : s \in Spare, w \in There}

Change ==
  /\ changes < MaxChanges
  /\ changes' = changes + 1
  /\ model' \in Changes \ {model}
  /\ UNCHANGED <<tickVars, clientVars>>

-----------------------------------------------------------------------------
(* The tick.                                                               *)

Tick ==
  /\ pending = <<>> /\ model # prev
  /\ next' = model
  /\ pending' = Diff(prev, model)
  /\ UNCHANGED <<prev, modelVars, clientVars>>

(* The ring buffer overwrites what the slowest have not received. *)
Enqueue(q, event) == IF Len(q) = Capacity THEN Append(Tail(q), event) ELSE Append(q, event)

Receivers == {c \in Clients : sub[c] # "off"}

Send ==
  /\ pending # <<>>
  /\ pending' = Tail(pending)
  /\ prev' = IF pending' = <<>> THEN next ELSE prev
  /\ queue' = [c \in Clients |->
                 IF c \in Receivers THEN Enqueue(queue[c], Head(pending)) ELSE queue[c]]
  /\ missed' = [c \in Clients |->
                  missed[c] \/ (c \in Receivers /\ Len(queue[c]) = Capacity)]
  /\ UNCHANGED <<next, modelVars, sub, view, lagged, unsure>>

-----------------------------------------------------------------------------
(* A connection that streams.  A client reads what is written, or stalls   *)
(* the connection until a write times out.                                 *)

Subscribe(c) ==
  /\ sub[c] = "off"
  /\ sub' = [sub EXCEPT ![c] = "subscribed"]
  /\ UNCHANGED <<tickVars, modelVars, queue, missed, view, lagged, unsure>>

(* What the model has now and the last snapshot has not may change back    *)
(* before the next tick, which then has nothing to announce.               *)
Replay(c) ==
  /\ sub[c] = "subscribed"
  /\ sub' = [sub EXCEPT ![c] = "replayed"]
  /\ view' = [view EXCEPT ![c] = ApplyAll(@, Diff(Nothing, model))]
  /\ unsure' = [unsure EXCEPT ![c] = {k \in Key : model[k] # next[k]}]
  /\ UNCHANGED <<tickVars, modelVars, queue, missed, lagged>>

SkipReplay(c) ==
  /\ sub[c] = "subscribed"
  /\ sub' = [sub EXCEPT ![c] = "bare"]
  /\ UNCHANGED <<tickVars, modelVars, queue, missed, view, lagged, unsure>>

Live(c) == sub[c] \in {"replayed", "bare"}

Receive(c) ==
  /\ Live(c) /\ ~missed[c] /\ queue[c] # <<>>
  /\ view' = [view EXCEPT ![c] = Apply(@, Head(queue[c]))]
  /\ unsure' = [unsure EXCEPT ![c] = @ \ DOMAIN Head(queue[c])]
  /\ queue' = [queue EXCEPT ![c] = Tail(@)]
  /\ UNCHANGED <<tickVars, modelVars, sub, missed, lagged>>

(* A mutant: the receiver goes on after what it missed without a word. *)
SkipLagged(c) ==
  /\ Live(c) /\ missed[c]
  /\ missed' = [missed EXCEPT ![c] = FALSE]
  /\ UNCHANGED <<tickVars, modelVars, sub, queue, view, lagged, unsure>>

ReceiveLagged(c) ==
  /\ Live(c) /\ missed[c]
  /\ missed' = [missed EXCEPT ![c] = FALSE]
  /\ lagged' = [lagged EXCEPT ![c] = TRUE]
  /\ UNCHANGED <<tickVars, modelVars, sub, queue, view, unsure>>

(* The client closes, a write times out, or the server stops. *)
Leave(c) ==
  /\ sub[c] # "off"
  /\ sub' = [sub EXCEPT ![c] = "off"]
  /\ queue' = [queue EXCEPT ![c] = <<>>]
  /\ missed' = [missed EXCEPT ![c] = FALSE]
  /\ lagged' = [lagged EXCEPT ![c] = FALSE]
  /\ view' = [view EXCEPT ![c] = Nothing]
  /\ unsure' = [unsure EXCEPT ![c] = Key]
  /\ UNCHANGED <<tickVars, modelVars>>

Next ==
  \/ Change \/ Tick \/ Send
  \/ \E c \in Clients :
       \/ Subscribe(c) \/ Replay(c) \/ SkipReplay(c)
       \/ Receive(c) \/ ReceiveLagged(c) \/ Leave(c)

Spec == Init /\ [][Next]_vars

-----------------------------------------------------------------------------
(* Properties.                                                             *)

(* Whatever happened to the model between two ticks, the events of the     *)
(* second tell a client that knew the first snapshot the whole truth.      *)
DiffExact == ApplyAll(prev, Diff(prev, model)) = model

(* A client that has received all that was sent to it, and was not told    *)
(* that it lost some.                                                      *)
CaughtUp(c) ==
  Live(c) /\ pending = <<>> /\ queue[c] = <<>> /\ ~missed[c] /\ ~lagged[c]

(* It agrees with the last snapshot on all that it was told by an event,   *)
(* however these raced with its replay and fell into its subscription, and *)
(* on all that had not changed between the last tick and the replay.       *)
EventsAreTrue ==
  \A c \in Clients : CaughtUp(c) => \A k \in Key \ unsure[c] : view[c][k] = prev[k]
=============================================================================
