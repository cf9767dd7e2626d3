----------------------------- MODULE SocketServer -----------------------------
(***************************************************************************)
(* The socket server of one launch: connections, their permits, the        *)
(* admission of requests and the cooperative shutdown (forktty-socket,     *)
(* lib.rs serve_until_shutdown and connection.rs).                         *)
(*                                                                         *)
(* Every connection is a task of a multi-threaded runtime.  Shutdown first *)
(* closes admission and only then wakes the tasks, so that tasks run in    *)
(* between; a request that was admitted before is served to its end, what  *)
(* was not is dropped wherever it stands.  What serving a request does is  *)
(* left to the module that extends this one.                               *)
(*                                                                         *)
(* Frames are complete and good, or answered with an error; time is the    *)
(* choice of a timeout that may always strike.                             *)
(***************************************************************************)
EXTENDS FiniteSets, Naturals

CONSTANTS
  Clients,         \* a client has one connection at a time
  MaxConnections,  \* MAX_SOCKET_CONNECTIONS
  MaxSubscribers   \* MAX_EVENT_SUBSCRIBERS

ASSUME LimitAssumption == MaxConnections \in Nat \ {0} /\ MaxSubscribers \in Nat

VARIABLES
  server,    \* the accept loop, and what it has told the connections
  stopAsked, \* the window has asked the server to stop
  conn       \* the task of a client's connection

serverVars == <<server, stopAsked, conn>>

(* "off" before it is started or when it could not bind; "closed" once     *)
(* admission is closed, "draining" once the tasks have been told, "done"   *)
(* when the runtime is dropped and completion is signalled.                *)
Server == {"off", "accepting", "closed", "draining", "done"}

(* "refusing" is a task that tells a client over capacity to go away and   *)
(* has no permit; "badFrame" and "request" have read a line; "waiting" is  *)
(* an admitted request that needs a transaction, "serving" any other.      *)
Task == {"none", "refusing", "reading", "line", "badFrame", "request", "waiting",
         "serving", "answering", "streaming"}

ServerTypeOK ==
  /\ server \in Server
  /\ stopAsked \in BOOLEAN
  /\ conn \in [Clients -> Task]

ServerInit ==
  /\ server = "off"
  /\ stopAsked = FALSE
  /\ conn = [c \in Clients |-> "none"]

Admitting == server = "accepting"
Stopping == server \in {"draining", "done"}

WithPermit == {c \in Clients : conn[c] \notin {"none", "refusing"}}
Subscribers == {c \in Clients : conn[c] = "streaming"}

Move(c, from, to) ==
  /\ conn[c] = from
  /\ conn' = [conn EXCEPT ![c] = to]
  /\ UNCHANGED <<server, stopAsked>>

-----------------------------------------------------------------------------
(* The accept loop.                                                        *)

Accept(c) ==
  /\ server = "accepting"
  /\ ~stopAsked
  /\ Move(c, "none", IF Cardinality(WithPermit) < MaxConnections THEN "reading" ELSE "refusing")

(* Shutdown was asked for, or accept failed for good. *)
CloseAdmission ==
  /\ server = "accepting"
  /\ server' = "closed"
  /\ UNCHANGED <<stopAsked, conn>>

TellTasks ==
  /\ server = "closed"
  /\ server' = "draining"
  /\ UNCHANGED <<stopAsked, conn>>

Drained ==
  /\ server = "draining"
  /\ \A c \in Clients : conn[c] = "none"
  /\ server' = "done"
  /\ UNCHANGED <<stopAsked, conn>>

AcceptLoop == (stopAsked /\ CloseAdmission) \/ TellTasks \/ Drained

-----------------------------------------------------------------------------
(* A connection.  The answers to a refused client and to a bad frame, and  *)
(* the wait for a line, are cut short by shutdown and by their timeouts.   *)

Refuse(c) == Move(c, "refusing", "none")

(* A read is only begun while shutdown has not been signalled. *)
Read(c) == ~Stopping /\ Move(c, "reading", "line")

(* The peer is gone, its line is late, or the server stops. *)
EndReading(c) == Move(c, "reading", "none")

(* A completed read is not admission. *)
Parse(c) ==
  IF Admitting
    THEN Move(c, "line", "request") \/ Move(c, "line", "badFrame")
    ELSE Move(c, "line", "none")

(* After a parse error the connection reads on; otherwise it ends. *)
AnswerBadFrame(c) ==
  \/ Admitting /\ Move(c, "badFrame", "reading")
  \/ Move(c, "badFrame", "none")

(* The load of the flag that a request is admitted by.  A subscription     *)
(* that is malformed or one too many is answered like other requests.      *)
Admit(c) ==
  IF ~Admitting THEN Move(c, "request", "none")
  ELSE \/ Move(c, "request", "waiting")
       \/ Move(c, "request", "serving")
       \/ Move(c, "request",
               IF Cardinality(Subscribers) < MaxSubscribers THEN "streaming" ELSE "answering")

(* Written, or the client does not read and the write times out. *)
Answer(c) == Move(c, "answering", "reading") \/ Move(c, "answering", "none")

(* The peer closes, or does not read and the write times out. *)
LeaveStream(c) == Move(c, "streaming", "none")

(* What a connection does without fail; streams end by choice or shutdown. *)
TaskStep(c) ==
  \/ Refuse(c) \/ EndReading(c) \/ Parse(c) \/ AnswerBadFrame(c) \/ Admit(c) \/ Answer(c)
  \/ Stopping /\ LeaveStream(c)

ServerNext ==
  \/ CloseAdmission \/ TellTasks \/ Drained
  \/ \E c \in Clients :
       \/ Accept(c) \/ Refuse(c) \/ Read(c) \/ EndReading(c) \/ Parse(c)
       \/ AnswerBadFrame(c) \/ Admit(c) \/ Answer(c) \/ LeaveStream(c)
=============================================================================
