------------------------------ MODULE WindowClose ------------------------------
(***************************************************************************)
(* The session from launch to close: restoring it, saving it, and closing  *)
(* the window while socket clients and transactions are at work            *)
(* (forktty-ui-gtk, app.rs and socket_server.rs; forktty-core, session.rs; *)
(* forktty-socket, surface_lifecycle.rs), on top of SocketServer.          *)
(*                                                                         *)
(* All saves run on the GTK thread, which does nothing else meanwhile; but *)
(* socket threads change the model, and the process may be killed or the   *)
(* power fail between any two system calls.  The window closes in phases:  *)
(* the server is drained while the UI still runs, because what is drained  *)
(* may wait for it; then the guards of the transactions are awaited and    *)
(* the session is saved; then the window goes in the same main-loop turn.  *)
(*                                                                         *)
(* A session is the set of the clients' changes in it, one by each.  What  *)
(* the user changes is left out, not so the transactions the user starts,  *)
(* which hold the guards on threads of their own.  The worktree and        *)
(* surface-set guards, which saves take both of, are one.  A second        *)
(* instance is kept out by the lock file and not modelled.                 *)
(***************************************************************************)
EXTENDS SocketServer

CONSTANTS
  User,          \* holder of the guard in a transaction of the user
  Pump,          \* holder of the guard while a terminal is yet to be made
  NoOne,
  Base,          \* the workspace a new session is made with
  Absent,        \* no session file
  Torn,          \* a session file that is not what any save wrote
  MaxLaunches    \* bound on launches of the application

ASSUME CloseAssumption ==
  /\ {User, Pump, NoOne, Base} \cap Clients = {}
  /\ User # Pump /\ User # NoOne /\ Pump # NoOne /\ Base # NoOne
  /\ Absent # Torn /\ \A S \in SUBSET Clients : {Base} \cup S \notin {Absent, Torn}
  /\ MaxLaunches \in Nat

VARIABLES
  up,        \* the process: "down", "starting" until the session is there, "up"
  phase,     \* ClosePhase
  closer,    \* the future that closes the window
  model,     \* the session in memory
  guard,     \* who holds the guards
  deferred,  \* the client whose new surface waits for its terminal
  job,       \* the save that is running
  file,      \* the session file as the system shows it
  onDisk,    \* what a power failure may leave of it
  launches

diskVars == <<file, onDisk>>
sessionVars == <<model, guard, deferred>>
windowVars == <<up, phase, closer>>
saveVars == <<job, file, onDisk>>
vars == <<serverVars, windowVars, sessionVars, saveVars, launches>>

(* Before a session is restored or made, the model has no workspace.       *)
Session == {{Base} \cup S : S \in SUBSET Clients}
Phase == {"Running", "Draining", "Finalizing"}
Closer == {"idle", "drain", "guards", "save", "saved", "failed"}

(* One version of the session file: its content, and if that is flushed.   *)
Entry == [data : {Absent, Torn} \cup Session, flushed : BOOLEAN]
NoFile == [data |-> Absent, flushed |-> TRUE]

(* A save has its snapshot and the next system call it makes.              *)
Job == [data : Session, at : {"flush", "rename", "sync"}, flushed : BOOLEAN]
NoJob == [at |-> "none"]

TypeOK ==
  /\ ServerTypeOK
  /\ up \in {"down", "starting", "up"} /\ phase \in Phase /\ closer \in Closer
  /\ model \in {{}} \cup Session
  /\ guard \in Clients \cup {User, Pump, NoOne}
  /\ deferred \in Clients \cup {NoOne}
  /\ job \in Job \cup {NoJob}
  /\ file \in Entry /\ onDisk \subseteq Entry
  /\ launches \in 0..MaxLaunches

(* An earlier run, or nobody, left the session file. *)
Init ==
  /\ ServerInit
  /\ up = "down" /\ phase = "Running" /\ closer = "idle"
  /\ model = {} /\ guard = NoOne /\ deferred = NoOne
  /\ job = NoJob
  /\ file \in {e \in Entry : e.flushed} /\ onDisk = {file}
  /\ launches = 0

-----------------------------------------------------------------------------
(* The GTK thread.                                                         *)

(* A mutant: a window that is being closed handles no terminal commands.   *)
RunningOnly == up # "down" /\ phase = "Running"

UiAlive == up # "down" /\ phase # "Finalizing"

(* Between saves, the main loop gets to its callbacks. *)
MainLoop == UiAlive /\ job = NoJob /\ closer \notin {"saved", "failed"}

(* A mutant: a session without workspaces is saved as well. *)
SavingEmpty(data) == [data |-> data, at |-> "flush", flushed |-> FALSE]

(* save_session with a snapshot; a session without workspaces is refused.  *)
Saving(data) ==
  IF data = {} THEN NoJob
  ELSE [data |-> data, at |-> "flush", flushed |-> FALSE]

(* After a GTK action, a debounced resize, or by the autosave timer (which *)
(* may find nothing new): skipped when a transaction holds a guard.        *)
SaveNow ==
  /\ MainLoop /\ guard = NoOne
  /\ job' = Saving(model)
  /\ UNCHANGED <<serverVars, windowVars, sessionVars, diskVars, launches>>

(* A transaction the user started; its worker is a thread of its own and   *)
(* may come to hold the guard even after the last save.                    *)
UserTransaction ==
  /\ up = "up" /\ guard = NoOne
  /\ guard' = User
  /\ UNCHANGED <<serverVars, windowVars, model, deferred, saveVars, launches>>

UserCommits ==
  /\ guard = User
  /\ guard' = NoOne
  /\ UNCHANGED <<serverVars, windowVars, model, deferred, saveVars, launches>>

(* The timer that handles one terminal command per frame makes the         *)
(* terminal of a new surface, or removes the surface again; either way it  *)
(* releases the guard and saves.                                           *)
PumpSpawn ==
  /\ MainLoop /\ guard = Pump
  /\ \/ UNCHANGED model
     \/ model' = model \ {deferred}
  /\ guard' = NoOne /\ deferred' = NoOne
  /\ job' = Saving(model')
  /\ UNCHANGED <<serverVars, windowVars, diskVars, launches>>

-----------------------------------------------------------------------------
(* A save: a temporary file is written, flushed and renamed over the       *)
(* session file, and the directory is flushed.                             *)

(* A mutant: the temporary file is renamed without being flushed. *)
NoFlush ==
  /\ job # NoJob /\ job.at = "flush"
  /\ job' = [job EXCEPT !.at = "rename"]
  /\ UNCHANGED <<diskVars, closer>>

Flush ==
  /\ job # NoJob /\ job.at = "flush"
  /\ job' = [job EXCEPT !.at = "rename", !.flushed = TRUE]
  /\ UNCHANGED <<diskVars, closer>>

Rename ==
  /\ job # NoJob /\ job.at = "rename"
  /\ file' = [data |-> job.data, flushed |-> job.flushed]
  /\ onDisk' = onDisk \cup {file'}
  /\ job' = [job EXCEPT !.at = "sync"]
  /\ UNCHANGED closer

SyncDirectory ==
  /\ job # NoJob /\ job.at = "sync"
  /\ onDisk' = {file}
  /\ job' = NoJob
  /\ closer' = IF closer = "save" THEN "saved" ELSE closer
  /\ UNCHANGED file

(* Any call may fail; the temporary file is then removed, and a failed     *)
(* last save does not keep the window open.                                *)
SaveFails ==
  /\ job # NoJob
  /\ job' = NoJob
  /\ closer' = IF closer = "save" THEN "failed" ELSE closer
  /\ UNCHANGED diskVars

SaveStep ==
  /\ Flush \/ Rename \/ SyncDirectory \/ SaveFails
  /\ UNCHANGED <<serverVars, up, phase, sessionVars, launches>>

-----------------------------------------------------------------------------
(* Closing the window.                                                     *)

(* The server is asked to stop, if there is one. *)
RequestClose ==
  /\ MainLoop /\ phase = "Running"
  /\ phase' = "Draining"
  /\ closer' = "drain"
  /\ stopAsked' = (server # "off")
  /\ UNCHANGED <<server, conn, up, sessionVars, saveVars, launches>>

(* A mutant: the last save does not wait for the server. *)
AwaitNothing ==
  /\ MainLoop /\ closer = "drain"
  /\ closer' = "guards"
  /\ UNCHANGED <<serverVars, up, phase, sessionVars, saveVars, launches>>

AwaitServer ==
  /\ MainLoop /\ closer = "drain"
  /\ server \in {"off", "done"}
  /\ closer' = "guards"
  /\ UNCHANGED <<serverVars, up, phase, sessionVars, saveVars, launches>>

(* A mutant: it does not wait for the transactions either. *)
LastSaveAtOnce ==
  /\ MainLoop /\ closer = "guards"
  /\ job' = Saving(model)
  /\ closer' = IF job' = NoJob THEN "failed" ELSE "save"
  /\ UNCHANGED <<serverVars, up, phase, sessionVars, diskVars, launches>>

(* The last save waits for the transactions, as autosave does not. *)
LastSave ==
  /\ MainLoop /\ closer = "guards"
  /\ guard = NoOne
  /\ job' = Saving(model)
  /\ closer' = IF job' = NoJob THEN "failed" ELSE "save"
  /\ UNCHANGED <<serverVars, up, phase, sessionVars, diskVars, launches>>

Finalize ==
  /\ closer \in {"saved", "failed"} /\ phase = "Draining"
  /\ phase' = "Finalizing"
  /\ UNCHANGED <<serverVars, up, closer, sessionVars, saveVars, launches>>

-----------------------------------------------------------------------------
(* Requests of clients.                                                    *)

Serve(c) ==
  /\ Move(c, "serving", "answering")
  /\ model' \in {model, model \cup {c}}
  /\ UNCHANGED <<windowVars, guard, deferred, saveVars, launches>>

TakeGuard(c) ==
  /\ conn[c] = "waiting" /\ guard = NoOne
  /\ guard' = c
  /\ UNCHANGED <<serverVars, windowVars, model, deferred, saveVars, launches>>

(* The transaction commits or fails. *)
Commit(c) ==
  /\ guard = c
  /\ Move(c, "waiting", "answering")
  /\ model' \in {model, model \cup {c}}
  /\ guard' = NoOne
  /\ UNCHANGED <<windowVars, deferred, saveVars, launches>>

(* A new surface: the answer does not wait for its terminal, and the guard *)
(* goes with the command that makes it.                                    *)
CommitDeferred(c) ==
  /\ guard = c /\ c \notin model
  /\ Move(c, "waiting", "answering")
  /\ model' = model \cup {c}
  /\ guard' = Pump /\ deferred' = c
  /\ UNCHANGED <<windowVars, saveVars, launches>>

Dispatch(c) == Serve(c) \/ Commit(c) \/ CommitDeferred(c)

-----------------------------------------------------------------------------
(* Launching, and the end of a process.                                    *)

(* A mutant: the server is started before the session is restored. *)
LaunchServing ==
  /\ up = "down" /\ launches < MaxLaunches
  /\ up' = "starting"
  /\ server' = "accepting"
  /\ launches' = launches + 1
  /\ UNCHANGED <<stopAsked, conn, phase, closer, sessionVars, saveVars>>

Launch ==
  /\ up = "down" /\ launches < MaxLaunches
  /\ up' = "starting"
  /\ launches' = launches + 1
  /\ UNCHANGED <<serverVars, phase, closer, sessionVars, saveVars>>

(* The idle callback that restores the session and then starts the server, *)
(* which may fail to bind.  A file that is no session is moved away (and   *)
(* the directory flushed, or not); one that cannot be read, or not moved,  *)
(* stays and a new session is made.  Older places of the file, and paths   *)
(* that are repaired, are left out but for the save they cause.            *)
Restore ==
  \/ /\ file.data \notin {Absent, Torn}
     /\ model' = file.data
     /\ job' \in {NoJob, Saving(model')}
     /\ UNCHANGED diskVars
  \/ /\ file.data \in {Absent, Torn}
     /\ model' = {Base}
     /\ file' = NoFile /\ onDisk' \in {{NoFile}, {NoFile, file}}
     /\ UNCHANGED job
  \/ /\ file.data # Absent
     /\ model' = {Base}
     /\ UNCHANGED <<job, diskVars>>

Bootstrap ==
  /\ MainLoop /\ up = "starting" /\ phase = "Running"
  /\ Restore
  /\ up' = "up"
  /\ server' \in {"off", "accepting"}
  /\ UNCHANGED <<stopAsked, conn, phase, closer, guard, deferred, launches>>

Ends ==
  /\ up # "down" /\ up' = "down"
  /\ phase' = "Running" /\ closer' = "idle"
  /\ server' = "off" /\ stopAsked' = FALSE /\ conn' = [c \in Clients |-> "none"]
  /\ model' = {} /\ guard' = NoOne /\ deferred' = NoOne
  /\ job' = NoJob
  /\ UNCHANGED launches

(* It is killed, or exits after the window has gone. *)
ProcessEnds == Ends /\ UNCHANGED diskVars

(* What was renamed but not flushed to the directory may be undone; what   *)
(* was not flushed itself may be anything.                                 *)
PowerFails ==
  /\ Ends
  /\ \E e \in onDisk :
       /\ file' = IF e.flushed THEN e ELSE [data |-> Torn, flushed |-> TRUE]
       /\ onDisk' = {file'}

-----------------------------------------------------------------------------
ServerStep == ServerNext /\ UNCHANGED <<windowVars, sessionVars, saveVars, launches>>

Next ==
  \/ ServerStep
  \/ \E c \in Clients : Serve(c) \/ TakeGuard(c) \/ Commit(c) \/ CommitDeferred(c)
  \/ SaveNow \/ UserTransaction \/ UserCommits \/ PumpSpawn
  \/ SaveStep
  \/ RequestClose \/ AwaitServer \/ LastSave \/ Finalize
  \/ Launch \/ Bootstrap \/ ProcessEnds \/ PowerFails

Spec == Init /\ [][Next]_vars

(* Threads run, timeouts strike, and the main loop comes to its callbacks. *)
(* The guards are queues: who waits is served, also when others return.    *)
(* The window is closed by the user, who need not.                         *)
Rest == UNCHANGED <<windowVars, sessionVars, saveVars, launches>>
FairSpec ==
  /\ Spec
  /\ WF_vars(AcceptLoop /\ Rest)
  /\ \A c \in Clients :
       WF_vars((TaskStep(c) /\ Rest) \/ Dispatch(c)) /\ SF_vars(TakeGuard(c))
  /\ WF_vars(UserCommits)
  /\ WF_vars(SaveStep \/ Finalize)
  /\ SF_vars(PumpSpawn \/ AwaitServer \/ LastSave)

-----------------------------------------------------------------------------
(* Properties.                                                             *)

(* When the window goes with its session saved, every request that was     *)
(* admitted has been served, and what it changed is in the file for good:  *)
(* a power failure cannot take it back.                                    *)
AdmittedIsSaved ==
  phase = "Finalizing" /\ closer = "saved" =>
    /\ \A c \in Clients : conn[c] \notin {"waiting", "serving"}
    /\ \A e \in onDisk : e.data \cap Clients = model \cap Clients

(* No save, not even the last one, is of a session with a surface that its *)
(* terminal may yet fail to be made for.                                   *)
DeferredNotSaved == job # NoJob => deferred \notin job.data

(* Whenever the process is killed or the power fails, the file is one that *)
(* a save wrote, whole, or the one that was there before the first save.   *)
NeverTorn == [][file'.data = Torn => \E e \in onDisk : e.data = Torn]_vars

(* While the process lives, what a client was told is done stays, unless   *)
(* its terminal cannot be made; restoring does not wipe it.                *)
WorkStays ==
  [][\A c \in Clients :
       c \in model => up' = "down" \/ deferred = c \/ c \in model']_vars

(* A window that is being closed does go: neither the drain nor the guards *)
(* wait for what the closing itself has stopped.                           *)
CloseCompletes == phase = "Draining" ~> (phase = "Finalizing" \/ up = "down")
=============================================================================
