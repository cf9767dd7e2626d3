--------------------------- MODULE WindowClose_proofs ---------------------------
(***************************************************************************)
(* Proofs about WindowClose, for any number of clients, permits and        *)
(* launches: its type invariant, its two safety invariants and its two     *)
(* action properties, all from one inductive invariant.                    *)
(***************************************************************************)
EXTENDS WindowClose, TLAPS

-----------------------------------------------------------------------------
(* The inductive invariant.                                                *)

ConnIdle == \A c \in Clients : conn[c] = "none"
Writing == job # NoJob

(* A server that is not there, or has signalled completion, has no tasks.  *)
IdleServer == server \in {"off", "done"} => ConnIdle

(* Nothing is served before there is a session to change.                  *)
NotUp == IF up = "up" THEN model # {} ELSE model = {} /\ server = "off" /\ guard = NoOne

(* Who waits for a terminal is behind a guard that only the pump releases. *)
DeferredHeld == deferred # NoOne => guard = Pump

(* The session only grows while the GTK thread is busy saving it.          *)
SnapshotKept == Writing => job.data \subseteq model

(* What a power failure may leave was flushed before it was renamed.       *)
DiskFlushed ==
  /\ file \in onDisk /\ \A e \in onDisk : e.flushed
  /\ Writing /\ job.at = "rename" => job.flushed

Renamed == Writing /\ job.at = "sync" => file.data = job.data

(* The last save comes after the server; no server is started meanwhile,   *)
(* as that takes a window that is not being closed.                        *)
ClosingStopped ==
  /\ phase = "Running" <=> closer = "idle"
  /\ closer \in {"guards", "save", "saved", "failed"} => server \in {"off", "done"}

(* So the session does not change from the last snapshot on.               *)
LastSaved ==
  /\ closer = "save" => Writing /\ job.data = model
  /\ closer = "saved" => ~Writing /\ onDisk = {file} /\ file.data = model

IInv ==
  /\ TypeOK /\ IdleServer /\ NotUp /\ DeferredHeld /\ DeferredNotSaved /\ SnapshotKept
  /\ DiskFlushed /\ Renamed /\ ClosingStopped /\ LastSaved

-----------------------------------------------------------------------------
(* The server: it keeps its types, and does nothing once it is done.       *)

LEMMA ServerStepTyped ==
  ASSUME ServerTypeOK, ServerNext
  PROVE  ServerTypeOK'
BY DEF ServerTypeOK, ServerNext, Accept, CloseAdmission, TellTasks, Drained, Refuse, Read, EndReading,
       Parse, AnswerBadFrame, Admit, Answer, LeaveStream, Move, Server, Task

LEMMA ServerStepIdle ==
  ASSUME ServerTypeOK, IdleServer, ServerNext
  PROVE  /\ IdleServer'
         /\ server \notin {"off", "done"}
BY DEF ServerTypeOK, ServerNext, Accept, CloseAdmission, TellTasks, Drained, Refuse, Read, EndReading,
       Parse, AnswerBadFrame, Admit, Answer, LeaveStream, Move, Server, Task, IdleServer, ConnIdle

(* Sessions and the marks of the file do not meet, and sessions are closed *)
(* under what clients do to them.                                          *)
LEMMA SessionFacts ==
  /\ {Base} \in Session
  /\ \A S \in Session :
       /\ S # {} /\ S \notin {Absent, Torn} /\ NoOne \notin S
       /\ \A c \in Clients : S \cup {c} \in Session
       /\ \A d \in Clients \cup {NoOne} : S \ {d} \in Session
<1>1. {Base} \in Session
  <2>1. {Base} = {Base} \cup {}
    OBVIOUS
  <2> QED
    BY <2>1 DEF Session
<1>2. ASSUME NEW S \in Session
      PROVE  /\ S # {} /\ S \notin {Absent, Torn} /\ NoOne \notin S
             /\ \A c \in Clients : S \cup {c} \in Session
             /\ \A d \in Clients \cup {NoOne} : S \ {d} \in Session
  <2>1. PICK T \in SUBSET Clients : S = {Base} \cup T
    BY DEF Session
  <2>2. S # {} /\ S \notin {Absent, Torn} /\ NoOne \notin S
    BY <2>1, CloseAssumption
  <2>3. ASSUME NEW c \in Clients PROVE S \cup {c} \in Session
    <3>1. S \cup {c} = {Base} \cup (T \cup {c})
      BY <2>1
    <3> QED
      BY <3>1 DEF Session
  <2>4. ASSUME NEW d \in Clients \cup {NoOne} PROVE S \ {d} \in Session
    <3>1. S \ {d} = {Base} \cup (T \ {d})
      BY <2>1, CloseAssumption
    <3> QED
      BY <3>1 DEF Session
  <2> QED
    BY <2>2, <2>3, <2>4
<1> QED
  BY <1>1, <1>2

-----------------------------------------------------------------------------
(* It holds initially, and every action keeps it.                          *)

LEMMA InitInv == Init => IInv
<1> SUFFICES ASSUME Init PROVE IInv
  OBVIOUS
<1>1. ServerTypeOK
  BY DEF Init, ServerInit, ServerTypeOK, Server, Task
<1>2. file \in Entry /\ file.flushed /\ onDisk = {file}
  BY DEF Init
<1>3. TypeOK
  BY <1>1, <1>2, CloseAssumption DEF Init, TypeOK, Phase, Closer
<1>4. IdleServer /\ NotUp /\ DeferredHeld /\ ClosingStopped
  BY DEF Init, ServerInit, IdleServer, ConnIdle, NotUp, DeferredHeld, ClosingStopped
<1>5. DeferredNotSaved /\ SnapshotKept /\ DiskFlushed /\ Renamed /\ LastSaved
  BY <1>2 DEF Init, DeferredNotSaved, SnapshotKept, DiskFlushed, Renamed, LastSaved, Writing
<1> QED
  BY <1>3, <1>4, <1>5 DEF IInv

LEMMA NextInv == IInv /\ [Next]_vars => IInv'
<1> SUFFICES ASSUME IInv, [Next]_vars PROVE IInv' OBVIOUS
<1> USE CloseAssumption, SessionFacts
<1> USE DEF IInv, TypeOK, Phase, Closer, NoFile, NoJob, IdleServer, ConnIdle, NotUp, DeferredHeld, DeferredNotSaved, SnapshotKept, DiskFlushed, Renamed, ClosingStopped, LastSaved, Writing
<1>0. CASE UNCHANGED vars
  BY <1>0 DEF vars, serverVars, windowVars, sessionVars, saveVars, ServerTypeOK
<1>1. CASE ServerStep
  BY <1>1, ServerStepTyped, ServerStepIdle DEF ServerStep, windowVars, sessionVars, saveVars
<1>2. ASSUME NEW c \in Clients, Serve(c) PROVE IInv'
  BY <1>2 DEF Serve, Move, ServerTypeOK, Server, Task, windowVars, saveVars
<1>3. ASSUME NEW c \in Clients, TakeGuard(c) PROVE IInv'
  BY <1>3 DEF TakeGuard, ServerTypeOK, serverVars, windowVars, saveVars
<1>4. ASSUME NEW c \in Clients, Commit(c) PROVE IInv'
  BY <1>4 DEF Commit, Move, ServerTypeOK, Server, Task, windowVars, saveVars
<1>5. ASSUME NEW c \in Clients, CommitDeferred(c) PROVE IInv'
  BY <1>5 DEF CommitDeferred, Move, ServerTypeOK, Server, Task, windowVars, saveVars
<1>6. CASE SaveNow
  BY <1>6 DEF SaveNow, MainLoop, UiAlive, Saving, Job, ServerTypeOK, serverVars, windowVars, sessionVars, diskVars
<1>7. CASE UserTransaction
  BY <1>7 DEF UserTransaction, ServerTypeOK, serverVars, windowVars, saveVars
<1>8. CASE UserCommits
  BY <1>8 DEF UserCommits, ServerTypeOK, serverVars, windowVars, saveVars
<1>9. CASE PumpSpawn
  BY <1>9 DEF PumpSpawn, MainLoop, UiAlive, Saving, Job, ServerTypeOK, serverVars, windowVars, diskVars
<1>10. CASE SaveStep
  <2> USE <1>10 DEF SaveStep, Job, Entry, ServerTypeOK, serverVars, sessionVars, diskVars
  <2>1. CASE Flush
    <3>1. job' = [data |-> job.data, at |-> "rename", flushed |-> TRUE]
      BY <2>1 DEF Flush
    <3>2. job' \in Job /\ job'.data = job.data /\ job'.at = "rename" /\ job'.flushed
      BY <2>1, <3>1 DEF Flush
    <3> QED
      BY <2>1, <3>2 DEF Flush
  <2>2. CASE Rename
    BY <2>2 DEF Rename
  <2>3. CASE SyncDirectory
    BY <2>3 DEF SyncDirectory
  <2>4. CASE SaveFails
    BY <2>4 DEF SaveFails
  <2> QED
    BY <2>1, <2>2, <2>3, <2>4
<1>11. CASE RequestClose
  BY <1>11 DEF RequestClose, MainLoop, UiAlive, ServerTypeOK, sessionVars, saveVars
<1>12. CASE AwaitServer
  BY <1>12 DEF AwaitServer, MainLoop, UiAlive, ServerTypeOK, serverVars, sessionVars, saveVars
<1>13. CASE LastSave
  BY <1>13 DEF LastSave, MainLoop, UiAlive, Saving, Job, ServerTypeOK, serverVars, sessionVars, diskVars
<1>14. CASE Finalize
  BY <1>14 DEF Finalize, ServerTypeOK, serverVars, sessionVars, saveVars
<1>15. CASE Launch
  BY <1>15 DEF Launch, ServerTypeOK, serverVars, sessionVars, saveVars
<1>16. CASE Bootstrap
  <2>1. model' \in Session /\ job' \in {NoJob, Saving(model')}
    BY <1>16 DEF Bootstrap, Restore, MainLoop, Entry
  <2>2. /\ file' \in Entry /\ onDisk' \subseteq Entry
        /\ file' \in onDisk' /\ \A e \in onDisk' : e.flushed
    <3>1. NoFile \in Entry /\ NoFile.flushed
      BY DEF Entry
    <3>2. file' \in {file, NoFile} /\ file' \in onDisk' /\ onDisk' \subseteq onDisk \cup {NoFile}
      BY <1>16 DEF Bootstrap, Restore, diskVars
    <3> QED
      BY <3>1, <3>2
  <2>3. up = "starting" /\ phase = "Running" /\ guard = NoOne /\ ConnIdle
    BY <1>16 DEF Bootstrap
  <2>4. job' \in Job \cup {NoJob} /\ (job' # NoJob => job'.data = model' /\ job'.at = "flush")
    <3>1. CASE job' = NoJob
      BY <3>1
    <3>2. CASE job' = [data |-> model', at |-> "flush", flushed |-> FALSE]
      BY <2>1, <3>2 DEF Job
    <3> QED
      BY <2>1, <3>1, <3>2 DEF Saving
  <2>5. TypeOK'
    BY <1>16, <2>1, <2>2, <2>4 DEF Bootstrap, ServerTypeOK, Server
  <2>6. IdleServer' /\ NotUp' /\ DeferredHeld' /\ ClosingStopped' /\ LastSaved'
    BY <1>16, <2>1, <2>3 DEF Bootstrap
  <2>7. DeferredNotSaved' /\ SnapshotKept' /\ DiskFlushed' /\ Renamed'
    BY <1>16, <2>1, <2>2, <2>3, <2>4 DEF Bootstrap
  <2> QED
    BY <2>5, <2>6, <2>7
<1>17. CASE ProcessEnds
  BY <1>17 DEF ProcessEnds, Ends, ServerTypeOK, Server, Task, diskVars
<1>18. CASE PowerFails
  <2>1. PICK e \in onDisk : file' = e /\ onDisk' = {e}
    BY <1>18 DEF PowerFails
  <2> QED
    BY <1>18, <2>1 DEF PowerFails, Ends, ServerTypeOK, Server, Task
<1> QED
  BY <1>0, <1>1, <1>2, <1>3, <1>4, <1>5, <1>6, <1>7, <1>8, <1>9, <1>10, <1>11, <1>12, <1>13, <1>14, <1>15, <1>16, <1>17, <1>18 DEF Next

-----------------------------------------------------------------------------
(* The inductive invariant holds in every state.                           *)
THEOREM Invariant == Spec => []IInv
BY InitInv, NextInv, PTL DEF Spec

(* All variables of the window, of the session file and of the server keep *)
(* their types; in particular no save is begun of a session that the file  *)
(* could not hold.                                                         *)
THEOREM TypeCorrect == Spec => []TypeOK
BY Invariant, PTL DEF IInv

(* For any number of clients and permits: no snapshot that is being saved  *)
(* holds a surface whose terminal may yet fail.                            *)
THEOREM NoDeferredSaved == Spec => []DeferredNotSaved
BY Invariant, PTL DEF IInv

(* For any number of clients: what was admitted before the window went     *)
(* with its session saved has been served and is on disk.                  *)
THEOREM CloseKeepsWork == Spec => []AdmittedIsSaved
<1>1. IInv => AdmittedIsSaved
  BY DEF IInv, IdleServer, ConnIdle, ClosingStopped, LastSaved, AdmittedIsSaved
<1> QED
  BY <1>1, Invariant, PTL

(* However the process ends, and whatever a power failure leaves.          *)
THEOREM FileStaysWhole == Spec => NeverTorn
<1>1. IInv /\ [Next]_vars => [file'.data = Torn => \E e \in onDisk : e.data = Torn]_vars
  <2> SUFFICES ASSUME IInv, Next, file'.data = Torn
               PROVE  \E e \in onDisk : e.data = Torn
    OBVIOUS
  <2>1. CASE file' = file
    BY <2>1 DEF IInv, DiskFlushed
  <2>2. CASE SaveStep
    <3>1. CASE Rename
      BY <2>2, <3>1, SessionFacts DEF IInv, TypeOK, Rename, Job, NoJob
    <3> QED
      BY <2>1, <2>2, <3>1 DEF SaveStep, Flush, SyncDirectory, SaveFails, diskVars
  <2>3. CASE Bootstrap
    BY <2>1, <2>3, CloseAssumption DEF Bootstrap, Restore, NoFile, diskVars
  <2>4. CASE PowerFails
    BY <2>4 DEF PowerFails, IInv, DiskFlushed
  <2> QED
    BY <2>1, <2>2, <2>3, <2>4
    DEF Next, ServerStep, Serve, TakeGuard, Commit, CommitDeferred, SaveNow, UserTransaction,
        UserCommits, PumpSpawn, RequestClose, AwaitServer, LastSave, Finalize, Launch, ProcessEnds,
        saveVars, diskVars
<1> QED
  BY <1>1, Invariant, PTL DEF Spec, NeverTorn

(* For any number of clients: nothing but the end of the process, or the   *)
(* failure of its own terminal, takes back what a client has done.         *)
THEOREM WorkIsKept == Spec => WorkStays
<1>1. IInv /\ [Next]_vars =>
        [\A c \in Clients : c \in model => up' = "down" \/ deferred = c \/ c \in model']_vars
  <2> SUFFICES ASSUME IInv, Next, NEW c \in Clients, c \in model, model' # model
               PROVE  up' = "down" \/ deferred = c \/ c \in model'
    OBVIOUS
  <2>1. CASE Bootstrap
    BY <2>1 DEF Bootstrap, IInv, NotUp
  <2>2. CASE PumpSpawn
    BY <2>2 DEF PumpSpawn
  <2>3. CASE ProcessEnds \/ PowerFails
    BY <2>3 DEF ProcessEnds, PowerFails, Ends
  <2>4. CASE \E d \in Clients : Serve(d) \/ Commit(d) \/ CommitDeferred(d)
    BY <2>4 DEF Serve, Commit, CommitDeferred
  <2> QED
    BY <2>1, <2>2, <2>3, <2>4
    DEF Next, ServerStep, TakeGuard, SaveNow, UserTransaction, UserCommits, SaveStep, RequestClose,
        AwaitServer, LastSave, Finalize, Launch, sessionVars
<1> QED
  BY <1>1, Invariant, PTL DEF Spec, WorkStays
=============================================================================
