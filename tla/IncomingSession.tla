--------------------------- MODULE IncomingSession ---------------------------
(***************************************************************************)
(* The receiving side of one multipart transfer session: the peer handlers *)
(* StartIncomingTransferSession, AcceptIncomingTransferPart and            *)
(* CompleteIncomingTransferSession of RuntimeService, the idle timer that  *)
(* expires the session, and the SessionReceiver that stages the file.      *)
(*                                                                         *)
(* Every HTTP request is served by a goroutine of its own, and so is every *)
(* firing of the idle timer.  A goroutine is a thread with a program       *)
(* counter; one action is one region of code that runs under one lock (the *)
(* session's mu or the receiver's mu), or one step that holds no lock at   *)
(* all (writing the body of a part, committing the file, persisting,       *)
(* publishing).  Threads interleave between those regions.                 *)
(***************************************************************************)
EXTENDS Integers, FiniteSets, Sequences

CONSTANTS
    PartCalls,      \* goroutines that serve /peer/transfers/session/part
    CompleteCalls,  \* goroutines that serve /peer/transfers/session/complete
    Expiries,       \* goroutines of time.AfterFunc, reused once they return
    Windows,        \* the [part, off, len] headers that a part may carry
    Size,           \* the file size announced by the start request
    MaxPartCount,   \* bound on the partCount of a complete request
    Faults,         \* what may fail: "store" (PersistTransferOutcome), "remove" (os.Remove
                    \* of the staged file), "crash" (the receiving agent restarts)
    MaxFaults       \* bound: how often something fails

Threads == PartCalls \cup CompleteCalls \cup Expiries
Callers == PartCalls \cup CompleteCalls
Offsets == 0 .. (Size - 1)
PartsOf(ws) == {w.part : w \in ws}

ASSUME SizeAssumption == Size \in Nat \ {0}
ASSUME WindowAssumption == Windows \subseteq [part : Int, off : Int, len : Int]
ASSUME ThreadAssumption ==
    /\ PartCalls \cap CompleteCalls = {}
    /\ PartCalls \cap Expiries = {}
    /\ CompleteCalls \cap Expiries = {}
ASSUME BoundAssumption ==
    MaxPartCount \in Nat /\ MaxFaults \in Nat

NoWindow == [part |-> -1, off |-> -1, len |-> 0]

VARIABLES
    started,        \* outcome of the start request: "no", "yes", "refused"
    inMap,          \* the session is in RuntimeService.incomingTransferSession
    closed,         \* incomingTransferSession.closed
    activeParts,    \* incomingTransferSession.activeParts
    timer,          \* idleTimer: "armed" or "stopped"
    state,          \* transferRecord.State of the session
    file,           \* SessionReceiver.file is set
    handle,         \* the descriptor of the staged file is open
    finalizing,     \* SessionReceiver.finalizing
    tempPath,       \* SessionReceiver.tempPath is set
    completed,      \* SessionReceiver.completed, as a set of windows
    inFlight,       \* SessionReceiver.inFlight, as a set of part indices
    bytesWritten,   \* SessionReceiver.bytesWritten
    cells,          \* offsets of the staged file that hold source bytes
    tempExists,     \* the .part file is on disk
    published,      \* the file is in the download directory
    db,             \* state of the row in the transfers table
    override,       \* state in RuntimeService.overrides, or "none"
    shown,          \* state in the last transfer.updated event
    pc,             \* program counter of each thread
    req,            \* the window a part call is serving
    count,          \* the partCount a complete call is serving
    snap,           \* the transferRecord copy a thread carries out of the lock
    reply,          \* what a caller was answered
    storeFailures, restarts, removeFailures \* how often the bounded failures happened

session  == <<inMap, closed, activeParts, timer, state>>
receiver == <<file, handle, finalizing, tempPath, completed, inFlight,
              bytesWritten, cells>>
disk     == <<tempExists, published>>
record   == <<db, override, shown>>
calls    == <<req, count, reply>>
bounds   == <<storeFailures, restarts, removeFailures>>
vars == <<started, session, receiver, disk, record, pc, snap, calls, bounds>>

---------------------------------------------------------------------------
(* Program counters.  A thread between "begin" and an exit has counted     *)
(* itself in activeParts; a thread at a finalizing counter owns the close. *)

WritingPcs    == {"writing", "wrote", "broke"}
ErrorPcs      == {"errCompleted", "errInProgress", "errWrite"}
CountedPcs    == {"begin", "exitOk"} \cup WritingPcs \cup ErrorPcs
FinalizingPcs == {"receiverComplete", "commit", "markDone", "failState",
                  "cleanup", "persist", "unregister"}
PartPcs       == {"idle", "enter", "publish", "close", "announce", "done"}
                 \cup CountedPcs
Pcs           == PartPcs \cup FinalizingPcs \cup {"expire"}

TransferStates == {"receiving", "done", "failed"}

Init ==
    /\ started = "no"
    /\ inMap = FALSE /\ closed = FALSE /\ activeParts = 0
    /\ timer = "stopped" /\ state = "receiving"
    /\ file = FALSE /\ handle = FALSE /\ finalizing = FALSE /\ tempPath = FALSE
    /\ completed = {} /\ inFlight = {} /\ bytesWritten = 0 /\ cells = {}
    /\ tempExists = FALSE /\ published = FALSE
    /\ db = "absent" /\ override = "none" /\ shown = "none"
    /\ pc = [t \in Threads |-> "idle"]
    /\ req = [t \in PartCalls |-> NoWindow]
    /\ count = [t \in CompleteCalls |-> 0]
    /\ snap = [t \in Threads |-> "none"]
    /\ reply = [t \in Callers |-> "none"]
    /\ storeFailures = 0 /\ restarts = 0 /\ removeFailures = 0

Goto(t, l) == pc' = [pc EXCEPT ![t] = l]

\* One more failure of this kind may happen.
FaultLeft(kind) == kind \in Faults /\ storeFailures + restarts + removeFailures < MaxFaults

\* os.Remove of the .part file, whose error is ignored.  It may fail, and where
\* an open file cannot be removed it fails while the descriptor is open.
RemoveStaged ==
    \/ tempExists' = FALSE /\ UNCHANGED removeFailures
    \/ handle' /\ UNCHANGED <<tempExists, removeFailures>>
    \/ /\ tempExists /\ FaultLeft("remove")
       /\ removeFailures' = removeFailures + 1 /\ UNCHANGED tempExists

\* The handler returns to its HTTP client, and its thread is over.
Answer(t, r) ==
    /\ Goto(t, "done")
    /\ reply' = [reply EXCEPT ![t] = r]

---------------------------------------------------------------------------
(* StartIncomingTransferSession.  Nothing can reach the session before the *)
(* response carries its random id, so the handler is one action.  The idle *)
(* timer is armed just before the session enters the map; with a timeout   *)
(* of two minutes it is assumed not to fire between the two statements.    *)

\* Mutant: the idle timer is created but never armed.
StartUnarmed ==
    /\ started = "no"
    /\ started' = "yes"
    /\ inMap' = TRUE /\ closed' = FALSE /\ activeParts' = 0
    /\ timer' = "stopped" /\ state' = "receiving"
    /\ file' = TRUE /\ handle' = TRUE /\ finalizing' = FALSE /\ tempPath' = TRUE
    /\ completed' = {} /\ inFlight' = {} /\ bytesWritten' = 0 /\ cells' = {}
    /\ tempExists' = TRUE
    /\ db' = "receiving" /\ shown' = "receiving"
    /\ UNCHANGED <<published, override, pc, snap, calls, bounds>>

StartIncomingTransferSession ==
    /\ started = "no"
    /\ started' = "yes"
    /\ inMap' = TRUE /\ closed' = FALSE /\ activeParts' = 0
    /\ timer' = "armed" /\ state' = "receiving"
    /\ file' = TRUE /\ handle' = TRUE /\ finalizing' = FALSE /\ tempPath' = TRUE
    /\ completed' = {} /\ inFlight' = {} /\ bytesWritten' = 0 /\ cells' = {}
    /\ tempExists' = TRUE
    /\ db' = "receiving" /\ shown' = "receiving"
    /\ UNCHANGED <<published, override, pc, snap, calls, bounds>>

\* SaveMessageWithTransfer (or an earlier step) fails: the staged file, if
\* it was already created, is cleaned up and no session exists.  (What a failing
\* removal leaves here no session ever sees.)
RefuseStart ==
    /\ started = "no"
    /\ started' = "refused"
    /\ UNCHANGED <<session, receiver, disk, record, pc, snap, calls, bounds>>

---------------------------------------------------------------------------
(* AcceptIncomingTransferPart and SessionReceiver.WritePart.               *)

\* getIncomingTransferSession
LookupPart(t, w) ==
    /\ pc[t] = "idle" /\ started # "no"
    /\ IF inMap
       THEN /\ Goto(t, "enter")
            /\ req' = [req EXCEPT ![t] = w]
            /\ UNCHANGED reply
       ELSE Answer(t, "error") /\ UNCHANGED req
    /\ UNCHANGED <<started, session, receiver, disk, record, snap, count, bounds>>

\* Under the session lock: refuse a closed session, else count this part in.
EnterPart(t) ==
    /\ pc[t] = "enter"
    /\ IF closed
       THEN Answer(t, "error") /\ UNCHANGED <<activeParts, timer>>
       ELSE /\ activeParts' = activeParts + 1
            /\ timer' = "armed"
            /\ Goto(t, "begin")
            /\ UNCHANGED reply
    /\ UNCHANGED <<started, inMap, closed, state, receiver, disk, record,
                   snap, req, count, bounds>>

ValidWindow(w) ==
    /\ w.part >= 0 /\ w.off >= 0 /\ w.len > 0
    /\ w.off + w.len <= Size

\* Mutant: WritePart does not ask whether the part is being written already.
BeginWriteUnmarked(t) ==
    /\ pc[t] = "begin"
    /\ IF ValidWindow(req[t]) /\ file /\ ~finalizing /\ req[t] \notin completed
       THEN Goto(t, "writing") /\ inFlight' = inFlight \cup {req[t].part}
       ELSE Goto(t, "errWrite") /\ UNCHANGED inFlight
    /\ UNCHANGED <<started, session, file, handle, finalizing, tempPath, completed,
                   bytesWritten, cells, disk, record, snap, calls, bounds>>

\* WritePart up to the unlocked write: which error, or the mark in inFlight.
BeginWrite(t) ==
    LET w == req[t] IN
    /\ pc[t] = "begin"
    /\ \/ /\ \/ ~ValidWindow(w)
             \/ ~file \/ finalizing
             \/ w.part \in PartsOf(completed) /\ w \notin completed
          /\ Goto(t, "errWrite") /\ UNCHANGED inFlight
       \/ /\ ValidWindow(w) /\ file /\ ~finalizing
          /\ w \in completed
          /\ Goto(t, "errCompleted") /\ UNCHANGED inFlight
       \/ /\ ValidWindow(w) /\ file /\ ~finalizing
          /\ w.part \notin PartsOf(completed) /\ w.part \in inFlight
          /\ Goto(t, "errInProgress") /\ UNCHANGED inFlight
       \/ /\ ValidWindow(w) /\ file /\ ~finalizing
          /\ w.part \notin PartsOf(completed) /\ w.part \notin inFlight
          /\ Goto(t, "writing") /\ inFlight' = inFlight \cup {w.part}
    /\ UNCHANGED <<started, session, file, handle, finalizing, tempPath, completed,
                   bytesWritten, cells, disk, record, snap, calls, bounds>>

CellsOf(w) == w.off .. (w.off + w.len - 1)

\* writeReaderAt reads the whole body and writes it while the file is open.
WriteBody(t) ==
    /\ pc[t] = "writing" /\ handle
    /\ cells' = cells \cup CellsOf(req[t])
    /\ Goto(t, "wrote")
    /\ UNCHANGED <<started, session, file, handle, finalizing, tempPath, completed,
                   inFlight, bytesWritten, disk, record, snap, calls, bounds>>

\* The connection breaks, the body is short, the disk fails, or the file was
\* closed meanwhile: a proper prefix of the window was written at most.
BreakBody(t) ==
    /\ pc[t] = "writing"
    /\ \E n \in 0 .. (req[t].len - 1) :
          /\ n > 0 => handle
          /\ cells' = cells \cup (req[t].off .. (req[t].off + n - 1))
    /\ Goto(t, "broke")
    /\ UNCHANGED <<started, session, file, handle, finalizing, tempPath, completed,
                   inFlight, bytesWritten, disk, record, snap, calls, bounds>>

\* WritePart takes the receiver lock again and records the outcome.
EndWrite(t) ==
    LET w == req[t] IN
    /\ inFlight' = inFlight \ {w.part}
    /\ \/ /\ pc[t] = "wrote"
          /\ completed' = completed \cup {w}
          /\ bytesWritten' = bytesWritten + w.len
          /\ Goto(t, "exitOk")
       \/ /\ pc[t] = "broke"
          /\ Goto(t, "errWrite")
          /\ UNCHANGED <<completed, bytesWritten>>
    /\ UNCHANGED <<started, session, file, handle, finalizing, tempPath, cells,
                   disk, record, snap, calls, bounds>>

\* Mutant: a part that succeeds does not leave the count.
ExitPartUncounted(t) ==
    /\ pc[t] = "exitOk"
    /\ UNCHANGED activeParts
    /\ timer' = "armed"
    /\ \/ /\ snap' = [snap EXCEPT ![t] = state]
          /\ Goto(t, "publish") /\ UNCHANGED <<req, reply>>
       \/ /\ Answer(t, "ok") /\ req' = [req EXCEPT ![t] = NoWindow]
          /\ UNCHANGED snap
    /\ UNCHANGED <<started, inMap, closed, state, receiver, disk, record, count,
                   bounds>>

\* The success path: leave the count, copy the record, decide whether the
\* progress gate lets this part publish.
ExitPart(t) ==
    /\ pc[t] = "exitOk"
    /\ activeParts' = activeParts - 1
    /\ timer' = "armed"
    /\ \/ /\ snap' = [snap EXCEPT ![t] = state]
          /\ Goto(t, "publish") /\ UNCHANGED <<req, reply>>
       \/ /\ Answer(t, "ok") /\ req' = [req EXCEPT ![t] = NoWindow]
          /\ UNCHANGED snap
    /\ UNCHANGED <<started, inMap, closed, state, receiver, disk, record, count,
                   bounds>>

\* publishTransferEvent runs unlocked; mergeTransferOverride lets a pending
\* override replace the state the copy carries.
EventState(s) == IF override = "none" THEN s ELSE override

PublishProgress(t) ==
    /\ pc[t] = "publish"
    /\ shown' = EventState(snap[t])
    /\ Answer(t, "ok")
    /\ snap' = [snap EXCEPT ![t] = "none"]
    /\ req' = [req EXCEPT ![t] = NoWindow]
    /\ UNCHANGED <<started, session, receiver, disk, db, override, count, bounds>>

\* The error path: leave the count; a part that was already complete is a
\* success, one that is in progress an error, any other error closes.
ExitPartOnError(t) ==
    /\ activeParts' = activeParts - 1
    /\ timer' = "armed"
    /\ req' = [req EXCEPT ![t] = NoWindow]
    /\ \/ pc[t] = "errCompleted" /\ Answer(t, "ok")
       \/ pc[t] = "errInProgress" /\ Answer(t, "error")
       \/ pc[t] = "errWrite" /\ Goto(t, "close") /\ UNCHANGED reply
    /\ UNCHANGED <<started, inMap, closed, state, receiver, disk, record, snap,
                   count, bounds>>

---------------------------------------------------------------------------
(* beginIncomingTransferSessionFinalization, from each of its callers.     *)

\* What a caller does when another thread already owns the close.
LoseClose(t) ==
    IF t \in Expiries
    THEN Goto(t, "idle") /\ UNCHANGED reply
    ELSE Answer(t, "error")

\* Mutant: closed is set but not tested.
BeginFinalizationUnchecked(t) ==
    /\ pc[t] = "close"
    /\ closed' = TRUE
    /\ timer' = "stopped"
    /\ Goto(t, IF t \in CompleteCalls THEN "receiverComplete" ELSE "failState")
    /\ UNCHANGED <<started, inMap, activeParts, state, receiver, disk, record, snap,
                   req, count, reply, bounds>>

BeginFinalization(t) ==
    /\ pc[t] = "close"
    /\ IF closed
       THEN LoseClose(t) /\ UNCHANGED <<closed, timer>>
       ELSE /\ closed' = TRUE
            /\ timer' = "stopped"
            /\ Goto(t, IF t \in CompleteCalls THEN "receiverComplete" ELSE "failState")
            /\ UNCHANGED reply
    /\ UNCHANGED <<started, inMap, activeParts, state, receiver, disk, record, snap,
                   req, count, bounds>>

---------------------------------------------------------------------------
(* CompleteIncomingTransferSession and SessionReceiver.Complete.           *)

LookupComplete(t, n) ==
    /\ pc[t] = "idle" /\ started # "no"
    /\ IF inMap
       THEN /\ Goto(t, "close")
            /\ count' = [count EXCEPT ![t] = n]
            /\ UNCHANGED reply
       ELSE Answer(t, "error") /\ UNCHANGED count
    /\ UNCHANGED <<started, session, receiver, disk, record, snap, req, bounds>>

\* Complete under the receiver lock: refuse, or take the file away.
ReceiverComplete(t) ==
    /\ pc[t] = "receiverComplete"
    /\ IF /\ file /\ ~finalizing
          /\ inFlight = {}
          /\ count[t] > 0
          /\ Cardinality(completed) = count[t]
       THEN /\ finalizing' = TRUE
            /\ file' = FALSE
            /\ Goto(t, "commit")
       ELSE Goto(t, "failState") /\ UNCHANGED <<finalizing, file>>
    /\ UNCHANGED <<started, session, handle, tempPath, completed, inFlight,
                   bytesWritten, cells, disk, record, snap, calls, bounds>>

\* Mutant: the lengths add up to the size, wherever the parts lie.
TilesBySize(ws) == ws \subseteq completed /\ bytesWritten = Size

\* The scan over the parts, sorted by offset: where the next part has to
\* begin, or -1 once a part began elsewhere.
NextOffset(parts) ==
    LET next[k \in 0 .. Len(parts)] ==
            IF k = 0 THEN 0
            ELSE IF parts[k].off = next[k - 1] THEN next[k - 1] + parts[k].len ELSE -1
    IN  next[Len(parts)]

ScanAccepts(parts) == NextOffset(parts) = Size

\* The scan accepts the parts when they tile the file: every offset lies in
\* exactly one of them.
Tiles(ws) ==
    \A o \in Offsets : \E w \in ws :
        /\ o \in CellsOf(w)
        /\ \A v \in ws : o \in CellsOf(v) => v = w

\* Sync, hash (v1 sessions only), close and rename without replace, or a hard
\* link and the removal of the temporary name.
CommitFile(t) ==
    /\ pc[t] = "commit"
    /\ Tiles(completed)
    /\ published' = TRUE
    /\ tempPath' = FALSE /\ handle' = FALSE
    /\ RemoveStaged
    /\ finalizing' = FALSE
    /\ Goto(t, "markDone")
    /\ UNCHANGED <<started, session, file, completed, inFlight, bytesWritten, cells,
                   record, snap, calls, storeFailures, restarts>>

\* Mutant: the error of Complete is dropped.
FailCommitIgnored(t) ==
    /\ pc[t] = "commit"
    /\ finalizing' = FALSE /\ tempPath' = TRUE
    /\ handle' = FALSE
    /\ Goto(t, "markDone")
    /\ UNCHANGED <<started, session, file, completed, inFlight, bytesWritten, cells,
                   tempExists, published, record, snap, calls, bounds>>

\* A gap, or a failing sync, hash, close or rename.  The deferred function
\* restores tempPath.  The scan's error return for a gap leaves the file
\* open; every other one closes it, and a failing rename may also have
\* removed the staged file.
FailCommit(t) ==
    /\ pc[t] = "commit"
    /\ finalizing' = FALSE
    /\ tempPath' = TRUE
    /\ \/ ~Tiles(completed) /\ UNCHANGED <<handle, tempExists>>
       \/ handle' = FALSE /\ tempExists' \in {tempExists, FALSE}
    /\ Goto(t, "failState")
    /\ UNCHANGED <<started, session, file, completed, inFlight, bytesWritten, cells,
                   published, record, snap, calls, bounds>>

MarkDone(t) ==
    /\ pc[t] = "markDone"
    /\ state' = "done"
    /\ snap' = [snap EXCEPT ![t] = "done"]
    /\ Goto(t, "persist")
    /\ UNCHANGED <<started, inMap, closed, activeParts, timer, receiver, disk, record,
                   calls, bounds>>

---------------------------------------------------------------------------
(* finalizeIncomingTransferSessionFailure and the steps that follow it.    *)

MarkFailed(t) ==
    /\ pc[t] = "failState"
    /\ state' = "failed"
    /\ snap' = [snap EXCEPT ![t] = "failed"]
    /\ Goto(t, "cleanup")
    /\ UNCHANGED <<started, inMap, closed, activeParts, timer, receiver, disk, record,
                   calls, bounds>>

\* Mutant: the staged file is removed but its descriptor stays open.
CleanupUnclosed(t) ==
    /\ pc[t] = "cleanup"
    /\ IF finalizing
       THEN UNCHANGED <<file, tempPath, tempExists>>
       ELSE file' = FALSE /\ tempPath' = FALSE /\ tempExists' = (tempExists /\ ~tempPath)
    /\ Goto(t, "persist")
    /\ UNCHANGED <<started, session, handle, finalizing, completed, inFlight,
                   bytesWritten, cells, published, record, snap, calls, bounds>>

\* SessionReceiver.Cleanup does not wait for writes that are in flight.
Cleanup(t) ==
    /\ pc[t] = "cleanup"
    /\ IF finalizing
       THEN UNCHANGED <<file, handle, tempPath, tempExists, removeFailures>>
       ELSE /\ file' = FALSE /\ tempPath' = FALSE
            /\ handle' = (handle /\ ~file)
            /\ IF tempPath THEN RemoveStaged ELSE UNCHANGED <<tempExists, removeFailures>>
    /\ Goto(t, "persist")
    /\ UNCHANGED <<started, session, finalizing, completed, inFlight, bytesWritten,
                   cells, published, record, snap, calls, storeFailures, restarts>>

\* Mutant: a store that fails turns the transfer into a failed one.
PersistOutcomeOrFail(t) ==
    /\ pc[t] = "persist"
    /\ \/ db' = snap[t] /\ override' = "none" /\ UNCHANGED storeFailures
       \/ /\ FaultLeft("store")
          /\ storeFailures' = storeFailures + 1
          /\ override' = "failed" /\ UNCHANGED db
    /\ Goto(t, "unregister")
    /\ UNCHANGED <<started, session, receiver, disk, shown, snap, calls, restarts,
                   removeFailures>>

\* PersistTransferOutcome, then clear the override or remember one.
PersistOutcome(t) ==
    /\ pc[t] = "persist"
    /\ \/ db' = snap[t] /\ override' = "none" /\ UNCHANGED storeFailures
       \/ /\ FaultLeft("store")
          /\ storeFailures' = storeFailures + 1
          /\ override' = snap[t] /\ UNCHANGED db
    /\ Goto(t, "unregister")
    /\ UNCHANGED <<started, session, receiver, disk, shown, snap, calls, restarts,
                   removeFailures>>

\* Mutant: the override is dropped together with the session.
UnregisterForgets(t) ==
    /\ pc[t] = "unregister"
    /\ inMap' = FALSE
    /\ timer' = "stopped"
    /\ override' = "none"
    /\ Goto(t, "announce")
    /\ UNCHANGED <<started, closed, activeParts, state, receiver, disk, db, shown, snap,
                   calls, bounds>>

\* deleteIncomingTransferSession
Unregister(t) ==
    /\ pc[t] = "unregister"
    /\ inMap' = FALSE
    /\ timer' = "stopped"
    /\ Goto(t, "announce")
    /\ UNCHANGED <<started, closed, activeParts, state, receiver, disk, record, snap,
                   calls, bounds>>

\* The terminal transfer.updated event, and the answer to the caller.
Announce(t) ==
    /\ pc[t] = "announce"
    /\ shown' = EventState(snap[t])
    /\ snap' = [snap EXCEPT ![t] = "none"]
    /\ IF t \in Expiries
       THEN Goto(t, "idle") /\ UNCHANGED reply
       ELSE Answer(t, IF snap[t] = "done" THEN "ok" ELSE "error")
    /\ UNCHANGED <<started, session, receiver, disk, db, override, req, count, bounds>>

---------------------------------------------------------------------------
(* expireIncomingTransferSession.                                          *)

FireTimer(t) ==
    /\ pc[t] = "idle" /\ timer = "armed"
    /\ timer' = "stopped"
    /\ Goto(t, "expire")
    /\ UNCHANGED <<started, inMap, closed, activeParts, state, receiver, disk, record,
                   snap, calls, bounds>>

\* The check runs under the session lock and gives the lock back; the close
\* that follows is a lock region of its own.
CheckExpiry(t) ==
    /\ pc[t] = "expire"
    /\ IF ~inMap \/ closed
       THEN Goto(t, "idle") /\ UNCHANGED timer
       ELSE IF activeParts > 0
            THEN timer' = "armed" /\ Goto(t, "idle")
            ELSE Goto(t, "close") /\ UNCHANGED timer
    /\ UNCHANGED <<started, inMap, closed, activeParts, state, receiver, disk, record,
                   snap, calls, bounds>>

---------------------------------------------------------------------------
(* The receiving agent dies and comes back.  The session, the receiver and *)
(* the override map are memory; the database, the .part file and the       *)
(* published file stay.  Calls that were being served get no answer.       *)

\* Mutant: the start-up marks every transfer it finds unfinished as failed.
RestartFailsUnfinished ==
    /\ started = "yes" /\ FaultLeft("crash")
    /\ restarts' = restarts + 1
    /\ inMap' = FALSE /\ closed' = TRUE /\ activeParts' = 0 /\ timer' = "stopped"
    /\ file' = FALSE /\ handle' = FALSE /\ finalizing' = FALSE /\ tempPath' = FALSE
    /\ completed' = {} /\ inFlight' = {} /\ bytesWritten' = 0
    /\ db' = (IF db = "receiving" THEN "failed" ELSE db)
    /\ override' = "none" /\ shown' = "none"
    /\ pc' = [t \in Threads |-> IF t \in Callers /\ pc[t] # "idle" THEN "done" ELSE "idle"]
    /\ UNCHANGED <<started, state, cells, disk, reply, req, snap, count, storeFailures,
                   removeFailures>>

Restart ==
    /\ started = "yes" /\ FaultLeft("crash")
    /\ restarts' = restarts + 1
    /\ inMap' = FALSE /\ closed' = TRUE /\ activeParts' = 0 /\ timer' = "stopped"
    /\ file' = FALSE /\ handle' = FALSE /\ finalizing' = FALSE /\ tempPath' = FALSE
    /\ completed' = {} /\ inFlight' = {} /\ bytesWritten' = 0
    /\ override' = "none" /\ shown' = "none"
    /\ pc' = [t \in Threads |-> IF t \in Callers /\ pc[t] # "idle" THEN "done" ELSE "idle"]
    /\ reply' = [t \in Callers |->
                    IF pc[t] # "idle" /\ reply[t] = "none" THEN "error" ELSE reply[t]]
    /\ req' = [t \in PartCalls |-> NoWindow]
    /\ snap' = [t \in Threads |-> "none"]
    /\ UNCHANGED <<started, state, cells, disk, db, count, storeFailures, removeFailures>>

---------------------------------------------------------------------------
\* What a thread does once it has been let in, whatever request it serves.
PartStep(t) ==
    \/ EnterPart(t) \/ BeginWrite(t) \/ WriteBody(t) \/ BreakBody(t) \/ EndWrite(t)
    \/ ExitPart(t) \/ PublishProgress(t) \/ ExitPartOnError(t)

CompleteStep(t) ==
    ReceiverComplete(t) \/ CommitFile(t) \/ FailCommit(t) \/ MarkDone(t)

FinalizeStep(t) ==
    \/ BeginFinalization(t) \/ MarkFailed(t) \/ Cleanup(t) \/ PersistOutcome(t)
    \/ Unregister(t) \/ Announce(t)

ExpireStep(t) == FireTimer(t) \/ CheckExpiry(t)

ServerStep ==
    \/ \E t \in PartCalls : PartStep(t)
    \/ \E t \in CompleteCalls : CompleteStep(t)
    \/ \E t \in Threads : FinalizeStep(t)
    \/ \E t \in Expiries : ExpireStep(t)

Next ==
    \/ StartIncomingTransferSession \/ RefuseStart
    \/ \E t \in PartCalls, w \in Windows : LookupPart(t, w)
    \/ \E t \in CompleteCalls, n \in 0 .. MaxPartCount : LookupComplete(t, n)
    \/ ServerStep
    \/ Restart

Spec == Init /\ [][Next]_vars

\* Goroutines are scheduled, an armed timer fires, and reading a body ends,
\* with all its bytes or with an error.  No request is ever forced to come.
Fairness ==
    /\ \A t \in PartCalls : WF_vars(PartStep(t))
    /\ \A t \in CompleteCalls : WF_vars(CompleteStep(t))
    /\ \A t \in Threads : WF_vars(FinalizeStep(t))
    /\ \A t \in Expiries : WF_vars(ExpireStep(t))

FairSpec == Spec /\ Fairness

---------------------------------------------------------------------------
(* Properties.                                                             *)

StatusTypeOK ==
    /\ started \in {"no", "yes", "refused"}
    /\ inMap \in BOOLEAN /\ closed \in BOOLEAN
    /\ timer \in {"armed", "stopped"} /\ state \in TransferStates
    /\ file \in BOOLEAN /\ handle \in BOOLEAN
    /\ finalizing \in BOOLEAN /\ tempPath \in BOOLEAN
    /\ tempExists \in BOOLEAN /\ published \in BOOLEAN
    /\ db \in TransferStates \cup {"absent"}
    /\ override \in {"none", "done", "failed"}
    /\ shown \in TransferStates \cup {"none"}

DataTypeOK ==
    /\ activeParts \in Int /\ bytesWritten \in Int
    /\ completed \subseteq Windows /\ inFlight \subseteq PartsOf(Windows)
    /\ cells \subseteq Int
    /\ storeFailures \in Nat /\ restarts \in Nat /\ removeFailures \in Nat

ThreadTypeOK ==
    /\ pc \in [Threads -> Pcs]
    /\ req \in [PartCalls -> Windows \cup {NoWindow}]
    /\ count \in [CompleteCalls -> Int]
    /\ snap \in [Threads -> TransferStates \cup {"none"}]
    /\ reply \in [Callers -> {"none", "ok", "error"}]

\* The variables keep their types.
TypeOK == StatusTypeOK /\ DataTypeOK /\ ThreadTypeOK

\* A file in the download directory holds every byte of the source, and no
\* part is still being written into it: the checks of Complete under the
\* receiver lock are enough although writes run unlocked and v2-lan-fast
\* sessions send no hash.
PublishedFileComplete ==
    published => /\ Offsets \subseteq cells
                 /\ \A t \in PartCalls : pc[t] # "writing" \/ ~handle

\* However many parts, completes and timer firings race, at most one of them
\* owns the close of a session: one commit or cleanup, one outcome persisted.
SingleFinalizer ==
    \A t, u \in Threads :
        pc[t] \in FinalizingPcs /\ pc[u] \in FinalizingPcs => t = u

\* Two requests for the same part (a retry while the first attempt is still
\* being read) never write the file at the same time.
PartWrittenOnce ==
    \A t, u \in PartCalls :
        pc[t] \in WritingPcs /\ pc[u] \in WritingPcs /\ req[t].part = req[u].part
            => t = u

\* What the user interface is shown for the transfer when it lists it.
Outcome == IF override = "none" THEN db ELSE override
Terminal == {"done", "failed"}

\* A transfer is recorded as done only if its file was delivered, and as
\* failed only if it was not, in memory, in the database and in the override.
OutcomeMatchesFile ==
    /\ "done" \in {state, db, override} => published
    /\ "failed" \in {db, override} => ~published

\* Complete was asked for as many parts as there are, but they leave a gap.
GapRefused ==
    /\ ~Tiles(completed)
    /\ \E t \in CompleteCalls : count[t] > 0 /\ count[t] = Cardinality(completed)

\* When the last thread has left a closed session, the session is out of the
\* map and nothing of its receiver is left: the descriptor stays open only when
\* Complete was refused for a gap between its parts (session_receiver.go:166),
\* and the .part file only under an open descriptor or when its removal failed.
ClosedSessionIsReleased ==
    closed /\ restarts = 0 /\ (\A t \in Threads : pc[t] \notin FinalizingPcs)
        => /\ ~inMap /\ ~file /\ ~finalizing
           /\ handle => GapRefused
           /\ tempExists => handle \/ removeFailures > 0

Counted == {t \in PartCalls : pc[t] \in CountedPcs}

\* A session in the map is always on its way out of it: once closed, it has
\* its finalizer; until then the idle timer is armed, or one of its goroutines
\* is about to close the session or to arm the timer again.  That is decided
\* by the count of active parts, which no error path leaves too high.
ListedSessionWillEnd ==
    inMap => /\ activeParts = Cardinality(Counted)
             /\ IF closed
                THEN \E t \in Threads : pc[t] \in FinalizingPcs
                ELSE timer = "armed" \/ \E t \in Expiries : pc[t] \in {"expire", "close"}

\* A terminal outcome that a user can see never changes again, except that a
\* crash loses the one the database refused to store.
OutcomeIsFinal ==
    [][(Outcome \in Terminal) => (Outcome' = Outcome \/ restarts' > restarts)]_vars

\* Every session ends: if the sender goes silent the idle timer, which part
\* handlers keep pushing back, still removes the session in the end.
SessionIsReleased == inMap ~> ~inMap

\* Every incoming transfer reaches an outcome unless the agent crashes.
OutcomeIsReached == db = "receiving" ~> (Outcome \in Terminal \/ restarts > 0)

---------------------------------------------------------------------------
(* The inductive invariant: what each program counter knows.               *)

CompletePcs == {"receiverComplete", "commit", "markDone"}
UndecidedPcs == CompletePcs \cup {"failState", "cleanup", "persist"}

\* Each kind of goroutine stays in its own handler.
ThreadKinds ==
    /\ \A t \in PartCalls : pc[t] \notin CompletePcs \cup {"expire"}
    /\ \A t \in CompleteCalls : pc[t] \notin CountedPcs \cup {"enter", "publish", "expire"}
    /\ \A t \in Expiries : pc[t] \notin CountedPcs \cup {"enter", "publish"} \cup CompletePcs

\* The finalizer has closed the session, and it is alone.
FinalizerOwnsClose ==
    /\ \A t \in Threads : pc[t] \in FinalizingPcs => closed
    /\ SingleFinalizer

\* A writer has marked its part, and nobody else has.
WritersAreMarked ==
    /\ \A t \in PartCalls : pc[t] \in WritingPcs =>
          ValidWindow(req[t]) /\ req[t].part \in inFlight
    /\ \A t \in PartCalls : pc[t] = "wrote" => CellsOf(req[t]) \subseteq cells
    /\ PartWrittenOnce

\* What the receiver counts as complete is in the file, and a delivered file
\* is complete and closed.
CompletedIsWritten ==
    /\ \A w \in completed : ValidWindow(w) /\ CellsOf(w) \subseteq cells
    /\ published => Offsets \subseteq cells /\ ~handle

\* Before the start request nothing has happened.
NothingBeforeStart ==
    started = "no" =>
        /\ ~published /\ db = "absent" /\ override = "none" /\ timer = "stopped"
        /\ \A t \in Threads : pc[t] = "idle"

\* While the session is open, or its finalizer has not stored an outcome,
\* there is none; the finalizer's copy of the record agrees with the file.
OutcomeFollowsFile ==
    /\ ~closed => ~published
    /\ ~closed \/ (\E t \in Threads : pc[t] \in UndecidedPcs) =>
          db \notin Terminal /\ override = "none"
    /\ \A t \in Threads :
          /\ pc[t] \in {"receiverComplete", "commit", "failState", "cleanup"} => ~published
          /\ pc[t] = "markDone" => published
          /\ pc[t] = "cleanup" => snap[t] = "failed"
          /\ pc[t] = "persist" =>
                snap[t] \in Terminal /\ (snap[t] = "done" <=> published)
    /\ OutcomeMatchesFile

IInv ==
    /\ TypeOK
    /\ ThreadKinds
    /\ FinalizerOwnsClose
    /\ WritersAreMarked
    /\ CompletedIsWritten
    /\ NothingBeforeStart
    /\ OutcomeFollowsFile
=============================================================================
