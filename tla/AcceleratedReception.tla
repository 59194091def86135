------------------------ MODULE AcceleratedReception ------------------------
(***************************************************************************)
(* The receiving side of an accelerated file transfer: the session the     *)
(* prepare request creates, the lanes that carry frames over connections   *)
(* of their own, the complete request, the session's timer, and the        *)
(* ordinary file upload that takes a failed session over.                  *)
(*                                                                         *)
(* One transfer, so one session.  A thread is a handler or the timer's     *)
(* goroutine; a lane is a connection.  Each step below is what runs under  *)
(* one lock, or one call to the store or the disk.  Every lane carries one *)
(* frame, the way AcceleratedSender.sendChunk uses it, so the answers for  *)
(* a frame received twice have no counterpart here.                        *)
(***************************************************************************)
EXTENDS Naturals, FiniteSets

CONSTANTS
    Chunks,      \* the frames of the file
    Versions,    \* what a chunk of the source may hold; 0 is a chunk not written
    MaxFaults    \* bound: store or disk errors, and crashes of the agent

ASSUME ReceptionAssumption ==
    /\ IsFiniteSet(Chunks) /\ Chunks # {}
    /\ Versions # {} /\ 0 \notin Versions
    /\ MaxFaults \in Nat

Requests == {"prepare", "complete", "fallback"}
Threads == Requests \cup {"expiry"}
Finalizers == {"complete", "expiry"}
Terminal == {"done", "failed"}

VARIABLES
    pc,         \* where each thread is
    session,    \* incomingAcceleratedSession, its map entry and its listener binding
    receiver,   \* AcceleratedReceiver
    conn,       \* per chunk: the serving side of its lane
    disk,       \* the staged file and its bytes; the file of the ordinary path;
                \* left: a staged file could not be removed
    row,        \* the transfer's row in the store
    override,   \* its outcome in memory, when the store refused it
    contested,  \* history: the ordinary path took a session that was already closed
    crashed,    \* history: the agent restarted
    faults

vars == <<pc, session, receiver, conn, disk, row, override, contested, crashed, faults>>
stored == <<row, override>>
history == <<contested, crashed>>

NoSession == [listed |-> FALSE, bound |-> FALSE, closed |-> FALSE, timer |-> "off", late |-> FALSE]
NoReceiver == [open |-> FALSE, closing |-> FALSE, finalizing |-> FALSE,
               windows |-> {}, inFlight |-> {}, acked |-> {}]

Init ==
    /\ pc = [t \in Threads |-> "none"]
    /\ session = NoSession /\ receiver = NoReceiver
    /\ conn = [c \in Chunks |-> "none"]
    /\ disk = [staged |-> "none", data |-> [c \in Chunks |-> 0], single |-> FALSE,
               left |-> FALSE]
    /\ row = "absent" /\ override = "none"
    /\ contested = FALSE /\ crashed = FALSE /\ faults = 0

Goto(t, label) == pc' = [pc EXCEPT ![t] = label]

Fail == faults < MaxFaults /\ faults' = faults + 1

\* A request reaches its handler.
Arrive(t) ==
    /\ pc[t] = "none" /\ Goto(t, "arrived")
    /\ UNCHANGED <<session, receiver, conn, disk, stored, history, faults>>

---------------------------------------------------------------------------
(* PrepareAcceleratedTransfer.                                             *)

\* The staged file of a refused request is removed, or stays because that
\* fails; used counts the faults before.
DropStaged(used) ==
    \/ faults' = used /\ UNCHANGED disk
    \/ /\ used < MaxFaults /\ faults' = used + 1
       /\ disk' = [disk EXCEPT !.left = TRUE]

\* The staged file is created, then the rows are inserted in one transaction.
\* The insert fails if the transfer has a row, or if the store does; then the
\* staged file is removed.
SavePrepared ==
    /\ pc["prepare"] = "arrived"
    /\ \/ /\ row = "absent" /\ row' = "receiving"
          /\ receiver' = [NoReceiver EXCEPT !.open = TRUE]
          /\ disk' = [disk EXCEPT !.staged = "part"]
          /\ Goto("prepare", "saved") /\ UNCHANGED faults
       \/ /\ row # "absent" /\ DropStaged(faults)
          /\ Goto("prepare", "refused") /\ UNCHANGED <<row, receiver>>
       \/ /\ faults < MaxFaults /\ DropStaged(faults + 1)
          /\ Goto("prepare", "refused") /\ UNCHANGED <<row, receiver>>
    /\ UNCHANGED <<session, conn, override, history>>

\* The session gets its timer and its place in the map.
ListSession ==
    /\ pc["prepare"] = "saved" /\ Goto("prepare", "listed")
    /\ session' = [NoSession EXCEPT !.listed = TRUE, !.timer = "armed"]
    /\ UNCHANGED <<receiver, conn, disk, stored, history, faults>>

\* Register comes after the map entry and does not ask whether the session is
\* still there.
RegisterSession ==
    /\ pc["prepare"] = "listed" /\ Goto("prepare", "ok")
    /\ session' = [session EXCEPT !.bound = TRUE]
    /\ UNCHANGED <<receiver, conn, disk, stored, history, faults>>

---------------------------------------------------------------------------
(* AcceleratedListener and AcceleratedReceiver.ReceiveFrame: a lane.       *)

Lane(c, from, to) == conn[c] = from /\ conn' = [conn EXCEPT ![c] = to]

\* The hello of a lane is accepted while the session is bound and not late.
AuthorizeLane(c) ==
    /\ Lane(c, "none", IF session.bound /\ ~session.late THEN "authorized" ELSE "closed")
    /\ UNCHANGED <<pc, session, receiver, disk, stored, history, faults>>

TakesFrames == receiver.open /\ ~receiver.finalizing /\ ~receiver.closing

BeginFrame(c) ==
    /\ Lane(c, "authorized", IF TakesFrames THEN "writing" ELSE "closed")
    /\ receiver' = IF TakesFrames THEN [receiver EXCEPT !.inFlight = @ \cup {c}] ELSE receiver
    /\ UNCHANGED <<pc, session, disk, stored, history, faults>>

\* WriteAt, outside the lock, and the region after it.  A frame written while
\* the receiver is closing is not recorded.
EndFrame(c, v) ==
    /\ conn[c] = "writing"
    /\ \/ /\ disk' = [disk EXCEPT !.data[c] = v]
          /\ receiver' = [receiver EXCEPT !.inFlight = @ \ {c},
                              !.windows = IF receiver.closing THEN @ ELSE @ \cup {c}]
          /\ Lane(c, "writing", IF receiver.closing THEN "closed" ELSE "written")
          /\ UNCHANGED faults
       \/ /\ Fail
          /\ receiver' = [receiver EXCEPT !.inFlight = @ \ {c}]
          /\ Lane(c, "writing", "closed") /\ UNCHANGED disk
    /\ UNCHANGED <<pc, session, stored, history>>

AcknowledgeFrame(c) ==
    /\ Lane(c, "written", IF TakesFrames THEN "acked" ELSE "closed")
    /\ receiver' = IF TakesFrames THEN [receiver EXCEPT !.acked = @ \cup {c}] ELSE receiver
    /\ UNCHANGED <<pc, session, disk, stored, history, faults>>

---------------------------------------------------------------------------
(* CompleteAcceleratedTransfer and expireIncomingAcceleratedSession.       *)

LookupSession(t) ==
    /\ pc[t] = "arrived" /\ Goto(t, IF session.listed THEN "found" ELSE "refused")
    /\ UNCHANGED <<session, receiver, conn, disk, stored, history, faults>>

\* Mutant: the session's closed flag is set but not tested.
BeginFinalizationBlind(t) ==
    /\ pc[t] = "found"
    /\ session' = [session EXCEPT !.closed = TRUE, !.timer = "off"]
    /\ Goto(t, IF t = "complete" THEN "checking" ELSE "failing")
    /\ UNCHANGED <<receiver, conn, disk, stored, history, faults>>

\* beginIncomingAcceleratedFinalization: one thread closes the session.
BeginFinalization(t) ==
    /\ pc[t] = "found"
    /\ IF session.closed
       THEN Goto(t, "refused") /\ UNCHANGED session
       ELSE /\ session' = [session EXCEPT !.closed = TRUE, !.timer = "off"]
            /\ Goto(t, IF t = "complete" THEN "checking" ELSE "failing")
    /\ UNCHANGED <<receiver, conn, disk, stored, history, faults>>

\* The first region of AcceleratedReceiver.Complete: every chunk written and
\* acknowledged, none on its way.
ReceiverComplete ==
    /\ pc["complete"] = "checking"
    /\ IF /\ TakesFrames /\ receiver.inFlight = {}
          /\ receiver.windows = Chunks /\ receiver.acked = Chunks
       THEN /\ receiver' = [receiver EXCEPT !.finalizing = TRUE, !.open = FALSE]
            /\ Goto("complete", "committing")
       ELSE Goto("complete", "failing") /\ UNCHANGED receiver
    /\ UNCHANGED <<session, conn, disk, stored, history, faults>>

\* Mutant: the file is published without comparing its hash.
CommitFileUnchecked(digest) ==
    /\ pc["complete"] = "committing"
    /\ receiver' = [receiver EXCEPT !.finalizing = FALSE]
    /\ disk' = [disk EXCEPT !.staged = "final"] /\ Goto("complete", "done")
    /\ UNCHANGED <<session, conn, stored, history, faults>>

\* Sync, hash and rename, or a hard link after which the staged name may stay.
\* The file is published if its bytes have the hash that the sender computed
\* from its own file.
CommitFile(digest) ==
    /\ pc["complete"] = "committing"
    /\ receiver' = [receiver EXCEPT !.finalizing = FALSE]
    /\ \/ /\ \A c \in Chunks : disk.data[c] = digest
          /\ \/ disk' = [disk EXCEPT !.staged = "final"] /\ UNCHANGED faults
             \/ disk' = [disk EXCEPT !.staged = "final", !.left = TRUE] /\ Fail
          /\ Goto("complete", "done")
       \/ /\ \E c \in Chunks : disk.data[c] # digest
          /\ Goto("complete", "failing") /\ UNCHANGED <<disk, faults>>
       \/ /\ Fail
          /\ Goto("complete", "failing") /\ UNCHANGED disk
    /\ UNCHANGED <<session, conn, stored, history>>

---------------------------------------------------------------------------
(* AcceleratedReceiver.Cleanup, for whoever gave the session up.           *)

AfterCleanup(t) == IF t = "fallback" THEN "copying" ELSE "failed"

BeginCleanup(t) ==
    /\ pc[t] = "failing"
    /\ IF receiver.finalizing
       THEN Goto(t, AfterCleanup(t)) /\ UNCHANGED receiver
       ELSE Goto(t, "draining") /\ receiver' = [receiver EXCEPT !.closing = TRUE]
    /\ UNCHANGED <<session, conn, disk, stored, history, faults>>

\* os.Remove, whose failure is ignored: the file stays, and its name is
\* forgotten.
RemoveStaged ==
    IF disk.staged = "part" /\ ~disk.left
    THEN \/ disk' = [disk EXCEPT !.staged = "none"] /\ UNCHANGED faults
         \/ disk' = [disk EXCEPT !.left = TRUE] /\ Fail
    ELSE UNCHANGED <<disk, faults>>

\* Mutant: Cleanup closes the file under the lanes that write to it.
EndCleanupEarly(t) ==
    /\ pc[t] = "draining"
    /\ receiver' = [receiver EXCEPT !.open = FALSE, !.closing = FALSE]
    /\ RemoveStaged /\ Goto(t, AfterCleanup(t))
    /\ UNCHANGED <<session, conn, stored, history>>

\* It waits for the frames on their way, then closes and removes the file.
EndCleanup(t) ==
    /\ pc[t] = "draining" /\ receiver.inFlight = {}
    /\ receiver' = [receiver EXCEPT !.open = FALSE, !.closing = FALSE]
    /\ RemoveStaged /\ Goto(t, AfterCleanup(t))
    /\ UNCHANGED <<session, conn, stored, history>>

---------------------------------------------------------------------------
(* The outcome.                                                            *)

Reply(outcome) == IF outcome = "done" THEN "ok" ELSE "refused"

\* PersistTransferOutcome; an outcome the store refuses is kept in memory.
Settle(t) ==
    /\ pc[t] \in Terminal
    /\ \/ row' = pc[t] /\ override' = "none" /\ UNCHANGED faults
       \/ Fail /\ override' = pc[t] /\ UNCHANGED row
    /\ Goto(t, IF t = "fallback" THEN Reply(pc[t])
               ELSE IF pc[t] = "done" THEN "doneRelease" ELSE "failedRelease")
    /\ UNCHANGED <<session, receiver, conn, disk, history>>

\* deleteIncomingAcceleratedSession: the map entry, the binding, the timer.
Release(t) ==
    /\ pc[t] \in {"doneRelease", "failedRelease"}
    /\ session' = [session EXCEPT !.listed = FALSE, !.bound = FALSE, !.timer = "off"]
    /\ Goto(t, IF pc[t] = "doneRelease" THEN "ok" ELSE "refused")
    /\ UNCHANGED <<receiver, conn, disk, stored, history, faults>>

---------------------------------------------------------------------------
(* AcceptIncomingFileTransfer, for the same transfer.                      *)

\* Mutant: the session is taken out of the map but not closed.
TakeSessionOpen ==
    /\ pc["fallback"] = "arrived"
    /\ IF session.listed
       THEN /\ session' = [session EXCEPT !.listed = FALSE, !.bound = FALSE, !.timer = "off"]
            /\ contested' = (contested \/ session.closed)
            /\ Goto("fallback", "failing")
       ELSE Goto("fallback", "inserting") /\ UNCHANGED <<session, contested>>
    /\ UNCHANGED <<receiver, conn, disk, stored, crashed, faults>>

\* takeIncomingAcceleratedSessionByTransferID closes the session whether or
\* not somebody has closed it before.
TakeSession ==
    /\ pc["fallback"] = "arrived"
    /\ IF session.listed
       THEN /\ session' = [session EXCEPT !.listed = FALSE, !.bound = FALSE,
                                          !.timer = "off", !.closed = TRUE]
            /\ contested' = (contested \/ session.closed)
            /\ Goto("fallback", "failing")
       ELSE Goto("fallback", "inserting") /\ UNCHANGED <<session, contested>>
    /\ UNCHANGED <<receiver, conn, disk, stored, crashed, faults>>

\* Without a session the transfer must have no row yet.
InsertTransfer ==
    /\ pc["fallback"] = "inserting"
    /\ \/ /\ row = "absent" /\ row' = "receiving"
          /\ Goto("fallback", "copying") /\ UNCHANGED faults
       \/ /\ row # "absent"
          /\ Goto("fallback", "refused") /\ UNCHANGED <<row, faults>>
       \/ /\ Fail
          /\ Goto("fallback", "refused") /\ UNCHANGED row
    /\ UNCHANGED <<session, receiver, conn, disk, override, history>>

\* The body is copied and the file committed, or the body breaks off, has
\* another size than declared, or cannot be committed.
CopyBody ==
    /\ pc["fallback"] = "copying"
    /\ \/ disk' = [disk EXCEPT !.single = TRUE] /\ Goto("fallback", "done")
       \/ Goto("fallback", "failed") /\ UNCHANGED disk
    /\ UNCHANGED <<session, receiver, conn, stored, history, faults>>

---------------------------------------------------------------------------
(* Time, and crashes.                                                      *)

\* The session's time is over.
Elapse ==
    /\ session.timer = "armed" /\ ~session.late
    /\ session' = [session EXCEPT !.late = TRUE]
    /\ UNCHANGED <<pc, receiver, conn, disk, stored, history, faults>>

\* The timer is armed once, when the session is created.
FireTimer ==
    /\ session.timer = "armed" /\ session.late
    /\ session' = [session EXCEPT !.timer = "off"]
    /\ Goto("expiry", "arrived")
    /\ UNCHANGED <<receiver, conn, disk, stored, history, faults>>

\* The agent stops at any point and starts again: what is left are the rows
\* and the files.  Answers that were sent stay sent.
Restart ==
    /\ Fail /\ crashed' = TRUE
    /\ pc' = [t \in Threads |-> IF pc[t] \in {"none", "ok"} THEN pc[t] ELSE "refused"]
    /\ conn' = [c \in Chunks |-> IF conn[c] \in {"none", "acked"} THEN conn[c] ELSE "closed"]
    /\ session' = NoSession /\ receiver' = NoReceiver /\ override' = "none"
    /\ UNCHANGED <<disk, row, contested>>

---------------------------------------------------------------------------
PrepareStep == SavePrepared \/ ListSession \/ RegisterSession

FinalizeStep(t) ==
    LookupSession(t) \/ BeginFinalization(t) \/ (t = "complete" /\ ReceiverComplete)

FallbackStep == TakeSession \/ InsertTransfer \/ CopyBody

EndStep(t) == BeginCleanup(t) \/ EndCleanup(t) \/ Settle(t)

LaneStep(c) == BeginFrame(c) \/ AcknowledgeFrame(c)

Next ==
    \/ \E t \in Requests : Arrive(t)
    \/ PrepareStep \/ FallbackStep
    \/ \E t \in Finalizers : FinalizeStep(t) \/ Release(t)
    \/ \E t \in Threads : EndStep(t)
    \/ \E v \in Versions : CommitFile(v) \/ \E c \in Chunks : EndFrame(c, v)
    \/ \E c \in Chunks : AuthorizeLane(c) \/ LaneStep(c)
    \/ Elapse \/ FireTimer \/ Restart

Spec == Init /\ [][Next]_vars

---------------------------------------------------------------------------
(* Properties.                                                             *)

\* What the user of the receiving agent is shown (mergeTransferOverride).
Outcome == IF override = "none" THEN row ELSE override

Delivered == disk.staged = "final" \/ disk.single

PlaceTypeOK ==
    /\ pc \in [Threads -> {"none", "arrived", "saved", "listed", "found", "checking",
                           "committing", "failing", "draining", "inserting", "copying",
                           "done", "failed", "doneRelease", "failedRelease", "ok", "refused"}]
    /\ conn \in [Chunks -> {"none", "authorized", "writing", "written", "acked", "closed"}]

RecordTypeOK ==
    /\ session \in [listed : BOOLEAN, bound : BOOLEAN, closed : BOOLEAN,
                    timer : {"off", "armed"}, late : BOOLEAN]
    /\ receiver \in [open : BOOLEAN, closing : BOOLEAN, finalizing : BOOLEAN,
                     windows : SUBSET Chunks, inFlight : SUBSET Chunks, acked : SUBSET Chunks]
    /\ disk \in [staged : {"none", "part", "final"}, single : BOOLEAN, left : BOOLEAN,
                 data : [Chunks -> Versions \cup {0}]]

StoreTypeOK ==
    /\ row \in {"absent", "receiving"} \cup Terminal
    /\ override \in {"none"} \cup Terminal
    /\ faults \in 0 .. MaxFaults

FlagTypeOK == contested \in BOOLEAN /\ crashed \in BOOLEAN

\* Threads, lanes, records and rows keep their types; in particular, only
\* frames of the file are ever recorded as written or acknowledged.
TypeOK == PlaceTypeOK /\ RecordTypeOK /\ StoreTypeOK /\ FlagTypeOK

\* A lane that is writing has a file to write to: whoever ends the session
\* while frames are on their way waits for them before it closes, removes or
\* publishes the staged file.
LaneWritesStagedFile ==
    \A c \in Chunks : conn[c] = "writing" => receiver.open /\ disk.staged = "part"

\* The file the complete request publishes is whole, and it is one state of
\* the sender's file, although the sender reads every chunk at another time.
PublishedIsOneVersion ==
    disk.staged = "final" => \E v \in Versions : \A c \in Chunks : disk.data[c] = v

\* A session is ended once, whichever of the complete request, the timer and
\* the ordinary path come together: the receiver's user is told "done" only
\* if the file is there, and "failed" only if it is not.  The exception is
\* the ordinary path taking a session the timer has begun to end.
OutcomeMatchesFile ==
    ~contested => /\ Outcome = "done" => Delivered
                  /\ Outcome = "failed" => ~Delivered
=============================================================================
