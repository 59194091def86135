------------------------- MODULE AcceleratedTransfer -------------------------
(***************************************************************************)
(* An accelerated file transfer end to end: RuntimeService.                *)
(* SendAcceleratedFile, the batches of AcceleratedSender.Send, the network *)
(* and the receiving side of AcceleratedReception; and the user, who may   *)
(* change or remove the file that is being sent.                           *)
(*                                                                         *)
(* A request or a frame that was sent may arrive at any later time or      *)
(* never, also after the sender gave up; a call may fail at any time,      *)
(* whatever the receiver did or will do.  A content of the source is a     *)
(* number, all chunks change with it.                                      *)
(***************************************************************************)
EXTENDS AcceleratedReception

CONSTANTS
    N,           \* number of chunks
    Stripes,     \* the levels the striping controller may choose
    MaxEdits     \* bound: changes of the source

ASSUME TransferAssumption ==
    /\ N \in Nat \ {0} /\ Chunks = 1 .. N
    /\ Stripes \subseteq Nat \ {0} /\ Stripes # {}
    /\ MaxEdits \in Nat /\ Versions = 1 .. (MaxEdits + 1)

VARIABLES
    send,       \* "start", "preparing", "streaming", "completing", "fallback", "returned"
    asked,      \* the requests sent so far
    next,       \* the first chunk no batch has taken
    lane,       \* per chunk: "idle", "dial", "sent", "acked", "soft" or "source" error
    frame,      \* per chunk: what the lane read from the source
    digest,     \* the hash of the source in the complete request
    outgoing,   \* what the sender's user is shown: "absent", "sending", "done", "failed"
    content,    \* the source
    removed     \* the source cannot be opened any more

senderVars == <<send, asked, next, lane, frame, digest, outgoing, content, removed>>
source == <<content, removed>>
batch == <<next, lane, frame>>
allVars == <<vars, senderVars>>

SenderInit ==
    /\ send = "start" /\ asked = {} /\ next = 1
    /\ lane = [c \in Chunks |-> "idle"]
    /\ frame = [c \in Chunks |-> 0]
    /\ digest = 0 /\ outgoing = "absent"
    /\ content = 1 /\ removed = FALSE

---------------------------------------------------------------------------
(* SendAcceleratedFile.                                                    *)

Request(t, state) == asked' = asked \cup {t} /\ send' = state

Return(result) == send' = "returned" /\ outgoing' = result /\ UNCHANGED asked

\* sendFileFallbackWithExistingTransfer.  If the source cannot be opened it
\* returns an error before it has touched the transfer's record.
Fallback ==
    IF removed
    THEN Return(outgoing)
    ELSE Request("fallback", "fallback") /\ UNCHANGED outgoing

\* The lease is valid and the peer trusted: the rows are saved and the
\* receiver is asked for a session.
BeginSend ==
    /\ send = "start"
    /\ Request("prepare", "preparing") /\ outgoing' = "sending"
    /\ UNCHANGED <<vars, batch, digest, source>>

\* The prepare call returns: with a session, and the source is opened, or
\* with an error.
PrepareReturns ==
    /\ send = "preparing"
    /\ \/ /\ pc["prepare"] = "ok" /\ ~removed
          /\ send' = "streaming" /\ UNCHANGED <<asked, outgoing>>
       \/ Fallback
    /\ UNCHANGED <<vars, batch, digest, source>>

Waiting == \E c \in Chunks : lane[c] \in {"dial", "sent"}
Failed == {c \in Chunks : lane[c] \in {"soft", "source"}}
Committed == {c \in Chunks : lane[c] = "acked"}

\* One batch: a lane for each of the next chunks, as many as the controller's
\* level.  Its choice depends on measured throughput: here any level.  The
\* window of maxStripes chunks never cuts a batch short.
StartBatch ==
    /\ send = "streaming" /\ ~Waiting /\ Failed = {} /\ next <= N
    /\ \E k \in Stripes :
          /\ lane' = [c \in Chunks |-> IF c \in next .. (next + k - 1) THEN "dial" ELSE lane[c]]
          /\ next' = IF next + k > N THEN N + 1 ELSE next + k
    /\ UNCHANGED <<vars, send, asked, frame, digest, outgoing, source>>

\* sendChunk: connect, read the chunk, write hello and frame.
SendChunk(c) ==
    /\ lane[c] = "dial" /\ lane' = [lane EXCEPT ![c] = "sent"]
    /\ frame' = [frame EXCEPT ![c] = content]
    /\ UNCHANGED <<vars, send, asked, next, digest, outgoing, source>>

\* The chunk cannot be read, or is shorter than it was.
SourceFails(c) ==
    /\ lane[c] = "dial" /\ lane' = [lane EXCEPT ![c] = "source"]
    /\ UNCHANGED <<vars, send, asked, next, frame, digest, outgoing, source>>

\* Mutant: the acknowledgement is awaited without a deadline.
LaneBreaksAtDial(c) ==
    /\ lane[c] = "dial" /\ lane' = [lane EXCEPT ![c] = "soft"]
    /\ UNCHANGED <<vars, send, asked, next, frame, digest, outgoing, source>>

\* No connection, or no answer to the frame in time.
LaneBreaks(c) ==
    /\ lane[c] \in {"dial", "sent"} /\ lane' = [lane EXCEPT ![c] = "soft"]
    /\ UNCHANGED <<vars, send, asked, next, frame, digest, outgoing, source>>

AckArrives(c) ==
    /\ lane[c] = "sent" /\ conn[c] = "acked" /\ lane' = [lane EXCEPT ![c] = "acked"]
    /\ UNCHANGED <<vars, send, asked, next, frame, digest, outgoing, source>>

\* shouldFallbackAcceleratedSend, for the error of chunk c.
ShouldFallback(c) == lane[c] = "soft" /\ Committed = {}

\* wg.Wait, and one of the batch's errors.
StreamFails ==
    /\ send = "streaming" /\ ~Waiting
    /\ \E c \in Failed : IF ShouldFallback(c) THEN Fallback ELSE Return("failed")
    /\ UNCHANGED <<vars, batch, digest, source>>

\* Mutant: Send does not wait for the lanes of its last batch.
FinishStreamEarly ==
    /\ send = "streaming" /\ Failed = {} /\ next > N
    /\ Request("complete", "completing") /\ digest' = content
    /\ UNCHANGED <<vars, batch, outgoing, source>>

\* Everything is acknowledged: the source is read again for its hash, which
\* may fail, and the receiver is asked to complete.
FinishStream ==
    /\ send = "streaming" /\ ~Waiting /\ Failed = {} /\ next > N
    /\ \/ Request("complete", "completing") /\ digest' = content /\ UNCHANGED outgoing
       \/ Return("failed") /\ UNCHANGED digest
    /\ UNCHANGED <<vars, batch, source>>

\* Mutant: a complete call without an answer is followed by the ordinary path.
CompleteReturnsFallback ==
    /\ send = "completing"
    /\ \/ pc["complete"] = "ok" /\ Return("done")
       \/ Fallback
    /\ UNCHANGED <<vars, batch, digest, source>>

\* Mutant: a complete request that is refused, because the session is closed
\* or gone, passes for one that was served before.
CompleteReturnsTwice ==
    /\ send = "completing"
    /\ \/ pc["complete"] \in {"ok", "refused"} /\ Return("done")
       \/ Return("failed")
    /\ UNCHANGED <<vars, batch, digest, source>>

\* The complete call returns.  Its failure is final.
CompleteReturns ==
    /\ send = "completing"
    /\ \/ pc["complete"] = "ok" /\ Return("done")
       \/ Return("failed")
    /\ UNCHANGED <<vars, batch, digest, source>>

FallbackReturns ==
    /\ send = "fallback"
    /\ \/ pc["fallback"] = "ok" /\ Return("done")
       \/ Return("failed")
    /\ UNCHANGED <<vars, batch, digest, source>>

SenderStep ==
    \/ BeginSend \/ PrepareReturns \/ StartBatch \/ StreamFails \/ FinishStream
    \/ CompleteReturns \/ FallbackReturns
    \/ \E c \in Chunks : SendChunk(c) \/ SourceFails(c) \/ LaneBreaks(c) \/ AckArrives(c)

---------------------------------------------------------------------------
(* The user, the network and the receiver.                                 *)

\* Only until the last chunk is read and hashed does the source matter: the
\* ordinary path sends what it finds and compares nothing.
SourceMatters == send \in {"preparing", "streaming"}

\* The file is written in place.
EditSource ==
    /\ SourceMatters
    /\ content <= MaxEdits /\ content' = content + 1
    /\ UNCHANGED <<vars, send, asked, batch, digest, outgoing, removed>>

\* The file is removed or replaced: what has been opened stays readable.
RemoveSource ==
    /\ SourceMatters
    /\ ~removed /\ removed' = TRUE
    /\ UNCHANGED <<vars, send, asked, batch, digest, outgoing, content>>

DeliverRequest ==
    /\ \E t \in asked : Arrive(t)
    /\ UNCHANGED senderVars

\* The listener reads the hello of a lane.
DeliverLane ==
    /\ \E c \in Chunks : frame[c] # 0 /\ AuthorizeLane(c)
    /\ UNCHANGED senderVars

ReceiverStep ==
    \/ PrepareStep \/ FallbackStep
    \/ \E t \in Finalizers : FinalizeStep(t) \/ Release(t)
    \/ \E t \in Threads : EndStep(t)
    \/ CommitFile(digest)
    \/ \E c \in Chunks : LaneStep(c) \/ EndFrame(c, frame[c])

Serve == (ReceiverStep \/ Elapse \/ FireTimer \/ Restart) /\ UNCHANGED senderVars

TransferInit == Init /\ SenderInit

TransferNext ==
    \/ SenderStep
    \/ EditSource \/ RemoveSource
    \/ DeliverRequest \/ DeliverLane
    \/ Serve

TransferSpec == TransferInit /\ [][TransferNext]_allVars

\* Both agents keep running their goroutines and time passes.  A call of the
\* sender returns in the end, if only because the connection breaks; nothing
\* has to arrive, and the user does nothing.
TransferFairSpec ==
    /\ TransferSpec
    /\ WF_allVars(SenderStep)
    /\ WF_allVars(ReceiverStep /\ UNCHANGED senderVars)
    /\ WF_allVars(Elapse /\ UNCHANGED senderVars)
    /\ WF_allVars(FireTimer /\ UNCHANGED senderVars)

---------------------------------------------------------------------------
(* Properties.                                                             *)

\* The fall back is taken only while it is certain that the accelerated path
\* will not publish the file: the user never receives it twice.
DeliveredOnce == ~(disk.staged = "final" /\ disk.single)

\* Nothing the sender does by itself, no order of its lanes and no late frame,
\* makes the receiver refuse its complete request: that takes a disk or store
\* error, a source that changed, or a session that ran out of time.
OwnCompleteIsAccepted ==
    pc["complete"] = "refused" => faults > 0 \/ content > 1 \/ session.late

\* Once the sender's user is told "done" the file is there, whatever failed
\* before or fails afterwards; and the receiver's user is not told "failed",
\* unless the ordinary path took a session that was being ended.
DoneIsDelivered ==
    outgoing = "done" => Delivered /\ (contested \/ Outcome # "failed")

\* The transfer keeps the promise of FileDelivery, until the ordinary path
\* takes a session that is already being ended.
Delivery == INSTANCE FileDelivery WITH
    delivered <- Delivered,
    receiverOutcome <- IF Outcome \in Terminal THEN Outcome ELSE "pending",
    senderOutcome <- IF outgoing \in Terminal THEN outgoing ELSE "pending"

DeliversOnePromise ==
    Delivery!Init /\ [][contested' \/ Delivery!Next]_(Delivery!vars)

\* Whatever breaks, everything ends: SendAcceleratedFile returns and has given
\* its transfer an outcome, except as LostSourceEndsTransfer says; no session,
\* timer or staged file outlives the transfer, but a file that could not be
\* removed; and no incoming transfer stays in state receiving.  A crash of the
\* agent leaves the file and the state as they are.
EverythingEnds ==
    /\ send = "preparing" ~> (send = "returned" /\ (outgoing # "sending" \/ removed))
    /\ (session.listed \/ disk.staged = "part")
            ~> \/ crashed
               \/ /\ ~session.listed /\ session.timer = "off"
                  /\ disk.staged # "part" \/ disk.left
    /\ row = "receiving" ~> (Outcome \in Terminal \/ crashed)

\* A transfer whose local file became invalid is terminated and marked, the
\* accelerated-large-file-transfer spec says; it can only be "done" if the file
\* had been opened before.  The code leaves it in state sending when the fall
\* back cannot open the file.
LostSourceEndsTransfer == removed ~> outgoing \in Terminal
=============================================================================
