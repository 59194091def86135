--------------------------- MODULE SessionTransfer ---------------------------
(***************************************************************************)
(* A multipart file transfer end to end: SessionSender.Send, its upload    *)
(* workers and their retries, the HTTP calls between the two agents, and   *)
(* the receiving side of IncomingSession.                                  *)
(*                                                                         *)
(* The network decides two things.  A request that was sent may reach the  *)
(* server at any later time or never, also after its client gave up.  A    *)
(* client that waits may see its call fail at any time, whatever the       *)
(* server did or will do.  TLS neither corrupts nor duplicates a request,  *)
(* so every attempt reaches the server at most once.                       *)
(***************************************************************************)
EXTENDS IncomingSession

CONSTANTS
    Floor,          \* AdaptiveParallelism.min, the lowest limit of the gate
    Parallelism,    \* AdaptiveParallelism.max, the highest one
    MaxAttempts,    \* per chunk: attempts of uploadPartWithRetry (3 for each in the code)
    CompleteCall    \* the call that serves the one complete request

\* The chunks of the file, each one unit long.
Chunks == 0 .. (Size - 1)
Chunk(i) == [part |-> i, off |-> i, len |-> 1]

ASSUME SenderAssumption ==
    /\ Floor \in Nat \ {0} /\ Parallelism \in Nat /\ Floor <= Parallelism
    /\ MaxAttempts \in [Chunks -> Nat \ {0}]
    /\ PartCalls = UNION {{i} \X (1 .. MaxAttempts[i]) : i \in Chunks}
    /\ CompleteCalls = {CompleteCall}
    /\ Windows = {Chunk(i) : i \in Chunks}
    /\ MaxPartCount = Size

VARIABLES
    sender,     \* where Send is: "starting", "sending" (about to take the gate's lock),
                \* "waiting" (for the gate's condition), "joining", "completing", "ended"
    limit,      \* parallelGate.limit
    inUse,      \* parallelGate.inUse
    holding,    \* chunks whose worker has not released its slot yet
    launched,   \* parts handed to a worker so far (partCount)
    worker,     \* per chunk: "none", "try", "sent", "ok" or "failed"
    attempt,    \* per chunk: attempts used
    cancelled,  \* sessionCtx is cancelled
    outcome     \* transferRecord.State of the sender: "sending", "done", "failed"

gate == <<limit, inUse, holding>>
senderVars == <<sender, gate, launched, worker, attempt, cancelled, outcome>>
allVars == <<vars, senderVars>>

SenderInit ==
    /\ sender = "starting" /\ launched = 0
    /\ limit \in Floor .. Parallelism /\ inUse = 0 /\ holding = {}
    /\ worker = [i \in Chunks |-> "none"]
    /\ attempt = [i \in Chunks |-> 0]
    /\ cancelled = FALSE
    /\ outcome = "sending"

---------------------------------------------------------------------------
(* The sender.                                                             *)

\* SendFile records how Send ended.
End(result) ==
    /\ sender' = "ended"
    /\ outcome' = result

\* The start call returns: with the session, or with an error because the
\* request or the response was lost or the receiver refused.
StartReturns ==
    /\ sender = "starting"
    /\ \/ started = "yes" /\ sender' = "sending" /\ UNCHANGED outcome
       \/ End("failed")
    /\ UNCHANGED <<vars, gate, launched, worker, attempt, cancelled>>

\* Only the loop of Send ever waits at the gate.
Broadcast == sender' = IF sender = "waiting" THEN "sending" ELSE sender

\* parallelGate.Acquire, under the lock of the gate: the context is cancelled,
\* or there is no slot and the loop waits, or it takes the slot, reads the next
\* chunk and starts its worker.
LeaveLoop ==
    /\ sender = "sending" /\ (launched = Size \/ cancelled)
    /\ sender' = "joining"
    /\ UNCHANGED <<vars, gate, launched, worker, attempt, cancelled, outcome>>

WaitForSlot ==
    /\ sender = "sending" /\ launched < Size /\ ~cancelled
    /\ inUse >= limit
    /\ sender' = "waiting"
    /\ UNCHANGED <<vars, gate, launched, worker, attempt, cancelled, outcome>>

LaunchPart ==
    /\ sender = "sending" /\ launched < Size /\ ~cancelled
    /\ inUse < limit
    /\ inUse' = inUse + 1 /\ holding' = holding \cup {launched}
    /\ worker' = [worker EXCEPT ![launched] = "try"]
    /\ launched' = launched + 1
    /\ UNCHANGED <<vars, sender, limit, attempt, cancelled, outcome>>

\* The chunk cannot be read: the slot is given back, and Send fails once its
\* workers have returned.
ReadFails ==
    /\ sender = "sending" /\ launched < Size /\ ~cancelled
    /\ inUse < limit
    /\ sender' = "joining" /\ cancelled' = TRUE
    /\ UNCHANGED <<vars, gate, launched, worker, attempt, outcome>>

Sending == {"sending", "waiting", "joining"}

\* The caller cancels the parent context.
AbortSend ==
    /\ sender \in Sending /\ ~cancelled
    /\ cancelled' = TRUE
    /\ UNCHANGED <<vars, sender, gate, launched, worker, attempt, outcome>>

\* The goroutine of Acquire that watches the context wakes the loop.  That of
\* an earlier Acquire may do so too, as a spurious wake-up.
WakeCancelled ==
    /\ sender = "waiting" /\ cancelled
    /\ Broadcast
    /\ UNCHANGED <<vars, gate, launched, worker, attempt, cancelled, outcome>>

\* The ticker observes a window and sets the limit, in the round in which the
\* context is cancelled too.
SetLimit ==
    /\ sender \in Sending
    /\ limit' \in Floor .. Parallelism
    /\ Broadcast
    /\ UNCHANGED <<vars, inUse, holding, launched, worker, attempt, cancelled, outcome>>

\* uploadPartWithRetry: the next attempt, unless the context is cancelled.
SendAttempt(i) ==
    /\ worker[i] = "try"
    /\ IF cancelled
       THEN /\ worker' = [worker EXCEPT ![i] = "failed"]
            /\ UNCHANGED attempt
       ELSE /\ worker' = [worker EXCEPT ![i] = "sent"]
            /\ attempt' = [attempt EXCEPT ![i] = @ + 1]
    /\ UNCHANGED <<vars, sender, gate, launched, cancelled, outcome>>

\* The upload call returns.  The worker whose last attempt failed cancels
\* the context of all the others.
UploadReturns(i) ==
    /\ worker[i] = "sent"
    /\ \/ /\ reply[<<i, attempt[i]>>] = "ok"
          /\ worker' = [worker EXCEPT ![i] = "ok"]
          /\ UNCHANGED cancelled
       \/ /\ attempt[i] < MaxAttempts[i]
          /\ worker' = [worker EXCEPT ![i] = "try"]
          /\ UNCHANGED cancelled
       \/ /\ attempt[i] = MaxAttempts[i]
          /\ worker' = [worker EXCEPT ![i] = "failed"]
          /\ cancelled' = TRUE
    /\ UNCHANGED <<vars, sender, gate, launched, attempt, outcome>>

\* Mutant: a slot that is given back wakes nobody.
ReleaseSilently(i) ==
    /\ i \in holding /\ worker[i] \in {"ok", "failed"}
    /\ inUse' = inUse - 1 /\ holding' = holding \ {i}
    /\ UNCHANGED <<vars, sender, limit, launched, worker, attempt, cancelled,
                   outcome>>

\* parallelGate.Release, and wg.Done.
Release(i) ==
    /\ i \in holding /\ worker[i] \in {"ok", "failed"}
    /\ inUse' = (IF inUse > 0 THEN inUse - 1 ELSE inUse) /\ holding' = holding \ {i}
    /\ Broadcast
    /\ UNCHANGED <<vars, limit, launched, worker, attempt, cancelled, outcome>>

\* Mutant: Send does not wait for its workers.
FinishPartsEarly ==
    /\ sender = "joining"
    /\ IF cancelled
       THEN End("failed")
       ELSE sender' = "completing" /\ UNCHANGED outcome
    /\ UNCHANGED <<vars, gate, launched, worker, attempt, cancelled>>

\* wg.Wait: every launched worker has returned.
FinishParts ==
    /\ sender = "joining" /\ holding = {}
    /\ IF cancelled
       THEN End("failed")
       ELSE sender' = "completing" /\ UNCHANGED outcome
    /\ UNCHANGED <<vars, gate, launched, worker, attempt, cancelled>>

\* The complete call returns.  It is never repeated.
CompleteReturns ==
    /\ sender = "completing"
    /\ \/ reply[CompleteCall] = "ok" /\ End("done")
       \/ End("failed")
    /\ UNCHANGED <<vars, gate, launched, worker, attempt, cancelled>>

SenderStep ==
    \/ StartReturns \/ LeaveLoop \/ WaitForSlot \/ LaunchPart \/ ReadFails
    \/ AbortSend \/ WakeCancelled \/ SetLimit
    \/ \E i \in Chunks : SendAttempt(i) \/ UploadReturns(i) \/ Release(i)
    \/ FinishParts \/ CompleteReturns

---------------------------------------------------------------------------
(* Requests reach the server; the server runs.                             *)

DeliverStart ==
    /\ StartIncomingTransferSession \/ RefuseStart
    /\ UNCHANGED senderVars

DeliverPart ==
    /\ \E i \in Chunks : \E a \in 1 .. attempt[i] : LookupPart(<<i, a>>, Chunk(i))
    /\ UNCHANGED senderVars

CompleteSent ==
    sender = "completing" \/ (sender = "ended" /\ launched = Size /\ ~cancelled)

DeliverComplete ==
    /\ CompleteSent
    /\ LookupComplete(CompleteCall, Size)
    /\ UNCHANGED senderVars

Serve == (ServerStep \/ Restart) /\ UNCHANGED senderVars

TransferInit == Init /\ SenderInit

TransferNext ==
    \/ SenderStep
    \/ DeliverStart \/ DeliverPart \/ DeliverComplete
    \/ Serve

TransferSpec == TransferInit /\ [][TransferNext]_allVars

\* Both agents keep running their goroutines.  A client call returns in the
\* end, if only because the connection breaks; nothing has to be delivered.
ServerFairness ==
    /\ \A t \in PartCalls : WF_allVars(PartStep(t) /\ UNCHANGED senderVars)
    /\ \A t \in CompleteCalls : WF_allVars(CompleteStep(t) /\ UNCHANGED senderVars)
    /\ \A t \in Threads : WF_allVars(FinalizeStep(t) /\ UNCHANGED senderVars)
    /\ \A t \in Expiries : WF_allVars(ExpireStep(t) /\ UNCHANGED senderVars)

SenderFairness ==
    /\ WF_allVars(StartReturns) /\ WF_allVars(CompleteReturns)
    /\ WF_allVars(LeaveLoop \/ WaitForSlot \/ LaunchPart) /\ WF_allVars(WakeCancelled)
    /\ WF_allVars(FinishParts)
    /\ \A i \in Chunks : /\ WF_allVars(SendAttempt(i)) /\ WF_allVars(UploadReturns(i))
                         /\ WF_allVars(Release(i))

TransferFairSpec == TransferSpec /\ ServerFairness /\ SenderFairness

---------------------------------------------------------------------------
(* Properties.                                                             *)

\* When the complete request of an honest sender wins the close, the receiver
\* has every part and no stray attempt is still writing: SessionReceiver
\* refuses it only for a fault of its own disk.
HonestCompleteAccepted ==
    \A t \in CompleteCalls : pc[t] = "receiverComplete" =>
        /\ file /\ ~finalizing
        /\ inFlight = {}
        /\ Cardinality(completed) = Size
        /\ Tiles(completed)

\* While Send waits at the gate there is no slot for it, and each slot is held
\* by a worker that will still give it back and wake it: neither a new limit nor
\* a released slot goes unnoticed between the test and the wait.
WaiterIsWoken == sender = "waiting" => limit <= inUse /\ inUse = Cardinality(holding)

\* However many calls, stores and processes fail: once the sender shows the
\* transfer as done the file is in the download directory of the peer with
\* every byte, and the peer never shows the transfer as failed, also when a
\* restart has lost the outcome its store refused.
DoneIsDelivered ==
    outcome = "done" => published /\ Offsets \subseteq cells /\ Outcome # "failed"

\* The transfer keeps the promise of FileDelivery.
Delivery == INSTANCE FileDelivery WITH
    delivered <- published,
    receiverOutcome <- IF Outcome \in Terminal THEN Outcome ELSE "pending",
    senderOutcome <- IF outcome = "sending" THEN "pending" ELSE outcome

ImplementsFileDelivery == Delivery!Spec

\* Send always returns: no worker waits for ever for the gate, for another
\* worker or for the context to be cancelled.
SendReturns == <>(sender = "ended")
=============================================================================
