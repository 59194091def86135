------------------------ MODULE SessionTransferProofs ------------------------
(***************************************************************************)
(* Proofs about SessionTransfer, for any number of chunks, workers and     *)
(* attempts: its receiver behaves as IncomingSession says, the complete    *)
(* request of an honest sender finds all that it sent, the gate of its     *)
(* uploads misses no wake-up, and, if at most one thing breaks, the two    *)
(* sides implement FileDelivery.                                           *)
(***************************************************************************)
EXTENDS SessionTransfer, IncomingSessionProofs, FiniteSetTheorems, FunctionTheorems

Busy(t) == pc[t] \notin {"idle", "done"}

\* An answer is the last thing a handler does, and a crash ends the session
\* together with the handlers that serve it.
AnswersAreLast ==
    /\ \A t \in Callers : reply[t] # "none" => pc[t] = "done"
    /\ started = "no" \/ inMap => restarts = 0
    /\ \A t \in CompleteCalls : Busy(t) => restarts = 0

\* An attempt carries the window of its chunk, and is told that the part is
\* complete only when it is.
AttemptHolds(t) ==
    /\ pc[t] \in {"enter"} \cup CountedPcs => req[t] = Chunk(t[1])
    /\ pc[t] \in {"exitOk", "publish", "errCompleted"} => Chunk(t[1]) \in completed
    /\ pc[t] \in {"cleanup", "persist", "unregister", "announce"} => snap[t] = "failed"
    /\ reply[t] = "ok" /\ restarts = 0 => Chunk(t[1]) \in completed

\* A part that is complete is not being written again.
PartsAreChunks ==
    /\ \A t \in PartCalls : AttemptHolds(t)
    /\ \A w \in completed : w.part \notin inFlight

\* Only a session that was started is served, and who owns its close finds the
\* staged file open and leaves it closed.
FileIsHeld ==
    /\ started # "yes" => ~inMap /\ timer = "stopped" /\ \A t \in Threads : ~Busy(t)
    /\ started = "yes" /\ ~closed => file /\ ~finalizing
    /\ \A t \in Threads :
          /\ pc[t] = "receiverComplete" => file /\ ~finalizing
          /\ pc[t] \in {"failState", "cleanup"} => ~finalizing /\ (handle => file)
    /\ closed /\ handle =>
          \E t \in Threads : pc[t] \in {"receiverComplete", "commit", "failState", "cleanup"}

SenderTypeOK ==
    /\ sender \in {"starting", "sending", "waiting", "joining", "completing", "ended"}
    /\ limit \in Floor .. Parallelism /\ inUse \in Nat /\ holding \subseteq Chunks
    /\ launched \in 0 .. Size
    /\ worker \in [Chunks -> {"none", "try", "sent", "ok", "failed"}]
    /\ attempt \in [Chunks -> Nat] /\ \A i \in Chunks : attempt[i] <= MaxAttempts[i]
    /\ cancelled \in BOOLEAN
    /\ outcome \in {"sending", "done", "failed"}

WorkerHolds(i) ==
    /\ worker[i] = "none" <=> i >= launched
    /\ worker[i] = "none" => attempt[i] = 0
    /\ worker[i] = "try" => attempt[i] < MaxAttempts[i]
    /\ worker[i] \in {"try", "sent"} => i \in holding
    /\ i \in holding => i < launched
    /\ worker[i] \in {"sent", "ok"} => attempt[i] >= 1
    /\ worker[i] = "ok" => reply[<<i, attempt[i]>>] = "ok"
    /\ worker[i] = "failed" => cancelled

\* The sender completes only what was acknowledged, part by part.
SenderInOrder ==
    /\ \A i \in Chunks : WorkerHolds(i)
    /\ sender = "starting" => launched = 0
    /\ sender = "joining" => launched = Size \/ cancelled
    /\ sender = "completing" => launched = Size /\ ~cancelled
    /\ CompleteSent => \A i \in Chunks : worker[i] = "ok"
    /\ outcome = "sending" <=> sender # "ended"

\* The gate counts its holders, and Send waits only while it is full.
GateCounts ==
    /\ inUse = Cardinality(holding)
    /\ sender = "waiting" => limit <= inUse

CompleteIsAsked == Busy(CompleteCall) => CompleteSent

SInv == SenderTypeOK /\ SenderInOrder /\ GateCounts /\ CompleteIsAsked

TInv == IInv /\ AnswersAreLast /\ PartsAreChunks /\ FileIsHeld /\ SInv

\* A good answer is true, and what the store refused has cost a fault.
AnsweredTruly ==
    /\ \A t \in CompleteCalls :
          /\ reply[t] = "ok" => Outcome = "done"
          /\ pc[t] \in {"unregister", "announce"} /\ snap[t] = "done" => Outcome = "done"
    /\ override # "none" => storeFailures > 0

---------------------------------------------------------------------------
(* What the honest sender lets its receiver do.                            *)

Received ==
    \/ StartIncomingTransferSession \/ RefuseStart
    \/ \E t \in PartCalls : LookupPart(t, Chunk(t[1]))
    \/ CompleteSent /\ LookupComplete(CompleteCall, Size)
    \/ ServerStep \/ Restart
    \/ UNCHANGED vars

\* The calls of a chunk are its attempts.
LEMMA CallOfChunk ==
    ASSUME NEW i \in Chunks, NEW a \in 1 .. MaxAttempts[i]
    PROVE  <<i, a>> \in PartCalls /\ <<i, a>>[1] = i
<1>1. <<i, a>> \in {i} \X (1 .. MaxAttempts[i])
  OBVIOUS
<1>2. {i} \X (1 .. MaxAttempts[i]) \in {{j} \X (1 .. MaxAttempts[j]) : j \in Chunks}
  OBVIOUS
<1> QED
  BY <1>1, <1>2, SenderAssumption

\* Either the sender takes a step and the receiver is left alone, or the
\* other way round.
LEMMA EitherSide ==
    ASSUME SenderTypeOK, [TransferNext]_allVars
    PROVE  Received /\ ((SenderStep /\ UNCHANGED vars) \/ UNCHANGED senderVars)
<1>0. CASE UNCHANGED allVars
  BY <1>0 DEF allVars, Received
<1>1. CASE SenderStep
  <2>1. UNCHANGED vars
    BY <1>1 DEF SenderStep, StartReturns, LeaveLoop, WaitForSlot, LaunchPart,
       ReadFails, AbortSend, WakeCancelled, SetLimit, SendAttempt, UploadReturns,
       Release, FinishParts, CompleteReturns
  <2> QED
    BY <1>1, <2>1 DEF Received
<1>2. CASE DeliverPart
  <2>0. PICK i \in Chunks : \E a \in 1 .. attempt[i] : LookupPart(<<i, a>>, Chunk(i))
    BY <1>2 DEF DeliverPart
  <2>1. PICK a \in 1 .. attempt[i] : LookupPart(<<i, a>>, Chunk(i))
    BY <2>0
  <2>2. attempt[i] \in Nat /\ attempt[i] <= MaxAttempts[i] /\ MaxAttempts[i] \in Nat
    BY SenderAssumption DEF SenderTypeOK
  <2>3. a \in 1 .. MaxAttempts[i]
    BY <2>2
  <2>4. <<i, a>> \in PartCalls /\ <<i, a>>[1] = i
    BY <2>3, CallOfChunk
  <2> QED
    BY <1>2, <2>1, <2>4, Zenon DEF DeliverPart, Received
<1>3. CASE DeliverStart \/ DeliverComplete \/ Serve
  BY <1>3 DEF DeliverStart, DeliverComplete, Serve, Received
<1> QED
  BY <1>0, <1>1, <1>2, <1>3 DEF TransferNext

\* An attempt is of one chunk, and its window is one a part may carry.
LEMMA ChunkIsWindow ==
    ASSUME NEW t \in PartCalls
    PROVE  t[1] \in Chunks /\ Chunk(t[1]) \in Windows
<1>1. PICK i \in Chunks : t \in {i} \X (1 .. MaxAttempts[i])
  BY SenderAssumption
<1>2. t[1] \in Chunks
  BY <1>1
<1> QED
  BY <1>2, SenderAssumption

\* So the receiver takes a step of IncomingSession.
LEMMA ReceiverSteps ==
    ASSUME Received
    PROVE  [Next]_vars
<1>1. ASSUME NEW t \in PartCalls, LookupPart(t, Chunk(t[1])) PROVE Next
  BY <1>1, ChunkIsWindow, Zenon DEF Next
<1>2. ASSUME LookupComplete(CompleteCall, Size) PROVE Next
  <2>1. CompleteCall \in CompleteCalls /\ Size \in 0 .. MaxPartCount
    BY SenderAssumption, SizeAssumption
  <2> QED
    BY <1>2, <2>1, Zenon DEF Next
<1> QED
  BY <1>1, <1>2, Zenon DEF Received, Next

\* A good answer stays, and only the sender's request makes the one complete
\* handler busy.
AnswersStay ==
    /\ \A t \in Callers : reply[t] = "ok" => reply'[t] = "ok"
    /\ Busy(CompleteCall)' => Busy(CompleteCall) \/ CompleteSent

\* Answers are given once, at the end of a handler, and never taken back.
LEMMA AnswersStep ==
    ASSUME IInv, AnswersAreLast, Received
    PROVE  AnswersAreLast' /\ AnswersStay
<1> USE SenderAssumption, ThreadAssumption DEF IInv, TypeOK, StatusTypeOK,
   DataTypeOK, ThreadTypeOK, ThreadKinds, NothingBeforeStart, AnswersAreLast,
   AnswersStay, Busy, Goto, Answer, Threads, Callers, CountedPcs, WritingPcs,
   ErrorPcs, CompletePcs, session, receiver, disk, record, calls, bounds
<1>0. CASE UNCHANGED vars
  BY <1>0 DEF vars
<1>1. CASE StartIncomingTransferSession
  BY <1>1 DEF StartIncomingTransferSession
<1>2. CASE RefuseStart
  BY <1>2 DEF RefuseStart
<1>3. CASE Restart
  BY <1>3 DEF Restart
<1>4. ASSUME NEW t \in PartCalls, LookupPart(t, Chunk(t[1]))
      PROVE  AnswersAreLast' /\ AnswersStay
  BY <1>4 DEF LookupPart
<1>5. ASSUME CompleteSent, LookupComplete(CompleteCall, Size)
      PROVE  AnswersAreLast' /\ AnswersStay
  BY <1>5 DEF LookupComplete
<1>6. ASSUME NEW t \in PartCalls, EnterPart(t)
      PROVE  AnswersAreLast' /\ AnswersStay
  BY <1>6 DEF EnterPart
<1>7. ASSUME NEW t \in PartCalls, BeginWrite(t)
      PROVE  AnswersAreLast' /\ AnswersStay
  BY <1>7 DEF BeginWrite
<1>8. ASSUME NEW t \in PartCalls, WriteBody(t)
      PROVE  AnswersAreLast' /\ AnswersStay
  BY <1>8 DEF WriteBody
<1>9. ASSUME NEW t \in PartCalls, BreakBody(t)
      PROVE  AnswersAreLast' /\ AnswersStay
  BY <1>9 DEF BreakBody
<1>10. ASSUME NEW t \in PartCalls, EndWrite(t)
      PROVE  AnswersAreLast' /\ AnswersStay
  BY <1>10 DEF EndWrite
<1>11. ASSUME NEW t \in PartCalls, ExitPart(t)
      PROVE  AnswersAreLast' /\ AnswersStay
  BY <1>11 DEF ExitPart
<1>12. ASSUME NEW t \in PartCalls, PublishProgress(t)
      PROVE  AnswersAreLast' /\ AnswersStay
  BY <1>12 DEF PublishProgress
<1>13. ASSUME NEW t \in PartCalls, ExitPartOnError(t)
      PROVE  AnswersAreLast' /\ AnswersStay
  BY <1>13 DEF ExitPartOnError
<1>14. ASSUME NEW t \in CompleteCalls, ReceiverComplete(t)
      PROVE  AnswersAreLast' /\ AnswersStay
  BY <1>14 DEF ReceiverComplete
<1>15. ASSUME NEW t \in CompleteCalls, CommitFile(t)
      PROVE  AnswersAreLast' /\ AnswersStay
  BY <1>15 DEF CommitFile, RemoveStaged
<1>16. ASSUME NEW t \in CompleteCalls, FailCommit(t)
      PROVE  AnswersAreLast' /\ AnswersStay
  BY <1>16 DEF FailCommit
<1>17. ASSUME NEW t \in CompleteCalls, MarkDone(t)
      PROVE  AnswersAreLast' /\ AnswersStay
  BY <1>17 DEF MarkDone
<1>18. ASSUME NEW t \in Threads, BeginFinalization(t)
      PROVE  AnswersAreLast' /\ AnswersStay
  BY <1>18 DEF BeginFinalization, LoseClose
<1>19. ASSUME NEW t \in Threads, MarkFailed(t)
      PROVE  AnswersAreLast' /\ AnswersStay
  BY <1>19 DEF MarkFailed
<1>20. ASSUME NEW t \in Threads, Cleanup(t)
      PROVE  AnswersAreLast' /\ AnswersStay
  BY <1>20 DEF Cleanup, RemoveStaged
<1>21. ASSUME NEW t \in Threads, PersistOutcome(t)
      PROVE  AnswersAreLast' /\ AnswersStay
  BY <1>21 DEF PersistOutcome
<1>22. ASSUME NEW t \in Threads, Unregister(t)
      PROVE  AnswersAreLast' /\ AnswersStay
  BY <1>22 DEF Unregister
<1>23. ASSUME NEW t \in Threads, Announce(t)
      PROVE  AnswersAreLast' /\ AnswersStay
  BY <1>23 DEF Announce
<1>24. ASSUME NEW t \in Expiries, FireTimer(t)
      PROVE  AnswersAreLast' /\ AnswersStay
  BY <1>24 DEF FireTimer
<1>25. ASSUME NEW t \in Expiries, CheckExpiry(t)
      PROVE  AnswersAreLast' /\ AnswersStay
  BY <1>25 DEF CheckExpiry
<1> QED
  BY <1>0, <1>1, <1>2, <1>3, <1>4, <1>5, <1>6, <1>7, <1>8, <1>9, <1>10, <1>11,
     <1>12, <1>13, <1>14, <1>15, <1>16, <1>17, <1>18, <1>19, <1>20, <1>21,
     <1>22, <1>23, <1>24, <1>25, Zenon
     DEF Received, ServerStep, PartStep, CompleteStep, FinalizeStep, ExpireStep

\* A part that was acknowledged stays complete, unless the agent crashes, and
\* no second attempt writes it.
LEMMA PartsStep ==
    ASSUME IInv, AnswersAreLast, PartsAreChunks, Received
    PROVE  PartsAreChunks'
<1> USE ThreadAssumption DEF IInv, TypeOK, DataTypeOK, ThreadTypeOK, ThreadKinds,
   WritersAreMarked, NothingBeforeStart, AnswersAreLast, PartsAreChunks,
   AttemptHolds, Goto, Answer, Threads, Callers, CountedPcs, WritingPcs,
   ErrorPcs, CompletePcs, session, receiver, disk, record, calls, bounds
<1>0. CASE UNCHANGED vars
  BY <1>0 DEF vars
<1>1. CASE StartIncomingTransferSession
  BY <1>1 DEF StartIncomingTransferSession
<1>2. CASE RefuseStart
  BY <1>2 DEF RefuseStart
<1>3. CASE Restart
  BY <1>3 DEF Restart
<1>4. ASSUME NEW t \in PartCalls, LookupPart(t, Chunk(t[1]))
      PROVE  PartsAreChunks'
  BY <1>4 DEF LookupPart
<1>5. ASSUME CompleteSent, LookupComplete(CompleteCall, Size)
      PROVE  PartsAreChunks'
  BY <1>5 DEF LookupComplete
<1>6. ASSUME NEW t \in PartCalls, EnterPart(t) PROVE PartsAreChunks'
  BY <1>6 DEF EnterPart
<1>7. ASSUME NEW t \in PartCalls, BeginWrite(t) PROVE PartsAreChunks'
  BY <1>7 DEF BeginWrite, PartsOf
<1>8. ASSUME NEW t \in PartCalls, WriteBody(t) PROVE PartsAreChunks'
  BY <1>8 DEF WriteBody
<1>9. ASSUME NEW t \in PartCalls, BreakBody(t) PROVE PartsAreChunks'
  BY <1>9 DEF BreakBody
<1>10. ASSUME NEW t \in PartCalls, EndWrite(t) PROVE PartsAreChunks'
  BY <1>10 DEF EndWrite
<1>11. ASSUME NEW t \in PartCalls, ExitPart(t) PROVE PartsAreChunks'
  BY <1>11 DEF ExitPart
<1>12. ASSUME NEW t \in PartCalls, PublishProgress(t) PROVE PartsAreChunks'
  BY <1>12 DEF PublishProgress
<1>13. ASSUME NEW t \in PartCalls, ExitPartOnError(t) PROVE PartsAreChunks'
  BY <1>13 DEF ExitPartOnError
<1>14. ASSUME NEW t \in CompleteCalls, ReceiverComplete(t)
      PROVE  PartsAreChunks'
  BY <1>14 DEF ReceiverComplete
<1>15. ASSUME NEW t \in CompleteCalls, CommitFile(t) PROVE PartsAreChunks'
  BY <1>15 DEF CommitFile, RemoveStaged
<1>16. ASSUME NEW t \in CompleteCalls, FailCommit(t) PROVE PartsAreChunks'
  BY <1>16 DEF FailCommit
<1>17. ASSUME NEW t \in CompleteCalls, MarkDone(t) PROVE PartsAreChunks'
  BY <1>17 DEF MarkDone
<1>18. ASSUME NEW t \in Threads, BeginFinalization(t) PROVE PartsAreChunks'
  BY <1>18 DEF BeginFinalization, LoseClose
<1>19. ASSUME NEW t \in Threads, MarkFailed(t) PROVE PartsAreChunks'
  BY <1>19 DEF MarkFailed
<1>20. ASSUME NEW t \in Threads, Cleanup(t) PROVE PartsAreChunks'
  BY <1>20 DEF Cleanup, RemoveStaged
<1>21. ASSUME NEW t \in Threads, PersistOutcome(t) PROVE PartsAreChunks'
  BY <1>21 DEF PersistOutcome
<1>22. ASSUME NEW t \in Threads, Unregister(t) PROVE PartsAreChunks'
  BY <1>22 DEF Unregister
<1>23. ASSUME NEW t \in Threads, Announce(t) PROVE PartsAreChunks'
  BY <1>23 DEF Announce
<1>24. ASSUME NEW t \in Expiries, FireTimer(t) PROVE PartsAreChunks'
  BY <1>24 DEF FireTimer
<1>25. ASSUME NEW t \in Expiries, CheckExpiry(t) PROVE PartsAreChunks'
  BY <1>25 DEF CheckExpiry
<1> QED
  BY <1>0, <1>1, <1>2, <1>3, <1>4, <1>5, <1>6, <1>7, <1>8, <1>9, <1>10, <1>11,
     <1>12, <1>13, <1>14, <1>15, <1>16, <1>17, <1>18, <1>19, <1>20, <1>21,
     <1>22, <1>23, <1>24, <1>25, Zenon
     DEF Received, ServerStep, PartStep, CompleteStep, FinalizeStep, ExpireStep

---------------------------------------------------------------------------
(* While the complete request is served the receiver has every part.       *)

\* One window per chunk: as many as the sender announces.
LEMMA WindowsCounted == Cardinality(Windows) = Size
<1> DEFINE Window == [i \in Chunks |-> Chunk(i)]
<1>1. Size - 1 \in Int /\ 0 \in Int
  BY SizeAssumption
<1>2. IsFiniteSet(Chunks) /\ Cardinality(Chunks) = Size
  BY <1>1, FS_Interval, SizeAssumption DEF Chunks
<1>3. Window \in Bijection(Chunks, Windows)
  <2>1. Windows = {Chunk(i) : i \in Chunks}
    BY SenderAssumption
  <2>2. \A i, j \in Chunks : Chunk(i) = Chunk(j) => i = j
    BY DEF Chunk
  <2> QED
    <3>1. Window \in [Chunks -> Windows]
      BY <2>1
    <3>2. \A i, j \in Chunks : Window[i] = Window[j] => i = j
      BY <2>2
    <3>3. \A w \in Windows : \E i \in Chunks : Window[i] = w
      BY <2>1
    <3> HIDE DEF Window
    <3> QED
      BY <3>1, <3>2, <3>3, Fun_IsBij
<1> QED
  BY <1>2, <1>3, FS_Bijection DEF ExistsBijection

LEMMA WindowsTile == Tiles(Windows)
<1> SUFFICES ASSUME NEW o \in Offsets
             PROVE  \E w \in Windows : /\ o \in CellsOf(w)
                                       /\ \A v \in Windows : o \in CellsOf(v) => v = w
  BY DEF Tiles
<1>1. o \in Chunks /\ o \in Int
  BY SizeAssumption DEF Offsets, Chunks
<1>2. Chunk(o) \in Windows /\ o \in CellsOf(Chunk(o))
  BY <1>1, SenderAssumption DEF Chunk, CellsOf
<1>3. ASSUME NEW v \in Windows, o \in CellsOf(v) PROVE v = Chunk(o)
  <2>1. PICK i \in Chunks : v = Chunk(i)
    BY SenderAssumption
  <2>2. i \in Int
    BY SizeAssumption DEF Chunks
  <2>3. o \in i .. (i + 1 - 1)
    BY <1>3, <2>1 DEF Chunk, CellsOf
  <2> QED
    BY <1>1, <2>1, <2>2, <2>3
<1> QED
  BY <1>2, <1>3

LEMMA AllPartsHeld ==
    ASSUME IInv, AnswersAreLast, PartsAreChunks, SInv, Busy(CompleteCall)
    PROVE  inFlight = {} /\ Cardinality(completed) = Size /\ Tiles(completed)
<1>1. restarts = 0
  BY SenderAssumption DEF AnswersAreLast
<1>2. ASSUME NEW i \in Chunks PROVE Chunk(i) \in completed
  <2>1. worker[i] = "ok"
    BY DEF SInv, CompleteIsAsked, SenderInOrder
  <2>2. attempt[i] >= 1 /\ reply[<<i, attempt[i]>>] = "ok"
    BY <2>1 DEF SInv, SenderInOrder, WorkerHolds
  <2>3. attempt[i] \in 1 .. MaxAttempts[i]
    BY <2>2, SenderAssumption DEF SInv, SenderTypeOK
  <2>4. <<i, attempt[i]>> \in PartCalls /\ <<i, attempt[i]>>[1] = i
    BY <2>3, CallOfChunk
  <2> QED
    BY <1>1, <2>2, <2>4, Zenon DEF PartsAreChunks, AttemptHolds
<1>3. completed = Windows
  BY <1>2, SenderAssumption DEF IInv, TypeOK, DataTypeOK
<1>4. inFlight = {}
  BY <1>3 DEF IInv, TypeOK, DataTypeOK, PartsAreChunks, PartsOf
<1> QED
  BY <1>3, <1>4, WindowsCounted, WindowsTile

\* Whoever closes the session finds the staged file open and closes it: all
\* parts are there, so Complete cannot stop at a gap.
LEMMA FileStep ==
    ASSUME IInv, FileIsHeld, Busy(CompleteCall) => Tiles(completed), Received
    PROVE  FileIsHeld'
<1> USE SenderAssumption, ThreadAssumption DEF IInv, TypeOK, StatusTypeOK,
   ThreadTypeOK, ThreadKinds, FinalizerOwnsClose, SingleFinalizer,
   NothingBeforeStart, FileIsHeld, FinalizingPcs, CompletePcs, CountedPcs,
   WritingPcs, ErrorPcs, Goto, Answer, Threads, Callers, Busy, session,
   receiver, disk, record, calls, bounds
<1>0. CASE UNCHANGED vars
  BY <1>0 DEF vars
<1>1. CASE StartIncomingTransferSession
  BY <1>1 DEF StartIncomingTransferSession
<1>2. CASE RefuseStart
  BY <1>2 DEF RefuseStart
<1>3. CASE Restart
  BY <1>3 DEF Restart
<1>4. ASSUME NEW t \in PartCalls, LookupPart(t, Chunk(t[1]))
      PROVE  FileIsHeld'
  BY <1>4 DEF LookupPart
<1>5. ASSUME CompleteSent, LookupComplete(CompleteCall, Size)
      PROVE  FileIsHeld'
  BY <1>5 DEF LookupComplete
<1>6. ASSUME NEW t \in PartCalls, EnterPart(t) PROVE FileIsHeld'
  BY <1>6 DEF EnterPart
<1>7. ASSUME NEW t \in PartCalls, BeginWrite(t) PROVE FileIsHeld'
  BY <1>7 DEF BeginWrite
<1>8. ASSUME NEW t \in PartCalls, WriteBody(t) PROVE FileIsHeld'
  BY <1>8 DEF WriteBody
<1>9. ASSUME NEW t \in PartCalls, BreakBody(t) PROVE FileIsHeld'
  BY <1>9 DEF BreakBody
<1>10. ASSUME NEW t \in PartCalls, EndWrite(t) PROVE FileIsHeld'
  BY <1>10 DEF EndWrite
<1>11. ASSUME NEW t \in PartCalls, ExitPart(t) PROVE FileIsHeld'
  BY <1>11 DEF ExitPart
<1>12. ASSUME NEW t \in PartCalls, PublishProgress(t) PROVE FileIsHeld'
  BY <1>12 DEF PublishProgress
<1>13. ASSUME NEW t \in PartCalls, ExitPartOnError(t) PROVE FileIsHeld'
  BY <1>13 DEF ExitPartOnError
<1>14. ASSUME NEW t \in CompleteCalls, ReceiverComplete(t) PROVE FileIsHeld'
  BY <1>14 DEF ReceiverComplete
<1>15. ASSUME NEW t \in CompleteCalls, CommitFile(t) PROVE FileIsHeld'
  BY <1>15 DEF CommitFile, RemoveStaged
<1>16. ASSUME NEW t \in CompleteCalls, FailCommit(t) PROVE FileIsHeld'
  BY <1>16 DEF FailCommit
<1>17. ASSUME NEW t \in CompleteCalls, MarkDone(t) PROVE FileIsHeld'
  BY <1>17 DEF MarkDone
<1>18. ASSUME NEW t \in Threads, BeginFinalization(t) PROVE FileIsHeld'
  <2>1. CASE closed
    BY <1>18, <2>1 DEF BeginFinalization, LoseClose
  <2>2. CASE ~closed
    <3>1. /\ pc[t] = "close" /\ closed' = TRUE /\ timer' = "stopped"
          /\ pc' = [pc EXCEPT ![t] = IF t \in CompleteCalls THEN "receiverComplete"
                                                        ELSE "failState"]
          /\ UNCHANGED <<started, inMap, file, handle, finalizing>>
      BY <1>18, <2>2 DEF BeginFinalization
    <3>2. started = "yes"
      BY <3>1
    <3> QED
      BY <2>2, <3>1, <3>2, Zenon
  <2> QED
    BY <2>1, <2>2
<1>19. ASSUME NEW t \in Threads, MarkFailed(t) PROVE FileIsHeld'
  BY <1>19 DEF MarkFailed
<1>20. ASSUME NEW t \in Threads, Cleanup(t) PROVE FileIsHeld'
  BY <1>20 DEF Cleanup, RemoveStaged
<1>21. ASSUME NEW t \in Threads, PersistOutcome(t) PROVE FileIsHeld'
  BY <1>21 DEF PersistOutcome
<1>22. ASSUME NEW t \in Threads, Unregister(t) PROVE FileIsHeld'
  BY <1>22 DEF Unregister
<1>23. ASSUME NEW t \in Threads, Announce(t) PROVE FileIsHeld'
  BY <1>23 DEF Announce
<1>24. ASSUME NEW t \in Expiries, FireTimer(t) PROVE FileIsHeld'
  BY <1>24 DEF FireTimer
<1>25. ASSUME NEW t \in Expiries, CheckExpiry(t) PROVE FileIsHeld'
  BY <1>25 DEF CheckExpiry
<1> HIDE DEF FileIsHeld
<1> QED
  BY SMTT(40), <1>0, <1>1, <1>2, <1>3, <1>4, <1>5, <1>6, <1>7, <1>8, <1>9, <1>10, <1>11,
     <1>12, <1>13, <1>14, <1>15, <1>16, <1>17, <1>18, <1>19, <1>20, <1>21,
     <1>22, <1>23, <1>24, <1>25, Zenon
     DEF Received, ServerStep, PartStep, CompleteStep, FinalizeStep, ExpireStep

---------------------------------------------------------------------------
(* The sender.                                                             *)

\* What a worker was told stays true while the receiver goes on.
LEMMA ReceiverKeeps ==
    ASSUME SInv, AnswersStay, UNCHANGED senderVars
    PROVE  SInv'
<1>1. SenderTypeOK'
  BY DEF SInv, SenderTypeOK, senderVars, gate
<1>2. ASSUME NEW i \in Chunks PROVE WorkerHolds(i)'
  <2>1. WorkerHolds(i) /\ UNCHANGED <<launched, worker, attempt, cancelled, holding>>
    BY DEF SInv, SenderInOrder, senderVars, gate
  <2>2. ASSUME worker[i] = "ok" PROVE <<i, attempt[i]>> \in Callers
    <3>1. attempt[i] \in 1 .. MaxAttempts[i]
      BY <2>1, <2>2, SenderAssumption DEF SInv, SenderTypeOK, WorkerHolds
    <3> QED
      BY <3>1, CallOfChunk DEF Callers
  <2> QED
    BY <2>1, <2>2, Zenon DEF AnswersStay, WorkerHolds
<1>3. SenderInOrder' /\ CompleteIsAsked'
  BY <1>2, Zenon DEF SInv, SenderInOrder, CompleteIsAsked, CompleteSent, AnswersStay,
     senderVars
<1>4. GateCounts'
  BY DEF SInv, GateCounts, senderVars, gate
<1> QED
  BY <1>1, <1>3, <1>4 DEF SInv

\* A slot is taken by a chunk that has none, and given back by one that has.
LEMMA Slots ==
    ASSUME SInv
    PROVE  /\ IsFiniteSet(holding)
           /\ \A i \in Chunks \ holding : Cardinality(holding \cup {i}) = inUse + 1
           /\ \A i \in holding : inUse > 0 /\ Cardinality(holding \ {i}) = inUse - 1
<1>1. IsFiniteSet(Chunks)
  <2>1. Size - 1 \in Int /\ 0 \in Int
    BY SizeAssumption
  <2> QED
    BY <2>1, FS_Interval DEF Chunks
<1>2. IsFiniteSet(holding)
  BY <1>1, FS_Subset DEF SInv, SenderTypeOK
<1>3. inUse = Cardinality(holding) /\ inUse \in Nat
  BY DEF SInv, GateCounts, SenderTypeOK
<1>4. ASSUME NEW i \in holding PROVE inUse > 0 /\ Cardinality(holding \ {i}) = inUse - 1
  <2>1. holding # {}
    OBVIOUS
  <2>2. inUse # 0
    BY <1>2, <1>3, <2>1, FS_EmptySet
  <2> QED
    BY <1>2, <1>3, <2>2, FS_RemoveElement
<1> QED
  BY <1>2, <1>3, <1>4, FS_AddElement

\* The sender asks for the close only after each of its workers has been told
\* that its part is complete, and misses no wake-up at its gate.
LEMMA SenderSteps ==
    ASSUME SInv, SenderStep, UNCHANGED vars
    PROVE  SInv'
<1>s. /\ \A i \in Chunks \ holding : Cardinality(holding \cup {i}) = inUse + 1
      /\ \A i \in holding : inUse > 0 /\ Cardinality(holding \ {i}) = inUse - 1
  BY Slots
<1> USE SizeAssumption, SenderAssumption
    DEF SInv, SenderTypeOK, SenderInOrder, WorkerHolds, GateCounts, CompleteIsAsked,
        CompleteSent, Chunks, gate
<1>0. reply' = reply /\ Busy(CompleteCall)' = Busy(CompleteCall)
  BY DEF vars, calls, Busy
<1>1. CASE StartReturns
  BY <1>0, <1>1 DEF StartReturns, End
<1>2. CASE LaunchPart
  <2>1. /\ sender = "sending" /\ launched \in Chunks /\ launched < Size /\ ~cancelled
        /\ inUse' = inUse + 1 /\ holding' = holding \cup {launched}
        /\ worker' = [worker EXCEPT ![launched] = "try"] /\ launched' = launched + 1
        /\ UNCHANGED <<sender, limit, attempt, cancelled, outcome>>
    BY <1>2 DEF LaunchPart
  <2>2. SenderTypeOK'
    BY SMTT(40), <2>1
  <2>3. ASSUME NEW i \in Chunks PROVE WorkerHolds(i)'
    <3>1. CASE i = launched
      <4>1. worker'[i] = "try" /\ ~(i >= launched') /\ i \in holding' /\ i < launched'
        BY <2>1, <3>1
      <4>2. i >= launched
        BY <3>1
      <4>3. worker[i] = "none"
        BY <4>2
      <4>4. attempt'[i] = 0
        BY <2>1, <4>3
      <4>5. 0 < MaxAttempts[i]
        BY SenderAssumption
      <4> QED
        BY <4>1, <4>4, <4>5
    <3>2. CASE i # launched
      <4>1. /\ worker'[i] = worker[i] /\ (i >= launched' <=> i >= launched)
            /\ (i \in holding' <=> i \in holding) /\ (i < launched => i < launched')
        BY <2>1, <3>2
      <4> QED
        BY <1>0, <2>1, <4>1
    <3> QED
      BY <3>1, <3>2
  <2>4. GateCounts'
    <3>1. launched \notin holding
      <4>1. launched \in holding => launched < launched
        BY <2>1, Zenon
      <4>2. launched \in Nat
        OBVIOUS
      <4> QED
        BY <4>1, <4>2
    <3>2. Cardinality(holding \cup {launched}) = inUse + 1
      BY <2>1, <3>1, <1>s, Zenon
    <3> QED
      BY <2>1, <3>2
  <2> QED
    BY <1>0, <2>1, <2>2, <2>3, <2>4
<1>3. CASE AbortSend
  <2>1. /\ cancelled' = TRUE /\ sender \in {"sending", "waiting", "joining"}
        /\ UNCHANGED <<sender, limit, inUse, holding, launched, worker, attempt, outcome>>
    BY <1>3 DEF AbortSend, Sending
  <2> QED
    BY <1>0, <2>1
<1>4. CASE FinishParts
  <2>1. CASE cancelled
    BY <1>0, <1>4, <2>1 DEF FinishParts, End
  <2>2. CASE ~cancelled
    <3>1. launched = Size /\ holding = {}
      BY <1>4, <2>2 DEF FinishParts
    <3>2. ASSUME NEW i \in Chunks PROVE worker[i] = "ok"
      <4>1. ~(i >= launched)
        BY <3>1
      <4>2. worker[i] \notin {"none", "failed", "try", "sent"}
        BY <2>2, <3>1, <4>1
      <4> QED
        BY <4>2
    <3>3. /\ sender = "joining" /\ sender' = "completing"
          /\ UNCHANGED <<launched, limit, inUse, holding, worker, attempt, cancelled,
                         outcome>>
      BY <1>4, <2>2 DEF FinishParts
    <3> QED
      BY <1>0, <2>2, <3>1, <3>2, <3>3
  <2> QED
    BY <2>1, <2>2
<1>5. CASE CompleteReturns
  BY <1>0, <1>5 DEF CompleteReturns, End
<1>6. ASSUME NEW i \in Chunks, SendAttempt(i) PROVE SInv'
  <2>1. CASE cancelled
    <3>1. /\ worker[i] = "try" /\ worker' = [worker EXCEPT ![i] = "failed"]
          /\ UNCHANGED <<sender, limit, inUse, holding, launched, attempt, cancelled,
                         outcome>>
      BY <1>6, <2>1 DEF SendAttempt
    <3>2. ASSUME NEW j \in Chunks PROVE WorkerHolds(j)'
      BY <1>0, <2>1, <3>1
    <3>3. SenderTypeOK'
      BY <3>1
    <3> QED
      BY <1>0, <2>1, <3>1, <3>2, <3>3
  <2>2. CASE ~cancelled
    <3>1. /\ worker[i] = "try" /\ worker' = [worker EXCEPT ![i] = "sent"]
          /\ attempt' = [attempt EXCEPT ![i] = @ + 1]
          /\ UNCHANGED <<sender, limit, inUse, holding, launched, cancelled, outcome>>
      BY <1>6, <2>2 DEF SendAttempt
    <3>2. attempt[i] \in Nat /\ attempt[i] < MaxAttempts[i] /\ MaxAttempts[i] \in Nat
      BY <3>1
    <3>3. SenderTypeOK'
      BY <3>1, <3>2
    <3>4. ASSUME NEW j \in Chunks PROVE WorkerHolds(j)'
      BY <1>0, <3>1, <3>2
    <3> QED
      BY <1>0, <3>1, <3>3, <3>4
  <2> QED
    BY <2>1, <2>2
<1>7. ASSUME NEW i \in Chunks, UploadReturns(i) PROVE SInv'
  BY ZenonT(40), <1>0, <1>7 DEF UploadReturns
<1>8. CASE LeaveLoop \/ WaitForSlot \/ ReadFails
  <2>1. /\ sender = "sending"
        /\ \/ sender' = "joining" /\ (launched = Size \/ cancelled')
           \/ sender' = "waiting" /\ inUse >= limit
        /\ cancelled => cancelled'
        /\ cancelled' \in BOOLEAN
        /\ UNCHANGED <<limit, inUse, holding, launched, worker, attempt, outcome>>
    BY <1>8 DEF LeaveLoop, WaitForSlot, ReadFails
  <2>2. limit \in Nat /\ inUse \in Nat
    OBVIOUS
  <2> QED
    BY SMTT(40), <1>0, <2>1, <2>2
<1>9. CASE WakeCancelled \/ SetLimit
  <2>1. /\ sender \in {"sending", "waiting", "joining"}
        /\ sender' = IF sender = "waiting" THEN "sending" ELSE sender
        /\ limit' \in Floor .. Parallelism
        /\ UNCHANGED <<inUse, holding, launched, worker, attempt, cancelled, outcome>>
    BY <1>9 DEF WakeCancelled, SetLimit, Broadcast, Sending
  <2> QED
    BY <1>0, <2>1
<1>10. ASSUME NEW i \in Chunks, Release(i) PROVE SInv'
  <2>1. i \in holding /\ worker[i] \in {"ok", "failed"}
    BY <1>10 DEF Release
  <2>2. inUse' = inUse - 1 /\ inUse' \in Nat /\ holding' = holding \ {i}
    <3>1. inUse > 0 /\ Cardinality(holding \ {i}) = inUse - 1
      BY <2>1, <1>s, Zenon
    <3>2. inUse' = (IF inUse > 0 THEN inUse - 1 ELSE inUse) /\ holding' = holding \ {i}
      BY <1>10, Zenon DEF Release
    <3> QED
      BY <3>1, <3>2
  <2>3. /\ sender' = IF sender = "waiting" THEN "sending" ELSE sender
        /\ UNCHANGED <<limit, launched, worker, attempt, cancelled, outcome>>
    BY <1>10 DEF Release, Broadcast
  <2>4. SenderTypeOK'
    BY <2>2, <2>3
  <2>5. GateCounts'
    <3>1. Cardinality(holding \ {i}) = inUse - 1
      BY <2>1, <1>s, Zenon
    <3> QED
      BY <2>2, <2>3, <3>1
  <2>6. ASSUME NEW j \in Chunks PROVE WorkerHolds(j)'
    BY <1>0, <2>1, <2>2, <2>3
  <2> QED
    BY <1>0, <2>3, <2>4, <2>5, <2>6
<1> QED
  BY <1>1, <1>2, <1>3, <1>4, <1>5, <1>6, <1>7, <1>8, <1>9, <1>10 DEF SenderStep

---------------------------------------------------------------------------
(* The invariant of the transfer, and what follows from it.                *)

LEMMA TransferInitially == TransferInit => TInv
<1> SUFFICES ASSUME TransferInit PROVE TInv
  OBVIOUS
<1>1. IInv
  BY InitIInv DEF TransferInit
<1> USE SenderAssumption, SizeAssumption DEF TransferInit, Init, SenderInit
<1>2. AnswersAreLast /\ PartsAreChunks
  BY DEF AnswersAreLast, PartsAreChunks, AttemptHolds, Busy, Callers, Threads,
     CountedPcs, WritingPcs, ErrorPcs
<1>3. FileIsHeld
  BY DEF FileIsHeld, Busy
<1>4. SenderTypeOK
  <2>1. /\ launched \in 0 .. Size /\ attempt \in [Chunks -> Nat]
        /\ \A i \in Chunks : attempt[i] <= MaxAttempts[i]
        /\ worker \in [Chunks -> {"none", "try", "sent", "ok", "failed"}]
        /\ inUse \in Nat /\ holding \subseteq Chunks
    OBVIOUS
  <2> QED
    BY <2>1, Zenon DEF SenderTypeOK
<1>5. SenderInOrder
  BY DEF SenderInOrder, WorkerHolds, CompleteSent, Chunks
<1>6. CompleteIsAsked
  BY DEF CompleteIsAsked, Busy, Threads
<1>7. GateCounts
  BY FS_EmptySet DEF GateCounts
<1> QED
  BY <1>1, <1>2, <1>3, <1>4, <1>5, <1>6, <1>7 DEF TInv, SInv

LEMMA TransferInductive == TInv /\ [TransferNext]_allVars => TInv'
<1> SUFFICES ASSUME TInv, [TransferNext]_allVars PROVE TInv'
  OBVIOUS
<1> USE DEF TInv
<1>1. Received /\ ((SenderStep /\ UNCHANGED vars) \/ UNCHANGED senderVars)
  BY EitherSide DEF SInv
<1>2. IInv'
  BY <1>1, ReceiverSteps, NextIInv
<1>3. AnswersAreLast' /\ AnswersStay
  BY <1>1, AnswersStep
<1>4. PartsAreChunks'
  BY <1>1, PartsStep
<1>5. FileIsHeld'
  BY <1>1, AllPartsHeld, FileStep
<1>6. SInv'
  BY <1>1, <1>3, SenderSteps, ReceiverKeeps
<1> QED
  BY <1>2, <1>3, <1>4, <1>5, <1>6

LEMMA TransferInvariance == TransferSpec => []TInv
BY TransferInitially, TransferInductive, PTL DEF TransferSpec

\* In the whole transfer the receiver behaves as IncomingSession says: every
\* property proved there holds here.
THEOREM ImplementsIncoming == TransferSpec => Spec
<1>1. TransferInit => Init
  BY DEF TransferInit
<1>2. TInv /\ [TransferNext]_allVars => [Next]_vars
  BY EitherSide, ReceiverSteps DEF TInv, SInv
<1> QED
  BY <1>1, <1>2, TransferInvariance, PTL DEF TransferSpec, Spec

\* When the complete request of an honest sender owns the close, every part is
\* there and no stray attempt writes: SessionReceiver.Complete does not refuse
\* it.
THEOREM HonestComplete == TransferSpec => []HonestCompleteAccepted
<1>1. TInv => HonestCompleteAccepted
  <2> SUFFICES ASSUME TInv, pc[CompleteCall] = "receiverComplete"
               PROVE  /\ file /\ ~finalizing
                      /\ inFlight = {} /\ Cardinality(completed) = Size
                      /\ Tiles(completed)
    BY SenderAssumption DEF HonestCompleteAccepted
  <2>1. file /\ ~finalizing
    BY SenderAssumption DEF TInv, FileIsHeld, Threads
  <2>2. inFlight = {} /\ Cardinality(completed) = Size /\ Tiles(completed)
    BY AllPartsHeld DEF TInv, Busy
  <2> QED
    BY <2>1, <2>2
<1> QED
  BY <1>1, TransferInvariance, PTL

\* Send waits at its gate only while every slot is held by a worker that has
\* yet to give it back, for every limit the adaptive policy may choose.
THEOREM GateWakes == TransferSpec => []WaiterIsWoken
<1>1. TInv => WaiterIsWoken
  BY DEF TInv, SInv, GateCounts, WaiterIsWoken
<1> QED
  BY <1>1, TransferInvariance, PTL

\* While nobody owns the close of a closed session of an honest sender, the
\* descriptor of its staged file is closed: its complete request never meets
\* the gap at which Complete would leave it open.
DescriptorIsReleased ==
    closed /\ (\A t \in Threads : pc[t] \notin FinalizingPcs) => ~handle

\* However the transfer of an honest sender ends, the descriptor is closed.
THEOREM DescriptorReleased == TransferSpec => []DescriptorIsReleased
<1>1. TInv => DescriptorIsReleased
  BY DEF TInv, FileIsHeld, DescriptorIsReleased, FinalizingPcs
<1> QED
  BY <1>1, TransferInvariance, PTL

---------------------------------------------------------------------------
(* The promise of FileDelivery.                                            *)

\* What a step of the receiver does to the file and to the outcome.
Pending == Outcome \notin Terminal
Kept == UNCHANGED <<published, Outcome>>
Begins == UNCHANGED published /\ Pending /\ Pending'
Delivers == ~published /\ published' /\ Pending /\ UNCHANGED Outcome
Settles == /\ UNCHANGED published /\ Pending
           /\ Outcome' = IF published THEN "done" ELSE "failed"
Promised == Kept \/ Begins \/ Delivers \/ Settles

\* Each step of the receiver keeps its side of the promise, if a crash does
\* not take away an outcome that the store had refused.
LEMMA PromiseKeeping ==
    ASSUME IInv, Received, Restart => override = "none"
    PROVE  Promised
<1> USE ThreadAssumption DEF IInv, TypeOK, StatusTypeOK, DataTypeOK, ThreadTypeOK,
   ThreadKinds, FinalizerOwnsClose, SingleFinalizer, NothingBeforeStart,
   OutcomeFollowsFile, UndecidedPcs, FinalizingPcs, CompletePcs, Outcome,
   Terminal, Promised, Kept, Begins, Delivers, Settles, Pending, Goto, Answer,
   Threads, session, receiver, disk, record, calls, bounds
<1>0. CASE UNCHANGED vars
  BY <1>0 DEF vars
<1>1. CASE StartIncomingTransferSession
  BY <1>1 DEF StartIncomingTransferSession
<1>2. CASE RefuseStart
  BY <1>2 DEF RefuseStart
<1>3. CASE Restart
  BY <1>3 DEF Restart
<1>4. ASSUME NEW t \in PartCalls, LookupPart(t, Chunk(t[1]))
      PROVE  Promised
  BY <1>4 DEF LookupPart
<1>5. ASSUME CompleteSent, LookupComplete(CompleteCall, Size)
      PROVE  Promised
  BY <1>5 DEF LookupComplete
<1>6. ASSUME NEW t \in PartCalls, EnterPart(t) PROVE Promised
  BY <1>6 DEF EnterPart
<1>7. ASSUME NEW t \in PartCalls, BeginWrite(t) PROVE Promised
  BY <1>7 DEF BeginWrite
<1>8. ASSUME NEW t \in PartCalls, WriteBody(t) PROVE Promised
  BY <1>8 DEF WriteBody
<1>9. ASSUME NEW t \in PartCalls, BreakBody(t) PROVE Promised
  BY <1>9 DEF BreakBody
<1>10. ASSUME NEW t \in PartCalls, EndWrite(t) PROVE Promised
  BY <1>10 DEF EndWrite
<1>11. ASSUME NEW t \in PartCalls, ExitPart(t) PROVE Promised
  BY <1>11 DEF ExitPart
<1>12. ASSUME NEW t \in PartCalls, PublishProgress(t) PROVE Promised
  BY <1>12 DEF PublishProgress
<1>13. ASSUME NEW t \in PartCalls, ExitPartOnError(t) PROVE Promised
  BY <1>13 DEF ExitPartOnError
<1>14. ASSUME NEW t \in CompleteCalls, ReceiverComplete(t) PROVE Promised
  BY <1>14 DEF ReceiverComplete
<1>15. ASSUME NEW t \in CompleteCalls, CommitFile(t) PROVE Promised
  BY <1>15 DEF CommitFile, RemoveStaged
<1>16. ASSUME NEW t \in CompleteCalls, FailCommit(t) PROVE Promised
  BY <1>16 DEF FailCommit
<1>17. ASSUME NEW t \in CompleteCalls, MarkDone(t) PROVE Promised
  BY <1>17 DEF MarkDone
<1>18. ASSUME NEW t \in Threads, BeginFinalization(t) PROVE Promised
  BY <1>18 DEF BeginFinalization, LoseClose
<1>19. ASSUME NEW t \in Threads, MarkFailed(t) PROVE Promised
  BY <1>19 DEF MarkFailed
<1>20. ASSUME NEW t \in Threads, Cleanup(t) PROVE Promised
  BY <1>20 DEF Cleanup, RemoveStaged
<1>21. ASSUME NEW t \in Threads, PersistOutcome(t) PROVE Promised
  BY <1>21 DEF PersistOutcome
<1>22. ASSUME NEW t \in Threads, Unregister(t) PROVE Promised
  BY <1>22 DEF Unregister
<1>23. ASSUME NEW t \in Threads, Announce(t) PROVE Promised
  BY <1>23 DEF Announce
<1>24. ASSUME NEW t \in Expiries, FireTimer(t) PROVE Promised
  BY <1>24 DEF FireTimer
<1>25. ASSUME NEW t \in Expiries, CheckExpiry(t) PROVE Promised
  BY <1>25 DEF CheckExpiry
<1> QED
  BY <1>0, <1>1, <1>2, <1>3, <1>4, <1>5, <1>6, <1>7, <1>8, <1>9, <1>10, <1>11,
     <1>12, <1>13, <1>14, <1>15, <1>16, <1>17, <1>18, <1>19, <1>20, <1>21,
     <1>22, <1>23, <1>24, <1>25, Zenon
     DEF Received, ServerStep, PartStep, CompleteStep, FinalizeStep, ExpireStep

\* Who answers that the transfer is done has stored it, and nobody stores
\* another outcome.
LEMMA AnswerTruthStep ==
    ASSUME IInv, AnswersAreLast, AnsweredTruly, Received, Restart => override =
       "none"
    PROVE  AnsweredTruly'
<1> USE ThreadAssumption, SenderAssumption DEF IInv, TypeOK, StatusTypeOK,
   DataTypeOK, ThreadTypeOK, ThreadKinds, FinalizerOwnsClose, SingleFinalizer,
   NothingBeforeStart, OutcomeFollowsFile, UndecidedPcs, FinalizingPcs,
   CompletePcs, Outcome, Terminal, AnswersAreLast, AnsweredTruly, Goto, Answer,
   Threads, Callers, session, receiver, disk, record, calls, bounds
<1>0. CASE UNCHANGED vars
  BY <1>0 DEF vars
<1>1. CASE StartIncomingTransferSession
  BY <1>1 DEF StartIncomingTransferSession
<1>2. CASE RefuseStart
  BY <1>2 DEF RefuseStart
<1>3. CASE Restart
  BY <1>3 DEF Restart
<1>4. ASSUME NEW t \in PartCalls, LookupPart(t, Chunk(t[1]))
      PROVE  AnsweredTruly'
  BY <1>4 DEF LookupPart
<1>5. ASSUME CompleteSent, LookupComplete(CompleteCall, Size)
      PROVE  AnsweredTruly'
  BY <1>5 DEF LookupComplete
<1>6. ASSUME NEW t \in PartCalls, EnterPart(t) PROVE AnsweredTruly'
  BY <1>6 DEF EnterPart
<1>7. ASSUME NEW t \in PartCalls, BeginWrite(t) PROVE AnsweredTruly'
  BY <1>7 DEF BeginWrite
<1>8. ASSUME NEW t \in PartCalls, WriteBody(t) PROVE AnsweredTruly'
  BY <1>8 DEF WriteBody
<1>9. ASSUME NEW t \in PartCalls, BreakBody(t) PROVE AnsweredTruly'
  BY <1>9 DEF BreakBody
<1>10. ASSUME NEW t \in PartCalls, EndWrite(t) PROVE AnsweredTruly'
  BY <1>10 DEF EndWrite
<1>11. ASSUME NEW t \in PartCalls, ExitPart(t) PROVE AnsweredTruly'
  BY <1>11 DEF ExitPart
<1>12. ASSUME NEW t \in PartCalls, PublishProgress(t) PROVE AnsweredTruly'
  BY <1>12 DEF PublishProgress
<1>13. ASSUME NEW t \in PartCalls, ExitPartOnError(t) PROVE AnsweredTruly'
  BY <1>13 DEF ExitPartOnError
<1>14. ASSUME NEW t \in CompleteCalls, ReceiverComplete(t) PROVE AnsweredTruly'
  BY <1>14 DEF ReceiverComplete
<1>15. ASSUME NEW t \in CompleteCalls, CommitFile(t) PROVE AnsweredTruly'
  BY <1>15 DEF CommitFile, RemoveStaged
<1>16. ASSUME NEW t \in CompleteCalls, FailCommit(t) PROVE AnsweredTruly'
  BY <1>16 DEF FailCommit
<1>17. ASSUME NEW t \in CompleteCalls, MarkDone(t) PROVE AnsweredTruly'
  BY <1>17 DEF MarkDone
<1>18. ASSUME NEW t \in Threads, BeginFinalization(t) PROVE AnsweredTruly'
  BY <1>18 DEF BeginFinalization, LoseClose
<1>19. ASSUME NEW t \in Threads, MarkFailed(t) PROVE AnsweredTruly'
  BY <1>19 DEF MarkFailed
<1>20. ASSUME NEW t \in Threads, Cleanup(t) PROVE AnsweredTruly'
  BY <1>20 DEF Cleanup, RemoveStaged
<1>21. ASSUME NEW t \in Threads, PersistOutcome(t) PROVE AnsweredTruly'
  BY <1>21 DEF PersistOutcome
<1>22. ASSUME NEW t \in Threads, Unregister(t) PROVE AnsweredTruly'
  BY <1>22 DEF Unregister
<1>23. ASSUME NEW t \in Threads, Announce(t) PROVE AnsweredTruly'
  BY <1>23 DEF Announce
<1>24. ASSUME NEW t \in Expiries, FireTimer(t) PROVE AnsweredTruly'
  BY <1>24 DEF FireTimer
<1>25. ASSUME NEW t \in Expiries, CheckExpiry(t) PROVE AnsweredTruly'
  BY <1>25 DEF CheckExpiry
<1> QED
  BY SMTT(40), <1>0, <1>1, <1>2, <1>3, <1>4, <1>5, <1>6, <1>7, <1>8, <1>9, <1>10, <1>11,
     <1>12, <1>13, <1>14, <1>15, <1>16, <1>17, <1>18, <1>19, <1>20, <1>21,
     <1>22, <1>23, <1>24, <1>25, Zenon
     DEF Received, ServerStep, PartStep, CompleteStep, FinalizeStep, ExpireStep

\* The sender gives its transfer one outcome, and a good one only when it was
\* told so.
LEMMA SenderEndsOnce ==
    ASSUME SInv, SenderStep
    PROVE  \/ UNCHANGED outcome
           \/ /\ outcome = "sending" /\ outcome' \in Terminal
              /\ outcome' = "done" => reply[CompleteCall] = "ok"
<1>1. outcome = "sending" <=> sender # "ended"
  BY DEF SInv, SenderInOrder
<1>2. CASE StartReturns \/ FinishParts
  BY <1>1, <1>2 DEF StartReturns, FinishParts, End, Terminal
<1>3. CASE CompleteReturns
  BY <1>1, <1>3 DEF CompleteReturns, End, Terminal
<1>4. CASE ~(StartReturns \/ FinishParts \/ CompleteReturns)
  BY <1>4 DEF SenderStep, LeaveLoop, WaitForSlot, LaunchPart, ReadFails, AbortSend,
     WakeCancelled, SetLimit, SendAttempt, UploadReturns, Release
<1> QED
  BY <1>2, <1>3, <1>4

PInv == TInv /\ AnsweredTruly

\* With at most one fault a crash finds no outcome that only memory holds.
LEMMA CrashFindsOutcome ==
    ASSUME PInv, MaxFaults <= 1, Restart
    PROVE  override = "none"
<1>1. /\ storeFailures \in Nat /\ restarts \in Nat /\ removeFailures \in Nat
      /\ storeFailures + restarts + removeFailures < MaxFaults
  BY DEF PInv, TInv, IInv, TypeOK, DataTypeOK, Restart, FaultLeft
<1>2. ~(storeFailures > 0)
  BY <1>1, BoundAssumption
<1> QED
  BY <1>2 DEF PInv, AnsweredTruly

\* Each step of the transfer is a step of the promise, or changes nothing that
\* its users see.
LEMMA PromiseStep ==
    ASSUME PInv, MaxFaults <= 1, [TransferNext]_allVars
    PROVE  [Delivery!Next]_(Delivery!vars)
<1> USE DEF Delivery!vars, Delivery!Next, Delivery!Deliver, Delivery!ReceiverEnds,
        Delivery!SenderEnds
<1>1. Received /\ ((SenderStep /\ UNCHANGED vars) \/ UNCHANGED senderVars)
  BY EitherSide DEF PInv, TInv, SInv
<1>2. CASE UNCHANGED senderVars
  <2>1. Promised
    BY <1>1, PromiseKeeping, CrashFindsOutcome DEF PInv, TInv
  <2> QED
    BY <1>2, <2>1 DEF Promised, Kept, Begins, Delivers, Settles, Pending, Terminal,
       senderVars
<1>3. CASE SenderStep /\ UNCHANGED vars
  <2>1. UNCHANGED <<published, Outcome>>
    BY <1>3 DEF vars, disk, record, Outcome
  <2>2. outcome' = "done" /\ outcome = "sending" => Outcome = "done"
    BY <1>3, SenderEndsOnce, SenderAssumption DEF PInv, TInv, AnsweredTruly, Terminal
  <2>3. \/ UNCHANGED outcome
        \/ outcome = "sending" /\ outcome' \in Terminal
    BY <1>3, SenderEndsOnce DEF PInv, TInv
  <2> QED
    BY <2>1, <2>2, <2>3 DEF Terminal
<1> QED
  BY <1>1, <1>2, <1>3

\* The two sides together keep the promise of a file transfer, if at most one
\* thing breaks: with two, a crash may lose an outcome that the store had
\* refused.
THEOREM PromiseKept ==
    ASSUME MaxFaults <= 1
    PROVE  TransferSpec => ImplementsFileDelivery
<1>1. TransferInit => PInv
  <2>1. TransferInit => AnsweredTruly
    BY DEF TransferInit, Init, AnsweredTruly, Callers, Threads
  <2> QED
    BY <2>1, TransferInitially DEF PInv
<1>2. TransferInit => Delivery!Init
  BY DEF TransferInit, SenderInit, Init, Delivery!Init, Outcome, Terminal
<1>3. PInv /\ [TransferNext]_allVars => PInv'
  <2> SUFFICES ASSUME PInv, [TransferNext]_allVars PROVE PInv'
    OBVIOUS
  <2>1. Received
    BY EitherSide DEF PInv, TInv, SInv
  <2>2. AnsweredTruly'
    BY <2>1, AnswerTruthStep, CrashFindsOutcome DEF PInv, TInv
  <2> QED
    BY <2>2, TransferInductive DEF PInv
<1>4. PInv /\ [TransferNext]_allVars => [Delivery!Next]_(Delivery!vars)
  BY PromiseStep
<1> QED
  BY <1>1, <1>2, <1>3, <1>4, PTL DEF TransferSpec, ImplementsFileDelivery, Delivery!Spec
---------------------------------------------------------------------------
(* What the success shown to the sender means after any number of faults.  *)

\* A good answer to the complete request is given for a delivered file only.
AnsweredDelivered ==
    \A t \in CompleteCalls :
        /\ reply[t] = "ok" => published
        /\ pc[t] \in {"unregister", "announce"} /\ snap[t] = "done" => published

DInv == TInv /\ AnsweredDelivered /\ (outcome = "done" => published)

\* Who answers that the transfer is done has moved the file, which stays where
\* it is, also over a crash.
LEMMA DeliveryStep ==
    ASSUME IInv, AnswersAreLast, AnsweredDelivered, Received
    PROVE  AnsweredDelivered'
<1> USE ThreadAssumption, SenderAssumption DEF IInv, TypeOK, StatusTypeOK,
   DataTypeOK, ThreadTypeOK, ThreadKinds, FinalizerOwnsClose, SingleFinalizer,
   NothingBeforeStart, OutcomeFollowsFile, UndecidedPcs, FinalizingPcs,
   CompletePcs, Outcome, Terminal, AnswersAreLast, AnsweredDelivered, Goto, Answer,
   Threads, Callers, session, receiver, disk, record, calls, bounds
<1>0. CASE UNCHANGED vars
  BY <1>0 DEF vars
<1>1. CASE StartIncomingTransferSession
  BY <1>1 DEF StartIncomingTransferSession
<1>2. CASE RefuseStart
  BY <1>2 DEF RefuseStart
<1>3. CASE Restart
  BY <1>3 DEF Restart
<1>4. ASSUME NEW t \in PartCalls, LookupPart(t, Chunk(t[1]))
      PROVE  AnsweredDelivered'
  BY <1>4 DEF LookupPart
<1>5. ASSUME CompleteSent, LookupComplete(CompleteCall, Size)
      PROVE  AnsweredDelivered'
  BY <1>5 DEF LookupComplete
<1>6. ASSUME NEW t \in PartCalls, EnterPart(t) PROVE AnsweredDelivered'
  BY <1>6 DEF EnterPart
<1>7. ASSUME NEW t \in PartCalls, BeginWrite(t) PROVE AnsweredDelivered'
  BY <1>7 DEF BeginWrite
<1>8. ASSUME NEW t \in PartCalls, WriteBody(t) PROVE AnsweredDelivered'
  BY <1>8 DEF WriteBody
<1>9. ASSUME NEW t \in PartCalls, BreakBody(t) PROVE AnsweredDelivered'
  BY <1>9 DEF BreakBody
<1>10. ASSUME NEW t \in PartCalls, EndWrite(t) PROVE AnsweredDelivered'
  BY <1>10 DEF EndWrite
<1>11. ASSUME NEW t \in PartCalls, ExitPart(t) PROVE AnsweredDelivered'
  BY <1>11 DEF ExitPart
<1>12. ASSUME NEW t \in PartCalls, PublishProgress(t) PROVE AnsweredDelivered'
  BY <1>12 DEF PublishProgress
<1>13. ASSUME NEW t \in PartCalls, ExitPartOnError(t) PROVE AnsweredDelivered'
  BY <1>13 DEF ExitPartOnError
<1>14. ASSUME NEW t \in CompleteCalls, ReceiverComplete(t) PROVE AnsweredDelivered'
  BY <1>14 DEF ReceiverComplete
<1>15. ASSUME NEW t \in CompleteCalls, CommitFile(t) PROVE AnsweredDelivered'
  BY <1>15 DEF CommitFile, RemoveStaged
<1>16. ASSUME NEW t \in CompleteCalls, FailCommit(t) PROVE AnsweredDelivered'
  BY <1>16 DEF FailCommit
<1>17. ASSUME NEW t \in CompleteCalls, MarkDone(t) PROVE AnsweredDelivered'
  BY <1>17 DEF MarkDone
<1>18. ASSUME NEW t \in Threads, BeginFinalization(t) PROVE AnsweredDelivered'
  BY <1>18 DEF BeginFinalization, LoseClose
<1>19. ASSUME NEW t \in Threads, MarkFailed(t) PROVE AnsweredDelivered'
  BY <1>19 DEF MarkFailed
<1>20. ASSUME NEW t \in Threads, Cleanup(t) PROVE AnsweredDelivered'
  BY <1>20 DEF Cleanup, RemoveStaged
<1>21. ASSUME NEW t \in Threads, PersistOutcome(t) PROVE AnsweredDelivered'
  BY <1>21 DEF PersistOutcome
<1>22. ASSUME NEW t \in Threads, Unregister(t) PROVE AnsweredDelivered'
  BY <1>22 DEF Unregister
<1>23. ASSUME NEW t \in Threads, Announce(t) PROVE AnsweredDelivered'
  BY <1>23 DEF Announce
<1>24. ASSUME NEW t \in Expiries, FireTimer(t) PROVE AnsweredDelivered'
  BY <1>24 DEF FireTimer
<1>25. ASSUME NEW t \in Expiries, CheckExpiry(t) PROVE AnsweredDelivered'
  BY <1>25 DEF CheckExpiry
<1> HIDE DEF AnsweredDelivered
<1> QED
  BY SMTT(40), <1>0, <1>1, <1>2, <1>3, <1>4, <1>5, <1>6, <1>7, <1>8, <1>9, <1>10, <1>11,
     <1>12, <1>13, <1>14, <1>15, <1>16, <1>17, <1>18, <1>19, <1>20, <1>21,
     <1>22, <1>23, <1>24, <1>25, Zenon
     DEF Received, ServerStep, PartStep, CompleteStep, FinalizeStep, ExpireStep

\* A delivered file is never taken away: what the receiver does afterwards, a
\* failing store and a crash leave it alone.
LEMMA FileStays ==
    ASSUME Received, published
    PROVE  published'
<1> USE DEF vars, session, receiver, disk, record, calls, bounds
<1>1. CASE StartIncomingTransferSession \/ RefuseStart \/ Restart \/ UNCHANGED vars
  BY <1>1 DEF StartIncomingTransferSession, RefuseStart, Restart
<1>2. ASSUME NEW t \in PartCalls, LookupPart(t, Chunk(t[1])) PROVE published'
  BY <1>2 DEF LookupPart
<1>3. CASE LookupComplete(CompleteCall, Size)
  BY <1>3 DEF LookupComplete
<1>4. ASSUME NEW t \in PartCalls, PartStep(t) PROVE published'
  BY <1>4 DEF PartStep, EnterPart, BeginWrite, WriteBody, BreakBody, EndWrite,
     ExitPart, PublishProgress, ExitPartOnError
<1>5. ASSUME NEW t \in CompleteCalls, CompleteStep(t) PROVE published'
  BY <1>5 DEF CompleteStep, ReceiverComplete, CommitFile, FailCommit, MarkDone
<1>6. ASSUME NEW t \in Threads, FinalizeStep(t) PROVE published'
  BY <1>6 DEF FinalizeStep, BeginFinalization, MarkFailed, Cleanup, PersistOutcome,
     Unregister, Announce
<1>7. ASSUME NEW t \in Expiries, ExpireStep(t) PROVE published'
  BY <1>7 DEF ExpireStep, FireTimer, CheckExpiry
<1> QED
  BY <1>1, <1>2, <1>3, <1>4, <1>5, <1>6, <1>7, Zenon DEF Received, ServerStep

\* Unlike PromiseKept this bounds no fault: stores may fail and the peer may
\* crash as often as they like, before and after the answer.
THEOREM SenderTellsTruth == TransferSpec => []DoneIsDelivered
<1>1. TransferInit => DInv
  <2>1. TransferInit => AnsweredDelivered /\ outcome # "done"
    BY DEF TransferInit, Init, SenderInit, AnsweredDelivered, Callers, Threads
  <2> QED
    BY <2>1, TransferInitially DEF DInv
<1>2. DInv /\ [TransferNext]_allVars => DInv'
  <2> SUFFICES ASSUME DInv, [TransferNext]_allVars PROVE DInv'
    OBVIOUS
  <2>1. Received /\ ((SenderStep /\ UNCHANGED vars) \/ UNCHANGED senderVars)
    BY EitherSide DEF DInv, TInv, SInv
  <2>2. AnsweredDelivered'
    BY <2>1, DeliveryStep DEF DInv, TInv
  <2>3. published => published'
    BY <2>1, FileStays DEF DInv, TInv
  <2>4. outcome' = "done" => outcome = "done" \/ reply[CompleteCall] = "ok"
    <3>1. CASE SenderStep
      BY <3>1, SenderEndsOnce DEF DInv, TInv
    <3>2. CASE UNCHANGED senderVars
      BY <3>2 DEF senderVars
    <3> QED
      BY <2>1, <3>1, <3>2
  <2>5. outcome' = "done" => published'
    BY <2>3, <2>4, SenderAssumption DEF DInv, AnsweredDelivered
  <2> QED
    BY <2>2, <2>5, TransferInductive DEF DInv
<1>3. DInv => DoneIsDelivered
  BY DEF DInv, TInv, IInv, CompletedIsWritten, OutcomeFollowsFile,
     OutcomeMatchesFile, DoneIsDelivered, Outcome
<1> QED
  BY <1>1, <1>2, <1>3, PTL DEF TransferSpec
=============================================================================
