------------------------ MODULE IncomingSessionProofs ------------------------
(***************************************************************************)
(* Proofs about IncomingSession for every number of goroutines, every set  *)
(* of part headers and every file size: the invariant IInv is inductive,   *)
(* and the types, the single finalizer, the completeness of a delivered    *)
(* file and the finality of its outcome follow from it.  The last section  *)
(* is about the scan by which Complete judges the parts.                   *)
(*                                                                         *)
(* The steps that preserve IInv are one lemma per conjunct, with one case  *)
(* per action.  A leaf that assigns Boolean variables is left to Zenon.    *)
(***************************************************************************)
EXTENDS IncomingSession, FiniteSetTheorems, WellFoundedInduction, TLAPS

\* What OutcomeIsFinal says of one step.
OutcomeStays == Outcome \in Terminal => (Outcome' = Outcome \/ restarts' > restarts)

\* Every step keeps the types of the flags and states; in particular, what a
\* finalizer stores is a terminal state.
LEMMA StatusTypeStep ==
    ASSUME StatusTypeOK, ThreadTypeOK, OutcomeFollowsFile, [Next]_vars
    PROVE  StatusTypeOK'
<1> USE DEF StatusTypeOK, session, receiver, disk, record, calls, bounds
<1>0. CASE UNCHANGED vars
  BY <1>0 DEF vars
<1>1. CASE StartIncomingTransferSession
  BY <1>1 DEF StartIncomingTransferSession, TransferStates
<1>2. CASE RefuseStart
  BY <1>2 DEF RefuseStart
<1>3. CASE Restart
  BY <1>3 DEF Restart, TransferStates
<1>4. ASSUME NEW t \in PartCalls, NEW w \in Windows, LookupPart(t, w)
      PROVE  StatusTypeOK'
  BY <1>4 DEF LookupPart
<1>5. ASSUME NEW t \in CompleteCalls, NEW n \in 0 .. MaxPartCount,
             LookupComplete(t, n)
      PROVE  StatusTypeOK'
  BY <1>5 DEF LookupComplete
<1>6. ASSUME NEW t \in PartCalls, EnterPart(t) PROVE StatusTypeOK'
  BY <1>6 DEF EnterPart
<1>7. ASSUME NEW t \in PartCalls, BeginWrite(t) PROVE StatusTypeOK'
  BY <1>7 DEF BeginWrite
<1>8. ASSUME NEW t \in PartCalls, WriteBody(t) PROVE StatusTypeOK'
  BY <1>8 DEF WriteBody
<1>9. ASSUME NEW t \in PartCalls, BreakBody(t) PROVE StatusTypeOK'
  BY <1>9 DEF BreakBody
<1>10. ASSUME NEW t \in PartCalls, EndWrite(t) PROVE StatusTypeOK'
  BY <1>10 DEF EndWrite
<1>11. ASSUME NEW t \in PartCalls, ExitPart(t) PROVE StatusTypeOK'
  BY <1>11 DEF ExitPart
<1>12. ASSUME NEW t \in PartCalls, PublishProgress(t) PROVE StatusTypeOK'
  BY <1>12 DEF PublishProgress, EventState, ThreadTypeOK, Threads,
     TransferStates
<1>13. ASSUME NEW t \in PartCalls, ExitPartOnError(t) PROVE StatusTypeOK'
  BY <1>13 DEF ExitPartOnError
<1>14. ASSUME NEW t \in CompleteCalls, ReceiverComplete(t) PROVE StatusTypeOK'
  <2>1. UNCHANGED <<started, inMap, closed, timer, state, handle, tempPath,
                    tempExists, published, db, override, shown>>
    BY <1>14 DEF ReceiverComplete
  <2>2. finalizing' \in BOOLEAN /\ file' \in BOOLEAN
    BY <1>14, Zenon DEF ReceiverComplete
  <2> QED
    BY <2>1, <2>2, ZenonT(40)
<1>15. ASSUME NEW t \in CompleteCalls, CommitFile(t) PROVE StatusTypeOK'
  <2>1. UNCHANGED <<started, inMap, closed, timer, state, file, db, override,
                    shown>>
    BY <1>15 DEF CommitFile, RemoveStaged
  <2>2. handle' \in BOOLEAN /\ finalizing' \in BOOLEAN /\ tempPath' \in BOOLEAN
        /\ tempExists' \in BOOLEAN /\ published' \in BOOLEAN
    BY <1>15, Zenon DEF CommitFile, RemoveStaged
  <2> QED
    BY <2>1, <2>2, Zenon
<1>16. ASSUME NEW t \in CompleteCalls, FailCommit(t) PROVE StatusTypeOK'
  <2>1. UNCHANGED <<started, inMap, closed, timer, state, file, published, db,
                    override, shown>>
    BY <1>16 DEF FailCommit
  <2>2. finalizing' \in BOOLEAN /\ tempPath' \in BOOLEAN /\ handle' \in BOOLEAN
        /\ tempExists' \in BOOLEAN
    BY <1>16, Zenon DEF FailCommit
  <2> QED
    BY <2>1, <2>2, Zenon
<1>17. ASSUME NEW t \in CompleteCalls, MarkDone(t) PROVE StatusTypeOK'
  BY <1>17 DEF MarkDone, TransferStates
<1>18. ASSUME NEW t \in Threads, BeginFinalization(t) PROVE StatusTypeOK'
  <2>1. UNCHANGED <<started, inMap, state, file, handle, finalizing, tempPath,
                    tempExists, published, db, override, shown>>
    BY <1>18 DEF BeginFinalization
  <2>2. closed' \in BOOLEAN /\ timer' \in {"armed", "stopped"}
    BY <1>18, Zenon DEF BeginFinalization
  <2> QED
    BY <2>1, <2>2, ZenonT(40)
<1>19. ASSUME NEW t \in Threads, MarkFailed(t) PROVE StatusTypeOK'
  BY <1>19 DEF MarkFailed, TransferStates
<1>20. ASSUME NEW t \in Threads, Cleanup(t) PROVE StatusTypeOK'
  <2>1. UNCHANGED <<started, inMap, closed, timer, state, finalizing,
                    published, db, override, shown>>
    BY <1>20 DEF Cleanup, RemoveStaged
  <2>2. file' \in BOOLEAN /\ handle' \in BOOLEAN /\ tempPath' \in BOOLEAN /\
        tempExists' \in BOOLEAN
    BY <1>20, Zenon DEF Cleanup, RemoveStaged
  <2> QED
    BY <2>1, <2>2, Zenon
<1>21. ASSUME NEW t \in Threads, PersistOutcome(t) PROVE StatusTypeOK'
  BY <1>21 DEF PersistOutcome, OutcomeFollowsFile, Terminal, TransferStates
<1>22. ASSUME NEW t \in Threads, Unregister(t) PROVE StatusTypeOK'
  <2>1. UNCHANGED <<started, closed, state, file, handle, finalizing, tempPath,
                    tempExists, published, db, override, shown>>
    BY <1>22 DEF Unregister
  <2>2. inMap' \in BOOLEAN /\ timer' \in {"armed", "stopped"}
    BY <1>22, Zenon DEF Unregister
  <2> QED
    BY <2>1, <2>2, ZenonT(40)
<1>23. ASSUME NEW t \in Threads, Announce(t) PROVE StatusTypeOK'
  BY <1>23 DEF Announce, EventState, ThreadTypeOK, Threads, TransferStates
<1>24. ASSUME NEW t \in Expiries, FireTimer(t) PROVE StatusTypeOK'
  BY <1>24 DEF FireTimer
<1>25. ASSUME NEW t \in Expiries, CheckExpiry(t) PROVE StatusTypeOK'
  BY <1>25 DEF CheckExpiry
<1> QED
  BY <1>0, <1>1, <1>2, <1>3, <1>4, <1>5, <1>6, <1>7, <1>8, <1>9, <1>10, <1>11,
     <1>12, <1>13, <1>14, <1>15, <1>16, <1>17, <1>18, <1>19, <1>20, <1>21,
     <1>22, <1>23, <1>24, <1>25
     DEF Next, ServerStep, PartStep, CompleteStep, FinalizeStep, ExpireStep


\* Every step keeps the types of the counters and sets: only headers that were
\* received and are valid are marked in flight and counted as complete.
LEMMA DataTypeStep ==
    ASSUME DataTypeOK, ThreadTypeOK, WritersAreMarked, [Next]_vars
    PROVE  DataTypeOK'
<1> USE DEF DataTypeOK, session, receiver, disk, record, calls, bounds
<1>0. CASE UNCHANGED vars
  BY <1>0 DEF vars
<1>1. CASE StartIncomingTransferSession
  BY <1>1 DEF StartIncomingTransferSession
<1>2. CASE RefuseStart
  BY <1>2 DEF RefuseStart
<1>3. CASE Restart
  BY <1>3 DEF Restart
<1>4. ASSUME NEW t \in PartCalls, NEW w \in Windows, LookupPart(t, w)
      PROVE  DataTypeOK'
  BY <1>4 DEF LookupPart
<1>5. ASSUME NEW t \in CompleteCalls, NEW n \in 0 .. MaxPartCount,
             LookupComplete(t, n)
      PROVE  DataTypeOK'
  BY <1>5 DEF LookupComplete
<1>6. ASSUME NEW t \in PartCalls, EnterPart(t) PROVE DataTypeOK'
  BY <1>6 DEF EnterPart
<1>7. ASSUME NEW t \in PartCalls, BeginWrite(t) PROVE DataTypeOK'
  <2>1. req[t] \in Windows \/ ~ValidWindow(req[t])
    BY DEF ThreadTypeOK, ValidWindow, NoWindow
  <2> QED
    BY <1>7, <2>1 DEF BeginWrite, PartsOf
<1>8. ASSUME NEW t \in PartCalls, WriteBody(t) PROVE DataTypeOK'
  <2>1. req[t].off \in Int /\ req[t].len \in Int
    BY WindowAssumption DEF ThreadTypeOK, NoWindow
  <2>2. CellsOf(req[t]) \subseteq Int
    BY <2>1 DEF CellsOf
  <2> QED
    BY <1>8, <2>2 DEF WriteBody
<1>9. ASSUME NEW t \in PartCalls, BreakBody(t) PROVE DataTypeOK'
  <2>1. PICK n \in 0 .. (req[t].len - 1) :
            cells' = cells \cup (req[t].off .. (req[t].off + n - 1))
    BY <1>9 DEF BreakBody
  <2>2. req[t].off \in Int /\ req[t].len \in Int
    BY WindowAssumption DEF ThreadTypeOK, NoWindow
  <2>3. n \in Int
    BY <2>2
  <2>4. (req[t].off .. (req[t].off + n - 1)) \subseteq Int
    BY <2>2, <2>3
  <2> QED
    BY <1>9, <2>1, <2>4 DEF BreakBody
<1>10. ASSUME NEW t \in PartCalls, EndWrite(t) PROVE DataTypeOK'
  <2>1. req[t].len \in Int
    BY WindowAssumption DEF ThreadTypeOK, NoWindow
  <2>2. pc[t] = "wrote" => req[t] \in Windows
    BY DEF ThreadTypeOK, WritersAreMarked, WritingPcs, ValidWindow, NoWindow
  <2>3. completed' \subseteq Windows
    BY <1>10, <2>2 DEF EndWrite
  <2>4. bytesWritten' \in Int
    BY <1>10, <2>1 DEF EndWrite
  <2> QED
    BY <1>10, <2>3, <2>4 DEF EndWrite
<1>11. ASSUME NEW t \in PartCalls, ExitPart(t) PROVE DataTypeOK'
  BY <1>11 DEF ExitPart
<1>12. ASSUME NEW t \in PartCalls, PublishProgress(t) PROVE DataTypeOK'
  BY <1>12 DEF PublishProgress
<1>13. ASSUME NEW t \in PartCalls, ExitPartOnError(t) PROVE DataTypeOK'
  BY <1>13 DEF ExitPartOnError
<1>14. ASSUME NEW t \in CompleteCalls, ReceiverComplete(t) PROVE DataTypeOK'
  BY <1>14 DEF ReceiverComplete
<1>15. ASSUME NEW t \in CompleteCalls, CommitFile(t) PROVE DataTypeOK'
  BY <1>15 DEF CommitFile, RemoveStaged
<1>16. ASSUME NEW t \in CompleteCalls, FailCommit(t) PROVE DataTypeOK'
  BY <1>16 DEF FailCommit
<1>17. ASSUME NEW t \in CompleteCalls, MarkDone(t) PROVE DataTypeOK'
  BY <1>17 DEF MarkDone
<1>18. ASSUME NEW t \in Threads, BeginFinalization(t) PROVE DataTypeOK'
  BY <1>18 DEF BeginFinalization
<1>19. ASSUME NEW t \in Threads, MarkFailed(t) PROVE DataTypeOK'
  BY <1>19 DEF MarkFailed
<1>20. ASSUME NEW t \in Threads, Cleanup(t) PROVE DataTypeOK'
  BY <1>20 DEF Cleanup, RemoveStaged
<1>21. ASSUME NEW t \in Threads, PersistOutcome(t) PROVE DataTypeOK'
  BY <1>21 DEF PersistOutcome
<1>22. ASSUME NEW t \in Threads, Unregister(t) PROVE DataTypeOK'
  BY <1>22 DEF Unregister
<1>23. ASSUME NEW t \in Threads, Announce(t) PROVE DataTypeOK'
  BY <1>23 DEF Announce
<1>24. ASSUME NEW t \in Expiries, FireTimer(t) PROVE DataTypeOK'
  BY <1>24 DEF FireTimer
<1>25. ASSUME NEW t \in Expiries, CheckExpiry(t) PROVE DataTypeOK'
  BY <1>25 DEF CheckExpiry
<1> QED
  BY <1>0, <1>1, <1>2, <1>3, <1>4, <1>5, <1>6, <1>7, <1>8, <1>9, <1>10, <1>11,
     <1>12, <1>13, <1>14, <1>15, <1>16, <1>17, <1>18, <1>19, <1>20, <1>21,
     <1>22, <1>23, <1>24, <1>25
     DEF Next, ServerStep, PartStep, CompleteStep, FinalizeStep, ExpireStep


\* Every step keeps the types of what the goroutines hold.
LEMMA ThreadTypeStep ==
    ASSUME StatusTypeOK, ThreadTypeOK, [Next]_vars
    PROVE  ThreadTypeOK'
<1> USE DEF ThreadTypeOK, Goto, Answer, LoseClose, Threads, Callers, Pcs,
        PartPcs, CountedPcs, WritingPcs, ErrorPcs, FinalizingPcs, session,
        receiver, disk, record, calls, bounds
<1>0. CASE UNCHANGED vars
  BY <1>0 DEF vars
<1>1. CASE StartIncomingTransferSession
  BY <1>1 DEF StartIncomingTransferSession
<1>2. CASE RefuseStart
  BY <1>2 DEF RefuseStart
<1>3. CASE Restart
  BY <1>3 DEF Restart
<1>4. ASSUME NEW t \in PartCalls, NEW w \in Windows, LookupPart(t, w)
      PROVE  ThreadTypeOK'
  BY <1>4 DEF LookupPart
<1>5. ASSUME NEW t \in CompleteCalls, NEW n \in 0 .. MaxPartCount,
             LookupComplete(t, n)
      PROVE  ThreadTypeOK'
  BY <1>5 DEF LookupComplete
<1>6. ASSUME NEW t \in PartCalls, EnterPart(t) PROVE ThreadTypeOK'
  BY <1>6 DEF EnterPart
<1>7. ASSUME NEW t \in PartCalls, BeginWrite(t) PROVE ThreadTypeOK'
  BY <1>7 DEF BeginWrite
<1>8. ASSUME NEW t \in PartCalls, WriteBody(t) PROVE ThreadTypeOK'
  BY <1>8 DEF WriteBody
<1>9. ASSUME NEW t \in PartCalls, BreakBody(t) PROVE ThreadTypeOK'
  BY <1>9 DEF BreakBody
<1>10. ASSUME NEW t \in PartCalls, EndWrite(t) PROVE ThreadTypeOK'
  BY <1>10 DEF EndWrite
<1>11. ASSUME NEW t \in PartCalls, ExitPart(t) PROVE ThreadTypeOK'
  BY <1>11 DEF ExitPart, StatusTypeOK, TransferStates
<1>12. ASSUME NEW t \in PartCalls, PublishProgress(t) PROVE ThreadTypeOK'
  BY <1>12 DEF PublishProgress
<1>13. ASSUME NEW t \in PartCalls, ExitPartOnError(t) PROVE ThreadTypeOK'
  BY <1>13 DEF ExitPartOnError
<1>14. ASSUME NEW t \in CompleteCalls, ReceiverComplete(t) PROVE ThreadTypeOK'
  BY <1>14 DEF ReceiverComplete
<1>15. ASSUME NEW t \in CompleteCalls, CommitFile(t) PROVE ThreadTypeOK'
  BY <1>15 DEF CommitFile, RemoveStaged
<1>16. ASSUME NEW t \in CompleteCalls, FailCommit(t) PROVE ThreadTypeOK'
  BY <1>16 DEF FailCommit
<1>17. ASSUME NEW t \in CompleteCalls, MarkDone(t) PROVE ThreadTypeOK'
  BY <1>17 DEF MarkDone, StatusTypeOK, TransferStates
<1>18. ASSUME NEW t \in Threads, BeginFinalization(t) PROVE ThreadTypeOK'
  BY <1>18 DEF BeginFinalization
<1>19. ASSUME NEW t \in Threads, MarkFailed(t) PROVE ThreadTypeOK'
  BY <1>19 DEF MarkFailed, StatusTypeOK, TransferStates
<1>20. ASSUME NEW t \in Threads, Cleanup(t) PROVE ThreadTypeOK'
  BY <1>20 DEF Cleanup, RemoveStaged
<1>21. ASSUME NEW t \in Threads, PersistOutcome(t) PROVE ThreadTypeOK'
  BY <1>21 DEF PersistOutcome
<1>22. ASSUME NEW t \in Threads, Unregister(t) PROVE ThreadTypeOK'
  BY <1>22 DEF Unregister
<1>23. ASSUME NEW t \in Threads, Announce(t) PROVE ThreadTypeOK'
  BY <1>23 DEF Announce
<1>24. ASSUME NEW t \in Expiries, FireTimer(t) PROVE ThreadTypeOK'
  BY <1>24 DEF FireTimer
<1>25. ASSUME NEW t \in Expiries, CheckExpiry(t) PROVE ThreadTypeOK'
  BY <1>25 DEF CheckExpiry
<1> QED
  BY <1>0, <1>1, <1>2, <1>3, <1>4, <1>5, <1>6, <1>7, <1>8, <1>9, <1>10, <1>11,
     <1>12, <1>13, <1>14, <1>15, <1>16, <1>17, <1>18, <1>19, <1>20, <1>21,
     <1>22, <1>23, <1>24, <1>25
     DEF Next, ServerStep, PartStep, CompleteStep, FinalizeStep, ExpireStep


\* A goroutine never leaves the code of its own handler.
LEMMA ThreadKindsStep ==
    ASSUME ThreadTypeOK, ThreadKinds, [Next]_vars
    PROVE  ThreadKinds'
<1> USE DEF ThreadTypeOK, ThreadKinds, Goto, Answer, LoseClose, Threads,
        CompletePcs, CountedPcs, WritingPcs, ErrorPcs
<1>0. CASE UNCHANGED vars
  BY <1>0 DEF vars
<1>1. CASE StartIncomingTransferSession
  BY <1>1, ThreadAssumption DEF StartIncomingTransferSession
<1>2. CASE RefuseStart
  BY <1>2, ThreadAssumption DEF RefuseStart
<1>3. CASE Restart
  BY <1>3, ThreadAssumption DEF Restart
<1>4. ASSUME NEW t \in PartCalls, NEW w \in Windows, LookupPart(t, w)
      PROVE  ThreadKinds'
  BY <1>4, ThreadAssumption DEF LookupPart
<1>5. ASSUME NEW t \in CompleteCalls, NEW n \in 0 .. MaxPartCount,
             LookupComplete(t, n)
      PROVE  ThreadKinds'
  BY <1>5, ThreadAssumption DEF LookupComplete
<1>6. ASSUME NEW t \in PartCalls, EnterPart(t) PROVE ThreadKinds'
  BY <1>6, ThreadAssumption DEF EnterPart
<1>7. ASSUME NEW t \in PartCalls, BeginWrite(t) PROVE ThreadKinds'
  BY <1>7, ThreadAssumption DEF BeginWrite
<1>8. ASSUME NEW t \in PartCalls, WriteBody(t) PROVE ThreadKinds'
  BY <1>8, ThreadAssumption DEF WriteBody
<1>9. ASSUME NEW t \in PartCalls, BreakBody(t) PROVE ThreadKinds'
  BY <1>9, ThreadAssumption DEF BreakBody
<1>10. ASSUME NEW t \in PartCalls, EndWrite(t) PROVE ThreadKinds'
  BY <1>10, ThreadAssumption DEF EndWrite
<1>11. ASSUME NEW t \in PartCalls, ExitPart(t) PROVE ThreadKinds'
  BY <1>11, ThreadAssumption DEF ExitPart
<1>12. ASSUME NEW t \in PartCalls, PublishProgress(t) PROVE ThreadKinds'
  BY <1>12, ThreadAssumption DEF PublishProgress
<1>13. ASSUME NEW t \in PartCalls, ExitPartOnError(t) PROVE ThreadKinds'
  BY <1>13, ThreadAssumption DEF ExitPartOnError
<1>14. ASSUME NEW t \in CompleteCalls, ReceiverComplete(t) PROVE ThreadKinds'
  BY <1>14, ThreadAssumption DEF ReceiverComplete
<1>15. ASSUME NEW t \in CompleteCalls, CommitFile(t) PROVE ThreadKinds'
  BY <1>15, ThreadAssumption DEF CommitFile, RemoveStaged
<1>16. ASSUME NEW t \in CompleteCalls, FailCommit(t) PROVE ThreadKinds'
  BY <1>16, ThreadAssumption DEF FailCommit
<1>17. ASSUME NEW t \in CompleteCalls, MarkDone(t) PROVE ThreadKinds'
  BY <1>17, ThreadAssumption DEF MarkDone
<1>18. ASSUME NEW t \in Threads, BeginFinalization(t) PROVE ThreadKinds'
  BY <1>18, ThreadAssumption DEF BeginFinalization
<1>19. ASSUME NEW t \in Threads, MarkFailed(t) PROVE ThreadKinds'
  BY <1>19, ThreadAssumption DEF MarkFailed
<1>20. ASSUME NEW t \in Threads, Cleanup(t) PROVE ThreadKinds'
  BY <1>20, ThreadAssumption DEF Cleanup, RemoveStaged
<1>21. ASSUME NEW t \in Threads, PersistOutcome(t) PROVE ThreadKinds'
  BY <1>21, ThreadAssumption DEF PersistOutcome
<1>22. ASSUME NEW t \in Threads, Unregister(t) PROVE ThreadKinds'
  BY <1>22, ThreadAssumption DEF Unregister
<1>23. ASSUME NEW t \in Threads, Announce(t) PROVE ThreadKinds'
  BY <1>23, ThreadAssumption DEF Announce
<1>24. ASSUME NEW t \in Expiries, FireTimer(t) PROVE ThreadKinds'
  BY <1>24, ThreadAssumption DEF FireTimer
<1>25. ASSUME NEW t \in Expiries, CheckExpiry(t) PROVE ThreadKinds'
  BY <1>25, ThreadAssumption DEF CheckExpiry
<1> QED
  BY <1>0, <1>1, <1>2, <1>3, <1>4, <1>5, <1>6, <1>7, <1>8, <1>9, <1>10, <1>11,
     <1>12, <1>13, <1>14, <1>15, <1>16, <1>17, <1>18, <1>19, <1>20, <1>21,
     <1>22, <1>23, <1>24, <1>25
     DEF Next, ServerStep, PartStep, CompleteStep, FinalizeStep, ExpireStep


\* beginIncomingTransferSessionFinalization lets one goroutine in, and closed
\* keeps every later one out.
LEMMA FinalizerStep ==
    ASSUME ThreadTypeOK, ThreadKinds, FinalizerOwnsClose, NothingBeforeStart,
           [Next]_vars
    PROVE  FinalizerOwnsClose'
<1> USE DEF ThreadTypeOK, FinalizerOwnsClose, SingleFinalizer,
        NothingBeforeStart, FinalizingPcs, Goto, Answer, LoseClose, Threads,
        session, receiver, disk, record, calls, bounds
<1>0. CASE UNCHANGED vars
  BY <1>0 DEF vars
<1>1. CASE StartIncomingTransferSession
  BY <1>1, ThreadAssumption DEF StartIncomingTransferSession
<1>2. CASE RefuseStart
  BY <1>2, ThreadAssumption DEF RefuseStart
<1>3. CASE Restart
  BY <1>3, ThreadAssumption DEF Restart
<1>4. ASSUME NEW t \in PartCalls, NEW w \in Windows, LookupPart(t, w)
      PROVE  FinalizerOwnsClose'
  BY <1>4, ThreadAssumption DEF LookupPart
<1>5. ASSUME NEW t \in CompleteCalls, NEW n \in 0 .. MaxPartCount,
             LookupComplete(t, n)
      PROVE  FinalizerOwnsClose'
  BY <1>5, ThreadAssumption DEF LookupComplete
<1>6. ASSUME NEW t \in PartCalls, EnterPart(t) PROVE FinalizerOwnsClose'
  BY <1>6, ThreadAssumption DEF EnterPart
<1>7. ASSUME NEW t \in PartCalls, BeginWrite(t) PROVE FinalizerOwnsClose'
  BY <1>7, ThreadAssumption DEF BeginWrite
<1>8. ASSUME NEW t \in PartCalls, WriteBody(t) PROVE FinalizerOwnsClose'
  BY <1>8, ThreadAssumption DEF WriteBody
<1>9. ASSUME NEW t \in PartCalls, BreakBody(t) PROVE FinalizerOwnsClose'
  BY <1>9, ThreadAssumption DEF BreakBody
<1>10. ASSUME NEW t \in PartCalls, EndWrite(t) PROVE FinalizerOwnsClose'
  BY <1>10, ThreadAssumption DEF EndWrite
<1>11. ASSUME NEW t \in PartCalls, ExitPart(t) PROVE FinalizerOwnsClose'
  BY <1>11, ThreadAssumption DEF ExitPart
<1>12. ASSUME NEW t \in PartCalls, PublishProgress(t) PROVE FinalizerOwnsClose'
  BY <1>12, ThreadAssumption DEF PublishProgress
<1>13. ASSUME NEW t \in PartCalls, ExitPartOnError(t) PROVE FinalizerOwnsClose'
  BY <1>13, ThreadAssumption DEF ExitPartOnError
<1>14. ASSUME NEW t \in CompleteCalls, ReceiverComplete(t)
      PROVE  FinalizerOwnsClose'
  BY <1>14, ThreadAssumption DEF ReceiverComplete
<1>15. ASSUME NEW t \in CompleteCalls, CommitFile(t) PROVE FinalizerOwnsClose'
  BY <1>15, ThreadAssumption DEF CommitFile, RemoveStaged
<1>16. ASSUME NEW t \in CompleteCalls, FailCommit(t) PROVE FinalizerOwnsClose'
  BY <1>16, ThreadAssumption DEF FailCommit
<1>17. ASSUME NEW t \in CompleteCalls, MarkDone(t) PROVE FinalizerOwnsClose'
  BY <1>17, ThreadAssumption DEF MarkDone
<1>18. ASSUME NEW t \in Threads, BeginFinalization(t) PROVE FinalizerOwnsClose'
  BY <1>18, ThreadAssumption DEF BeginFinalization
<1>19. ASSUME NEW t \in Threads, MarkFailed(t) PROVE FinalizerOwnsClose'
  BY <1>19, ThreadAssumption DEF MarkFailed
<1>20. ASSUME NEW t \in Threads, Cleanup(t) PROVE FinalizerOwnsClose'
  BY <1>20, ThreadAssumption DEF Cleanup, RemoveStaged
<1>21. ASSUME NEW t \in Threads, PersistOutcome(t) PROVE FinalizerOwnsClose'
  BY <1>21, ThreadAssumption DEF PersistOutcome
<1>22. ASSUME NEW t \in Threads, Unregister(t) PROVE FinalizerOwnsClose'
  BY <1>22, ThreadAssumption DEF Unregister
<1>23. ASSUME NEW t \in Threads, Announce(t) PROVE FinalizerOwnsClose'
  BY <1>23, ThreadAssumption DEF Announce
<1>24. ASSUME NEW t \in Expiries, FireTimer(t) PROVE FinalizerOwnsClose'
  BY <1>24, ThreadAssumption DEF FireTimer
<1>25. ASSUME NEW t \in Expiries, CheckExpiry(t) PROVE FinalizerOwnsClose'
  BY <1>25, ThreadAssumption DEF CheckExpiry
<1> QED
  BY <1>0, <1>1, <1>2, <1>3, <1>4, <1>5, <1>6, <1>7, <1>8, <1>9, <1>10, <1>11,
     <1>12, <1>13, <1>14, <1>15, <1>16, <1>17, <1>18, <1>19, <1>20, <1>21,
     <1>22, <1>23, <1>24, <1>25
     DEF Next, ServerStep, PartStep, CompleteStep, FinalizeStep, ExpireStep


\* WritePart writes only a part that it has marked, and nobody else unmarks it.
LEMMA WritersStep ==
    ASSUME ThreadTypeOK, ThreadKinds, WritersAreMarked, NothingBeforeStart,
           [Next]_vars
    PROVE  WritersAreMarked'
<1> USE DEF ThreadTypeOK, WritersAreMarked, PartWrittenOnce,
        NothingBeforeStart, WritingPcs, Goto, Answer, LoseClose, Threads,
        session, receiver, disk, record, calls, bounds
<1>0. CASE UNCHANGED vars
  BY <1>0 DEF vars
<1>1. CASE StartIncomingTransferSession
  BY <1>1, ThreadAssumption DEF StartIncomingTransferSession
<1>2. CASE RefuseStart
  BY <1>2, ThreadAssumption DEF RefuseStart
<1>3. CASE Restart
  BY <1>3, ThreadAssumption DEF Restart
<1>4. ASSUME NEW t \in PartCalls, NEW w \in Windows, LookupPart(t, w)
      PROVE  WritersAreMarked'
  BY <1>4, ThreadAssumption DEF LookupPart
<1>5. ASSUME NEW t \in CompleteCalls, NEW n \in 0 .. MaxPartCount,
             LookupComplete(t, n)
      PROVE  WritersAreMarked'
  BY <1>5, ThreadAssumption DEF LookupComplete
<1>6. ASSUME NEW t \in PartCalls, EnterPart(t) PROVE WritersAreMarked'
  BY <1>6, ThreadAssumption DEF EnterPart
<1>7. ASSUME NEW t \in PartCalls, BeginWrite(t) PROVE WritersAreMarked'
  BY <1>7, ThreadAssumption DEF BeginWrite
<1>8. ASSUME NEW t \in PartCalls, WriteBody(t) PROVE WritersAreMarked'
  BY <1>8, ThreadAssumption DEF WriteBody
<1>9. ASSUME NEW t \in PartCalls, BreakBody(t) PROVE WritersAreMarked'
  BY <1>9, ThreadAssumption DEF BreakBody
<1>10. ASSUME NEW t \in PartCalls, EndWrite(t) PROVE WritersAreMarked'
  BY <1>10, ThreadAssumption DEF EndWrite
<1>11. ASSUME NEW t \in PartCalls, ExitPart(t) PROVE WritersAreMarked'
  BY <1>11, ThreadAssumption DEF ExitPart
<1>12. ASSUME NEW t \in PartCalls, PublishProgress(t) PROVE WritersAreMarked'
  BY <1>12, ThreadAssumption DEF PublishProgress
<1>13. ASSUME NEW t \in PartCalls, ExitPartOnError(t) PROVE WritersAreMarked'
  BY <1>13, ThreadAssumption DEF ExitPartOnError
<1>14. ASSUME NEW t \in CompleteCalls, ReceiverComplete(t)
      PROVE  WritersAreMarked'
  BY <1>14, ThreadAssumption DEF ReceiverComplete
<1>15. ASSUME NEW t \in CompleteCalls, CommitFile(t) PROVE WritersAreMarked'
  BY <1>15, ThreadAssumption DEF CommitFile, RemoveStaged
<1>16. ASSUME NEW t \in CompleteCalls, FailCommit(t) PROVE WritersAreMarked'
  BY <1>16, ThreadAssumption DEF FailCommit
<1>17. ASSUME NEW t \in CompleteCalls, MarkDone(t) PROVE WritersAreMarked'
  BY <1>17, ThreadAssumption DEF MarkDone
<1>18. ASSUME NEW t \in Threads, BeginFinalization(t) PROVE WritersAreMarked'
  BY <1>18, ThreadAssumption DEF BeginFinalization
<1>19. ASSUME NEW t \in Threads, MarkFailed(t) PROVE WritersAreMarked'
  BY <1>19, ThreadAssumption DEF MarkFailed
<1>20. ASSUME NEW t \in Threads, Cleanup(t) PROVE WritersAreMarked'
  BY <1>20, ThreadAssumption DEF Cleanup, RemoveStaged
<1>21. ASSUME NEW t \in Threads, PersistOutcome(t) PROVE WritersAreMarked'
  BY <1>21, ThreadAssumption DEF PersistOutcome
<1>22. ASSUME NEW t \in Threads, Unregister(t) PROVE WritersAreMarked'
  BY <1>22, ThreadAssumption DEF Unregister
<1>23. ASSUME NEW t \in Threads, Announce(t) PROVE WritersAreMarked'
  BY <1>23, ThreadAssumption DEF Announce
<1>24. ASSUME NEW t \in Expiries, FireTimer(t) PROVE WritersAreMarked'
  BY <1>24, ThreadAssumption DEF FireTimer
<1>25. ASSUME NEW t \in Expiries, CheckExpiry(t) PROVE WritersAreMarked'
  BY <1>25, ThreadAssumption DEF CheckExpiry
<1> QED
  BY <1>0, <1>1, <1>2, <1>3, <1>4, <1>5, <1>6, <1>7, <1>8, <1>9, <1>10, <1>11,
     <1>12, <1>13, <1>14, <1>15, <1>16, <1>17, <1>18, <1>19, <1>20, <1>21,
     <1>22, <1>23, <1>24, <1>25
     DEF Next, ServerStep, PartStep, CompleteStep, FinalizeStep, ExpireStep


\* EndWrite counts a part as complete only with its bytes in the file, and
\* Complete delivers only a file that the completed parts tile.
LEMMA CompletedStep ==
    ASSUME ThreadTypeOK, WritersAreMarked, CompletedIsWritten,
           NothingBeforeStart, [Next]_vars
    PROVE  CompletedIsWritten'
<1> USE DEF CompletedIsWritten, WritersAreMarked, WritingPcs,
        NothingBeforeStart, session, receiver, disk, record, calls, bounds
<1>0. CASE UNCHANGED vars
  BY <1>0 DEF vars
<1>1. CASE StartIncomingTransferSession
  BY <1>1 DEF StartIncomingTransferSession
<1>2. CASE RefuseStart
  BY <1>2 DEF RefuseStart
<1>3. CASE Restart
  BY <1>3 DEF Restart
<1>4. ASSUME NEW t \in PartCalls, NEW w \in Windows, LookupPart(t, w)
      PROVE  CompletedIsWritten'
  BY <1>4 DEF LookupPart
<1>5. ASSUME NEW t \in CompleteCalls, NEW n \in 0 .. MaxPartCount,
             LookupComplete(t, n)
      PROVE  CompletedIsWritten'
  BY <1>5 DEF LookupComplete
<1>6. ASSUME NEW t \in PartCalls, EnterPart(t) PROVE CompletedIsWritten'
  BY <1>6 DEF EnterPart
<1>7. ASSUME NEW t \in PartCalls, BeginWrite(t) PROVE CompletedIsWritten'
  BY <1>7 DEF BeginWrite
<1>8. ASSUME NEW t \in PartCalls, WriteBody(t) PROVE CompletedIsWritten'
  BY <1>8 DEF WriteBody
<1>9. ASSUME NEW t \in PartCalls, BreakBody(t) PROVE CompletedIsWritten'
  BY <1>9 DEF BreakBody
<1>10. ASSUME NEW t \in PartCalls, EndWrite(t) PROVE CompletedIsWritten'
  BY <1>10 DEF EndWrite
<1>11. ASSUME NEW t \in PartCalls, ExitPart(t) PROVE CompletedIsWritten'
  BY <1>11 DEF ExitPart
<1>12. ASSUME NEW t \in PartCalls, PublishProgress(t) PROVE CompletedIsWritten'
  BY <1>12 DEF PublishProgress
<1>13. ASSUME NEW t \in PartCalls, ExitPartOnError(t) PROVE CompletedIsWritten'
  BY <1>13 DEF ExitPartOnError
<1>14. ASSUME NEW t \in CompleteCalls, ReceiverComplete(t)
      PROVE  CompletedIsWritten'
  BY <1>14 DEF ReceiverComplete
<1>15. ASSUME NEW t \in CompleteCalls, CommitFile(t) PROVE CompletedIsWritten'
  <2>1. completed' = completed /\ cells' = cells /\ handle' = FALSE
    BY <1>15 DEF CommitFile, RemoveStaged
  <2>2. Offsets \subseteq cells
    BY <1>15 DEF CommitFile, Tiles
  <2> QED
    BY <2>1, <2>2, Zenon
<1>16. ASSUME NEW t \in CompleteCalls, FailCommit(t) PROVE CompletedIsWritten'
  <2>1. completed' = completed /\ cells' = cells /\ published' = published
    BY <1>16 DEF FailCommit
  <2>2. handle' => handle
    BY <1>16, Zenon DEF FailCommit
  <2> QED
    BY <2>1, <2>2, Zenon
<1>17. ASSUME NEW t \in CompleteCalls, MarkDone(t) PROVE CompletedIsWritten'
  BY <1>17 DEF MarkDone
<1>18. ASSUME NEW t \in Threads, BeginFinalization(t) PROVE CompletedIsWritten'
  BY <1>18 DEF BeginFinalization
<1>19. ASSUME NEW t \in Threads, MarkFailed(t) PROVE CompletedIsWritten'
  BY <1>19 DEF MarkFailed
<1>20. ASSUME NEW t \in Threads, Cleanup(t) PROVE CompletedIsWritten'
  BY <1>20 DEF Cleanup, RemoveStaged
<1>21. ASSUME NEW t \in Threads, PersistOutcome(t) PROVE CompletedIsWritten'
  BY <1>21 DEF PersistOutcome
<1>22. ASSUME NEW t \in Threads, Unregister(t) PROVE CompletedIsWritten'
  BY <1>22 DEF Unregister
<1>23. ASSUME NEW t \in Threads, Announce(t) PROVE CompletedIsWritten'
  BY <1>23 DEF Announce
<1>24. ASSUME NEW t \in Expiries, FireTimer(t) PROVE CompletedIsWritten'
  BY <1>24 DEF FireTimer
<1>25. ASSUME NEW t \in Expiries, CheckExpiry(t) PROVE CompletedIsWritten'
  BY <1>25 DEF CheckExpiry
<1> QED
  BY <1>0, <1>1, <1>2, <1>3, <1>4, <1>5, <1>6, <1>7, <1>8, <1>9, <1>10, <1>11,
     <1>12, <1>13, <1>14, <1>15, <1>16, <1>17, <1>18, <1>19, <1>20, <1>21,
     <1>22, <1>23, <1>24, <1>25
     DEF Next, ServerStep, PartStep, CompleteStep, FinalizeStep, ExpireStep


\* Until the start request no goroutine can find the session.
LEMMA NothingStep ==
    ASSUME StatusTypeOK, ThreadTypeOK, NothingBeforeStart, [Next]_vars
    PROVE  NothingBeforeStart'
<1> USE DEF ThreadTypeOK, NothingBeforeStart, Threads, session, receiver, disk,
        record, calls, bounds
<1>0. CASE UNCHANGED vars
  BY <1>0 DEF vars
<1>1. CASE StartIncomingTransferSession
  BY <1>1 DEF StartIncomingTransferSession
<1>2. CASE RefuseStart
  BY <1>2 DEF RefuseStart
<1>3. CASE Restart
  BY <1>3 DEF Restart
<1>4. ASSUME NEW t \in PartCalls, NEW w \in Windows, LookupPart(t, w)
      PROVE  NothingBeforeStart'
  BY <1>4 DEF LookupPart
<1>5. ASSUME NEW t \in CompleteCalls, NEW n \in 0 .. MaxPartCount,
             LookupComplete(t, n)
      PROVE  NothingBeforeStart'
  BY <1>5 DEF LookupComplete
<1>6. ASSUME NEW t \in PartCalls, EnterPart(t) PROVE NothingBeforeStart'
  BY <1>6 DEF EnterPart
<1>7. ASSUME NEW t \in PartCalls, BeginWrite(t) PROVE NothingBeforeStart'
  BY <1>7 DEF BeginWrite
<1>8. ASSUME NEW t \in PartCalls, WriteBody(t) PROVE NothingBeforeStart'
  BY <1>8 DEF WriteBody
<1>9. ASSUME NEW t \in PartCalls, BreakBody(t) PROVE NothingBeforeStart'
  BY <1>9 DEF BreakBody
<1>10. ASSUME NEW t \in PartCalls, EndWrite(t) PROVE NothingBeforeStart'
  BY <1>10 DEF EndWrite
<1>11. ASSUME NEW t \in PartCalls, ExitPart(t) PROVE NothingBeforeStart'
  BY <1>11 DEF ExitPart
<1>12. ASSUME NEW t \in PartCalls, PublishProgress(t) PROVE NothingBeforeStart'
  BY <1>12 DEF PublishProgress
<1>13. ASSUME NEW t \in PartCalls, ExitPartOnError(t) PROVE NothingBeforeStart'
  BY <1>13 DEF ExitPartOnError
<1>14. ASSUME NEW t \in CompleteCalls, ReceiverComplete(t)
      PROVE  NothingBeforeStart'
  BY <1>14 DEF ReceiverComplete
<1>15. ASSUME NEW t \in CompleteCalls, CommitFile(t) PROVE NothingBeforeStart'
  BY <1>15 DEF CommitFile, RemoveStaged
<1>16. ASSUME NEW t \in CompleteCalls, FailCommit(t) PROVE NothingBeforeStart'
  BY <1>16 DEF FailCommit
<1>17. ASSUME NEW t \in CompleteCalls, MarkDone(t) PROVE NothingBeforeStart'
  BY <1>17 DEF MarkDone
<1>18. ASSUME NEW t \in Threads, BeginFinalization(t) PROVE NothingBeforeStart'
  BY <1>18 DEF BeginFinalization
<1>19. ASSUME NEW t \in Threads, MarkFailed(t) PROVE NothingBeforeStart'
  BY <1>19 DEF MarkFailed
<1>20. ASSUME NEW t \in Threads, Cleanup(t) PROVE NothingBeforeStart'
  BY <1>20 DEF Cleanup, RemoveStaged
<1>21. ASSUME NEW t \in Threads, PersistOutcome(t) PROVE NothingBeforeStart'
  BY <1>21 DEF PersistOutcome
<1>22. ASSUME NEW t \in Threads, Unregister(t) PROVE NothingBeforeStart'
  BY <1>22 DEF Unregister
<1>23. ASSUME NEW t \in Threads, Announce(t) PROVE NothingBeforeStart'
  BY <1>23 DEF Announce
<1>24. ASSUME NEW t \in Expiries, FireTimer(t) PROVE NothingBeforeStart'
  BY <1>24 DEF FireTimer
<1>25. ASSUME NEW t \in Expiries, CheckExpiry(t) PROVE NothingBeforeStart'
  BY <1>25 DEF CheckExpiry
<1> QED
  BY <1>0, <1>1, <1>2, <1>3, <1>4, <1>5, <1>6, <1>7, <1>8, <1>9, <1>10, <1>11,
     <1>12, <1>13, <1>14, <1>15, <1>16, <1>17, <1>18, <1>19, <1>20, <1>21,
     <1>22, <1>23, <1>24, <1>25
     DEF Next, ServerStep, PartStep, CompleteStep, FinalizeStep, ExpireStep


\* The copy of the record that a finalizer carries out of the lock, and what it
\* stores, agree with the file in the download directory.
LEMMA OutcomeStep ==
    ASSUME StatusTypeOK, ThreadTypeOK, ThreadKinds, FinalizerOwnsClose,
           NothingBeforeStart, OutcomeFollowsFile, [Next]_vars
    PROVE  OutcomeFollowsFile'
<1> USE DEF StatusTypeOK, ThreadTypeOK, FinalizerOwnsClose, SingleFinalizer,
        NothingBeforeStart, OutcomeFollowsFile, OutcomeMatchesFile,
        FinalizingPcs, UndecidedPcs, CompletePcs, Terminal, Goto, Answer,
        LoseClose, Threads, session, receiver, disk, record, calls, bounds
<1>0. CASE UNCHANGED vars
  BY <1>0 DEF vars
<1>1. CASE StartIncomingTransferSession
  BY <1>1 DEF StartIncomingTransferSession
<1>2. CASE RefuseStart
  BY <1>2 DEF RefuseStart
<1>3. CASE Restart
  BY <1>3 DEF Restart
<1>4. ASSUME NEW t \in PartCalls, NEW w \in Windows, LookupPart(t, w)
      PROVE  OutcomeFollowsFile'
  BY <1>4 DEF LookupPart
<1>5. ASSUME NEW t \in CompleteCalls, NEW n \in 0 .. MaxPartCount,
             LookupComplete(t, n)
      PROVE  OutcomeFollowsFile'
  BY <1>5 DEF LookupComplete
<1>6. ASSUME NEW t \in PartCalls, EnterPart(t) PROVE OutcomeFollowsFile'
  BY <1>6 DEF EnterPart
<1>7. ASSUME NEW t \in PartCalls, BeginWrite(t) PROVE OutcomeFollowsFile'
  BY <1>7 DEF BeginWrite
<1>8. ASSUME NEW t \in PartCalls, WriteBody(t) PROVE OutcomeFollowsFile'
  BY <1>8 DEF WriteBody
<1>9. ASSUME NEW t \in PartCalls, BreakBody(t) PROVE OutcomeFollowsFile'
  BY <1>9 DEF BreakBody
<1>10. ASSUME NEW t \in PartCalls, EndWrite(t) PROVE OutcomeFollowsFile'
  BY <1>10 DEF EndWrite
<1>11. ASSUME NEW t \in PartCalls, ExitPart(t) PROVE OutcomeFollowsFile'
  BY <1>11 DEF ExitPart
<1>12. ASSUME NEW t \in PartCalls, PublishProgress(t) PROVE OutcomeFollowsFile'
  BY <1>12 DEF PublishProgress
<1>13. ASSUME NEW t \in PartCalls, ExitPartOnError(t) PROVE OutcomeFollowsFile'
  BY <1>13 DEF ExitPartOnError
<1>14. ASSUME NEW t \in CompleteCalls, ReceiverComplete(t)
      PROVE  OutcomeFollowsFile'
  BY <1>14 DEF ReceiverComplete
<1>15. ASSUME NEW t \in CompleteCalls, CommitFile(t) PROVE OutcomeFollowsFile'
  BY <1>15 DEF CommitFile, RemoveStaged
<1>16. ASSUME NEW t \in CompleteCalls, FailCommit(t) PROVE OutcomeFollowsFile'
  BY <1>16 DEF FailCommit
<1>17. ASSUME NEW t \in CompleteCalls, MarkDone(t) PROVE OutcomeFollowsFile'
  BY <1>17 DEF MarkDone
<1>18. ASSUME NEW t \in Threads, BeginFinalization(t) PROVE OutcomeFollowsFile'
  BY <1>18 DEF BeginFinalization
<1>19. ASSUME NEW t \in Threads, MarkFailed(t) PROVE OutcomeFollowsFile'
  BY <1>19 DEF MarkFailed
<1>20. ASSUME NEW t \in Threads, Cleanup(t) PROVE OutcomeFollowsFile'
  BY <1>20 DEF Cleanup, RemoveStaged
<1>21. ASSUME NEW t \in Threads, PersistOutcome(t) PROVE OutcomeFollowsFile'
  BY <1>21 DEF PersistOutcome
<1>22. ASSUME NEW t \in Threads, Unregister(t) PROVE OutcomeFollowsFile'
  BY <1>22 DEF Unregister
<1>23. ASSUME NEW t \in Threads, Announce(t) PROVE OutcomeFollowsFile'
  BY <1>23 DEF Announce
<1>24. ASSUME NEW t \in Expiries, FireTimer(t) PROVE OutcomeFollowsFile'
  BY <1>24 DEF FireTimer
<1>25. ASSUME NEW t \in Expiries, CheckExpiry(t) PROVE OutcomeFollowsFile'
  BY <1>25 DEF CheckExpiry
<1> QED
  BY <1>0, <1>1, <1>2, <1>3, <1>4, <1>5, <1>6, <1>7, <1>8, <1>9, <1>10, <1>11,
     <1>12, <1>13, <1>14, <1>15, <1>16, <1>17, <1>18, <1>19, <1>20, <1>21,
     <1>22, <1>23, <1>24, <1>25
     DEF Next, ServerStep, PartStep, CompleteStep, FinalizeStep, ExpireStep


\* The only step that changes an outcome a user can see is the finalizer's, which
\* finds none, or a crash.
LEMMA FinalStep ==
    ASSUME StatusTypeOK, DataTypeOK, NothingBeforeStart, OutcomeFollowsFile,
           [Next]_vars
    PROVE  OutcomeStays
<1> USE DEF OutcomeStays, DataTypeOK, NothingBeforeStart, OutcomeFollowsFile,
        UndecidedPcs, Outcome, Terminal, session, receiver, disk, record,
        calls, bounds
<1>0. CASE UNCHANGED vars
  BY <1>0 DEF vars
<1>1. CASE StartIncomingTransferSession
  BY <1>1 DEF StartIncomingTransferSession
<1>2. CASE RefuseStart
  BY <1>2 DEF RefuseStart
<1>3. CASE Restart
  BY <1>3 DEF Restart
<1>4. ASSUME NEW t \in PartCalls, NEW w \in Windows, LookupPart(t, w)
      PROVE  OutcomeStays
  BY <1>4 DEF LookupPart
<1>5. ASSUME NEW t \in CompleteCalls, NEW n \in 0 .. MaxPartCount,
             LookupComplete(t, n)
      PROVE  OutcomeStays
  BY <1>5 DEF LookupComplete
<1>6. ASSUME NEW t \in PartCalls, EnterPart(t) PROVE OutcomeStays
  BY <1>6 DEF EnterPart
<1>7. ASSUME NEW t \in PartCalls, BeginWrite(t) PROVE OutcomeStays
  BY <1>7 DEF BeginWrite
<1>8. ASSUME NEW t \in PartCalls, WriteBody(t) PROVE OutcomeStays
  BY <1>8 DEF WriteBody
<1>9. ASSUME NEW t \in PartCalls, BreakBody(t) PROVE OutcomeStays
  BY <1>9 DEF BreakBody
<1>10. ASSUME NEW t \in PartCalls, EndWrite(t) PROVE OutcomeStays
  BY <1>10 DEF EndWrite
<1>11. ASSUME NEW t \in PartCalls, ExitPart(t) PROVE OutcomeStays
  BY <1>11 DEF ExitPart
<1>12. ASSUME NEW t \in PartCalls, PublishProgress(t) PROVE OutcomeStays
  BY <1>12 DEF PublishProgress
<1>13. ASSUME NEW t \in PartCalls, ExitPartOnError(t) PROVE OutcomeStays
  BY <1>13 DEF ExitPartOnError
<1>14. ASSUME NEW t \in CompleteCalls, ReceiverComplete(t) PROVE OutcomeStays
  BY <1>14 DEF ReceiverComplete
<1>15. ASSUME NEW t \in CompleteCalls, CommitFile(t) PROVE OutcomeStays
  BY <1>15 DEF CommitFile, RemoveStaged
<1>16. ASSUME NEW t \in CompleteCalls, FailCommit(t) PROVE OutcomeStays
  BY <1>16 DEF FailCommit
<1>17. ASSUME NEW t \in CompleteCalls, MarkDone(t) PROVE OutcomeStays
  BY <1>17 DEF MarkDone
<1>18. ASSUME NEW t \in Threads, BeginFinalization(t) PROVE OutcomeStays
  BY <1>18 DEF BeginFinalization
<1>19. ASSUME NEW t \in Threads, MarkFailed(t) PROVE OutcomeStays
  BY <1>19 DEF MarkFailed
<1>20. ASSUME NEW t \in Threads, Cleanup(t) PROVE OutcomeStays
  BY <1>20 DEF Cleanup, RemoveStaged
<1>21. ASSUME NEW t \in Threads, PersistOutcome(t) PROVE OutcomeStays
  BY <1>21 DEF PersistOutcome
<1>22. ASSUME NEW t \in Threads, Unregister(t) PROVE OutcomeStays
  BY <1>22 DEF Unregister
<1>23. ASSUME NEW t \in Threads, Announce(t) PROVE OutcomeStays
  BY <1>23 DEF Announce
<1>24. ASSUME NEW t \in Expiries, FireTimer(t) PROVE OutcomeStays
  BY <1>24 DEF FireTimer
<1>25. ASSUME NEW t \in Expiries, CheckExpiry(t) PROVE OutcomeStays
  BY <1>25 DEF CheckExpiry
<1> QED
  BY <1>0, <1>1, <1>2, <1>3, <1>4, <1>5, <1>6, <1>7, <1>8, <1>9, <1>10, <1>11,
     <1>12, <1>13, <1>14, <1>15, <1>16, <1>17, <1>18, <1>19, <1>20, <1>21,
     <1>22, <1>23, <1>24, <1>25
     DEF Next, ServerStep, PartStep, CompleteStep, FinalizeStep, ExpireStep


\* The initial state satisfies the invariant.
LEMMA InitIInv == Init => IInv
<1> SUFFICES ASSUME Init PROVE IInv
  OBVIOUS
<1> USE DEF Init
<1>1. StatusTypeOK
  BY DEF StatusTypeOK, TransferStates
<1>2. DataTypeOK
  BY DEF DataTypeOK
<1>3. ThreadTypeOK
  BY DEF ThreadTypeOK, Pcs, PartPcs
<1>4. ThreadKinds /\ FinalizerOwnsClose /\ WritersAreMarked
  BY DEF Threads, ThreadKinds, FinalizerOwnsClose, SingleFinalizer, WritersAreMarked,
         PartWrittenOnce, CompletePcs, CountedPcs, WritingPcs, ErrorPcs, FinalizingPcs
<1>5. CompletedIsWritten /\ NothingBeforeStart
  BY DEF CompletedIsWritten, NothingBeforeStart
<1>6. OutcomeFollowsFile
  BY DEF OutcomeFollowsFile, OutcomeMatchesFile, UndecidedPcs, CompletePcs, Terminal
<1> QED
  BY <1>1, <1>2, <1>3, <1>4, <1>5, <1>6 DEF IInv, TypeOK

\* Every step preserves it.
LEMMA NextIInv == IInv /\ [Next]_vars => IInv'
<1> SUFFICES ASSUME IInv, [Next]_vars PROVE IInv'
  OBVIOUS
<1>1. TypeOK'
  BY StatusTypeStep, DataTypeStep, ThreadTypeStep DEF IInv, TypeOK
<1>2. ThreadKinds' /\ FinalizerOwnsClose' /\ WritersAreMarked'
  BY ThreadKindsStep, FinalizerStep, WritersStep DEF IInv, TypeOK
<1>3. CompletedIsWritten' /\ NothingBeforeStart' /\ OutcomeFollowsFile'
  BY CompletedStep, NothingStep, OutcomeStep DEF IInv, TypeOK
<1> QED
  BY <1>1, <1>2, <1>3 DEF IInv

\* The invariant holds of every run of the receiving side.
THEOREM Invariance == Spec => []IInv
BY InitIInv, NextIInv, PTL DEF Spec

\* The variables of the session, of the SessionReceiver and of the goroutines
\* keep their types.
THEOREM TypeCorrect == Spec => []TypeOK
<1>1. IInv => TypeOK
  BY DEF IInv
<1> QED
  BY Invariance, <1>1, PTL

\* However many handlers and timers race, at most one goroutine finalizes.
THEOREM OneFinalizer == Spec => []SingleFinalizer
<1>1. IInv => SingleFinalizer
  BY DEF IInv, FinalizerOwnsClose
<1> QED
  BY Invariance, <1>1, PTL

\* No two requests write the same part of the staged file at the same time.
THEOREM OneWriter == Spec => []PartWrittenOnce
<1>1. IInv => PartWrittenOnce
  BY DEF IInv, WritersAreMarked
<1> QED
  BY Invariance, <1>1, PTL

\* Whatever part headers a peer sends, a file in the download directory holds
\* every byte of the source and is not written any more.
THEOREM DeliveredFileComplete == Spec => []PublishedFileComplete
<1>1. IInv => PublishedFileComplete
  BY DEF IInv, CompletedIsWritten, PublishedFileComplete
<1> QED
  BY Invariance, <1>1, PTL

\* Memory, database and override say "done" only of a delivered file, and the
\* database and the override say "failed" only of a file that was not.
THEOREM OutcomeCorrect == Spec => []OutcomeMatchesFile
<1>1. IInv => OutcomeMatchesFile
  BY DEF IInv, OutcomeFollowsFile
<1> QED
  BY Invariance, <1>1, PTL

\* An outcome that a user can see is final, except for a crash.
THEOREM OutcomeFinal == Spec => OutcomeIsFinal
<1>1. IInv /\ [Next]_vars => OutcomeStays
  BY FinalStep DEF IInv, TypeOK
<1>2. IInv /\ [Next]_vars => [OutcomeStays]_vars
  BY <1>1
<1>3. Spec => [][OutcomeStays]_vars
  BY Invariance, <1>2, PTL DEF Spec
<1> QED
  BY <1>3 DEF OutcomeIsFinal, OutcomeStays

---------------------------------------------------------------------------
(* What a finalizer leaves behind.                                         *)

\* Only the finalizer takes the file away, and each of its steps leaves the
\* next one what it needs: a staged file whose path is known can be removed.  A
\* descriptor that the receiver no longer holds is the finalizer's, or leaked.
ReleaseInOrder ==
    /\ file => tempPath
    /\ tempExists /\ restarts = 0 /\ removeFailures = 0 /\ ~handle => tempPath
    /\ finalizing => \E t \in Threads : pc[t] = "commit"
    /\ \A t \in Threads :
          /\ pc[t] = "commit" => ~file /\ tempPath
          /\ pc[t] \in {"markDone", "persist", "unregister"} => ~file /\ ~tempPath
    /\ closed /\ (\A t \in Threads : pc[t] \notin FinalizingPcs) =>
          ~inMap /\ ~file /\ ~tempPath
    /\ handle /\ ~file =>
          /\ inFlight = {}
          /\ \E t \in CompleteCalls :
                /\ pc[t] # "idle"
                /\ count[t] > 0 /\ count[t] = Cardinality(completed)
                /\ pc[t] = "commit" \/ ~Tiles(completed)

\* However Complete fails, its caller can remove the staged file; and nobody
\* but the finalizer, who goes on to release the session, closes it.
LEMMA ReleaseStep ==
    ASSUME IInv, ReleaseInOrder, [Next]_vars
    PROVE  ReleaseInOrder'
<1> USE ThreadAssumption DEF IInv, TypeOK, StatusTypeOK, DataTypeOK, ThreadTypeOK,
   ThreadKinds, FinalizerOwnsClose, WritersAreMarked, SingleFinalizer, NothingBeforeStart,
   ReleaseInOrder, FinalizingPcs, CompletePcs, CountedPcs, WritingPcs,
   ErrorPcs, Goto, Answer, LoseClose, Threads, session, receiver, disk, record,
   calls, bounds
<1>0. CASE UNCHANGED vars
  BY <1>0 DEF vars
<1>1. CASE StartIncomingTransferSession
  BY <1>1 DEF StartIncomingTransferSession
<1>2. CASE RefuseStart
  BY <1>2 DEF RefuseStart
<1>3. CASE Restart
  BY <1>3 DEF Restart
<1>4. ASSUME NEW t \in PartCalls, NEW w \in Windows, LookupPart(t, w)
      PROVE  ReleaseInOrder'
  BY <1>4 DEF LookupPart
<1>5. ASSUME NEW t \in CompleteCalls, NEW n \in 0 .. MaxPartCount,
             LookupComplete(t, n)
      PROVE  ReleaseInOrder'
  BY <1>5 DEF LookupComplete
<1>6. ASSUME NEW t \in PartCalls, EnterPart(t) PROVE ReleaseInOrder'
  BY <1>6 DEF EnterPart
<1>7. ASSUME NEW t \in PartCalls, BeginWrite(t) PROVE ReleaseInOrder'
  BY <1>7 DEF BeginWrite
<1>8. ASSUME NEW t \in PartCalls, WriteBody(t) PROVE ReleaseInOrder'
  BY <1>8 DEF WriteBody
<1>9. ASSUME NEW t \in PartCalls, BreakBody(t) PROVE ReleaseInOrder'
  BY <1>9 DEF BreakBody
<1>10. ASSUME NEW t \in PartCalls, EndWrite(t) PROVE ReleaseInOrder'
  BY <1>10 DEF EndWrite
<1>11. ASSUME NEW t \in PartCalls, ExitPart(t) PROVE ReleaseInOrder'
  BY <1>11 DEF ExitPart
<1>12. ASSUME NEW t \in PartCalls, PublishProgress(t) PROVE ReleaseInOrder'
  BY <1>12 DEF PublishProgress
<1>13. ASSUME NEW t \in PartCalls, ExitPartOnError(t) PROVE ReleaseInOrder'
  BY <1>13 DEF ExitPartOnError
<1>14. ASSUME NEW t \in CompleteCalls, ReceiverComplete(t)
      PROVE  ReleaseInOrder'
  BY <1>14 DEF ReceiverComplete
<1>15. ASSUME NEW t \in CompleteCalls, CommitFile(t) PROVE ReleaseInOrder'
  BY <1>15 DEF CommitFile, RemoveStaged
<1>16. ASSUME NEW t \in CompleteCalls, FailCommit(t) PROVE ReleaseInOrder'
  <2>1. /\ pc[t] = "commit" /\ pc' = [pc EXCEPT ![t] = "failState"]
        /\ finalizing' = FALSE /\ tempPath' = TRUE
        /\ UNCHANGED <<inMap, closed, file, completed, inFlight, count, restarts,
                       removeFailures>>
    BY <1>16 DEF FailCommit
  <2>2. \/ ~Tiles(completed) /\ UNCHANGED <<handle, tempExists>>
        \/ handle' = FALSE /\ tempExists' \in {tempExists, FALSE}
    BY <1>16 DEF FailCommit
  <2>3. closed /\ t \in Threads /\ ~file
    BY <2>1
  <2>4. handle' => /\ handle /\ ~Tiles(completed)
                   /\ inFlight' = {}
                   /\ \E u \in CompleteCalls :
                         /\ pc'[u] # "idle"
                         /\ count'[u] > 0 /\ count'[u] = Cardinality(completed')
    BY <2>1, <2>2, <2>3
  <2>5. handle' => \E u \in CompleteCalls :
            /\ pc'[u] # "idle"
            /\ count'[u] > 0 /\ count'[u] = Cardinality(completed')
            /\ ~Tiles(completed')
    BY <2>1, <2>4
  <2>6. \A u \in Threads : pc'[u] = IF u = t THEN "failState" ELSE pc[u]
    BY <2>1, <2>3
  <2>7. \A u \in Threads : pc'[u] \notin {"commit", "markDone", "persist", "unregister"}
    BY <2>1, <2>3, <2>6
  <2>8. pc'[t] = "failState" /\ t \in Threads
    BY <2>3, <2>6
  <2> QED
    BY <2>1, <2>3, <2>4, <2>5, <2>7, <2>8
<1>17. ASSUME NEW t \in CompleteCalls, MarkDone(t) PROVE ReleaseInOrder'
  BY <1>17 DEF MarkDone
<1>18. ASSUME NEW t \in Threads, BeginFinalization(t) PROVE ReleaseInOrder'
  BY <1>18 DEF BeginFinalization
<1>19. ASSUME NEW t \in Threads, MarkFailed(t) PROVE ReleaseInOrder'
  BY <1>19 DEF MarkFailed
<1>20. ASSUME NEW t \in Threads, Cleanup(t) PROVE ReleaseInOrder'
  BY <1>20 DEF Cleanup, RemoveStaged
<1>21. ASSUME NEW t \in Threads, PersistOutcome(t) PROVE ReleaseInOrder'
  BY <1>21 DEF PersistOutcome
<1>22. ASSUME NEW t \in Threads, Unregister(t) PROVE ReleaseInOrder'
  BY <1>22 DEF Unregister
<1>23. ASSUME NEW t \in Threads, Announce(t) PROVE ReleaseInOrder'
  BY <1>23 DEF Announce
<1>24. ASSUME NEW t \in Expiries, FireTimer(t) PROVE ReleaseInOrder'
  BY <1>24 DEF FireTimer
<1>25. ASSUME NEW t \in Expiries, CheckExpiry(t) PROVE ReleaseInOrder'
  BY <1>25 DEF CheckExpiry
<1> QED
  BY <1>0, <1>1, <1>2, <1>3, <1>4, <1>5, <1>6, <1>7, <1>8, <1>9, <1>10, <1>11,
     <1>12, <1>13, <1>14, <1>15, <1>16, <1>17, <1>18, <1>19, <1>20, <1>21,
     <1>22, <1>23, <1>24, <1>25, Zenon
     DEF Next, ServerStep, PartStep, CompleteStep, FinalizeStep, ExpireStep

\* When the last thread has left a closed session, no entry in the map and no
\* open receiver is left, the descriptor of the staged file is leaked only by the
\* refusal of a gap, and only that, a failing removal or a crash orphans the
\* .part file.
THEOREM SessionReleased == Spec => []ClosedSessionIsReleased
<1>1. Init => ReleaseInOrder
  BY DEF Init, ReleaseInOrder
<1>2. IInv /\ ReleaseInOrder /\ [Next]_vars => ReleaseInOrder'
  BY ReleaseStep
<1>3. IInv /\ ReleaseInOrder => ClosedSessionIsReleased
  <2> SUFFICES ASSUME IInv, ReleaseInOrder, closed, restarts = 0,
                      \A t \in Threads : pc[t] \notin FinalizingPcs
               PROVE  /\ ~inMap /\ ~file /\ ~finalizing
                      /\ handle => GapRefused
                      /\ tempExists => handle \/ removeFailures > 0
    BY DEF ClosedSessionIsReleased
  <2>1. ~inMap /\ ~file /\ ~tempPath /\ ~finalizing
    BY DEF ReleaseInOrder, FinalizingPcs
  <2>2. handle => GapRefused
    BY <2>1 DEF ReleaseInOrder, GapRefused, FinalizingPcs, Threads
  <2>3. removeFailures \in Nat
    BY DEF IInv, TypeOK, DataTypeOK
  <2> QED
    BY <2>1, <2>2, <2>3 DEF ReleaseInOrder
<1> QED
  BY Invariance, <1>1, <1>2, <1>3, PTL DEF Spec

---------------------------------------------------------------------------
(* What ends a session whose sender has gone silent.                       *)

\* A session that is open has its timer, or a goroutine the timer started.
TimerGuards ==
    inMap /\ ~closed =>
        timer = "armed" \/ \E t \in Expiries : pc[t] \in {"expire", "close"}

\* The timer is stopped only by the goroutine it starts and by whoever closes
\* the session or takes it out of the map.
LEMMA TimerStep ==
    ASSUME IInv, TimerGuards, [Next]_vars
    PROVE  TimerGuards'
<1> USE ThreadAssumption DEF IInv, TypeOK, StatusTypeOK, DataTypeOK, ThreadTypeOK,
   ThreadKinds, FinalizerOwnsClose, SingleFinalizer, NothingBeforeStart,
   TimerGuards, FinalizingPcs, CompletePcs, CountedPcs, WritingPcs,
   ErrorPcs, Goto, Answer, LoseClose, Threads, session, receiver, disk, record,
   calls, bounds
<1>0. CASE UNCHANGED vars
  BY <1>0 DEF vars
<1>1. CASE StartIncomingTransferSession
  BY <1>1 DEF StartIncomingTransferSession
<1>2. CASE RefuseStart
  BY <1>2 DEF RefuseStart
<1>3. CASE Restart
  BY <1>3 DEF Restart
<1>4. ASSUME NEW t \in PartCalls, NEW w \in Windows, LookupPart(t, w)
      PROVE  TimerGuards'
  BY <1>4 DEF LookupPart
<1>5. ASSUME NEW t \in CompleteCalls, NEW n \in 0 .. MaxPartCount,
             LookupComplete(t, n)
      PROVE  TimerGuards'
  BY <1>5 DEF LookupComplete
<1>6. ASSUME NEW t \in PartCalls, EnterPart(t) PROVE TimerGuards'
  BY <1>6 DEF EnterPart
<1>7. ASSUME NEW t \in PartCalls, BeginWrite(t) PROVE TimerGuards'
  BY <1>7 DEF BeginWrite
<1>8. ASSUME NEW t \in PartCalls, WriteBody(t) PROVE TimerGuards'
  BY <1>8 DEF WriteBody
<1>9. ASSUME NEW t \in PartCalls, BreakBody(t) PROVE TimerGuards'
  BY <1>9 DEF BreakBody
<1>10. ASSUME NEW t \in PartCalls, EndWrite(t) PROVE TimerGuards'
  BY <1>10 DEF EndWrite
<1>11. ASSUME NEW t \in PartCalls, ExitPart(t) PROVE TimerGuards'
  BY <1>11 DEF ExitPart
<1>12. ASSUME NEW t \in PartCalls, PublishProgress(t) PROVE TimerGuards'
  BY <1>12 DEF PublishProgress
<1>13. ASSUME NEW t \in PartCalls, ExitPartOnError(t) PROVE TimerGuards'
  BY <1>13 DEF ExitPartOnError
<1>14. ASSUME NEW t \in CompleteCalls, ReceiverComplete(t)
      PROVE  TimerGuards'
  BY <1>14 DEF ReceiverComplete
<1>15. ASSUME NEW t \in CompleteCalls, CommitFile(t) PROVE TimerGuards'
  BY <1>15 DEF CommitFile, RemoveStaged
<1>16. ASSUME NEW t \in CompleteCalls, FailCommit(t) PROVE TimerGuards'
  BY <1>16 DEF FailCommit
<1>17. ASSUME NEW t \in CompleteCalls, MarkDone(t) PROVE TimerGuards'
  BY <1>17 DEF MarkDone
<1>18. ASSUME NEW t \in Threads, BeginFinalization(t) PROVE TimerGuards'
  BY <1>18 DEF BeginFinalization
<1>19. ASSUME NEW t \in Threads, MarkFailed(t) PROVE TimerGuards'
  BY <1>19 DEF MarkFailed
<1>20. ASSUME NEW t \in Threads, Cleanup(t) PROVE TimerGuards'
  BY <1>20 DEF Cleanup, RemoveStaged
<1>21. ASSUME NEW t \in Threads, PersistOutcome(t) PROVE TimerGuards'
  BY <1>21 DEF PersistOutcome
<1>22. ASSUME NEW t \in Threads, Unregister(t) PROVE TimerGuards'
  BY <1>22 DEF Unregister
<1>23. ASSUME NEW t \in Threads, Announce(t) PROVE TimerGuards'
  BY <1>23 DEF Announce
<1>24. ASSUME NEW t \in Expiries, FireTimer(t) PROVE TimerGuards'
  BY <1>24 DEF FireTimer
<1>25. ASSUME NEW t \in Expiries, CheckExpiry(t) PROVE TimerGuards'
  BY <1>25 DEF CheckExpiry
<1> QED
  BY <1>0, <1>1, <1>2, <1>3, <1>4, <1>5, <1>6, <1>7, <1>8, <1>9, <1>10, <1>11,
     <1>12, <1>13, <1>14, <1>15, <1>16, <1>17, <1>18, <1>19, <1>20, <1>21,
     <1>22, <1>23, <1>24, <1>25, Zenon
     DEF Next, ServerStep, PartStep, CompleteStep, FinalizeStep, ExpireStep

\* The handlers that have counted themselves in.
CountIsRight ==
    /\ IsFiniteSet(Counted)
    /\ inMap => activeParts = Cardinality(Counted)

\* A handler that moves on joins the counted ones, leaves them, or neither.
LEMMA CountedMoves ==
    ASSUME ThreadTypeOK, NEW t \in Threads, NEW l, Goto(t, l)
    PROVE  Counted' = IF t \in PartCalls /\ l \in CountedPcs
                      THEN Counted \cup {t} ELSE Counted \ {t}
BY DEF ThreadTypeOK, Threads, Goto, Counted

LEMMA CountedStays ==
    ASSUME ThreadTypeOK, CountIsRight, NEW t \in Threads, NEW l, Goto(t, l),
           t \in PartCalls => (l \in CountedPcs <=> pc[t] \in CountedPcs),
           inMap' => inMap, activeParts' = activeParts
    PROVE  CountIsRight'
<1>1. Counted' = Counted
  BY CountedMoves DEF Counted
<1> QED
  BY <1>1 DEF CountIsRight

\* Every way through a part's handler counts it in once and out once; no other
\* goroutine touches the count.
LEMMA CountStep ==
    ASSUME IInv, CountIsRight, [Next]_vars
    PROVE  CountIsRight'
<1> USE ThreadAssumption DEF IInv, TypeOK, DataTypeOK, ThreadTypeOK, ThreadKinds, CompletePcs,
   CountedPcs, WritingPcs, ErrorPcs, FinalizingPcs, Answer, LoseClose, Threads,
   session, receiver, disk, record, calls, bounds
<1>0. CASE UNCHANGED vars \/ RefuseStart
  BY <1>0 DEF vars, RefuseStart, CountIsRight, Counted
<1>1. CASE StartIncomingTransferSession
  <2>1. Counted' = {} /\ activeParts' = 0
    BY <1>1 DEF StartIncomingTransferSession, NothingBeforeStart, Counted
  <2> QED
    BY <2>1, FS_EmptySet DEF CountIsRight
<1>2. CASE Restart
  <2>1. Counted' = {} /\ ~inMap'
    BY <1>2 DEF Restart, Counted
  <2> QED
    BY <2>1, FS_EmptySet DEF CountIsRight
<1>3. ASSUME NEW t \in PartCalls, EnterPart(t) PROVE CountIsRight'
  <2>1. CASE closed
    BY <1>3, <2>1, CountedStays DEF EnterPart
  <2>2. CASE ~closed
    <3>1. t \notin Counted /\ Counted' = Counted \cup {t}
      BY <1>3, <2>2, CountedMoves DEF EnterPart, Counted
    <3>2. inMap' = inMap /\ activeParts' = activeParts + 1
      BY <1>3, <2>2 DEF EnterPart
    <3> QED
      BY <3>1, <3>2, FS_AddElement DEF CountIsRight
  <2> QED
    BY <2>1, <2>2
<1>4. ASSUME NEW t \in PartCalls, ExitPart(t) \/ ExitPartOnError(t)
      PROVE  CountIsRight'
  <2>1. t \in Counted
    BY <1>4 DEF ExitPart, ExitPartOnError, Counted
  <2>2. Counted' = Counted \ {t}
    BY <1>4, CountedMoves DEF ExitPart, ExitPartOnError
  <2>3. inMap' = inMap /\ activeParts' = activeParts - 1
    BY <1>4 DEF ExitPart, ExitPartOnError
  <2> QED
    BY <2>1, <2>2, <2>3, FS_RemoveElement DEF CountIsRight
<1>5. ASSUME NEW t \in PartCalls, NEW w \in Windows, LookupPart(t, w)
      PROVE  CountIsRight'
  BY <1>5, CountedStays DEF LookupPart
<1>6. ASSUME NEW t \in CompleteCalls, NEW n \in 0 .. MaxPartCount, LookupComplete(t, n)
      PROVE  CountIsRight'
  BY <1>6, CountedStays DEF LookupComplete
<1>7. ASSUME NEW t \in PartCalls, BeginWrite(t) PROVE CountIsRight'
  BY <1>7, CountedStays DEF BeginWrite
<1>8. ASSUME NEW t \in PartCalls, WriteBody(t) PROVE CountIsRight'
  BY <1>8, CountedStays DEF WriteBody
<1>9. ASSUME NEW t \in PartCalls, BreakBody(t) PROVE CountIsRight'
  BY <1>9, CountedStays DEF BreakBody
<1>10. ASSUME NEW t \in PartCalls, EndWrite(t) PROVE CountIsRight'
  BY <1>10, CountedStays DEF EndWrite
<1>11. ASSUME NEW t \in PartCalls, PublishProgress(t) PROVE CountIsRight'
  BY <1>11, CountedStays DEF PublishProgress
<1>12. ASSUME NEW t \in CompleteCalls, ReceiverComplete(t) PROVE CountIsRight'
  BY <1>12, CountedStays DEF ReceiverComplete
<1>13. ASSUME NEW t \in CompleteCalls, CommitFile(t) PROVE CountIsRight'
  BY <1>13, CountedStays DEF CommitFile, RemoveStaged
<1>14. ASSUME NEW t \in CompleteCalls, FailCommit(t) PROVE CountIsRight'
  BY <1>14, CountedStays DEF FailCommit
<1>15. ASSUME NEW t \in CompleteCalls, MarkDone(t) PROVE CountIsRight'
  BY <1>15, CountedStays DEF MarkDone
<1>16. ASSUME NEW t \in Threads, BeginFinalization(t) PROVE CountIsRight'
  BY <1>16, CountedStays DEF BeginFinalization
<1>17. ASSUME NEW t \in Threads, MarkFailed(t) PROVE CountIsRight'
  BY <1>17, CountedStays DEF MarkFailed
<1>18. ASSUME NEW t \in Threads, Cleanup(t) PROVE CountIsRight'
  BY <1>18, CountedStays DEF Cleanup, RemoveStaged
<1>19. ASSUME NEW t \in Threads, PersistOutcome(t) PROVE CountIsRight'
  BY <1>19, CountedStays DEF PersistOutcome
<1>20. ASSUME NEW t \in Threads, Unregister(t) PROVE CountIsRight'
  BY <1>20, CountedStays DEF Unregister
<1>21. ASSUME NEW t \in Threads, Announce(t) PROVE CountIsRight'
  BY <1>21, CountedStays DEF Announce
<1>22. ASSUME NEW t \in Expiries, FireTimer(t) PROVE CountIsRight'
  BY <1>22, CountedStays DEF FireTimer
<1>23. ASSUME NEW t \in Expiries, CheckExpiry(t) PROVE CountIsRight'
  BY <1>23, CountedStays DEF CheckExpiry
<1> QED
  BY <1>0, <1>1, <1>2, <1>3, <1>4, <1>5, <1>6, <1>7, <1>8, <1>9, <1>10, <1>11,
     <1>12, <1>13, <1>14, <1>15, <1>16, <1>17, <1>18, <1>19, <1>20, <1>21,
     <1>22, <1>23, Zenon
     DEF Next, ServerStep, PartStep, CompleteStep, FinalizeStep, ExpireStep

\* For any number of parts and timers: a session in the map is never forgotten
\* by the timer, and its count of active parts is exact, so that the timer's
\* check finds it free once the last part has left.
THEOREM SessionWillEnd == Spec => []ListedSessionWillEnd
<1>1. Init => TimerGuards /\ CountIsRight /\ ReleaseInOrder
  <2> SUFFICES ASSUME Init PROVE TimerGuards /\ CountIsRight /\ ReleaseInOrder
    OBVIOUS
  <2>1. Counted = {}
    BY DEF Init, Counted, Threads, CountedPcs, WritingPcs, ErrorPcs
  <2> QED
    BY <2>1, FS_EmptySet DEF Init, TimerGuards, CountIsRight, ReleaseInOrder
<1>2. /\ IInv /\ TimerGuards /\ CountIsRight /\ ReleaseInOrder /\ [Next]_vars
      => TimerGuards' /\ CountIsRight' /\ ReleaseInOrder'
  BY TimerStep, CountStep, ReleaseStep
<1>3. TimerGuards /\ CountIsRight /\ ReleaseInOrder => ListedSessionWillEnd
  BY DEF TimerGuards, CountIsRight, ReleaseInOrder, ListedSessionWillEnd
<1> QED
  BY Invariance, <1>1, <1>2, <1>3, PTL DEF Spec

---------------------------------------------------------------------------
(* The scan of SessionReceiver.Complete.                                   *)

LEMMA LeastOf ==
    ASSUME NEW ns \in SUBSET Nat, ns # {}
    PROVE  \E n \in ns : \A k \in ns : n <= k
<1>1. PICK n \in ns : \A k \in ns : ~ (<<k, n>> \in OpToRel(<, Nat))
  BY NatLessThanWellFounded, WFMin
<1>2. \A k \in ns : ~ (k < n)
  BY <1>1 DEF OpToRel
<1> QED
  BY <1>2

\* One turn of the loop, and the loop up to its n-th part.
ScanTurn(f, k, parts) ==
    IF k = 0 THEN 0
    ELSE IF parts[k].off = f[k - 1] THEN f[k - 1] + parts[k].len ELSE -1

ScanRuns(f, n, parts) == f = [k \in 0 .. n |-> ScanTurn(f, k, parts)]

LEMMA LoopRuns ==
    ASSUME NEW parts, NEW N \in Nat
    PROVE  \E f : ScanRuns(f, N, parts)
<1> DEFINE T == {n \in Nat : ~ \E f : ScanRuns(f, n, parts)}
<1> SUFFICES ASSUME T # {} PROVE FALSE
  OBVIOUS
<1>1. PICK n \in T : \A m \in T : n <= m
  <2>1. T \in SUBSET Nat /\ T # {}
    OBVIOUS
  <2> HIDE DEF T
  <2> QED
    BY <2>1, LeastOf
<1>2. n # 0
  <2> DEFINE e == [k \in 0 .. 0 |-> 0]
  <2>1. \A k \in 0 .. 0 : ScanTurn(e, k, parts) = 0
    BY DEF ScanTurn
  <2>2. e = [k \in 0 .. 0 |-> ScanTurn(e, k, parts)]
    BY <2>1
  <2> HIDE DEF e
  <2> QED
    BY <2>2 DEF ScanRuns
<1>3. n - 1 \in Nat /\ n - 1 \notin T
  BY <1>1, <1>2
<1>4. PICK f : ScanRuns(f, n - 1, parts)
  BY <1>3
<1> DEFINE g == [k \in 0 .. n |-> IF k = n THEN ScanTurn(f, n, parts) ELSE f[k]]
<1>5. \A k \in 0 .. n : g[k] = ScanTurn(g, k, parts)
  <2> SUFFICES ASSUME NEW k \in 0 .. n PROVE g[k] = ScanTurn(g, k, parts)
    OBVIOUS
  <2>1. k # 0 => g[k - 1] = f[k - 1]
    BY <1>3
  <2>2. CASE k = n
    BY <2>1, <2>2, <1>2 DEF ScanTurn
  <2>3. CASE k # n
    <3>1. k \in 0 .. (n - 1)
      BY <1>3, <2>3
    <3>2. f[k] = ScanTurn(f, k, parts)
      BY <1>4, <3>1 DEF ScanRuns
    <3> QED
      BY <2>1, <2>3, <3>2 DEF ScanTurn
  <2> QED
    BY <2>2, <2>3
<1>6. g = [k \in 0 .. n |-> g[k]]
  OBVIOUS
<1>7. ScanRuns(g, n, parts)
  <2> HIDE DEF g
  <2> QED
    BY <1>5, <1>6 DEF ScanRuns
<1> QED
  BY <1>7, <1>1

\* Parts in the order that sort.Slice leaves them in, each of them once.
SortedParts(parts) ==
    /\ parts \in Seq([part : Int, off : Int, len : Int])
    /\ \A i \in 1 .. Len(parts) : ValidWindow(parts[i])
    /\ \A i, j \in 1 .. Len(parts) :
          i < j => parts[i].off <= parts[j].off /\ parts[i] # parts[j]

EndOf(w) == w.off + w.len

\* Each part begins where the one before it ends, and the last one ends with
\* the file.
Chained(parts) ==
    /\ Len(parts) # 0
    /\ parts[1].off = 0
    /\ \A i \in 2 .. Len(parts) : parts[i].off = EndOf(parts[i - 1])
    /\ EndOf(parts[Len(parts)]) = Size

LEMMA SortedBasics ==
    ASSUME NEW parts, SortedParts(parts)
    PROVE  /\ Len(parts) \in Nat
           /\ \A i \in 1 .. Len(parts) :
                /\ parts[i].off \in Nat /\ parts[i].len \in Nat \ {0}
                /\ EndOf(parts[i]) \in Nat /\ EndOf(parts[i]) <= Size
                /\ parts[i].off < EndOf(parts[i]) /\ parts[i].off \in Offsets
                /\ \A o \in Int : o \in CellsOf(parts[i])
                                    <=> parts[i].off <= o /\ o < EndOf(parts[i])
<1>1. Len(parts) \in Nat
  BY DEF SortedParts
<1>2. ASSUME NEW i \in 1 .. Len(parts)
      PROVE  /\ parts[i].off \in Nat /\ parts[i].len \in Nat \ {0}
             /\ EndOf(parts[i]) \in Nat /\ EndOf(parts[i]) <= Size
             /\ parts[i].off < EndOf(parts[i]) /\ parts[i].off \in Offsets
  <2>1. ValidWindow(parts[i])
    BY <1>2 DEF SortedParts
  <2>2. parts[i] \in [part : Int, off : Int, len : Int]
    <3> DEFINE Part == [part : Int, off : Int, len : Int]
    <3>1. parts \in Seq(Part)
      BY DEF SortedParts
    <3> HIDE DEF Part
    <3>2. parts[i] \in Part
      BY <3>1
    <3> QED
      BY <3>2 DEF Part
  <2> QED
    BY <2>1, <2>2, SizeAssumption DEF ValidWindow, EndOf, Offsets
<1>3. ASSUME NEW i \in 1 .. Len(parts), NEW o \in Int
      PROVE  o \in CellsOf(parts[i]) <=> parts[i].off <= o /\ o < EndOf(parts[i])
  <2>1. parts[i].off \in Nat /\ parts[i].len \in Nat
    BY <1>2
  <2>2. \A a, n \in Nat : o \in a .. (a + n - 1) <=> a <= o /\ o < a + n
    OBVIOUS
  <2> QED
    BY <2>1, <2>2 DEF CellsOf, EndOf
<1> QED
  BY <1>1, <1>2, <1>3

LEMMA ScanIsChain ==
    ASSUME NEW parts, SortedParts(parts)
    PROVE  ScanAccepts(parts) <=> Chained(parts)
<1> DEFINE N == Len(parts)
           F == CHOOSE f : ScanRuns(f, N, parts)
<1>0. /\ N \in Nat
      /\ \A i \in 1 .. N : /\ parts[i].off \in Nat /\ parts[i].len \in Nat \ {0}
                           /\ EndOf(parts[i]) = parts[i].off + parts[i].len
  BY SortedBasics DEF EndOf
<1>1. PICK f : ScanRuns(f, N, parts) /\ NextOffset(parts) = f[N]
  <2>1. ScanRuns(F, N, parts)
    BY <1>0, LoopRuns
  <2>2. NextOffset(parts) = F[N]
    BY DEF NextOffset, ScanRuns, ScanTurn
  <2> HIDE DEF F
  <2> QED
    BY <2>1, <2>2
<1> HIDE DEF N, F
<1>2. f[0] = 0
  BY <1>0, <1>1 DEF ScanRuns, ScanTurn
<1>3. \A k \in 1 .. N :
        f[k] = IF parts[k].off = f[k - 1] THEN f[k - 1] + parts[k].len ELSE -1
  <2> SUFFICES ASSUME NEW k \in 1 .. N
               PROVE  f[k] = IF parts[k].off = f[k - 1] THEN f[k - 1] + parts[k].len ELSE -1
    OBVIOUS
  <2>1. k \in 0 .. N /\ k # 0
    BY <1>0
  <2> QED
    BY <1>1, <2>1 DEF ScanRuns, ScanTurn
\* Once the loop has failed it stays so.
<1>4. ASSUME NEW k \in 1 .. N, parts[k].off # f[k - 1] PROVE f[N] = -1
  <2> DEFINE T == {j \in Nat : k <= j /\ j <= N /\ f[j] # -1}
  <2> SUFFICES ASSUME T # {} PROVE FALSE
    BY <1>0
  <2>1. PICK j \in T : \A m \in T : j <= m
    <3>1. T \in SUBSET Nat /\ T # {}
      OBVIOUS
    <3> HIDE DEF T
    <3> QED
      BY <3>1, LeastOf
  <2>2. f[k] = -1
    BY <1>3, <1>4
  <2>3. j # k /\ j \in k .. N
    BY <2>1, <2>2
  <2>4. j - 1 \in Nat /\ j - 1 \notin T /\ k <= j - 1 /\ j - 1 <= N /\ j \in 1 .. N
    BY <1>0, <2>1, <2>3
  <2>5. f[j - 1] = -1
    BY <2>4
  <2>6. parts[j].off # f[j - 1]
    BY <1>0, <2>4, <2>5
  <2> QED
    BY <1>3, <2>1, <2>4, <2>6
<1>5. ASSUME \A k \in 1 .. N : parts[k].off = f[k - 1], NEW k \in 1 .. N
      PROVE  f[k] = EndOf(parts[k])
  BY <1>0, <1>3, <1>5
<1>6. ASSUME f[N] = Size PROVE Chained(parts)
  <2>1. \A k \in 1 .. N : parts[k].off = f[k - 1]
    BY <1>4, <1>6, SizeAssumption
  <2>2. N # 0
    BY <1>2, <1>6, SizeAssumption
  <2>3. parts[1].off = 0
    BY <1>0, <1>2, <2>1, <2>2
  <2>4. \A i \in 2 .. N : parts[i].off = EndOf(parts[i - 1])
    <3> SUFFICES ASSUME NEW i \in 2 .. N PROVE parts[i].off = EndOf(parts[i - 1])
      OBVIOUS
    <3>1. i \in 1 .. N /\ i - 1 \in 1 .. N
      BY <1>0
    <3> QED
      BY <1>5, <2>1, <3>1
  <2>5. EndOf(parts[N]) = Size
    BY <1>0, <1>5, <1>6, <2>1, <2>2
  <2> QED
    BY <2>2, <2>3, <2>4, <2>5 DEF Chained, N
<1>7. ASSUME Chained(parts) PROVE f[N] = Size
  <2>0. /\ N # 0 /\ parts[1].off = 0 /\ EndOf(parts[N]) = Size
        /\ \A i \in 2 .. N : parts[i].off = EndOf(parts[i - 1])
    BY <1>7 DEF Chained, N
  <2> DEFINE T == {k \in Nat : k # 0 /\ k <= N /\ f[k] # EndOf(parts[k])}
  <2>1. T = {}
    <3> SUFFICES ASSUME T # {} PROVE FALSE
      OBVIOUS
    <3>1. PICK k \in T : \A m \in T : k <= m
      <4>1. T \in SUBSET Nat /\ T # {}
        OBVIOUS
      <4> HIDE DEF T
      <4> QED
        BY <4>1, LeastOf
    <3>2. k \in 1 .. N
      BY <1>0, <3>1
    <3>3. parts[k].off = f[k - 1]
      <4>1. CASE k = 1
        BY <1>2, <2>0, <4>1
      <4>2. CASE k # 1
        <5>1. k \in 2 .. N /\ k - 1 \in Nat /\ k - 1 # 0 /\ k - 1 <= N /\ k - 1 \notin T
          BY <1>0, <3>1, <3>2, <4>2
        <5>2. f[k - 1] = EndOf(parts[k - 1])
          BY <5>1
        <5> QED
          BY <2>0, <5>1, <5>2
      <4> QED
        BY <4>1, <4>2
    <3>4. f[k] = EndOf(parts[k])
      BY <1>0, <1>3, <3>2, <3>3
    <3> QED
      BY <3>1, <3>4
  <2> QED
    BY <1>0, <2>0, <2>1
<1> QED
  BY <1>1, <1>6, <1>7 DEF ScanAccepts

LEMMA ChainTiles ==
    ASSUME NEW parts, SortedParts(parts), Chained(parts)
    PROVE  Tiles({parts[i] : i \in 1 .. Len(parts)})
<1> DEFINE N == Len(parts)
<1>0. /\ N \in Nat /\ N # 0
      /\ \A i \in 1 .. N :
            /\ parts[i].off \in Nat /\ EndOf(parts[i]) \in Nat
            /\ \A o \in Int : o \in CellsOf(parts[i])
                                <=> parts[i].off <= o /\ o < EndOf(parts[i])
  BY SortedBasics DEF Chained
<1>1. /\ parts[1].off = 0 /\ EndOf(parts[N]) = Size
      /\ \A i \in 2 .. N : parts[i].off = EndOf(parts[i - 1])
  BY DEF Chained
<1>2. \A i, j \in 1 .. N : i < j => parts[i].off <= parts[j].off
  BY DEF SortedParts
<1> SUFFICES ASSUME NEW o \in Offsets
             PROVE  \E i \in 1 .. N :
                      /\ o \in CellsOf(parts[i])
                      /\ \A j \in 1 .. N : o \in CellsOf(parts[j]) => parts[j] = parts[i]
  BY DEF Tiles
<1> HIDE DEF N
<1>3. o \in Nat /\ o < Size /\ Size \in Nat
  BY SizeAssumption DEF Offsets
\* A part ends before every later one begins.
<1>4. ASSUME NEW i \in 1 .. N, NEW j \in 1 .. N, i < j
      PROVE  EndOf(parts[i]) <= parts[j].off
  <2>1. i + 1 \in 2 .. N /\ parts[i + 1].off = EndOf(parts[i]) /\ i + 1 \in 1 .. N
    <3>1. i + 1 \in 2 .. N /\ i + 1 \in 1 .. N /\ (i + 1) - 1 = i
      BY <1>0, <1>4
    <3> QED
      BY <1>1, <3>1
  <2>2. CASE i + 1 = j
    BY <1>0, <2>1, <2>2
  <2>3. CASE i + 1 < j
    BY <1>0, <1>2, <2>1, <2>3
  <2> QED
    BY <1>0, <1>4, <2>2, <2>3
\* The last part that begins at or before the offset holds it.
<1>5. PICK i \in 1 .. N : /\ parts[i].off <= o
                         /\ \A j \in 1 .. N : parts[j].off <= o => j <= i
  <2> DEFINE T == {k \in Nat : k < N /\ parts[N - k].off <= o}
  <2>1. N - 1 \in T
    BY <1>0, <1>1, <1>3
  <2>2. PICK k \in T : \A m \in T : k <= m
    <3>1. T \in SUBSET Nat /\ T # {}
      BY <2>1
    <3> HIDE DEF T
    <3> QED
      BY <3>1, LeastOf
  <2>3. N - k \in 1 .. N /\ parts[N - k].off <= o
    BY <1>0, <2>2
  <2>4. ASSUME NEW j \in 1 .. N, parts[j].off <= o PROVE j <= N - k
    <3>1. N - j \in Nat /\ N - j < N /\ N - (N - j) = j
      BY <1>0
    <3>2. N - j \in T
      BY <2>4, <3>1
    <3>3. k <= N - j /\ k \in Nat
      BY <2>2, <3>2
    <3> QED
      BY <1>0, <3>3
  <2> QED
    BY <2>3, <2>4
<1>6. o < EndOf(parts[i])
  <2>1. CASE i = N
    BY <1>1, <1>3, <2>1
  <2>2. CASE i # N
    <3>1. i + 1 \in 2 .. N /\ i + 1 \in 1 .. N /\ (i + 1) - 1 = i
      BY <1>0, <2>2
    <3>2. ~ (parts[i + 1].off <= o)
      BY <1>5, <3>1
    <3> QED
      BY <1>0, <1>1, <1>3, <3>1, <3>2
  <2> QED
    BY <2>1, <2>2
<1>7. o \in CellsOf(parts[i])
  BY <1>0, <1>3, <1>5, <1>6
<1>8. ASSUME NEW j \in 1 .. N, o \in CellsOf(parts[j]) PROVE parts[j] = parts[i]
  <2>1. parts[j].off <= o /\ o < EndOf(parts[j])
    BY <1>0, <1>3, <1>8
  <2>2. ~ (j < i)
    BY <1>0, <1>3, <1>4, <1>5, <2>1
  <2>3. j <= i
    BY <1>5, <2>1
  <2>4. j = i
    BY <1>0, <2>2, <2>3
  <2> QED
    BY <2>4
<1> QED
  BY <1>7, <1>8

LEMMA TilesChain ==
    ASSUME NEW parts, SortedParts(parts), Tiles({parts[i] : i \in 1 .. Len(parts)})
    PROVE  Chained(parts)
<1> DEFINE N == Len(parts)
<1>0. /\ N \in Nat
      /\ \A i \in 1 .. N :
            /\ parts[i].off \in Nat /\ EndOf(parts[i]) \in Nat /\ EndOf(parts[i]) <= Size
            /\ parts[i].off < EndOf(parts[i]) /\ parts[i].off \in Offsets
            /\ \A o \in Int : o \in CellsOf(parts[i])
                                <=> parts[i].off <= o /\ o < EndOf(parts[i])
  BY SortedBasics
<1>1. \A i, j \in 1 .. N : i < j => parts[i].off <= parts[j].off /\ parts[i] # parts[j]
  BY DEF SortedParts
<1>2. \A o \in Offsets :
         \E i \in 1 .. N : /\ o \in CellsOf(parts[i])
                           /\ \A j \in 1 .. N : o \in CellsOf(parts[j]) => parts[j] = parts[i]
  BY DEF Tiles
<1> HIDE DEF N
<1>3. Size \in Nat \ {0} /\ 0 \in Offsets /\ \A o \in Nat : o < Size => o \in Offsets
  BY SizeAssumption DEF Offsets
\* Two parts do not overlap.
<1>4. ASSUME NEW i \in 1 .. N, NEW j \in 1 .. N, NEW o \in Offsets,
             o \in CellsOf(parts[i]), o \in CellsOf(parts[j])
      PROVE  i = j
  <2>1. parts[i] = parts[j]
    BY <1>2, <1>4
  <2> QED
    BY <1>0, <1>1, <2>1
<1>5. ASSUME NEW i \in 1 .. N, NEW j \in 1 .. N, i < j
      PROVE  EndOf(parts[i]) <= parts[j].off
  <2> SUFFICES ASSUME parts[j].off < EndOf(parts[i]) PROVE FALSE
    BY <1>0
  <2>1. parts[j].off \in CellsOf(parts[i]) /\ parts[j].off \in CellsOf(parts[j])
    BY <1>0, <1>1, <1>5
  <2> QED
    BY <1>0, <1>4, <1>5, <2>1
\* Where a part ends another one begins, unless the file ends there.
<1>6. ASSUME NEW i \in 1 .. N, EndOf(parts[i]) # Size
      PROVE  i < N /\ parts[i + 1].off = EndOf(parts[i])
  <2>1. EndOf(parts[i]) \in Offsets /\ EndOf(parts[i]) \in Int
    BY <1>0, <1>3, <1>6
  <2>2. PICK j \in 1 .. N : EndOf(parts[i]) \in CellsOf(parts[j])
    BY <1>2, <2>1
  <2>3. parts[j].off <= EndOf(parts[i]) /\ EndOf(parts[i]) < EndOf(parts[j])
    BY <1>0, <2>1, <2>2
  <2>4. i < j
    <3>1. j # i
      BY <1>0, <2>3
    <3>2. ASSUME j < i PROVE FALSE
      <4>1. EndOf(parts[j]) <= parts[i].off
        BY <1>5, <3>2
      <4> QED
        BY <1>0, <2>3, <4>1
    <3> QED
      BY <1>0, <3>1, <3>2
  <2>5. i + 1 \in 1 .. N /\ i < N /\ i < i + 1
    BY <1>0, <2>4
  <2>6. parts[i + 1].off <= parts[j].off
    BY <1>0, <1>1, <2>4, <2>5
  <2>7. EndOf(parts[i]) <= parts[i + 1].off
    BY <1>5, <2>5
  <2> QED
    BY <1>0, <2>3, <2>5, <2>6, <2>7
<1>7. PICK s \in 1 .. N : 0 \in CellsOf(parts[s])
  BY <1>2, <1>3
<1>8. N # 0 /\ 1 \in 1 .. N /\ N \in 1 .. N
  BY <1>0, <1>7
<1>9. parts[1].off = 0
  <2>1. parts[s].off <= 0
    BY <1>0, <1>7
  <2>2. parts[1].off <= parts[s].off
    BY <1>0, <1>1, <1>7, <1>8
  <2> QED
    BY <1>0, <1>7, <1>8, <2>1, <2>2
<1>10. EndOf(parts[N]) = Size
  BY <1>0, <1>6, <1>8
<1>11. \A i \in 2 .. N : parts[i].off = EndOf(parts[i - 1])
  <2> SUFFICES ASSUME NEW i \in 2 .. N PROVE parts[i].off = EndOf(parts[i - 1])
    OBVIOUS
  <2>1. i - 1 \in 1 .. N /\ i \in 1 .. N /\ (i - 1) + 1 = i /\ i - 1 < i
    BY <1>0
  <2>2. EndOf(parts[i - 1]) <= parts[i].off
    BY <1>5, <2>1
  <2>3. EndOf(parts[i - 1]) # Size
    BY <1>0, <1>3, <2>1, <2>2
  <2> QED
    BY <1>6, <2>1, <2>3
<1> QED
  BY <1>8, <1>9, <1>10, <1>11 DEF Chained, N

\* For valid parts in the order of sort.Slice, however many there are, the
\* scan of SessionReceiver.Complete accepts them exactly if they tile the
\* file: no gap and no overlap gets through, and no tiling is refused.
THEOREM ScanAcceptsTilings ==
    ASSUME NEW parts, SortedParts(parts)
    PROVE  ScanAccepts(parts) <=> Tiles({parts[i] : i \in 1 .. Len(parts)})
  BY ScanIsChain, ChainTiles, TilesChain
=============================================================================
