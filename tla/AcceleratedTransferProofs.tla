----------------------- MODULE AcceleratedTransferProofs -----------------------
(***************************************************************************)
(* Proofs about AcceleratedTransfer, for any number of chunks, levels of   *)
(* striping and changes of the source: the receiver in it behaves as       *)
(* AcceleratedReception says, so what is proved there holds for the whole; *)
(* the file is delivered at most once; and, if at most one thing breaks,   *)
(* the two sides implement FileDelivery.                                   *)
(***************************************************************************)
EXTENDS AcceleratedTransfer, TLAPS

---------------------------------------------------------------------------
(* The receiver by itself: the invariant of AcceleratedReception.          *)

\* Before the session is listed there is nothing of it to end.
NothingBeforeSession ==
    /\ row = "absent" \/ pc["prepare"] = "saved" =>
          /\ session = NoSession
          /\ \A t \in Finalizers : pc[t] \in {"none", "arrived", "refused"}
          /\ pc["fallback"] \in {"none", "arrived", "inserting", "refused"}
          /\ \A c \in Chunks : conn[c] \in {"none", "closed"}
          /\ ~receiver.finalizing /\ ~receiver.closing
          /\ override = "none" /\ disk.staged # "final" /\ ~disk.single
    /\ row = "absent" =>
          /\ pc["prepare"] \in {"none", "arrived", "refused"}
          /\ ~receiver.open /\ disk.staged = "none"

\* While the receiver may touch the staged file it is there, and who drains
\* the lanes and who publishes the file exclude each other.
StagedFileIsHeld ==
    /\ receiver.open \/ receiver.finalizing => disk.staged = "part"
    /\ pc["complete"] = "committing" => receiver.finalizing /\ ~receiver.open
    /\ \A t \in Threads :
          pc[t] = "draining" => ~receiver.finalizing /\ (receiver.closing \/ ~receiver.open)

WritersAreCounted ==
    \A c \in Chunks : conn[c] = "writing" => c \in receiver.inFlight /\ receiver.open

\* No thread can become the owner of the session's end any more.
Claimed ==
    /\ row # "absent"
    /\ \/ session.closed
       \/ /\ ~session.listed /\ pc["prepare"] # "saved"
          /\ \A t \in Finalizers : pc[t] # "found"

Undecided == {"checking", "committing", "failing", "draining", "copying", "failed"}
Owns(t) == pc[t] \in Undecided \cup {"done"}

\* One owner at a time, and the first one decides; unless the ordinary path
\* took the session from another owner.
OwnerIsAlone ==
    ~contested => \A t, u \in Threads : Owns(t) /\ Owns(u) => t = u

OwnedIsClaimed ==
    ~contested /\ ((\E t \in Threads : Owns(t)) \/ Outcome \in Terminal \/ Delivered) => Claimed

OwnedIsOpen ==
    ~contested => /\ \A t \in Threads : Owns(t) => Outcome \notin Terminal
                  /\ override # "none" => row \notin Terminal

UndecidedIsUndelivered ==
    /\ ~contested => \A t \in Threads : pc[t] \in Undecided => ~Delivered
    /\ \A t \in Threads : pc[t] = "done" => Delivered

OneOwner ==
    OwnerIsAlone /\ OwnedIsClaimed /\ OwnedIsOpen /\ UndecidedIsUndelivered

IInv ==
    /\ TypeOK /\ NothingBeforeSession /\ StagedFileIsHeld /\ WritersAreCounted
    /\ PublishedIsOneVersion /\ OneOwner /\ OutcomeMatchesFile

---------------------------------------------------------------------------
\* What the publishing step does to the file and to its thread: it gives the
\* file its name after comparing all of it, or changes nothing.
Commits(v) ==
    \/ /\ pc' = [pc EXCEPT !["complete"] = "done"]
       /\ \A c \in Chunks : disk.data[c] = v
       /\ disk'.staged = "final" /\ disk'.single = disk.single /\ disk'.data = disk.data
    \/ /\ pc' = [pc EXCEPT !["complete"] = "failing"]
       /\ disk' = disk

LEMMA CommitEffect ==
    ASSUME RecordTypeOK, NEW v \in Versions, CommitFile(v)
    PROVE  Commits(v) /\ pc["complete"] = "committing" /\ UNCHANGED <<session, conn, stored, history>>
<1>1. /\ pc["complete"] = "committing" /\ UNCHANGED <<session, conn, stored, history>>
      /\ \/ /\ \A c \in Chunks : disk.data[c] = v
            /\ \/ disk' = [disk EXCEPT !.staged = "final"]
               \/ disk' = [disk EXCEPT !.staged = "final", !.left = TRUE]
            /\ pc' = [pc EXCEPT !["complete"] = "done"]
         \/ pc' = [pc EXCEPT !["complete"] = "failing"] /\ disk' = disk
  BY DEF CommitFile, Goto
<1>2. ASSUME disk' = [disk EXCEPT !.staged = "final"]
      PROVE  disk'.staged = "final" /\ disk'.single = disk.single /\ disk'.data = disk.data
  BY <1>2 DEF RecordTypeOK
<1>3. ASSUME disk' = [disk EXCEPT !.staged = "final", !.left = TRUE]
      PROVE  disk'.staged = "final" /\ disk'.single = disk.single /\ disk'.data = disk.data
  BY <1>3 DEF RecordTypeOK
<1> QED
  BY <1>1, <1>2, <1>3, Zenon DEF Commits

\* Every step keeps the types of the histories.
LEMMA FlagTypeStep ==
    ASSUME FlagTypeOK, [Next]_vars
    PROVE  FlagTypeOK'
<1> USE DEF FlagTypeOK, stored, history, Fail, Goto, Lane, Requests, Threads,
        Finalizers, Terminal
<1>0. CASE UNCHANGED vars
  BY Zenon, <1>0 DEF vars, stored, history
<1>1. ASSUME NEW t \in Requests, Arrive(t) PROVE FlagTypeOK'
  BY Zenon, <1>1 DEF Arrive
<1>2. CASE SavePrepared
  BY Zenon, <1>2 DEF SavePrepared, DropStaged, NoReceiver
<1>3. CASE ListSession
  BY Zenon, <1>3 DEF ListSession, NoSession
<1>4. CASE RegisterSession
  BY Zenon, <1>4 DEF RegisterSession
<1>5. CASE TakeSession
  BY Zenon, <1>5 DEF TakeSession
<1>6. CASE InsertTransfer
  BY Zenon, <1>6 DEF InsertTransfer
<1>7. CASE CopyBody
  BY Zenon, <1>7 DEF CopyBody
<1>8. ASSUME NEW t \in Finalizers, LookupSession(t) PROVE FlagTypeOK'
  BY Zenon, <1>8 DEF LookupSession
<1>9. ASSUME NEW t \in Finalizers, BeginFinalization(t) PROVE FlagTypeOK'
  BY Zenon, <1>9 DEF BeginFinalization
<1>10. CASE ReceiverComplete
  BY Zenon, <1>10 DEF ReceiverComplete, TakesFrames
<1>11. ASSUME NEW t \in Finalizers, Release(t) PROVE FlagTypeOK'
  BY Zenon, <1>11 DEF Release
<1>12. ASSUME NEW t \in Threads, BeginCleanup(t) PROVE FlagTypeOK'
  BY Zenon, <1>12 DEF BeginCleanup, AfterCleanup
<1>13. ASSUME NEW t \in Threads, EndCleanup(t) PROVE FlagTypeOK'
  BY Zenon, <1>13 DEF EndCleanup, RemoveStaged, AfterCleanup
<1>14. ASSUME NEW t \in Threads, Settle(t) PROVE FlagTypeOK'
  BY Zenon, <1>14 DEF Settle, Reply
<1>15. ASSUME NEW v \in Versions, CommitFile(v) PROVE FlagTypeOK'
  BY Zenon, <1>15 DEF CommitFile
<1>16. ASSUME NEW c \in Chunks, NEW v \in Versions, EndFrame(c, v) PROVE FlagTypeOK'
  BY Zenon, <1>16 DEF EndFrame
<1>17. ASSUME NEW c \in Chunks, AuthorizeLane(c) PROVE FlagTypeOK'
  BY Zenon, <1>17 DEF AuthorizeLane
<1>18. ASSUME NEW c \in Chunks, BeginFrame(c) PROVE FlagTypeOK'
  BY Zenon, <1>18 DEF BeginFrame, TakesFrames
<1>19. ASSUME NEW c \in Chunks, AcknowledgeFrame(c) PROVE FlagTypeOK'
  BY Zenon, <1>19 DEF AcknowledgeFrame, TakesFrames
<1>20. CASE Elapse
  BY Zenon, <1>20 DEF Elapse
<1>21. CASE FireTimer
  BY Zenon, <1>21 DEF FireTimer
<1>22. CASE Restart
  BY Zenon, <1>22 DEF Restart, NoSession, NoReceiver
<1> QED
  BY Zenon, <1>0, <1>1, <1>2, <1>3, <1>4, <1>5, <1>6, <1>7, <1>8, <1>9, <1>10,
     <1>11, <1>12, <1>13, <1>14, <1>15, <1>16, <1>17, <1>18, <1>19, <1>20, <1>21,
     <1>22
  DEF Next, PrepareStep, FinalizeStep, FallbackStep, EndStep, LaneStep

\* A thread and a lane are always at a place of the code.
LEMMA PlaceTypeStep ==
    ASSUME PlaceTypeOK, [Next]_vars
    PROVE  PlaceTypeOK'
<1> USE DEF PlaceTypeOK, stored, history, Fail, Goto, Lane, Requests, Threads,
        Finalizers, Terminal
<1>0. CASE UNCHANGED vars
  BY <1>0 DEF vars, stored, history
<1>1. ASSUME NEW t \in Requests, Arrive(t) PROVE PlaceTypeOK'
  BY <1>1 DEF Arrive
<1>2. CASE SavePrepared
  BY <1>2 DEF SavePrepared, DropStaged, NoReceiver
<1>3. CASE ListSession
  BY <1>3 DEF ListSession, NoSession
<1>4. CASE RegisterSession
  BY <1>4 DEF RegisterSession
<1>5. CASE TakeSession
  BY <1>5 DEF TakeSession
<1>6. CASE InsertTransfer
  BY <1>6 DEF InsertTransfer
<1>7. CASE CopyBody
  BY <1>7 DEF CopyBody
<1>8. ASSUME NEW t \in Finalizers, LookupSession(t) PROVE PlaceTypeOK'
  BY <1>8 DEF LookupSession
<1>9. ASSUME NEW t \in Finalizers, BeginFinalization(t) PROVE PlaceTypeOK'
  BY <1>9 DEF BeginFinalization
<1>10. CASE ReceiverComplete
  BY <1>10 DEF ReceiverComplete, TakesFrames
<1>11. ASSUME NEW t \in Finalizers, Release(t) PROVE PlaceTypeOK'
  BY <1>11 DEF Release
<1>12. ASSUME NEW t \in Threads, BeginCleanup(t) PROVE PlaceTypeOK'
  BY <1>12 DEF BeginCleanup, AfterCleanup
<1>13. ASSUME NEW t \in Threads, EndCleanup(t) PROVE PlaceTypeOK'
  BY <1>13 DEF EndCleanup, RemoveStaged, AfterCleanup
<1>14. ASSUME NEW t \in Threads, Settle(t) PROVE PlaceTypeOK'
  BY <1>14 DEF Settle, Reply
<1>15. ASSUME NEW v \in Versions, CommitFile(v) PROVE PlaceTypeOK'
  BY <1>15 DEF CommitFile
<1>16. ASSUME NEW c \in Chunks, NEW v \in Versions, EndFrame(c, v) PROVE PlaceTypeOK'
  BY <1>16 DEF EndFrame
<1>17. ASSUME NEW c \in Chunks, AuthorizeLane(c) PROVE PlaceTypeOK'
  BY <1>17 DEF AuthorizeLane
<1>18. ASSUME NEW c \in Chunks, BeginFrame(c) PROVE PlaceTypeOK'
  BY <1>18 DEF BeginFrame, TakesFrames
<1>19. ASSUME NEW c \in Chunks, AcknowledgeFrame(c) PROVE PlaceTypeOK'
  BY <1>19 DEF AcknowledgeFrame, TakesFrames
<1>20. CASE Elapse
  BY <1>20 DEF Elapse
<1>21. CASE FireTimer
  BY <1>21 DEF FireTimer
<1>22. CASE Restart
  BY <1>22 DEF Restart, NoSession, NoReceiver
<1> QED
  BY <1>0, <1>1, <1>2, <1>3, <1>4, <1>5, <1>6, <1>7, <1>8, <1>9, <1>10, <1>11,
     <1>12, <1>13, <1>14, <1>15, <1>16, <1>17, <1>18, <1>19, <1>20, <1>21, <1>22
  DEF Next, PrepareStep, FinalizeStep, FallbackStep, EndStep, LaneStep

\* Every step keeps the types of the session, the receiver and the disk.
LEMMA RecordTypeStep ==
    ASSUME RecordTypeOK, [Next]_vars
    PROVE  RecordTypeOK'
<1> USE DEF RecordTypeOK, stored, history, Fail, Goto, Lane, Requests, Threads,
        Finalizers, Terminal
<1>0. CASE UNCHANGED vars
  BY <1>0 DEF vars, stored, history
<1>1. ASSUME NEW t \in Requests, Arrive(t) PROVE RecordTypeOK'
  BY <1>1 DEF Arrive
<1>2. CASE SavePrepared
  BY <1>2 DEF SavePrepared, DropStaged, NoReceiver
<1>3. CASE ListSession
  BY <1>3 DEF ListSession, NoSession
<1>4. CASE RegisterSession
  BY <1>4 DEF RegisterSession
<1>5. CASE TakeSession
  <2>1. CASE session.listed
    <3>1. session' = [session EXCEPT !.listed = FALSE, !.bound = FALSE,
                                     !.timer = "off", !.closed = TRUE]
      BY <1>5, <2>1 DEF TakeSession
    <3>2. session' \in [listed : BOOLEAN, bound : BOOLEAN, closed : BOOLEAN,
                        timer : {"off", "armed"}, late : BOOLEAN]
      BY <3>1
    <3> QED
      BY <1>5, <3>2 DEF TakeSession
  <2>2. CASE ~session.listed
    BY <1>5, <2>2 DEF TakeSession
  <2> QED
    BY <2>1, <2>2
<1>6. CASE InsertTransfer
  BY <1>6 DEF InsertTransfer
<1>7. CASE CopyBody
  BY <1>7 DEF CopyBody
<1>8. ASSUME NEW t \in Finalizers, LookupSession(t) PROVE RecordTypeOK'
  BY <1>8 DEF LookupSession
<1>9. ASSUME NEW t \in Finalizers, BeginFinalization(t) PROVE RecordTypeOK'
  BY ZenonT(40), <1>9 DEF BeginFinalization
<1>10. CASE ReceiverComplete
  BY ZenonT(40), <1>10 DEF ReceiverComplete, TakesFrames
<1>11. ASSUME NEW t \in Finalizers, Release(t) PROVE RecordTypeOK'
  BY <1>11 DEF Release
<1>12. ASSUME NEW t \in Threads, BeginCleanup(t) PROVE RecordTypeOK'
  BY ZenonT(60), <1>12 DEF BeginCleanup, AfterCleanup
<1>13. ASSUME NEW t \in Threads, EndCleanup(t) PROVE RecordTypeOK'
  BY ZenonT(60), <1>13 DEF EndCleanup, RemoveStaged, AfterCleanup
<1>14. ASSUME NEW t \in Threads, Settle(t) PROVE RecordTypeOK'
  BY <1>14 DEF Settle, Reply
<1>15. ASSUME NEW v \in Versions, CommitFile(v) PROVE RecordTypeOK'
  BY <1>15 DEF CommitFile
<1>16. ASSUME NEW c \in Chunks, NEW v \in Versions, EndFrame(c, v) PROVE RecordTypeOK'
  <2>1. receiver' \in [open : BOOLEAN, closing : BOOLEAN, finalizing : BOOLEAN,
                     windows : SUBSET Chunks, inFlight : SUBSET Chunks, acked : SUBSET Chunks]
    <3>1. CASE receiver' = [receiver EXCEPT !.inFlight = @ \ {c},
                                !.windows = IF receiver.closing THEN @ ELSE @ \cup {c}]
      BY <3>1
    <3>2. CASE receiver' = [receiver EXCEPT !.inFlight = @ \ {c}]
      BY <3>2
    <3> QED
      BY <1>16, <3>1, <3>2 DEF EndFrame
  <2>2. disk' \in [staged : {"none", "part", "final"}, single : BOOLEAN, left : BOOLEAN,
                  data : [Chunks -> Versions \cup {0}]]
    BY <1>16 DEF EndFrame
  <2> QED
    BY <1>16, <2>1, <2>2 DEF EndFrame
<1>17. ASSUME NEW c \in Chunks, AuthorizeLane(c) PROVE RecordTypeOK'
  BY <1>17 DEF AuthorizeLane
<1>18. ASSUME NEW c \in Chunks, BeginFrame(c) PROVE RecordTypeOK'
  BY <1>18 DEF BeginFrame, TakesFrames
<1>19. ASSUME NEW c \in Chunks, AcknowledgeFrame(c) PROVE RecordTypeOK'
  BY <1>19 DEF AcknowledgeFrame, TakesFrames
<1>20. CASE Elapse
  BY <1>20 DEF Elapse
<1>21. CASE FireTimer
  BY <1>21 DEF FireTimer
<1>22. CASE Restart
  BY <1>22 DEF Restart, NoSession, NoReceiver
<1> QED
  BY <1>0, <1>1, <1>2, <1>3, <1>4, <1>5, <1>6, <1>7, <1>8, <1>9, <1>10, <1>11,
     <1>12, <1>13, <1>14, <1>15, <1>16, <1>17, <1>18, <1>19, <1>20, <1>21, <1>22
  DEF Next, PrepareStep, FinalizeStep, FallbackStep, EndStep, LaneStep

\* Every step keeps the types of the rows; what is stored is an outcome.
LEMMA StoreTypeStep ==
    ASSUME StoreTypeOK, PlaceTypeOK, [Next]_vars
    PROVE  StoreTypeOK'
<1> USE DEF StoreTypeOK, PlaceTypeOK, stored, history, Fail, Goto, Lane, Requests,
        Threads, Finalizers, Terminal
<1>0. CASE UNCHANGED vars
  BY ReceptionAssumption, <1>0 DEF vars, stored, history
<1>1. ASSUME NEW t \in Requests, Arrive(t) PROVE StoreTypeOK'
  BY ReceptionAssumption, <1>1 DEF Arrive
<1>2. CASE SavePrepared
  BY ReceptionAssumption, <1>2 DEF SavePrepared, DropStaged, NoReceiver
<1>3. CASE ListSession
  BY ReceptionAssumption, <1>3 DEF ListSession, NoSession
<1>4. CASE RegisterSession
  BY ReceptionAssumption, <1>4 DEF RegisterSession
<1>5. CASE TakeSession
  BY ReceptionAssumption, <1>5 DEF TakeSession
<1>6. CASE InsertTransfer
  BY ReceptionAssumption, <1>6 DEF InsertTransfer
<1>7. CASE CopyBody
  BY ReceptionAssumption, <1>7 DEF CopyBody
<1>8. ASSUME NEW t \in Finalizers, LookupSession(t) PROVE StoreTypeOK'
  BY ReceptionAssumption, <1>8 DEF LookupSession
<1>9. ASSUME NEW t \in Finalizers, BeginFinalization(t) PROVE StoreTypeOK'
  BY ReceptionAssumption, <1>9 DEF BeginFinalization
<1>10. CASE ReceiverComplete
  BY ReceptionAssumption, <1>10 DEF ReceiverComplete, TakesFrames
<1>11. ASSUME NEW t \in Finalizers, Release(t) PROVE StoreTypeOK'
  BY ReceptionAssumption, <1>11 DEF Release
<1>12. ASSUME NEW t \in Threads, BeginCleanup(t) PROVE StoreTypeOK'
  BY ReceptionAssumption, <1>12 DEF BeginCleanup, AfterCleanup
<1>13. ASSUME NEW t \in Threads, EndCleanup(t) PROVE StoreTypeOK'
  BY ReceptionAssumption, <1>13 DEF EndCleanup, RemoveStaged, AfterCleanup
<1>14. ASSUME NEW t \in Threads, Settle(t) PROVE StoreTypeOK'
  BY ReceptionAssumption, <1>14 DEF Settle, Reply
<1>15. ASSUME NEW v \in Versions, CommitFile(v) PROVE StoreTypeOK'
  BY ReceptionAssumption, <1>15 DEF CommitFile
<1>16. ASSUME NEW c \in Chunks, NEW v \in Versions, EndFrame(c, v) PROVE StoreTypeOK'
  BY ReceptionAssumption, <1>16 DEF EndFrame
<1>17. ASSUME NEW c \in Chunks, AuthorizeLane(c) PROVE StoreTypeOK'
  BY ReceptionAssumption, <1>17 DEF AuthorizeLane
<1>18. ASSUME NEW c \in Chunks, BeginFrame(c) PROVE StoreTypeOK'
  BY ReceptionAssumption, <1>18 DEF BeginFrame, TakesFrames
<1>19. ASSUME NEW c \in Chunks, AcknowledgeFrame(c) PROVE StoreTypeOK'
  BY ReceptionAssumption, <1>19 DEF AcknowledgeFrame, TakesFrames
<1>20. CASE Elapse
  BY ReceptionAssumption, <1>20 DEF Elapse
<1>21. CASE FireTimer
  BY ReceptionAssumption, <1>21 DEF FireTimer
<1>22. CASE Restart
  BY ReceptionAssumption, <1>22 DEF Restart, NoSession, NoReceiver
<1> QED
  BY ReceptionAssumption, <1>0, <1>1, <1>2, <1>3, <1>4, <1>5, <1>6, <1>7, <1>8,
     <1>9, <1>10, <1>11, <1>12, <1>13, <1>14, <1>15, <1>16, <1>17, <1>18, <1>19,
     <1>20, <1>21, <1>22
  DEF Next, PrepareStep, FinalizeStep, FallbackStep, EndStep, LaneStep

\* Before the session is listed no step can end it: every way to an end starts
\* from a listed session, or from the row.
LEMMA NothingBeforeStep ==
    ASSUME TypeOK, NothingBeforeSession, [Next]_vars
    PROVE  NothingBeforeSession'
<1> USE DEF TypeOK, PlaceTypeOK, RecordTypeOK, NothingBeforeSession, NoSession,
        stored, history, Fail, Goto, Lane, Requests, Threads, Finalizers, Terminal
<1>0. CASE UNCHANGED vars
  BY <1>0 DEF vars, stored, history
<1>1. ASSUME NEW t \in Requests, Arrive(t) PROVE NothingBeforeSession'
  BY <1>1 DEF Arrive
<1>2. CASE SavePrepared
  BY <1>2 DEF SavePrepared, DropStaged, NoReceiver
<1>3. CASE ListSession
  BY <1>3 DEF ListSession, NoSession
<1>4. CASE RegisterSession
  BY <1>4 DEF RegisterSession
<1>5. CASE TakeSession
  BY <1>5 DEF TakeSession
<1>6. CASE InsertTransfer
  BY <1>6 DEF InsertTransfer
<1>7. CASE CopyBody
  BY <1>7 DEF CopyBody
<1>8. ASSUME NEW t \in Finalizers, LookupSession(t) PROVE NothingBeforeSession'
  BY <1>8 DEF LookupSession
<1>9. ASSUME NEW t \in Finalizers, BeginFinalization(t) PROVE NothingBeforeSession'
  BY <1>9 DEF BeginFinalization
<1>10. CASE ReceiverComplete
  BY <1>10 DEF ReceiverComplete, TakesFrames
<1>11. ASSUME NEW t \in Finalizers, Release(t) PROVE NothingBeforeSession'
  BY <1>11 DEF Release
<1>12. ASSUME NEW t \in Threads, BeginCleanup(t) PROVE NothingBeforeSession'
  BY <1>12 DEF BeginCleanup, AfterCleanup
<1>13. ASSUME NEW t \in Threads, EndCleanup(t) PROVE NothingBeforeSession'
  BY <1>13 DEF EndCleanup, RemoveStaged, AfterCleanup
<1>14. ASSUME NEW t \in Threads, Settle(t) PROVE NothingBeforeSession'
  BY <1>14 DEF Settle, Reply
<1>15. ASSUME NEW v \in Versions, CommitFile(v) PROVE NothingBeforeSession'
  BY <1>15 DEF CommitFile
<1>16. ASSUME NEW c \in Chunks, NEW v \in Versions, EndFrame(c, v) PROVE NothingBeforeSession'
  BY <1>16 DEF EndFrame
<1>17. ASSUME NEW c \in Chunks, AuthorizeLane(c) PROVE NothingBeforeSession'
  BY <1>17 DEF AuthorizeLane
<1>18. ASSUME NEW c \in Chunks, BeginFrame(c) PROVE NothingBeforeSession'
  BY <1>18 DEF BeginFrame, TakesFrames
<1>19. ASSUME NEW c \in Chunks, AcknowledgeFrame(c) PROVE NothingBeforeSession'
  BY <1>19 DEF AcknowledgeFrame, TakesFrames
<1>20. CASE Elapse
  BY <1>20 DEF Elapse
<1>21. CASE FireTimer
  BY <1>21 DEF FireTimer
<1>22. CASE Restart
  BY <1>22 DEF Restart, NoSession, NoReceiver
<1> QED
  BY <1>0, <1>1, <1>2, <1>3, <1>4, <1>5, <1>6, <1>7, <1>8, <1>9, <1>10, <1>11,
     <1>12, <1>13, <1>14, <1>15, <1>16, <1>17, <1>18, <1>19, <1>20, <1>21, <1>22
  DEF Next, PrepareStep, FinalizeStep, FallbackStep, EndStep, LaneStep

\* Opening, draining and publishing keep each other off the staged file.
LEMMA StagedFileStep ==
    ASSUME TypeOK, NothingBeforeSession, StagedFileIsHeld, [Next]_vars
    PROVE  StagedFileIsHeld'
<1> USE DEF TypeOK, PlaceTypeOK, RecordTypeOK, NothingBeforeSession,
        StagedFileIsHeld, stored, history, Fail, Goto, Lane, Requests, Threads,
        Finalizers, Terminal
<1>0. CASE UNCHANGED vars
  BY <1>0 DEF vars, stored, history
<1>1. ASSUME NEW t \in Requests, Arrive(t) PROVE StagedFileIsHeld'
  BY <1>1 DEF Arrive
<1>2. CASE SavePrepared
  BY <1>2 DEF SavePrepared, DropStaged, NoReceiver
<1>3. CASE ListSession
  BY <1>3 DEF ListSession, NoSession
<1>4. CASE RegisterSession
  BY <1>4 DEF RegisterSession
<1>5. CASE TakeSession
  BY <1>5 DEF TakeSession
<1>6. CASE InsertTransfer
  BY <1>6 DEF InsertTransfer
<1>7. CASE CopyBody
  BY <1>7 DEF CopyBody
<1>8. ASSUME NEW t \in Finalizers, LookupSession(t) PROVE StagedFileIsHeld'
  BY <1>8 DEF LookupSession
<1>9. ASSUME NEW t \in Finalizers, BeginFinalization(t) PROVE StagedFileIsHeld'
  BY <1>9 DEF BeginFinalization
<1>10. CASE ReceiverComplete
  <2>1. CASE TakesFrames /\ pc'["complete"] = "committing"
    <3>1. \A t \in Threads : pc[t] # "draining"
      BY <2>1 DEF TakesFrames
    <3>2. receiver' = [receiver EXCEPT !.finalizing = TRUE, !.open = FALSE] /\ UNCHANGED disk
      BY <1>10, <2>1 DEF ReceiverComplete, TakesFrames
    <3>4. disk'.staged = "part" /\ receiver'.finalizing /\ ~receiver'.open
      BY <2>1, <3>2 DEF TakesFrames
    <3>3. \A t \in Threads : pc'[t] # "draining"
      BY <1>10, <3>1 DEF ReceiverComplete
    <3> QED
      BY <3>3, <3>4
  <2>2. CASE UNCHANGED receiver /\ pc' = [pc EXCEPT !["complete"] = "failing"]
    BY <1>10, <2>2 DEF ReceiverComplete
  <2> QED
    BY <1>10, <2>1, <2>2 DEF ReceiverComplete
<1>11. ASSUME NEW t \in Finalizers, Release(t) PROVE StagedFileIsHeld'
  BY <1>11 DEF Release
<1>12. ASSUME NEW t \in Threads, BeginCleanup(t) PROVE StagedFileIsHeld'
  BY <1>12 DEF BeginCleanup, AfterCleanup
<1>13. ASSUME NEW t \in Threads, EndCleanup(t) PROVE StagedFileIsHeld'
  BY <1>13 DEF EndCleanup, RemoveStaged, AfterCleanup
<1>14. ASSUME NEW t \in Threads, Settle(t) PROVE StagedFileIsHeld'
  BY <1>14 DEF Settle, Reply
<1>15. ASSUME NEW v \in Versions, CommitFile(v) PROVE StagedFileIsHeld'
  BY <1>15 DEF CommitFile
<1>16. ASSUME NEW c \in Chunks, NEW v \in Versions, EndFrame(c, v) PROVE StagedFileIsHeld'
  <2>1. /\ receiver'.open = receiver.open /\ receiver'.finalizing = receiver.finalizing
        /\ receiver'.closing = receiver.closing
    BY ZenonT(40), <1>16 DEF EndFrame
  <2>2. disk'.staged = disk.staged
    BY <1>16 DEF EndFrame
  <2>3. UNCHANGED pc
    BY <1>16 DEF EndFrame
  <2> QED
    BY <2>1, <2>2, <2>3
<1>17. ASSUME NEW c \in Chunks, AuthorizeLane(c) PROVE StagedFileIsHeld'
  BY <1>17 DEF AuthorizeLane
<1>18. ASSUME NEW c \in Chunks, BeginFrame(c) PROVE StagedFileIsHeld'
  BY <1>18 DEF BeginFrame, TakesFrames
<1>19. ASSUME NEW c \in Chunks, AcknowledgeFrame(c) PROVE StagedFileIsHeld'
  BY <1>19 DEF AcknowledgeFrame, TakesFrames
<1>20. CASE Elapse
  BY <1>20 DEF Elapse
<1>21. CASE FireTimer
  BY <1>21 DEF FireTimer
<1>22. CASE Restart
  BY <1>22 DEF Restart, NoSession, NoReceiver
<1> QED
  BY <1>0, <1>1, <1>2, <1>3, <1>4, <1>5, <1>6, <1>7, <1>8, <1>9, <1>10, <1>11,
     <1>12, <1>13, <1>14, <1>15, <1>16, <1>17, <1>18, <1>19, <1>20, <1>21, <1>22
  DEF Next, PrepareStep, FinalizeStep, FallbackStep, EndStep, LaneStep

\* A receiver with a writer neither publishes nor closes its file.
LEMMA WritersStep ==
    ASSUME TypeOK, NothingBeforeSession, WritersAreCounted, StagedFileIsHeld, [Next]_vars
    PROVE  WritersAreCounted'
<1> USE DEF TypeOK, PlaceTypeOK, RecordTypeOK, NothingBeforeSession,
        WritersAreCounted, stored, history, Fail, Goto, Lane, Requests, Threads,
        Finalizers, Terminal
<1>0. CASE UNCHANGED vars
  BY <1>0 DEF vars, stored, history
<1>1. ASSUME NEW t \in Requests, Arrive(t) PROVE WritersAreCounted'
  BY <1>1 DEF Arrive
<1>2. CASE SavePrepared
  BY <1>2 DEF SavePrepared, DropStaged, NoReceiver
<1>3. CASE ListSession
  BY <1>3 DEF ListSession, NoSession
<1>4. CASE RegisterSession
  BY <1>4 DEF RegisterSession
<1>5. CASE TakeSession
  BY <1>5 DEF TakeSession
<1>6. CASE InsertTransfer
  BY <1>6 DEF InsertTransfer
<1>7. CASE CopyBody
  BY <1>7 DEF CopyBody
<1>8. ASSUME NEW t \in Finalizers, LookupSession(t) PROVE WritersAreCounted'
  BY <1>8 DEF LookupSession
<1>9. ASSUME NEW t \in Finalizers, BeginFinalization(t) PROVE WritersAreCounted'
  BY <1>9 DEF BeginFinalization
<1>10. CASE ReceiverComplete
  BY <1>10 DEF ReceiverComplete, TakesFrames
<1>11. ASSUME NEW t \in Finalizers, Release(t) PROVE WritersAreCounted'
  BY <1>11 DEF Release
<1>12. ASSUME NEW t \in Threads, BeginCleanup(t) PROVE WritersAreCounted'
  BY <1>12 DEF BeginCleanup, AfterCleanup
<1>13. ASSUME NEW t \in Threads, EndCleanup(t) PROVE WritersAreCounted'
  BY <1>13 DEF EndCleanup, RemoveStaged, AfterCleanup
<1>14. ASSUME NEW t \in Threads, Settle(t) PROVE WritersAreCounted'
  BY <1>14 DEF Settle, Reply
<1>15. ASSUME NEW v \in Versions, CommitFile(v) PROVE WritersAreCounted'
  BY <1>15 DEF CommitFile
<1>16. ASSUME NEW c \in Chunks, NEW v \in Versions, EndFrame(c, v) PROVE WritersAreCounted'
  <2>1. receiver'.open = receiver.open /\ receiver'.inFlight = receiver.inFlight \ {c}
    BY <1>16 DEF EndFrame
  <2>2. \A d \in Chunks : conn'[d] = "writing" => d # c /\ conn[d] = "writing"
    BY <1>16 DEF EndFrame
  <2> QED
    BY <2>1, <2>2
<1>17. ASSUME NEW c \in Chunks, AuthorizeLane(c) PROVE WritersAreCounted'
  BY <1>17 DEF AuthorizeLane
<1>18. ASSUME NEW c \in Chunks, BeginFrame(c) PROVE WritersAreCounted'
  BY <1>18 DEF BeginFrame, TakesFrames
<1>19. ASSUME NEW c \in Chunks, AcknowledgeFrame(c) PROVE WritersAreCounted'
  BY <1>19 DEF AcknowledgeFrame, TakesFrames
<1>20. CASE Elapse
  BY <1>20 DEF Elapse
<1>21. CASE FireTimer
  BY <1>21 DEF FireTimer
<1>22. CASE Restart
  BY <1>22 DEF Restart, NoSession, NoReceiver
<1> QED
  BY <1>0, <1>1, <1>2, <1>3, <1>4, <1>5, <1>6, <1>7, <1>8, <1>9, <1>10, <1>11,
     <1>12, <1>13, <1>14, <1>15, <1>16, <1>17, <1>18, <1>19, <1>20, <1>21, <1>22
  DEF Next, PrepareStep, FinalizeStep, FallbackStep, EndStep, LaneStep

\* No frame reaches a published file.
LEMMA OneVersionStep ==
    ASSUME TypeOK, NothingBeforeSession, WritersAreCounted, StagedFileIsHeld, PublishedIsOneVersion, [Next]_vars
    PROVE  PublishedIsOneVersion'
<1> USE DEF TypeOK, PlaceTypeOK, RecordTypeOK, WritersAreCounted, StagedFileIsHeld,
        PublishedIsOneVersion, stored, history, Fail, Goto, Lane, Requests, Threads,
        Finalizers, Terminal
<1>0. CASE UNCHANGED vars
  BY <1>0 DEF vars, stored, history
<1>1. ASSUME NEW t \in Requests, Arrive(t) PROVE PublishedIsOneVersion'
  BY <1>1 DEF Arrive
<1>2. CASE SavePrepared
  BY <1>2 DEF SavePrepared, DropStaged, NoReceiver
<1>3. CASE ListSession
  BY <1>3 DEF ListSession, NoSession
<1>4. CASE RegisterSession
  BY <1>4 DEF RegisterSession
<1>5. CASE TakeSession
  BY <1>5 DEF TakeSession
<1>6. CASE InsertTransfer
  BY <1>6 DEF InsertTransfer
<1>7. CASE CopyBody
  BY <1>7 DEF CopyBody
<1>8. ASSUME NEW t \in Finalizers, LookupSession(t) PROVE PublishedIsOneVersion'
  BY <1>8 DEF LookupSession
<1>9. ASSUME NEW t \in Finalizers, BeginFinalization(t) PROVE PublishedIsOneVersion'
  BY <1>9 DEF BeginFinalization
<1>10. CASE ReceiverComplete
  BY <1>10 DEF ReceiverComplete, TakesFrames
<1>11. ASSUME NEW t \in Finalizers, Release(t) PROVE PublishedIsOneVersion'
  BY <1>11 DEF Release
<1>12. ASSUME NEW t \in Threads, BeginCleanup(t) PROVE PublishedIsOneVersion'
  BY <1>12 DEF BeginCleanup, AfterCleanup
<1>13. ASSUME NEW t \in Threads, EndCleanup(t) PROVE PublishedIsOneVersion'
  BY <1>13 DEF EndCleanup, RemoveStaged, AfterCleanup
<1>14. ASSUME NEW t \in Threads, Settle(t) PROVE PublishedIsOneVersion'
  BY <1>14 DEF Settle, Reply
<1>15. ASSUME NEW v \in Versions, CommitFile(v) PROVE PublishedIsOneVersion'
  <2>1. Commits(v) /\ pc["complete"] = "committing" /\ UNCHANGED <<session, conn, stored, history>>
    BY <1>15, CommitEffect
  <2> QED
    BY <2>1 DEF Commits
<1>16. ASSUME NEW c \in Chunks, NEW v \in Versions, EndFrame(c, v) PROVE PublishedIsOneVersion'
  BY <1>16 DEF EndFrame
<1>17. ASSUME NEW c \in Chunks, AuthorizeLane(c) PROVE PublishedIsOneVersion'
  BY <1>17 DEF AuthorizeLane
<1>18. ASSUME NEW c \in Chunks, BeginFrame(c) PROVE PublishedIsOneVersion'
  BY <1>18 DEF BeginFrame, TakesFrames
<1>19. ASSUME NEW c \in Chunks, AcknowledgeFrame(c) PROVE PublishedIsOneVersion'
  BY <1>19 DEF AcknowledgeFrame, TakesFrames
<1>20. CASE Elapse
  BY <1>20 DEF Elapse
<1>21. CASE FireTimer
  BY <1>21 DEF FireTimer
<1>22. CASE Restart
  BY <1>22 DEF Restart, NoSession, NoReceiver
<1> QED
  BY <1>0, <1>1, <1>2, <1>3, <1>4, <1>5, <1>6, <1>7, <1>8, <1>9, <1>10, <1>11,
     <1>12, <1>13, <1>14, <1>15, <1>16, <1>17, <1>18, <1>19, <1>20, <1>21, <1>22
  DEF Next, PrepareStep, FinalizeStep, FallbackStep, EndStep, LaneStep

\* A claimed session gets no second owner, except from the ordinary path.
LEMMA AloneStep ==
    ASSUME TypeOK, NothingBeforeSession, OneOwner, [Next]_vars
    PROVE  OwnerIsAlone'
<1> USE DEF TypeOK, PlaceTypeOK, StoreTypeOK, RecordTypeOK, NothingBeforeSession,
        NoSession, OneOwner, OwnedIsClaimed, Claimed, Owns, Undecided, Outcome,
        Delivered, OwnerIsAlone, stored, history, Fail, Goto, Lane, Requests,
        Threads, Finalizers, Terminal
<1>0. CASE UNCHANGED vars
  BY <1>0 DEF vars, stored, history
<1>1. ASSUME NEW t \in Requests, Arrive(t) PROVE OwnerIsAlone'
  BY <1>1 DEF Arrive
<1>2. CASE SavePrepared
  BY <1>2 DEF SavePrepared, DropStaged, NoReceiver
<1>3. CASE ListSession
  BY <1>3 DEF ListSession, NoSession
<1>4. CASE RegisterSession
  BY <1>4 DEF RegisterSession
<1>5. CASE TakeSession
  BY <1>5 DEF TakeSession
<1>6. CASE InsertTransfer
  BY <1>6 DEF InsertTransfer
<1>7. CASE CopyBody
  BY <1>7 DEF CopyBody
<1>8. ASSUME NEW t \in Finalizers, LookupSession(t) PROVE OwnerIsAlone'
  BY <1>8 DEF LookupSession
<1>9. ASSUME NEW t \in Finalizers, BeginFinalization(t) PROVE OwnerIsAlone'
  BY <1>9 DEF BeginFinalization
<1>10. CASE ReceiverComplete
  BY <1>10 DEF ReceiverComplete, TakesFrames
<1>11. ASSUME NEW t \in Finalizers, Release(t) PROVE OwnerIsAlone'
  BY <1>11 DEF Release
<1>12. ASSUME NEW t \in Threads, BeginCleanup(t) PROVE OwnerIsAlone'
  BY <1>12 DEF BeginCleanup, AfterCleanup
<1>13. ASSUME NEW t \in Threads, EndCleanup(t) PROVE OwnerIsAlone'
  BY <1>13 DEF EndCleanup, RemoveStaged, AfterCleanup
<1>14. ASSUME NEW t \in Threads, Settle(t) PROVE OwnerIsAlone'
  BY <1>14 DEF Settle, Reply
<1>15. ASSUME NEW v \in Versions, CommitFile(v) PROVE OwnerIsAlone'
  BY <1>15 DEF CommitFile
<1>16. ASSUME NEW c \in Chunks, NEW v \in Versions, EndFrame(c, v) PROVE OwnerIsAlone'
  BY <1>16 DEF EndFrame
<1>17. ASSUME NEW c \in Chunks, AuthorizeLane(c) PROVE OwnerIsAlone'
  BY <1>17 DEF AuthorizeLane
<1>18. ASSUME NEW c \in Chunks, BeginFrame(c) PROVE OwnerIsAlone'
  BY <1>18 DEF BeginFrame, TakesFrames
<1>19. ASSUME NEW c \in Chunks, AcknowledgeFrame(c) PROVE OwnerIsAlone'
  BY <1>19 DEF AcknowledgeFrame, TakesFrames
<1>20. CASE Elapse
  BY <1>20 DEF Elapse
<1>21. CASE FireTimer
  BY <1>21 DEF FireTimer
<1>22. CASE Restart
  BY <1>22 DEF Restart, NoSession, NoReceiver
<1> QED
  BY ZenonT(40), <1>0, <1>1, <1>2, <1>3, <1>4, <1>5, <1>6, <1>7, <1>8, <1>9, <1>10, <1>11,
     <1>12, <1>13, <1>14, <1>15, <1>16, <1>17, <1>18, <1>19, <1>20, <1>21, <1>22
  DEF Next, PrepareStep, FinalizeStep, FallbackStep, EndStep, LaneStep

\* Whoever claims the session's end closes it, and nobody lists it again.
LEMMA ClaimedStep ==
    ASSUME TypeOK, NothingBeforeSession, OneOwner, [Next]_vars
    PROVE  OwnedIsClaimed'
<1> USE DEF TypeOK, PlaceTypeOK, StoreTypeOK, RecordTypeOK, NothingBeforeSession,
        NoSession, OneOwner, OwnedIsClaimed, Claimed, Owns, Undecided, Outcome,
        Delivered, OwnerIsAlone, stored, history, Fail, Goto, Lane, Requests,
        Threads, Finalizers, Terminal
<1>0. CASE UNCHANGED vars
  BY <1>0 DEF vars, stored, history
<1>1. ASSUME NEW t \in Requests, Arrive(t) PROVE OwnedIsClaimed'
  BY <1>1 DEF Arrive
<1>2. CASE SavePrepared
  BY <1>2 DEF SavePrepared, DropStaged, NoReceiver
<1>3. CASE ListSession
  BY <1>3 DEF ListSession, NoSession
<1>4. CASE RegisterSession
  BY <1>4 DEF RegisterSession
<1>5. CASE TakeSession
  <2>1. CASE session.listed
    <3>1. row' # "absent"
      BY <1>5, <2>1 DEF TakeSession
    <3>2. session'.closed
      BY ZenonT(40), <1>5, <2>1 DEF TakeSession
    <3> QED
      BY <3>1, <3>2
  <2>2. CASE ~session.listed
    BY <1>5, <2>2 DEF TakeSession
  <2> QED
    BY <2>1, <2>2
<1>6. CASE InsertTransfer
  BY <1>6 DEF InsertTransfer
<1>7. CASE CopyBody
  BY <1>7 DEF CopyBody
<1>8. ASSUME NEW t \in Finalizers, LookupSession(t) PROVE OwnedIsClaimed'
  BY <1>8 DEF LookupSession
<1>9. ASSUME NEW t \in Finalizers, BeginFinalization(t) PROVE OwnedIsClaimed'
  <2>1. row' # "absent"
    BY <1>9 DEF BeginFinalization
  <2>2. session'.closed
    BY ZenonT(40), <1>9 DEF BeginFinalization
  <2> QED
    BY <2>1, <2>2
<1>10. CASE ReceiverComplete
  BY <1>10 DEF ReceiverComplete, TakesFrames
<1>11. ASSUME NEW t \in Finalizers, Release(t) PROVE OwnedIsClaimed'
  BY <1>11 DEF Release
<1>12. ASSUME NEW t \in Threads, BeginCleanup(t) PROVE OwnedIsClaimed'
  BY <1>12 DEF BeginCleanup, AfterCleanup
<1>13. ASSUME NEW t \in Threads, EndCleanup(t) PROVE OwnedIsClaimed'
  BY <1>13 DEF EndCleanup, RemoveStaged, AfterCleanup
<1>14. ASSUME NEW t \in Threads, Settle(t) PROVE OwnedIsClaimed'
  BY <1>14 DEF Settle, Reply
<1>15. ASSUME NEW v \in Versions, CommitFile(v) PROVE OwnedIsClaimed'
  BY <1>15 DEF CommitFile
<1>16. ASSUME NEW c \in Chunks, NEW v \in Versions, EndFrame(c, v) PROVE OwnedIsClaimed'
  BY <1>16 DEF EndFrame
<1>17. ASSUME NEW c \in Chunks, AuthorizeLane(c) PROVE OwnedIsClaimed'
  BY <1>17 DEF AuthorizeLane
<1>18. ASSUME NEW c \in Chunks, BeginFrame(c) PROVE OwnedIsClaimed'
  BY <1>18 DEF BeginFrame, TakesFrames
<1>19. ASSUME NEW c \in Chunks, AcknowledgeFrame(c) PROVE OwnedIsClaimed'
  BY <1>19 DEF AcknowledgeFrame, TakesFrames
<1>20. CASE Elapse
  BY <1>20 DEF Elapse
<1>21. CASE FireTimer
  BY <1>21 DEF FireTimer
<1>22. CASE Restart
  BY <1>22 DEF Restart, NoSession, NoReceiver
<1> QED
  BY <1>0, <1>1, <1>2, <1>3, <1>4, <1>5, <1>6, <1>7, <1>8, <1>9, <1>10, <1>11,
     <1>12, <1>13, <1>14, <1>15, <1>16, <1>17, <1>18, <1>19, <1>20, <1>21, <1>22
  DEF Next, PrepareStep, FinalizeStep, FallbackStep, EndStep, LaneStep

\* An outcome is stored by the owner, who leaves with it.
LEMMA OpenStep ==
    ASSUME TypeOK, NothingBeforeSession, OneOwner, [Next]_vars
    PROVE  OwnedIsOpen'
<1> USE DEF TypeOK, PlaceTypeOK, StoreTypeOK, RecordTypeOK, NothingBeforeSession,
        NoSession, OneOwner, OwnedIsClaimed, Claimed, Owns, Undecided, Outcome,
        Delivered, OwnedIsOpen, OwnerIsAlone, stored, history, Fail, Goto, Lane,
        Requests, Threads, Finalizers, Terminal
<1>0. CASE UNCHANGED vars
  BY <1>0 DEF vars, stored, history
<1>1. ASSUME NEW t \in Requests, Arrive(t) PROVE OwnedIsOpen'
  BY <1>1 DEF Arrive
<1>2. CASE SavePrepared
  BY <1>2 DEF SavePrepared, DropStaged, NoReceiver
<1>3. CASE ListSession
  BY <1>3 DEF ListSession, NoSession
<1>4. CASE RegisterSession
  BY <1>4 DEF RegisterSession
<1>5. CASE TakeSession
  BY <1>5 DEF TakeSession
<1>6. CASE InsertTransfer
  BY <1>6 DEF InsertTransfer
<1>7. CASE CopyBody
  BY <1>7 DEF CopyBody
<1>8. ASSUME NEW t \in Finalizers, LookupSession(t) PROVE OwnedIsOpen'
  BY <1>8 DEF LookupSession
<1>9. ASSUME NEW t \in Finalizers, BeginFinalization(t) PROVE OwnedIsOpen'
  BY <1>9 DEF BeginFinalization
<1>10. CASE ReceiverComplete
  BY <1>10 DEF ReceiverComplete, TakesFrames
<1>11. ASSUME NEW t \in Finalizers, Release(t) PROVE OwnedIsOpen'
  BY <1>11 DEF Release
<1>12. ASSUME NEW t \in Threads, BeginCleanup(t) PROVE OwnedIsOpen'
  BY <1>12 DEF BeginCleanup, AfterCleanup
<1>13. ASSUME NEW t \in Threads, EndCleanup(t) PROVE OwnedIsOpen'
  BY <1>13 DEF EndCleanup, RemoveStaged, AfterCleanup
<1>14. ASSUME NEW t \in Threads, Settle(t) PROVE OwnedIsOpen'
  BY <1>14 DEF Settle, Reply
<1>15. ASSUME NEW v \in Versions, CommitFile(v) PROVE OwnedIsOpen'
  BY <1>15 DEF CommitFile
<1>16. ASSUME NEW c \in Chunks, NEW v \in Versions, EndFrame(c, v) PROVE OwnedIsOpen'
  BY <1>16 DEF EndFrame
<1>17. ASSUME NEW c \in Chunks, AuthorizeLane(c) PROVE OwnedIsOpen'
  BY <1>17 DEF AuthorizeLane
<1>18. ASSUME NEW c \in Chunks, BeginFrame(c) PROVE OwnedIsOpen'
  BY <1>18 DEF BeginFrame, TakesFrames
<1>19. ASSUME NEW c \in Chunks, AcknowledgeFrame(c) PROVE OwnedIsOpen'
  BY <1>19 DEF AcknowledgeFrame, TakesFrames
<1>20. CASE Elapse
  BY <1>20 DEF Elapse
<1>21. CASE FireTimer
  BY <1>21 DEF FireTimer
<1>22. CASE Restart
  BY <1>22 DEF Restart, NoSession, NoReceiver
<1> QED
  BY <1>0, <1>1, <1>2, <1>3, <1>4, <1>5, <1>6, <1>7, <1>8, <1>9, <1>10, <1>11,
     <1>12, <1>13, <1>14, <1>15, <1>16, <1>17, <1>18, <1>19, <1>20, <1>21, <1>22
  DEF Next, PrepareStep, FinalizeStep, FallbackStep, EndStep, LaneStep

\* The file is delivered by the owner, who has decided with it.
LEMMA UndecidedStep ==
    ASSUME TypeOK, NothingBeforeSession, OneOwner, StagedFileIsHeld, [Next]_vars
    PROVE  UndecidedIsUndelivered'
<1> USE DEF TypeOK, PlaceTypeOK, StoreTypeOK, RecordTypeOK, NothingBeforeSession,
        NoSession, OneOwner, OwnedIsClaimed, Claimed, Owns, Undecided, Outcome,
        Delivered, StagedFileIsHeld, OwnerIsAlone, UndecidedIsUndelivered, stored,
        history, Fail, Goto, Lane, Requests, Threads, Finalizers, Terminal
<1>0. CASE UNCHANGED vars
  BY <1>0 DEF vars, stored, history
<1>1. ASSUME NEW t \in Requests, Arrive(t) PROVE UndecidedIsUndelivered'
  BY <1>1 DEF Arrive
<1>2. CASE SavePrepared
  BY <1>2 DEF SavePrepared, DropStaged, NoReceiver
<1>3. CASE ListSession
  BY <1>3 DEF ListSession, NoSession
<1>4. CASE RegisterSession
  BY <1>4 DEF RegisterSession
<1>5. CASE TakeSession
  BY <1>5 DEF TakeSession
<1>6. CASE InsertTransfer
  BY <1>6 DEF InsertTransfer
<1>7. CASE CopyBody
  BY <1>7 DEF CopyBody
<1>8. ASSUME NEW t \in Finalizers, LookupSession(t) PROVE UndecidedIsUndelivered'
  BY <1>8 DEF LookupSession
<1>9. ASSUME NEW t \in Finalizers, BeginFinalization(t) PROVE UndecidedIsUndelivered'
  BY <1>9 DEF BeginFinalization
<1>10. CASE ReceiverComplete
  BY <1>10 DEF ReceiverComplete, TakesFrames
<1>11. ASSUME NEW t \in Finalizers, Release(t) PROVE UndecidedIsUndelivered'
  BY <1>11 DEF Release
<1>12. ASSUME NEW t \in Threads, BeginCleanup(t) PROVE UndecidedIsUndelivered'
  BY <1>12 DEF BeginCleanup, AfterCleanup
<1>13. ASSUME NEW t \in Threads, EndCleanup(t) PROVE UndecidedIsUndelivered'
  BY <1>13 DEF EndCleanup, RemoveStaged, AfterCleanup
<1>14. ASSUME NEW t \in Threads, Settle(t) PROVE UndecidedIsUndelivered'
  BY <1>14 DEF Settle, Reply
<1>15. ASSUME NEW v \in Versions, CommitFile(v) PROVE UndecidedIsUndelivered'
  <2>1. Commits(v) /\ pc["complete"] = "committing" /\ UNCHANGED <<session, conn, stored, history>>
    BY <1>15, CommitEffect
  <2> QED
    BY <2>1 DEF Commits
<1>16. ASSUME NEW c \in Chunks, NEW v \in Versions, EndFrame(c, v) PROVE UndecidedIsUndelivered'
  BY <1>16 DEF EndFrame
<1>17. ASSUME NEW c \in Chunks, AuthorizeLane(c) PROVE UndecidedIsUndelivered'
  BY <1>17 DEF AuthorizeLane
<1>18. ASSUME NEW c \in Chunks, BeginFrame(c) PROVE UndecidedIsUndelivered'
  BY <1>18 DEF BeginFrame, TakesFrames
<1>19. ASSUME NEW c \in Chunks, AcknowledgeFrame(c) PROVE UndecidedIsUndelivered'
  BY <1>19 DEF AcknowledgeFrame, TakesFrames
<1>20. CASE Elapse
  BY <1>20 DEF Elapse
<1>21. CASE FireTimer
  BY <1>21 DEF FireTimer
<1>22. CASE Restart
  BY <1>22 DEF Restart, NoSession, NoReceiver
<1> QED
  BY SMTT(60), <1>0, <1>1, <1>2, <1>3, <1>4, <1>5, <1>6, <1>7, <1>8, <1>9, <1>10, <1>11,
     <1>12, <1>13, <1>14, <1>15, <1>16, <1>17, <1>18, <1>19, <1>20, <1>21, <1>22
  DEF Next, PrepareStep, FinalizeStep, FallbackStep, EndStep, LaneStep

\* What is stored agrees with the file.
LEMMA OutcomeStep ==
    ASSUME TypeOK, NothingBeforeSession, OneOwner, OutcomeMatchesFile, StagedFileIsHeld, [Next]_vars
    PROVE  OutcomeMatchesFile'
<1> USE DEF TypeOK, PlaceTypeOK, StoreTypeOK, RecordTypeOK, NothingBeforeSession,
        NoSession, OneOwner, OwnedIsClaimed, Claimed, Owns, Undecided, Outcome,
        Delivered, OwnedIsOpen, OwnerIsAlone, UndecidedIsUndelivered,
        OutcomeMatchesFile, StagedFileIsHeld, stored, history, Fail, Goto, Lane,
        Requests, Threads, Finalizers, Terminal
<1>0. CASE UNCHANGED vars
  BY <1>0 DEF vars, stored, history
<1>1. ASSUME NEW t \in Requests, Arrive(t) PROVE OutcomeMatchesFile'
  BY <1>1 DEF Arrive
<1>2. CASE SavePrepared
  BY <1>2 DEF SavePrepared, DropStaged, NoReceiver
<1>3. CASE ListSession
  BY <1>3 DEF ListSession, NoSession
<1>4. CASE RegisterSession
  BY <1>4 DEF RegisterSession
<1>5. CASE TakeSession
  BY <1>5 DEF TakeSession
<1>6. CASE InsertTransfer
  BY <1>6 DEF InsertTransfer
<1>7. CASE CopyBody
  BY <1>7 DEF CopyBody
<1>8. ASSUME NEW t \in Finalizers, LookupSession(t) PROVE OutcomeMatchesFile'
  BY <1>8 DEF LookupSession
<1>9. ASSUME NEW t \in Finalizers, BeginFinalization(t) PROVE OutcomeMatchesFile'
  BY <1>9 DEF BeginFinalization
<1>10. CASE ReceiverComplete
  BY <1>10 DEF ReceiverComplete, TakesFrames
<1>11. ASSUME NEW t \in Finalizers, Release(t) PROVE OutcomeMatchesFile'
  BY <1>11 DEF Release
<1>12. ASSUME NEW t \in Threads, BeginCleanup(t) PROVE OutcomeMatchesFile'
  BY <1>12 DEF BeginCleanup, AfterCleanup
<1>13. ASSUME NEW t \in Threads, EndCleanup(t) PROVE OutcomeMatchesFile'
  BY <1>13 DEF EndCleanup, RemoveStaged, AfterCleanup
<1>14. ASSUME NEW t \in Threads, Settle(t) PROVE OutcomeMatchesFile'
  BY <1>14 DEF Settle, Reply
<1>15. ASSUME NEW v \in Versions, CommitFile(v) PROVE OutcomeMatchesFile'
  BY <1>15 DEF CommitFile
<1>16. ASSUME NEW c \in Chunks, NEW v \in Versions, EndFrame(c, v) PROVE OutcomeMatchesFile'
  BY <1>16 DEF EndFrame
<1>17. ASSUME NEW c \in Chunks, AuthorizeLane(c) PROVE OutcomeMatchesFile'
  BY <1>17 DEF AuthorizeLane
<1>18. ASSUME NEW c \in Chunks, BeginFrame(c) PROVE OutcomeMatchesFile'
  BY <1>18 DEF BeginFrame, TakesFrames
<1>19. ASSUME NEW c \in Chunks, AcknowledgeFrame(c) PROVE OutcomeMatchesFile'
  BY <1>19 DEF AcknowledgeFrame, TakesFrames
<1>20. CASE Elapse
  BY <1>20 DEF Elapse
<1>21. CASE FireTimer
  BY <1>21 DEF FireTimer
<1>22. CASE Restart
  BY <1>22 DEF Restart, NoSession, NoReceiver
<1> QED
  BY <1>0, <1>1, <1>2, <1>3, <1>4, <1>5, <1>6, <1>7, <1>8, <1>9, <1>10, <1>11,
     <1>12, <1>13, <1>14, <1>15, <1>16, <1>17, <1>18, <1>19, <1>20, <1>21, <1>22
  DEF Next, PrepareStep, FinalizeStep, FallbackStep, EndStep, LaneStep

---------------------------------------------------------------------------
LEMMA Initially == Init => IInv
<1> SUFFICES ASSUME Init PROVE IInv
  OBVIOUS
<1> USE DEF Init, NoSession, NoReceiver, Requests, Finalizers, Threads, Terminal
<1>1. TypeOK
  <2>1. PlaceTypeOK /\ RecordTypeOK
    BY DEF PlaceTypeOK, RecordTypeOK
  <2>2. StoreTypeOK
    BY ReceptionAssumption DEF StoreTypeOK
  <2>3. FlagTypeOK
    BY Zenon DEF FlagTypeOK
  <2> QED
    BY <2>1, <2>2, <2>3 DEF TypeOK
<1>2. NothingBeforeSession /\ StagedFileIsHeld /\ WritersAreCounted
  BY DEF NothingBeforeSession, StagedFileIsHeld, WritersAreCounted
<1>3. PublishedIsOneVersion /\ OutcomeMatchesFile
  BY DEF PublishedIsOneVersion, OutcomeMatchesFile, Outcome, Delivered
<1>4. OneOwner
  BY DEF OneOwner, OwnerIsAlone, OwnedIsClaimed, OwnedIsOpen,
     UndecidedIsUndelivered,
         Owns, Undecided, Outcome, Delivered
<1> QED
  BY <1>1, <1>2, <1>3, <1>4 DEF IInv

LEMMA Inductive == IInv /\ [Next]_vars => IInv'
<1> SUFFICES ASSUME IInv, [Next]_vars PROVE IInv'
  OBVIOUS
<1> USE DEF IInv
<1>1. TypeOK'
  BY FlagTypeStep, PlaceTypeStep, RecordTypeStep, StoreTypeStep DEF TypeOK
<1>2. NothingBeforeSession' /\ StagedFileIsHeld' /\ WritersAreCounted'
  BY NothingBeforeStep, StagedFileStep, WritersStep
<1>3. PublishedIsOneVersion' /\ OutcomeMatchesFile'
  BY OneVersionStep, OutcomeStep
<1>4. OneOwner'
  BY AloneStep, ClaimedStep, OpenStep, UndecidedStep DEF OneOwner
<1> QED
  BY <1>1, <1>2, <1>3, <1>4

\* The inductive invariant, whatever the senders ask for and in whatever order.
THEOREM Invariance == Spec => []IInv
<1> QED
  BY Initially, Inductive, PTL DEF Spec

\* Threads, lanes, records and rows keep their types.
THEOREM TypeCorrect == Spec => []TypeOK
<1>1. IInv => TypeOK
  BY DEF IInv
<1> QED
  BY <1>1, Invariance, PTL

\* No lane ever writes to a file that was closed, removed or published.
THEOREM LanesKeepTheirFile == Spec => []LaneWritesStagedFile
<1>1. IInv => LaneWritesStagedFile
  BY DEF IInv, WritersAreCounted, StagedFileIsHeld, LaneWritesStagedFile
<1> QED
  BY <1>1, Invariance, PTL

\* A published file is whole, and one state of the sender's file.
THEOREM OneVersionPublished == Spec => []PublishedIsOneVersion
<1>1. IInv => PublishedIsOneVersion
  BY DEF IInv
<1> QED
  BY <1>1, Invariance, PTL

\* The outcome the receiver's user is shown agrees with the file on disk.
THEOREM OutcomeCorrect == Spec => []OutcomeMatchesFile
<1>1. IInv => OutcomeMatchesFile
  BY DEF IInv
<1> QED
  BY <1>1, Invariance, PTL

---------------------------------------------------------------------------
(* The whole transfer.                                                     *)

SenderTypeOK ==
    /\ send \in {"start", "preparing", "streaming", "completing", "fallback", "returned"}
    /\ asked \subseteq Requests
    /\ frame \in [Chunks -> Versions \cup {0}] /\ digest \in Versions \cup {0}
    /\ content \in Versions
    /\ outgoing \in {"absent", "sending"} \cup Terminal

\* The sender completes or falls back, never both.
AskedInOrder ==
    /\ send = "start" => asked = {}
    /\ send \in {"preparing", "streaming"} => asked = {"prepare"}
    /\ ~({"complete", "fallback"} \subseteq asked)
    /\ "complete" \in asked => digest # 0

\* Nothing is served that was not asked for.
ServedIsAsked ==
    /\ \A t \in Requests : pc[t] # "none" => t \in asked
    /\ \A c \in Chunks : conn[c] # "none" => frame[c] # 0
    /\ disk.staged = "final" => pc["complete"] # "none"
    /\ disk.single => pc["fallback"] # "none"

SInv == IInv /\ SenderTypeOK /\ AskedInOrder /\ ServedIsAsked

\* A good answer is true, and what the store refused has cost a fault.
AnsweredTruly ==
    /\ ~contested => /\ \A t \in Requests : pc[t] = "ok" /\ t # "prepare" => Outcome = "done"
                     /\ pc["complete"] = "doneRelease" => Outcome = "done"
    /\ override # "none" => faults > 0

SentOnce == outgoing \in Terminal => send = "returned"

PInv == SInv /\ AnsweredTruly /\ SentOnce

---------------------------------------------------------------------------
(* The receiver of the transfer is that of AcceleratedReception.           *)

\* The sender's steps, the user's and the network's leave the receiver alone
\* or are requests and lanes that reach it.
LEMMA ReceiverSteps ==
    ASSUME SInv, [TransferNext]_allVars
    PROVE  [Next]_vars
<1>0. CASE UNCHANGED allVars
  BY <1>0 DEF allVars
<1>1. CASE SenderStep
  BY <1>1 DEF SenderStep, BeginSend, PrepareReturns, StartBatch, StreamFails,
     FinishStream,
     CompleteReturns, FallbackReturns, SendChunk, SourceFails, LaneBreaks, AckArrives
<1>2. CASE EditSource \/ RemoveSource
  BY <1>2 DEF EditSource, RemoveSource
<1>3. CASE DeliverRequest
  BY <1>3 DEF DeliverRequest, SInv, SenderTypeOK, Next
<1>4. CASE DeliverLane
  BY <1>4 DEF DeliverLane, Next
<1>5. CASE ReceiverStep
  <2>1. CASE CommitFile(digest)
    <3>1. digest \in Versions
      BY <2>1 DEF CommitFile, SInv, SenderTypeOK, AskedInOrder, ServedIsAsked,
         Requests
    <3> QED
      BY <2>1, <3>1 DEF Next
  <2>2. ASSUME NEW c \in Chunks, EndFrame(c, frame[c]) PROVE Next
    <3>1. frame[c] \in Versions
      BY <2>2 DEF EndFrame, SInv, SenderTypeOK, ServedIsAsked
    <3> QED
      BY <2>2, <3>1 DEF Next
  <2> QED
    BY <1>5, <2>1, <2>2 DEF ReceiverStep, Next
<1>6. CASE Elapse \/ FireTimer \/ Restart
  BY <1>6 DEF Next
<1> QED
  BY <1>0, <1>1, <1>2, <1>3, <1>4, <1>5, <1>6 DEF TransferNext, Serve

\* The sender keeps its types and asks in order.
LEMMA SenderTypeStep ==
    ASSUME SenderTypeOK, AskedInOrder, [TransferNext]_allVars
    PROVE  SenderTypeOK' /\ AskedInOrder'
<1> USE DEF SenderTypeOK, AskedInOrder, senderVars, source, batch, Requests,
        Terminal
<1>0. CASE UNCHANGED senderVars
  BY <1>0
<1>1. CASE BeginSend
  BY <1>1 DEF BeginSend, Request
<1>2. CASE PrepareReturns
  BY <1>2 DEF PrepareReturns, Fallback, Request, Return
<1>3. CASE StartBatch
  BY <1>3 DEF StartBatch
<1>4. CASE StreamFails
  BY <1>4 DEF StreamFails, Fallback, Request, Return
<1>5. CASE FinishStream
  <2>1. content # 0
    BY ReceptionAssumption
  <2> QED
    BY <1>5, <2>1 DEF FinishStream, Request, Return
<1>6. CASE CompleteReturns
  BY <1>6 DEF CompleteReturns, Return
<1>7. CASE FallbackReturns
  BY <1>7 DEF FallbackReturns, Return
<1>8. ASSUME NEW c \in Chunks, SendChunk(c) PROVE SenderTypeOK' /\ AskedInOrder'
  BY <1>8 DEF SendChunk
<1>9. ASSUME NEW c \in Chunks, SourceFails(c) \/ LaneBreaks(c) \/ AckArrives(c)
      PROVE  SenderTypeOK' /\ AskedInOrder'
  BY <1>9 DEF SourceFails, LaneBreaks, AckArrives
<1>10. CASE EditSource
  BY <1>10, TransferAssumption DEF EditSource
<1>11. CASE RemoveSource
  BY <1>11 DEF RemoveSource
<1> QED
  BY <1>0, <1>1, <1>2, <1>3, <1>4, <1>5, <1>6, <1>7, <1>8, <1>9, <1>10, <1>11
  DEF TransferNext, SenderStep, DeliverRequest, DeliverLane, Serve, allVars

\* What a handler that runs may change: it was started before.
Begun ==
    /\ \A t \in Requests : pc'[t] = "none" <=> pc[t] = "none"
    /\ \A c \in Chunks : conn'[c] = "none" <=> conn[c] = "none"
    /\ disk'.staged = "final" => disk.staged = "final" \/ pc["complete"] # "none"
    /\ disk'.single => disk.single \/ pc["fallback"] # "none"

LEMMA HandlersBegun ==
    ASSUME TypeOK, ReceiverStep \/ Elapse \/ FireTimer \/ Restart
    PROVE  Begun
<1> USE DEF Begun, TypeOK, PlaceTypeOK, RecordTypeOK, Goto, Lane, Requests,
        Finalizers, Threads, Terminal,
        stored, history
<1>1. CASE SavePrepared
  BY <1>1 DEF SavePrepared, DropStaged, NoReceiver
<1>2. CASE ListSession
  BY <1>2 DEF ListSession, NoSession
<1>3. CASE RegisterSession
  BY <1>3 DEF RegisterSession
<1>4. CASE TakeSession
  BY <1>4 DEF TakeSession
<1>5. CASE InsertTransfer
  BY <1>5 DEF InsertTransfer
<1>6. CASE CopyBody
  BY <1>6 DEF CopyBody
<1>7. ASSUME NEW t \in Finalizers, LookupSession(t) PROVE Begun
  BY <1>7 DEF LookupSession
<1>8. ASSUME NEW t \in Finalizers, BeginFinalization(t) PROVE Begun
  BY <1>8 DEF BeginFinalization
<1>9. CASE ReceiverComplete
  BY <1>9 DEF ReceiverComplete, TakesFrames
<1>10. ASSUME NEW t \in Finalizers, Release(t) PROVE Begun
  BY <1>10 DEF Release
<1>11. ASSUME NEW t \in Threads, BeginCleanup(t) PROVE Begun
  BY <1>11 DEF BeginCleanup, AfterCleanup
<1>12. ASSUME NEW t \in Threads, EndCleanup(t) PROVE Begun
  BY <1>12 DEF EndCleanup, RemoveStaged, AfterCleanup
<1>13. ASSUME NEW t \in Threads, Settle(t) PROVE Begun
  BY <1>13 DEF Settle, Reply
<1>14. CASE CommitFile(digest)
  BY ZenonT(60), <1>14 DEF CommitFile
<1>15. ASSUME NEW c \in Chunks, EndFrame(c, frame[c]) PROVE Begun
  BY <1>15 DEF EndFrame
<1>16. ASSUME NEW c \in Chunks, BeginFrame(c) PROVE Begun
  BY <1>16 DEF BeginFrame, TakesFrames
<1>17. ASSUME NEW c \in Chunks, AcknowledgeFrame(c) PROVE Begun
  BY <1>17 DEF AcknowledgeFrame, TakesFrames
<1>18. CASE Elapse
  BY <1>18 DEF Elapse
<1>19. CASE FireTimer
  BY <1>19 DEF FireTimer
<1>20. CASE Restart
  BY <1>20 DEF Restart, NoSession, NoReceiver
<1> QED
  BY <1>1, <1>2, <1>3, <1>4, <1>5, <1>6, <1>7, <1>8, <1>9, <1>10, <1>11, <1>12,
     <1>13, <1>14, <1>15, <1>16, <1>17, <1>18, <1>19, <1>20
  DEF ReceiverStep, PrepareStep, FallbackStep, FinalizeStep, EndStep, LaneStep

\* A handler starts only when its request, or its lane's frame, was sent.
LEMMA ServedStep ==
    ASSUME SInv, [TransferNext]_allVars, SenderTypeOK', IInv'
    PROVE  ServedIsAsked'
<1> USE DEF ServedIsAsked, Requests
<1>1. asked \subseteq asked' /\ \A c \in Chunks : frame[c] # 0 => frame'[c] # 0
  <2> USE DEF senderVars, batch, SInv, SenderTypeOK
  <2>1. CASE UNCHANGED senderVars
    BY <2>1
  <2>2. CASE SenderStep
    <3>1. ASSUME NEW c \in Chunks, SendChunk(c)
          PROVE  asked' = asked /\ \A d \in Chunks : frame[d] # 0 => frame'[d] # 0
      BY <3>1, ReceptionAssumption DEF SendChunk
    <3> QED
      BY <2>2, <3>1 DEF SenderStep, BeginSend, PrepareReturns, StartBatch,
         StreamFails,
         FinishStream, CompleteReturns, FallbackReturns, SourceFails, LaneBreaks, AckArrives,
         Fallback, Request, Return
  <2>3. CASE EditSource \/ RemoveSource
    BY <2>3 DEF EditSource, RemoveSource
  <2> QED
    BY <2>1, <2>2, <2>3 DEF TransferNext, DeliverRequest, DeliverLane, Serve,
       allVars
<1>2. CASE UNCHANGED vars
  BY <1>1, <1>2 DEF SInv, vars
<1>3. CASE DeliverRequest
  <2>1. PICK t \in asked : Arrive(t)
    BY <1>3 DEF DeliverRequest
  <2> QED
    BY <2>1, <1>1 DEF Arrive, Goto, SInv, SenderTypeOK, IInv, TypeOK,
       PlaceTypeOK, Threads
<1>4. CASE DeliverLane
  <2>1. PICK c \in Chunks : frame[c] # 0 /\ AuthorizeLane(c)
    BY <1>4 DEF DeliverLane
  <2> QED
    BY <2>1, <1>1 DEF AuthorizeLane, Lane, SInv, IInv, TypeOK, PlaceTypeOK
<1>5. CASE ReceiverStep \/ Elapse \/ FireTimer \/ Restart
  <2>1. Begun
    BY <1>5, HandlersBegun DEF SInv, IInv
  <2> QED
    BY <1>1, <2>1 DEF SInv, Begun
<1> QED
  BY <1>2, <1>3, <1>4, <1>5, Zenon
  DEF TransferNext, Serve, SenderStep, BeginSend, PrepareReturns, StartBatch, StreamFails,
      FinishStream, CompleteReturns, FallbackReturns, SendChunk, SourceFails, LaneBreaks,
      AckArrives, EditSource, RemoveSource, allVars

LEMMA TransferInitially == TransferInit => SInv
<1> SUFFICES ASSUME TransferInit PROVE SInv
  OBVIOUS
<1>1. IInv
  BY Initially DEF TransferInit
<1>2. SenderTypeOK
  BY TransferAssumption DEF TransferInit, SenderInit, SenderTypeOK
<1>3. AskedInOrder /\ ServedIsAsked
  BY DEF TransferInit, SenderInit, Init, AskedInOrder, ServedIsAsked, Requests,
     Threads
<1> QED
  BY <1>1, <1>2, <1>3 DEF SInv

LEMMA TransferInductive == SInv /\ [TransferNext]_allVars => SInv'
<1> SUFFICES ASSUME SInv, [TransferNext]_allVars PROVE SInv'
  OBVIOUS
<1>1. IInv'
  BY ReceiverSteps, Inductive DEF SInv
<1>2. SenderTypeOK' /\ AskedInOrder'
  BY SenderTypeStep DEF SInv
<1>3. ServedIsAsked'
  BY ServedStep, <1>1, <1>2
<1> QED
  BY <1>1, <1>2, <1>3 DEF SInv

LEMMA TransferInvariance == TransferSpec => []SInv
BY TransferInitially, TransferInductive, PTL DEF TransferSpec

\* In the whole transfer the receiver behaves as AcceleratedReception says:
\* every property proved there holds here.
THEOREM ImplementsReception == TransferSpec => Spec
<1>1. TransferInit => Init
  BY DEF TransferInit
<1> QED
  BY <1>1, TransferInvariance, ReceiverSteps, PTL DEF TransferSpec, Spec

\* The user never receives the file twice, by the accelerated path and again
\* by the ordinary one.
THEOREM DeliveredAtMostOnce == TransferSpec => []DeliveredOnce
<1>1. SInv => DeliveredOnce
  BY DEF SInv, AskedInOrder, ServedIsAsked, DeliveredOnce, Requests
<1> QED
  BY <1>1, TransferInvariance, PTL

---------------------------------------------------------------------------
(* The promise of FileDelivery.                                            *)

\* What a step of the receiver does to the file and to the outcome.
Pending == Outcome \notin Terminal
Kept == UNCHANGED <<Delivered, Outcome>>
Begins == Delivered' = Delivered /\ Pending /\ Pending'
Delivers == ~Delivered /\ Delivered' /\ Pending /\ Outcome' = Outcome
Settles == /\ Delivered' = Delivered /\ Pending
           /\ Outcome' = IF Delivered THEN "done" ELSE "failed"
Promised == contested' \/ Kept \/ Begins \/ Delivers \/ Settles

\* Each step of the receiver keeps its side of the promise, if a crash does
\* not take away an outcome that the store had refused.
LEMMA ReceiverPromise ==
    ASSUME IInv, [Next]_vars, Restart => override = "none"
    PROVE  Promised
<1> USE DEF IInv, TypeOK, PlaceTypeOK, RecordTypeOK, StoreTypeOK,
        NothingBeforeSession, OneOwner,
        OwnerIsAlone, OwnedIsOpen, UndecidedIsUndelivered, Owns, Undecided, Outcome, Delivered,
        Promised, Kept, Begins, Delivers, Settles, Pending,
        Goto, Lane, Fail, Requests, Finalizers, Threads, Terminal, stored, history
<1>0. CASE UNCHANGED vars
  BY <1>0 DEF vars
<1>1. ASSUME NEW t \in Requests, Arrive(t) PROVE Promised
  BY <1>1 DEF Arrive
<1>2. CASE SavePrepared
  BY <1>2 DEF SavePrepared, DropStaged, NoReceiver
<1>3. CASE ListSession
  BY <1>3 DEF ListSession, NoSession
<1>4. CASE RegisterSession
  BY <1>4 DEF RegisterSession
<1>5. CASE TakeSession
  BY <1>5 DEF TakeSession
<1>6. CASE InsertTransfer
  BY <1>6 DEF InsertTransfer
<1>7. CASE CopyBody
  BY <1>7 DEF CopyBody
<1>8. ASSUME NEW t \in Finalizers, LookupSession(t) PROVE Promised
  BY <1>8 DEF LookupSession
<1>9. ASSUME NEW t \in Finalizers, BeginFinalization(t) PROVE Promised
  BY <1>9 DEF BeginFinalization
<1>10. CASE ReceiverComplete
  BY <1>10 DEF ReceiverComplete, TakesFrames
<1>11. ASSUME NEW t \in Finalizers, Release(t) PROVE Promised
  BY <1>11 DEF Release
<1>12. ASSUME NEW t \in Threads, BeginCleanup(t) PROVE Promised
  BY <1>12 DEF BeginCleanup, AfterCleanup
<1>13. ASSUME NEW t \in Threads, EndCleanup(t) PROVE Promised
  BY <1>13 DEF EndCleanup, RemoveStaged, AfterCleanup
<1>14. ASSUME NEW t \in Threads, Settle(t) PROVE Promised
  BY <1>14 DEF Settle, Reply
<1>15. ASSUME NEW v \in Versions, CommitFile(v) PROVE Promised
  BY <1>15 DEF CommitFile
<1>16. ASSUME NEW c \in Chunks, NEW v \in Versions, EndFrame(c, v) PROVE Promised
  BY <1>16 DEF EndFrame
<1>17. ASSUME NEW c \in Chunks, AuthorizeLane(c) PROVE Promised
  BY <1>17 DEF AuthorizeLane
<1>18. ASSUME NEW c \in Chunks, BeginFrame(c) PROVE Promised
  BY <1>18 DEF BeginFrame, TakesFrames
<1>19. ASSUME NEW c \in Chunks, AcknowledgeFrame(c) PROVE Promised
  BY <1>19 DEF AcknowledgeFrame, TakesFrames
<1>20. CASE Elapse
  BY <1>20 DEF Elapse
<1>21. CASE FireTimer
  BY <1>21 DEF FireTimer
<1>22. CASE Restart
  BY <1>22 DEF Restart, NoSession, NoReceiver
<1> QED
  BY <1>0, <1>1, <1>2, <1>3, <1>4, <1>5, <1>6, <1>7, <1>8, <1>9, <1>10, <1>11,
     <1>12, <1>13, <1>14, <1>15, <1>16, <1>17, <1>18, <1>19, <1>20, <1>21, <1>22
  DEF Next, PrepareStep, FinalizeStep, FallbackStep, EndStep, LaneStep

\* Who answers has stored the outcome, and nobody stores another one.
LEMMA AnswerStep ==
    ASSUME IInv, AnsweredTruly, [Next]_vars, Restart => override = "none"
    PROVE  AnsweredTruly'
<1> USE DEF IInv, TypeOK, PlaceTypeOK, RecordTypeOK, StoreTypeOK,
        NothingBeforeSession, OneOwner,
        OwnerIsAlone, OwnedIsOpen, UndecidedIsUndelivered, Owns, Undecided, Outcome,
        AnsweredTruly, Goto, Lane, Fail, Requests, Finalizers, Threads, Terminal, stored, history
<1>0. CASE UNCHANGED vars
  BY <1>0 DEF vars
<1>1. ASSUME NEW t \in Requests, Arrive(t) PROVE AnsweredTruly'
  BY <1>1 DEF Arrive
<1>2. CASE SavePrepared
  BY <1>2 DEF SavePrepared, DropStaged, NoReceiver
<1>3. CASE ListSession
  BY <1>3 DEF ListSession, NoSession
<1>4. CASE RegisterSession
  BY <1>4 DEF RegisterSession
<1>5. CASE TakeSession
  BY <1>5 DEF TakeSession
<1>6. CASE InsertTransfer
  BY <1>6 DEF InsertTransfer
<1>7. CASE CopyBody
  BY <1>7 DEF CopyBody
<1>8. ASSUME NEW t \in Finalizers, LookupSession(t) PROVE AnsweredTruly'
  BY <1>8 DEF LookupSession
<1>9. ASSUME NEW t \in Finalizers, BeginFinalization(t) PROVE AnsweredTruly'
  BY <1>9 DEF BeginFinalization
<1>10. CASE ReceiverComplete
  BY <1>10 DEF ReceiverComplete, TakesFrames
<1>11. ASSUME NEW t \in Finalizers, Release(t) PROVE AnsweredTruly'
  BY <1>11 DEF Release
<1>12. ASSUME NEW t \in Threads, BeginCleanup(t) PROVE AnsweredTruly'
  BY <1>12 DEF BeginCleanup, AfterCleanup
<1>13. ASSUME NEW t \in Threads, EndCleanup(t) PROVE AnsweredTruly'
  BY <1>13 DEF EndCleanup, RemoveStaged, AfterCleanup
<1>14. ASSUME NEW t \in Threads, Settle(t) PROVE AnsweredTruly'
  BY <1>14 DEF Settle, Reply
<1>15. ASSUME NEW v \in Versions, CommitFile(v) PROVE AnsweredTruly'
  BY <1>15 DEF CommitFile
<1>16. ASSUME NEW c \in Chunks, NEW v \in Versions, EndFrame(c, v) PROVE AnsweredTruly'
  BY <1>16 DEF EndFrame
<1>17. ASSUME NEW c \in Chunks, AuthorizeLane(c) PROVE AnsweredTruly'
  BY <1>17 DEF AuthorizeLane
<1>18. ASSUME NEW c \in Chunks, BeginFrame(c) PROVE AnsweredTruly'
  BY <1>18 DEF BeginFrame, TakesFrames
<1>19. ASSUME NEW c \in Chunks, AcknowledgeFrame(c) PROVE AnsweredTruly'
  BY <1>19 DEF AcknowledgeFrame, TakesFrames
<1>20. CASE Elapse
  BY <1>20 DEF Elapse
<1>21. CASE FireTimer
  BY <1>21 DEF FireTimer
<1>22. CASE Restart
  BY <1>22 DEF Restart, NoSession, NoReceiver
<1> QED
  BY <1>0, <1>1, <1>2, <1>3, <1>4, <1>5, <1>6, <1>7, <1>8, <1>9, <1>10, <1>11,
     <1>12, <1>13, <1>14, <1>15, <1>16, <1>17, <1>18, <1>19, <1>20, <1>21, <1>22
  DEF Next, PrepareStep, FinalizeStep, FallbackStep, EndStep, LaneStep

\* The sender gives its transfer one outcome, when it returns.
LEMMA SentOnceStep ==
    ASSUME SentOnce, [TransferNext]_allVars
    PROVE  /\ SentOnce'
           /\ \/ UNCHANGED outgoing
              \/ /\ outgoing \notin Terminal /\ outgoing' \in Terminal \cup {"sending"}
                 /\ outgoing' = "done" => pc["complete"] = "ok" \/ pc["fallback"] = "ok"
                 /\ UNCHANGED vars
<1> USE DEF SentOnce, Terminal, senderVars, source, batch
<1>0. CASE UNCHANGED senderVars
  BY <1>0
<1>1. CASE BeginSend
  BY <1>1 DEF BeginSend, Request
<1>2. CASE PrepareReturns \/ StreamFails
  BY <1>2 DEF PrepareReturns, StreamFails, Fallback, Request, Return
<1>3. CASE FinishStream
  BY <1>3 DEF FinishStream, Request, Return
<1>4. CASE CompleteReturns \/ FallbackReturns
  BY <1>4 DEF CompleteReturns, FallbackReturns, Return
<1>5. CASE StartBatch \/ \E c \in Chunks : SendChunk(c) \/ SourceFails(c) \/ LaneBreaks(c) \/ AckArrives(c)
  BY <1>5 DEF StartBatch, SendChunk, SourceFails, LaneBreaks, AckArrives
<1>6. CASE EditSource \/ RemoveSource
  BY <1>6 DEF EditSource, RemoveSource
<1> QED
  BY <1>0, <1>1, <1>2, <1>3, <1>4, <1>5, <1>6
  DEF TransferNext, SenderStep, DeliverRequest, DeliverLane, Serve, allVars

\* With at most one fault a crash finds no outcome that only memory holds.
LEMMA CrashFindsOutcome ==
    ASSUME PInv, MaxFaults <= 1, Restart
    PROVE  override = "none"
BY ReceptionAssumption
DEF PInv, SInv, IInv, TypeOK, StoreTypeOK, AnsweredTruly, Restart, Fail

LEMMA PromiseInductive ==
    ASSUME MaxFaults <= 1
    PROVE  PInv /\ [TransferNext]_allVars => PInv'
<1> SUFFICES ASSUME PInv, [TransferNext]_allVars PROVE PInv'
  OBVIOUS
<1>1. SInv'
  BY TransferInductive DEF PInv
<1>2. AnsweredTruly'
  BY AnswerStep, ReceiverSteps, CrashFindsOutcome DEF PInv, SInv
<1>3. SentOnce'
  BY SentOnceStep DEF PInv
<1> QED
  BY <1>1, <1>2, <1>3 DEF PInv

\* Each step of the transfer is a step of the promise, or changes nothing the
\* users see, or follows a contested session.
LEMMA PromiseStep ==
    ASSUME PInv, MaxFaults <= 1, [TransferNext]_allVars
    PROVE  [contested' \/ Delivery!Next]_(Delivery!vars)
<1> USE DEF Delivery!vars, Delivery!Next, Delivery!Deliver, Delivery!ReceiverEnds,
        Delivery!SenderEnds
<1>1. Promised
  BY ReceiverPromise, ReceiverSteps, CrashFindsOutcome DEF PInv, SInv
<1>2. CASE UNCHANGED outgoing
  BY <1>1, <1>2 DEF Promised, Kept, Begins, Delivers, Settles, Pending, Terminal
<1>3. CASE ~UNCHANGED outgoing
  <2>1. /\ outgoing \notin Terminal /\ outgoing' \in Terminal \cup {"sending"}
        /\ UNCHANGED vars
        /\ outgoing' = "done" => pc["complete"] = "ok" \/ pc["fallback"] = "ok"
    BY <1>3, SentOnceStep DEF PInv
  <2>2. contested' \/ (outgoing' = "done" => Outcome = "done")
    BY <2>1 DEF PInv, AnsweredTruly, vars, Requests
  <2>3. UNCHANGED <<Delivered, Outcome>>
    BY <2>1 DEF vars, Delivered, Outcome
  <2> QED
    BY <2>1, <2>2, <2>3 DEF Terminal
<1> QED
  BY <1>2, <1>3

\* The two sides together keep the promise of a file transfer, if at most one
\* store, disk or agent fails: with two, a crash may lose an outcome that the
\* store had refused.
THEOREM PromiseKept ==
    ASSUME MaxFaults <= 1
    PROVE  TransferSpec => DeliversOnePromise
<1>1. TransferInit => PInv
  <2>1. TransferInit => AnsweredTruly /\ SentOnce
    BY DEF TransferInit, SenderInit, Init, AnsweredTruly, SentOnce, Requests,
       Threads, Terminal
  <2> QED
    BY <2>1, TransferInitially DEF PInv
<1>2. TransferInit => Delivery!Init
  BY DEF TransferInit, SenderInit, Init, Delivery!Init, Delivered, Outcome, Terminal
<1>3. PInv /\ [TransferNext]_allVars => PInv'
  BY PromiseInductive
<1>4. PInv /\ [TransferNext]_allVars => [contested' \/ Delivery!Next]_(Delivery!vars)
  BY PromiseStep
<1> QED
  BY <1>1, <1>2, <1>3, <1>4, PTL DEF TransferSpec, DeliversOnePromise

---------------------------------------------------------------------------
(* The complete request of an undisturbed sender.                          *)

\* Nothing broke, the source is what it was, and the session has time.
Undisturbed == faults = 0 /\ content = 1 /\ ~session.late

\* A lane has read its chunk when it sends it and was answered when it counts
\* as acknowledged; the sender completes when all of them are.
LanesInOrder ==
    /\ next \in 1 .. (N + 1)
    /\ lane \in [Chunks -> {"idle", "dial", "sent", "acked", "soft", "source"}]
    /\ \A c \in Chunks :
          /\ c < next <=> lane[c] # "idle"
          /\ lane[c] \in {"idle", "dial"} => frame[c] = 0
          /\ frame[c] <= content
          /\ lane[c] = "acked" => conn[c] = "acked"
    /\ send = "streaming" \/ "complete" \in asked => pc["prepare"] = "ok"
    /\ "complete" \in asked => digest <= content /\ \A c \in Chunks : lane[c] = "acked"

\* The receiver keeps what it has written and acknowledged.
FramesAreKept ==
    /\ \A c \in Chunks :
          /\ conn[c] \in {"written", "acked"} => c \in receiver.windows /\ disk.data[c] = 1
          /\ conn[c] = "acked" => c \in receiver.acked
    /\ \A c \in receiver.inFlight : conn[c] = "writing"

\* The session stays open for the complete request, unless the ordinary path
\* is asked for: no timer fires, and no step of the complete request fails.
SessionIsServed ==
    /\ pc["prepare"] \in {"none", "arrived", "saved", "listed", "ok", "refused"}
    /\ pc["expiry"] = "none"
    /\ pc["fallback"] = "none" =>
         /\ pc["complete"] \in {"none", "arrived", "found", "checking", "committing",
                                "done", "doneRelease", "ok"}
         /\ pc["prepare"] \in {"listed", "ok"} /\ pc["complete"] # "ok" => session.listed
         /\ pc["complete"] \in {"none", "arrived", "found"} => ~session.closed
         /\ pc["prepare"] \in {"saved", "listed", "ok"}
              /\ pc["complete"] \in {"none", "arrived", "found", "checking"} => TakesFrames

QuietInv == Undisturbed => FramesAreKept /\ SessionIsServed

OInv == SInv /\ LanesInOrder /\ QuietInv

\* The prepare answer and the acknowledgements, once given, stay given.
Standing ==
    /\ pc["prepare"] = "ok" => pc'["prepare"] = "ok"
    /\ \A c \in Chunks : conn[c] = "acked" => conn'[c] = "acked"

LEMMA AnswersStand ==
    ASSUME TypeOK, ReceiverStep \/ Elapse \/ FireTimer \/ Restart
    PROVE  Standing
<1> USE DEF Standing, TypeOK, PlaceTypeOK, Goto, Lane, Requests,
        Finalizers, Threads, Terminal, stored, history
<1>1. CASE SavePrepared
  BY <1>1 DEF SavePrepared, DropStaged, NoReceiver
<1>2. CASE ListSession
  BY <1>2 DEF ListSession, NoSession
<1>3. CASE RegisterSession
  BY <1>3 DEF RegisterSession
<1>4. CASE TakeSession
  BY <1>4 DEF TakeSession
<1>5. CASE InsertTransfer
  BY <1>5 DEF InsertTransfer
<1>6. CASE CopyBody
  BY <1>6 DEF CopyBody
<1>7. ASSUME NEW t \in Finalizers, LookupSession(t) PROVE Standing
  BY <1>7 DEF LookupSession
<1>8. ASSUME NEW t \in Finalizers, BeginFinalization(t) PROVE Standing
  BY <1>8 DEF BeginFinalization
<1>9. CASE ReceiverComplete
  BY <1>9 DEF ReceiverComplete
<1>10. ASSUME NEW t \in Finalizers, Release(t) PROVE Standing
  BY <1>10 DEF Release
<1>11. ASSUME NEW t \in Threads, BeginCleanup(t) PROVE Standing
  BY <1>11 DEF BeginCleanup, AfterCleanup
<1>12. ASSUME NEW t \in Threads, EndCleanup(t) PROVE Standing
  BY <1>12 DEF EndCleanup, RemoveStaged, AfterCleanup
<1>13. ASSUME NEW t \in Threads, Settle(t) PROVE Standing
  BY <1>13 DEF Settle, Reply
<1>14. CASE CommitFile(digest)
  BY <1>14 DEF CommitFile
<1>15. ASSUME NEW c \in Chunks, EndFrame(c, frame[c]) PROVE Standing
  BY <1>15 DEF EndFrame
<1>16. ASSUME NEW c \in Chunks, BeginFrame(c) PROVE Standing
  BY <1>16 DEF BeginFrame
<1>17. ASSUME NEW c \in Chunks, AcknowledgeFrame(c) PROVE Standing
  BY <1>17 DEF AcknowledgeFrame
<1>18. CASE Elapse
  BY <1>18 DEF Elapse
<1>19. CASE FireTimer
  BY <1>19 DEF FireTimer
<1>20. CASE Restart
  BY <1>20 DEF Restart, NoSession, NoReceiver
<1> QED
  BY <1>1, <1>2, <1>3, <1>4, <1>5, <1>6, <1>7, <1>8, <1>9, <1>10, <1>11, <1>12,
     <1>13, <1>14, <1>15, <1>16, <1>17, <1>18, <1>19, <1>20
  DEF ReceiverStep, PrepareStep, FallbackStep, FinalizeStep, EndStep, LaneStep

\* What was disturbed stays so: a fault is not forgotten, the source does not
\* change back, and a session is replaced only before it is listed.
LEMMA DisturbedStays ==
    ASSUME SInv, [TransferNext]_allVars, Undisturbed'
    PROVE  Undisturbed
<1> USE DEF SInv, IInv, TypeOK, RecordTypeOK, StoreTypeOK, SenderTypeOK, Undisturbed
<1>1. CASE UNCHANGED vars
  <2>1. content = 1
    BY <1>1, TransferAssumption
    DEF TransferNext, SenderStep, BeginSend, PrepareReturns, StartBatch, StreamFails,
       FinishStream, CompleteReturns, FallbackReturns, SendChunk, SourceFails, LaneBreaks,
       AckArrives, EditSource, RemoveSource, DeliverRequest, DeliverLane, Serve, allVars,
       senderVars, source
  <2> QED
    BY <1>1, <2>1 DEF vars
<1>2. CASE UNCHANGED senderVars /\ (ReceiverStep \/ Elapse \/ FireTimer \/ Restart)
  <2>1. content = 1
    BY <1>2 DEF senderVars, source
  <2>2. faults = 0 /\ ~session.late
    <3> USE ReceptionAssumption DEF Fail, Goto, Lane, stored, history, NothingBeforeSession
    <3>1. CASE SavePrepared
      BY SMTT(40), <3>1 DEF SavePrepared, DropStaged, NoReceiver
    <3>2. CASE ListSession
      BY <3>2 DEF ListSession, NoSession
    <3>3. CASE RegisterSession
      BY <3>3 DEF RegisterSession
    <3>4. CASE TakeSession
      BY ZenonT(60), <3>4 DEF TakeSession
    <3>5. CASE InsertTransfer
      BY <3>5 DEF InsertTransfer
    <3>6. CASE CopyBody
      BY <3>6 DEF CopyBody
    <3>7. ASSUME NEW t \in Finalizers, LookupSession(t) PROVE faults = 0 /\ ~session.late
      BY <3>7 DEF LookupSession
    <3>8. ASSUME NEW t \in Finalizers, BeginFinalization(t) PROVE faults = 0 /\ ~session.late
      BY <3>8 DEF BeginFinalization
    <3>9. CASE ReceiverComplete
      BY <3>9 DEF ReceiverComplete
    <3>10. ASSUME NEW t \in Finalizers, Release(t) PROVE faults = 0 /\ ~session.late
      BY <3>10 DEF Release
    <3>11. ASSUME NEW t \in Threads, BeginCleanup(t) PROVE faults = 0 /\ ~session.late
      BY <3>11 DEF BeginCleanup, AfterCleanup
    <3>12. ASSUME NEW t \in Threads, EndCleanup(t) PROVE faults = 0 /\ ~session.late
      BY <3>12 DEF EndCleanup, RemoveStaged, AfterCleanup
    <3>13. ASSUME NEW t \in Threads, Settle(t) PROVE faults = 0 /\ ~session.late
      BY <3>13 DEF Settle, Reply
    <3>14. CASE CommitFile(digest)
      BY <3>14 DEF CommitFile
    <3>15. ASSUME NEW c \in Chunks, EndFrame(c, frame[c]) PROVE faults = 0 /\ ~session.late
      BY <3>15 DEF EndFrame
    <3>16. ASSUME NEW c \in Chunks, BeginFrame(c) PROVE faults = 0 /\ ~session.late
      BY <3>16 DEF BeginFrame
    <3>17. ASSUME NEW c \in Chunks, AcknowledgeFrame(c) PROVE faults = 0 /\ ~session.late
      BY <3>17 DEF AcknowledgeFrame
    <3>18. CASE Elapse
      BY <3>18 DEF Elapse
    <3>19. CASE FireTimer
      BY <3>19 DEF FireTimer
    <3>20. CASE Restart
      BY <3>20 DEF Restart, NoSession, NoReceiver
    <3> QED
      BY <1>2, <3>1, <3>2, <3>3, <3>4, <3>5, <3>6, <3>7, <3>8, <3>9, <3>10, <3>11,
         <3>12, <3>13, <3>14, <3>15, <3>16, <3>17, <3>18, <3>19, <3>20
      DEF ReceiverStep, PrepareStep, FallbackStep, FinalizeStep, EndStep, LaneStep
  <2> QED
    BY <2>1, <2>2
<1>3. CASE DeliverRequest
  BY <1>3 DEF DeliverRequest, Arrive, senderVars, source
<1>4. CASE DeliverLane
  BY <1>4 DEF DeliverLane, AuthorizeLane, senderVars, source
<1> QED
  BY <1>1, <1>2, <1>3, <1>4
  DEF TransferNext, Serve, SenderStep, BeginSend, PrepareReturns, StartBatch, StreamFails,
      FinishStream, CompleteReturns, FallbackReturns, SendChunk, SourceFails, LaneBreaks,
      AckArrives, EditSource, RemoveSource, allVars

\* The lanes of the sender.
LEMMA LanesStep ==
    ASSUME SInv, SInv', LanesInOrder, [TransferNext]_allVars
    PROVE  LanesInOrder'
<1> USE TransferAssumption
    DEF SInv, SenderTypeOK, AskedInOrder, LanesInOrder, senderVars, source, batch,
        Request, Return
<1>0. CASE UNCHANGED senderVars /\ (UNCHANGED vars \/ Standing)
  BY <1>0 DEF vars, Standing
<1>1. CASE BeginSend
  BY <1>1 DEF BeginSend, vars
<1>2. CASE PrepareReturns
  BY <1>2 DEF PrepareReturns, Fallback, vars
<1>3. CASE StartBatch
  <2>1. PICK k \in Stripes :
          /\ lane' = [c \in Chunks |-> IF c \in next .. (next + k - 1) THEN "dial" ELSE lane[c]]
          /\ next' = IF next + k > N THEN N + 1 ELSE next + k
    BY <1>3 DEF StartBatch
  <2> QED
    BY <1>3, <2>1 DEF StartBatch, vars
<1>4. CASE StreamFails
  BY <1>4 DEF StreamFails, Fallback, vars
<1>5. CASE FinishStream
  <2>1. \A c \in Chunks : lane[c] = "acked"
    BY <1>5 DEF FinishStream, Waiting, Failed
  <2> QED
    BY <1>5, <2>1 DEF FinishStream, vars
<1>6. CASE CompleteReturns
  BY <1>6 DEF CompleteReturns, vars
<1>7. CASE FallbackReturns
  BY <1>7 DEF FallbackReturns, vars
<1>8. ASSUME NEW c \in Chunks, SendChunk(c) PROVE LanesInOrder'
  BY <1>8 DEF SendChunk, vars
<1>9. ASSUME NEW c \in Chunks, SourceFails(c) PROVE LanesInOrder'
  BY <1>9 DEF SourceFails, vars
<1>10. ASSUME NEW c \in Chunks, LaneBreaks(c) PROVE LanesInOrder'
  BY <1>10 DEF LaneBreaks, vars
<1>11. ASSUME NEW c \in Chunks, AckArrives(c) PROVE LanesInOrder'
  BY <1>11 DEF AckArrives, vars
<1>12. CASE EditSource
  BY <1>12 DEF EditSource, vars
<1>13. CASE RemoveSource
  BY <1>13 DEF RemoveSource, vars
<1>14. CASE DeliverRequest
  <2>1. PICK t \in asked : Arrive(t)
    BY <1>14 DEF DeliverRequest
  <2>2. Standing
    BY <2>1 DEF Arrive, Goto, Standing, IInv, TypeOK, PlaceTypeOK
  <2> QED
    BY <1>0, <1>14, <2>2 DEF DeliverRequest
<1>15. CASE DeliverLane
  <2>1. PICK c \in Chunks : AuthorizeLane(c)
    BY <1>15 DEF DeliverLane
  <2>2. Standing
    BY <2>1 DEF AuthorizeLane, Lane, Standing, IInv, TypeOK, PlaceTypeOK
  <2> QED
    BY <1>0, <1>15, <2>2 DEF DeliverLane
<1>16. CASE Serve
  BY <1>0, <1>16, AnswersStand DEF Serve, IInv
<1> QED
  BY <1>0, <1>1, <1>2, <1>3, <1>4, <1>5, <1>6, <1>7, <1>8, <1>9, <1>10, <1>11,
     <1>12, <1>13, <1>14, <1>15, <1>16
  DEF TransferNext, SenderStep, allVars

\* A handler writes to the place of its own chunk only, and what a lane has
\* sent is the source as it is.
LEMMA FramesStep ==
    ASSUME SInv, LanesInOrder, FramesAreKept, Undisturbed, Undisturbed',
           ReceiverStep \/ Elapse \/ FireTimer \/ Restart
    PROVE  FramesAreKept'
<1> DEFINE Same == /\ UNCHANGED conn /\ disk'.data = disk.data
                   /\ receiver'.windows = receiver.windows
                   /\ receiver'.acked = receiver.acked
                   /\ receiver'.inFlight = receiver.inFlight
<1>a. Same => FramesAreKept'
  BY DEF FramesAreKept
<1>b. /\ conn \in [Chunks -> {"none", "authorized", "writing", "written", "acked", "closed"}]
      /\ receiver \in [open : BOOLEAN, closing : BOOLEAN, finalizing : BOOLEAN,
                       windows : SUBSET Chunks, inFlight : SUBSET Chunks, acked : SUBSET Chunks]
      /\ disk \in [staged : {"none", "part", "final"}, single : BOOLEAN, left : BOOLEAN,
                   data : [Chunks -> Versions \cup {0}]]
      /\ faults = 0 /\ faults' = 0
  BY DEF SInv, IInv, TypeOK, PlaceTypeOK, RecordTypeOK, Undisturbed
<1> USE <1>a, <1>b DEF Fail, Goto, Lane, stored, history
<1> HIDE DEF Same
<1>1. CASE SavePrepared
  <2>1. CASE row = "absent"
    <3>1. \A c \in Chunks : conn[c] \notin {"writing", "written", "acked"}
      BY <2>1 DEF SInv, IInv, NothingBeforeSession
    <3>2. UNCHANGED conn /\ (receiver'.inFlight = {} \/ UNCHANGED receiver)
      BY <1>1 DEF SavePrepared, DropStaged, NoReceiver
    <3> QED
      BY <3>1, <3>2 DEF FramesAreKept
  <2>2. CASE row # "absent"
    <3>1. Same
      BY <1>1, <2>2 DEF SavePrepared, DropStaged, Same
    <3> QED
      BY <3>1
  <2> QED
    BY <2>1, <2>2
<1>2. CASE ListSession
  <2>1. Same
    BY <1>2 DEF ListSession, NoSession, Same
  <2> QED
    BY <2>1
<1>3. CASE RegisterSession
  <2>1. Same
    BY <1>3 DEF RegisterSession, Same
  <2> QED
    BY <2>1
<1>4. CASE TakeSession
  <2>1. Same
    BY <1>4 DEF TakeSession, Same
  <2> QED
    BY <2>1
<1>5. CASE InsertTransfer
  <2>1. Same
    BY <1>5 DEF InsertTransfer, Same
  <2> QED
    BY <2>1
<1>6. CASE CopyBody
  <2>1. Same
    BY <1>6 DEF CopyBody, Same
  <2> QED
    BY <2>1
<1>7. ASSUME NEW t \in Finalizers, LookupSession(t) PROVE FramesAreKept'
  <2>1. Same
    BY <1>7 DEF LookupSession, Same
  <2> QED
    BY <2>1
<1>8. ASSUME NEW t \in Finalizers, BeginFinalization(t) PROVE FramesAreKept'
  <2>1. Same
    BY <1>8 DEF BeginFinalization, Same
  <2> QED
    BY <2>1
<1>9. CASE ReceiverComplete
  <2>1. Same
    BY <1>9 DEF ReceiverComplete, Same
  <2> QED
    BY <2>1
<1>10. ASSUME NEW t \in Finalizers, Release(t) PROVE FramesAreKept'
  <2>1. Same
    BY <1>10 DEF Release, Same
  <2> QED
    BY <2>1
<1>11. ASSUME NEW t \in Threads, BeginCleanup(t) PROVE FramesAreKept'
  <2>1. Same
    BY <1>11 DEF BeginCleanup, AfterCleanup, Same
  <2> QED
    BY <2>1
<1>12. ASSUME NEW t \in Threads, EndCleanup(t) PROVE FramesAreKept'
  <2>1. Same
    BY <1>12 DEF EndCleanup, RemoveStaged, AfterCleanup, Same
  <2> QED
    BY <2>1
<1>13. ASSUME NEW t \in Threads, Settle(t) PROVE FramesAreKept'
  <2>1. Same
    BY <1>13 DEF Settle, Reply, Same
  <2> QED
    BY <2>1
<1>14. CASE CommitFile(digest)
  <2>1. Same
    BY <1>14 DEF CommitFile, Same
  <2> QED
    BY <2>1
<1>15. ASSUME NEW c \in Chunks, EndFrame(c, frame[c]) PROVE FramesAreKept'
  <2>1. /\ conn[c] = "writing"
        /\ conn' = [conn EXCEPT ![c] = IF receiver.closing THEN "closed" ELSE "written"]
        /\ disk' = [disk EXCEPT !.data[c] = frame[c]]
        /\ receiver' = [receiver EXCEPT !.inFlight = @ \ {c},
                            !.windows = IF receiver.closing THEN @ ELSE @ \cup {c}]
    BY <1>15 DEF EndFrame
  <2>2. frame[c] = 1
    BY <2>1, TransferAssumption
    DEF SInv, ServedIsAsked, SenderTypeOK, LanesInOrder, Undisturbed
  <2>3. /\ receiver'.acked = receiver.acked /\ receiver'.inFlight = receiver.inFlight \ {c}
        /\ receiver'.windows = IF receiver.closing THEN receiver.windows
                               ELSE receiver.windows \cup {c}
    BY <2>1
  <2>4. /\ disk'.data[c] = 1
        /\ \A d \in Chunks \ {c} : disk'.data[d] = disk.data[d]
    BY <2>1, <2>2
  <2>5. \A d \in Chunks \ {c} : conn'[d] = conn[d]
    BY <2>1
  <2>6. conn'[c] = IF receiver.closing THEN "closed" ELSE "written"
    BY <2>1
  <2> QED
    BY <2>3, <2>4, <2>5, <2>6 DEF FramesAreKept
<1>16. ASSUME NEW c \in Chunks, BeginFrame(c) PROVE FramesAreKept'
  <2>1. /\ conn' = [conn EXCEPT ![c] = IF TakesFrames THEN "writing" ELSE "closed"]
        /\ disk' = disk /\ conn[c] = "authorized"
        /\ receiver' = IF TakesFrames THEN [receiver EXCEPT !.inFlight = @ \cup {c}]
                       ELSE receiver
    BY <1>16 DEF BeginFrame
  <2>2. /\ receiver'.acked = receiver.acked /\ receiver'.windows = receiver.windows
        /\ receiver'.inFlight = IF TakesFrames THEN receiver.inFlight \cup {c}
                                ELSE receiver.inFlight
    BY <2>1
  <2> QED
    BY <2>1, <2>2 DEF FramesAreKept
<1>17. ASSUME NEW c \in Chunks, AcknowledgeFrame(c) PROVE FramesAreKept'
  <2>1. /\ conn' = [conn EXCEPT ![c] = IF TakesFrames THEN "acked" ELSE "closed"]
        /\ disk' = disk /\ conn[c] = "written"
        /\ receiver' = IF TakesFrames THEN [receiver EXCEPT !.acked = @ \cup {c}]
                       ELSE receiver
    BY <1>17 DEF AcknowledgeFrame
  <2>2. /\ receiver'.inFlight = receiver.inFlight /\ receiver'.windows = receiver.windows
        /\ receiver'.acked = IF TakesFrames THEN receiver.acked \cup {c}
                             ELSE receiver.acked
    BY <2>1
  <2> QED
    BY <2>1, <2>2 DEF FramesAreKept
<1>18. CASE Elapse
  <2>1. Same
    BY <1>18 DEF Elapse, Same
  <2> QED
    BY <2>1
<1>19. CASE FireTimer
  <2>1. Same
    BY <1>19 DEF FireTimer, Same
  <2> QED
    BY <2>1
<1>20. CASE Restart
  BY <1>20 DEF Restart
<1> QED
  BY Zenon, <1>1, <1>2, <1>3, <1>4, <1>5, <1>6, <1>7, <1>8, <1>9, <1>10, <1>11,
     <1>12, <1>13, <1>14, <1>15, <1>16, <1>17, <1>18, <1>19, <1>20
  DEF ReceiverStep, PrepareStep, FallbackStep, FinalizeStep, EndStep, LaneStep

\* The complete request finds what the sender was told.
LEMMA CompleteFindsAll ==
    ASSUME SInv, LanesInOrder, FramesAreKept, "complete" \in asked
    PROVE  /\ receiver.inFlight = {}
           /\ receiver.windows = Chunks /\ receiver.acked = Chunks
BY DEF SInv, IInv, TypeOK, RecordTypeOK, LanesInOrder, FramesAreKept

\* Undisturbed, the handlers of the session go on one after the other.
LEMMA SessionStep ==
    ASSUME SInv, LanesInOrder, FramesAreKept, SessionIsServed, Undisturbed, Undisturbed',
           ReceiverStep \/ Elapse \/ FireTimer \/ Restart
    PROVE  SessionIsServed'
<1>b. /\ session \in [listed : BOOLEAN, bound : BOOLEAN, closed : BOOLEAN,
                      timer : {"off", "armed"}, late : BOOLEAN]
      /\ receiver \in [open : BOOLEAN, closing : BOOLEAN, finalizing : BOOLEAN,
                       windows : SUBSET Chunks, inFlight : SUBSET Chunks, acked : SUBSET Chunks]
      /\ DOMAIN pc = Threads
      /\ faults = 0 /\ faults' = 0 /\ ~session.late /\ ~session'.late
  BY DEF SInv, IInv, TypeOK, PlaceTypeOK, RecordTypeOK, Undisturbed
<1>c. /\ pc["complete"] # "none" => "complete" \in asked /\ pc["prepare"] = "ok"
                                     /\ pc["fallback"] = "none"
      /\ pc["prepare"] = "saved" => session = NoSession
  BY DEF SInv, IInv, ServedIsAsked, AskedInOrder, LanesInOrder, NothingBeforeSession,
     Requests
<1> USE <1>b, <1>c DEF SessionIsServed, TakesFrames, Fail, Goto, Lane, Requests, Finalizers,
        Threads, Terminal, stored, history
<1>1. CASE SavePrepared
  <2>1. /\ pc["prepare"] = "arrived" /\ UNCHANGED session
        /\ \A t \in Threads \ {"prepare"} : pc'[t] = pc[t]
    BY <1>1 DEF SavePrepared, DropStaged
  <2>2. \/ pc'["prepare"] = "saved" /\ receiver' = [NoReceiver EXCEPT !.open = TRUE]
        \/ pc'["prepare"] = "refused" /\ UNCHANGED receiver
    BY <1>1 DEF SavePrepared, DropStaged
  <2>3. pc'["prepare"] = "saved" => TakesFrames'
    BY <2>2 DEF NoReceiver
  <2>5. pc["complete"] = "none"
    BY <2>1
  <2> QED
    BY <2>1, <2>2, <2>3, <2>5
<1>2. CASE ListSession
  BY <1>2 DEF ListSession, NoSession
<1>3. CASE RegisterSession
  BY <1>3 DEF RegisterSession
<1>4. CASE TakeSession
  BY <1>4 DEF TakeSession
<1>5. CASE InsertTransfer
  BY <1>5 DEF InsertTransfer
<1>6. CASE CopyBody
  BY <1>6 DEF CopyBody
<1>7. ASSUME NEW t \in Finalizers, LookupSession(t) PROVE SessionIsServed'
  BY <1>7 DEF LookupSession
<1>8. ASSUME NEW t \in Finalizers, BeginFinalization(t) PROVE SessionIsServed'
  <2>1. t = "complete"
    BY <1>8 DEF BeginFinalization
  <2>2. CASE session.closed
    BY <1>8, <2>1, <2>2 DEF BeginFinalization
  <2>3. CASE ~session.closed
    <3>1. session' = [session EXCEPT !.closed = TRUE, !.timer = "off"]
          /\ pc' = [pc EXCEPT !["complete"] = "checking"] /\ UNCHANGED receiver
      BY <1>8, <2>1, <2>3 DEF BeginFinalization
    <3>2. session'.listed = session.listed
      BY <3>1
    <3> QED
      BY <1>8, <2>1, <3>1, <3>2 DEF BeginFinalization
  <2> QED
    BY <2>2, <2>3
<1>9. CASE ReceiverComplete
  <2>1. CASE pc["fallback"] = "none"
    <3>1. TakesFrames /\ "complete" \in asked
      BY <1>9, <2>1 DEF ReceiverComplete
    <3>2. /\ pc["complete"] = "checking" /\ UNCHANGED session
          /\ pc' = [pc EXCEPT !["complete"] = "committing"]
      BY <1>9, <3>1, CompleteFindsAll DEF ReceiverComplete
    <3> QED
      BY <2>1, <3>2
  <2>2. CASE pc["fallback"] # "none"
    BY <1>9, <2>2 DEF ReceiverComplete
  <2> QED
    BY <2>1, <2>2
<1>10. ASSUME NEW t \in Finalizers, Release(t) PROVE SessionIsServed'
  BY <1>10 DEF Release
<1>11. ASSUME NEW t \in Threads, BeginCleanup(t) PROVE SessionIsServed'
  BY <1>11 DEF BeginCleanup, AfterCleanup
<1>12. ASSUME NEW t \in Threads, EndCleanup(t) PROVE SessionIsServed'
  BY <1>12 DEF EndCleanup, RemoveStaged, AfterCleanup
<1>13. ASSUME NEW t \in Threads, Settle(t) PROVE SessionIsServed'
  BY <1>13 DEF Settle, Reply
<1>14. CASE CommitFile(digest)
  <2>1. "complete" \in asked
    BY SMTT(40), <1>14 DEF CommitFile
  <2>2. digest = 1
    BY <2>1, TransferAssumption
    DEF SInv, SenderTypeOK, AskedInOrder, LanesInOrder, Undisturbed
  <2>3. \A c \in Chunks : disk.data[c] = digest
    BY <2>1, <2>2 DEF FramesAreKept, LanesInOrder
  <2>4. pc' = [pc EXCEPT !["complete"] = "done"] /\ UNCHANGED session
    BY <1>14, <2>3 DEF CommitFile
  <2> QED
    BY <1>14, <2>4 DEF CommitFile
<1>15. ASSUME NEW c \in Chunks, EndFrame(c, frame[c]) PROVE SessionIsServed'
  <2>1. UNCHANGED <<pc, session>>
    BY <1>15 DEF EndFrame
  <2>2. /\ receiver'.open = receiver.open /\ receiver'.closing = receiver.closing
        /\ receiver'.finalizing = receiver.finalizing
    BY <1>15 DEF EndFrame
  <2> QED
    BY <2>1, <2>2
<1>16. ASSUME NEW c \in Chunks, BeginFrame(c) PROVE SessionIsServed'
  BY <1>16 DEF BeginFrame
<1>17. ASSUME NEW c \in Chunks, AcknowledgeFrame(c) PROVE SessionIsServed'
  BY <1>17 DEF AcknowledgeFrame
<1>18. CASE Elapse
  BY <1>18 DEF Elapse
<1>19. CASE FireTimer
  BY <1>19 DEF FireTimer
<1>20. CASE Restart
  BY <1>20 DEF Restart, NoSession, NoReceiver
<1> QED
  BY Zenon, <1>1, <1>2, <1>3, <1>4, <1>5, <1>6, <1>7, <1>8, <1>9, <1>10, <1>11,
     <1>12, <1>13, <1>14, <1>15, <1>16, <1>17, <1>18, <1>19, <1>20
  DEF ReceiverStep, PrepareStep, FallbackStep, FinalizeStep, EndStep, LaneStep

\* A sender that is not disturbed completes the transfer it has begun.
LEMMA CompletionInductive == OInv /\ [TransferNext]_allVars => OInv'
<1> SUFFICES ASSUME OInv, [TransferNext]_allVars PROVE OInv'
  OBVIOUS
<1>1. SInv'
  BY TransferInductive DEF OInv
<1>2. LanesInOrder'
  BY LanesStep, <1>1 DEF OInv
<1>3. ASSUME Undisturbed' PROVE FramesAreKept' /\ SessionIsServed'
  <2>0. Undisturbed /\ FramesAreKept /\ SessionIsServed
    BY <1>3, DisturbedStays DEF OInv, QuietInv
  <2>1. CASE UNCHANGED vars
    BY <2>0, <2>1 DEF vars, FramesAreKept, SessionIsServed, TakesFrames
  <2>2. CASE DeliverRequest
    <3>1. PICK t \in asked : Arrive(t)
      BY <2>2 DEF DeliverRequest
    <3>2. t \in Requests
      BY DEF OInv, SInv, SenderTypeOK
    <3>3. FramesAreKept'
      BY <2>0, <3>1 DEF Arrive, FramesAreKept
    <3>4. SessionIsServed'
      BY <2>0, <3>1, <3>2 DEF Arrive, Goto, SessionIsServed, TakesFrames, OInv, SInv,
         IInv,
         TypeOK, PlaceTypeOK, Requests, Threads, AskedInOrder, LanesInOrder
    <3> QED
      BY <3>3, <3>4
  <2>3. CASE DeliverLane
    <3>1. PICK c \in Chunks : frame[c] # 0 /\ AuthorizeLane(c)
      BY <2>3 DEF DeliverLane
    <3> QED
      BY <2>0, <3>1 DEF AuthorizeLane, Lane, FramesAreKept, SessionIsServed, TakesFrames,
         OInv, SInv, IInv, TypeOK, PlaceTypeOK, RecordTypeOK
  <2>4. CASE Serve
    BY <1>3, <2>0, <2>4, FramesStep, SessionStep DEF Serve, OInv
  <2> QED
    BY <2>1, <2>2, <2>3, <2>4
    DEF TransferNext, SenderStep, BeginSend, PrepareReturns, StartBatch, StreamFails,
      FinishStream, CompleteReturns, FallbackReturns, SendChunk, SourceFails, LaneBreaks,
      AckArrives, EditSource, RemoveSource, allVars
<1> QED
  BY <1>1, <1>2, <1>3 DEF OInv, QuietInv

\* If the receiver refuses the sender's complete request, something broke, the
\* source was changed, or the session ran out of time: no order of lanes,
\* batches and late frames is to blame.
THEOREM CompleteAccepted == TransferSpec => []OwnCompleteIsAccepted
<1>1. TransferInit => OInv
  <2> SUFFICES ASSUME TransferInit PROVE OInv
    OBVIOUS
  <2>1. SInv
    BY TransferInitially
  <2>2. LanesInOrder
    BY TransferAssumption DEF TransferInit, SenderInit, LanesInOrder
  <2>3. FramesAreKept /\ SessionIsServed
    BY DEF TransferInit, Init, NoReceiver, NoSession, FramesAreKept, SessionIsServed,
       Threads,
       Requests
  <2> QED
    BY <2>1, <2>2, <2>3 DEF OInv, QuietInv
<1>2. OInv => OwnCompleteIsAccepted
  <2> SUFFICES ASSUME OInv, pc["complete"] = "refused", ~(faults > 0), ~(content > 1),
                      ~session.late
               PROVE  FALSE
    BY DEF OwnCompleteIsAccepted
  <2>1. Undisturbed
    BY TransferAssumption, ReceptionAssumption DEF Undisturbed, OInv, SInv, IInv,
       TypeOK, StoreTypeOK, SenderTypeOK
  <2>2. "complete" \in asked /\ "fallback" \notin asked
    BY DEF OInv, SInv, ServedIsAsked, AskedInOrder, Requests
  <2>3. pc["fallback"] = "none"
    BY <2>2 DEF OInv, SInv, ServedIsAsked, Requests
  <2> QED
    BY <2>1, <2>3 DEF OInv, QuietInv, SessionIsServed
<1> QED
  BY <1>1, <1>2, CompletionInductive, PTL DEF TransferSpec

---------------------------------------------------------------------------
(* What the success shown to the sender means after any number of faults.  *)

\* The complete request and the ordinary path end as done only after the file
\* has got its name.
AnsweredDelivered ==
    /\ pc["complete"] \in {"done", "doneRelease", "ok"} => Delivered
    /\ pc["fallback"] \in {"done", "ok"} => Delivered

DeliveryStays == AnsweredDelivered' /\ (Delivered => Delivered')

\* Whatever the receiver does, and over a crash, a delivered file keeps its name.
LEMMA DeliveryStep ==
    ASSUME IInv, AnsweredDelivered, [Next]_vars
    PROVE  DeliveryStays
<1> USE DEF IInv, TypeOK, PlaceTypeOK, RecordTypeOK, StoreTypeOK,
        NothingBeforeSession, OneOwner,
        OwnerIsAlone, OwnedIsOpen, UndecidedIsUndelivered, Owns, Undecided,
        AnsweredDelivered, DeliveryStays, Delivered, Goto, Lane, Fail, Requests, Finalizers,
        Threads, Terminal, stored, history
<1>0. CASE UNCHANGED vars
  BY <1>0 DEF vars
<1>1. ASSUME NEW t \in Requests, Arrive(t) PROVE DeliveryStays
  BY <1>1 DEF Arrive
<1>2. CASE SavePrepared
  BY <1>2 DEF SavePrepared, DropStaged, NoReceiver
<1>3. CASE ListSession
  BY <1>3 DEF ListSession, NoSession
<1>4. CASE RegisterSession
  BY <1>4 DEF RegisterSession
<1>5. CASE TakeSession
  BY <1>5 DEF TakeSession
<1>6. CASE InsertTransfer
  BY <1>6 DEF InsertTransfer
<1>7. CASE CopyBody
  BY <1>7 DEF CopyBody
<1>8. ASSUME NEW t \in Finalizers, LookupSession(t) PROVE DeliveryStays
  BY <1>8 DEF LookupSession
<1>9. ASSUME NEW t \in Finalizers, BeginFinalization(t) PROVE DeliveryStays
  BY <1>9 DEF BeginFinalization
<1>10. CASE ReceiverComplete
  BY <1>10 DEF ReceiverComplete, TakesFrames
<1>11. ASSUME NEW t \in Finalizers, Release(t) PROVE DeliveryStays
  BY <1>11 DEF Release
<1>12. ASSUME NEW t \in Threads, BeginCleanup(t) PROVE DeliveryStays
  BY <1>12 DEF BeginCleanup, AfterCleanup
<1>13. ASSUME NEW t \in Threads, EndCleanup(t) PROVE DeliveryStays
  BY <1>13 DEF EndCleanup, RemoveStaged, AfterCleanup
<1>14. ASSUME NEW t \in Threads, Settle(t) PROVE DeliveryStays
  BY <1>14 DEF Settle, Reply
<1>15. ASSUME NEW v \in Versions, CommitFile(v) PROVE DeliveryStays
  <2>1. Commits(v) /\ pc["complete"] = "committing" /\ UNCHANGED <<session, conn, stored, history>>
    BY <1>15, CommitEffect
  <2> QED
    BY <2>1 DEF Commits
<1>16. ASSUME NEW c \in Chunks, NEW v \in Versions, EndFrame(c, v) PROVE DeliveryStays
  BY <1>16 DEF EndFrame
<1>17. ASSUME NEW c \in Chunks, AuthorizeLane(c) PROVE DeliveryStays
  BY <1>17 DEF AuthorizeLane
<1>18. ASSUME NEW c \in Chunks, BeginFrame(c) PROVE DeliveryStays
  BY <1>18 DEF BeginFrame, TakesFrames
<1>19. ASSUME NEW c \in Chunks, AcknowledgeFrame(c) PROVE DeliveryStays
  BY <1>19 DEF AcknowledgeFrame, TakesFrames
<1>20. CASE Elapse
  BY <1>20 DEF Elapse
<1>21. CASE FireTimer
  BY <1>21 DEF FireTimer
<1>22. CASE Restart
  BY <1>22 DEF Restart, NoSession, NoReceiver
<1> HIDE DEF DeliveryStays
<1> QED
  BY <1>0, <1>1, <1>2, <1>3, <1>4, <1>5, <1>6, <1>7, <1>8, <1>9, <1>10, <1>11,
     <1>12, <1>13, <1>14, <1>15, <1>16, <1>17, <1>18, <1>19, <1>20, <1>21, <1>22
  DEF Next, PrepareStep, FinalizeStep, FallbackStep, EndStep, LaneStep

DInv == SInv /\ SentOnce /\ AnsweredDelivered /\ (outgoing = "done" => Delivered)

\* Unlike PromiseKept this bounds no fault: stores and disks may fail and the
\* receiver may crash as often as they like, before and after the answer.
THEOREM SenderTellsTruth == TransferSpec => []DoneIsDelivered
<1>1. TransferInit => DInv
  <2>1. TransferInit => AnsweredDelivered /\ SentOnce /\ outgoing # "done"
    BY DEF TransferInit, Init, SenderInit, AnsweredDelivered, SentOnce, Threads,
       Requests, Terminal
  <2> QED
    BY <2>1, TransferInitially DEF DInv
<1>2. DInv /\ [TransferNext]_allVars => DInv'
  <2> SUFFICES ASSUME DInv, [TransferNext]_allVars PROVE DInv'
    OBVIOUS
  <2>1. [Next]_vars
    BY ReceiverSteps DEF DInv, SInv
  <2>2. AnsweredDelivered' /\ (Delivered => Delivered')
    BY <2>1, DeliveryStep DEF DInv, SInv, DeliveryStays
  <2>3. /\ SentOnce'
        /\ outgoing' = "done" =>
              outgoing = "done" \/ pc["complete"] = "ok" \/ pc["fallback"] = "ok"
    BY SentOnceStep DEF DInv
  <2>4. outgoing' = "done" => Delivered'
    BY <2>2, <2>3 DEF DInv, AnsweredDelivered
  <2> QED
    BY <2>2, <2>3, <2>4, TransferInductive DEF DInv
<1>3. DInv => DoneIsDelivered
  BY DEF DInv, SInv, IInv, OutcomeMatchesFile, DoneIsDelivered
<1> QED
  BY <1>1, <1>2, <1>3, PTL DEF TransferSpec
=============================================================================
