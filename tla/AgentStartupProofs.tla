-------------------------- MODULE AgentStartupProofs --------------------------
(***************************************************************************)
(* Proofs about AgentStartup, for any legacy directories, identities and   *)
(* numbers of faults and crashes: what a start, a migration and a close    *)
(* leave behind.                                                           *)
(***************************************************************************)
EXTENDS AgentStartup, WellFoundedInduction, TLAPS

CopySteps == {"config", "identity", "database", "finalize"}
MigrationSteps == {"mark", "marking"} \cup CopySteps
RunSteps == {"settings", "settingsWrite", "start", "open", "ensure", "ensureWrite", "save",
             "listen", "discover", "serve", "store", "webui", "running", "closing",
             "failing", "failed"}
Steps == {"off", "check", "finish"} \cup MigrationSteps \cup RunSteps

Contents == {"none", "broken", "own"} \cup Dirs \cup Fresh

DataTypeOK ==
    /\ legacy \in [Dirs -> [Pieces -> {"none", "broken", "valid"}]]
    /\ root \in [Pieces -> Contents]
    /\ progress \in {"none", "torn"} \cup Dirs
    /\ migrated \in {"none"} \cup Dirs
    /\ source \in Contents
    /\ step \in Steps

\* What is copied, or written again, is never a broken file; what is being
\* written again is.
SourceIsGood ==
    /\ step \in MigrationSteps \cup {"finish"} => source \in Migratable
    /\ step \in {"settingsWrite", "ensureWrite"} => source # "broken"
    /\ step = "settingsWrite" => root["config"] = "broken"
    /\ step = "ensureWrite" => root["identity"] = "broken"

BrokenIsTorn ==
    /\ root["config"] = "broken" => "config" \in torn \/ step = "settingsWrite"
    /\ root["identity"] = "broken" => "identity" \in torn \/ step = "ensureWrite"
    /\ root["database"] # "broken"

\* Once begun, a migration goes on before the agent does anything else, and
\* once done it is never begun again.
MigrationGoesOn ==
    /\ migrated # "none" => step \notin MigrationSteps
    /\ migrated = "none" => step # "finish"
    /\ migrated = "none" /\ progress # "none" =>
          Migratable # {} /\ step \in MigrationSteps \cup {"off", "check"}

\* The identity in use stands in its file, or will again, or the agent does
\* not come as far as using another one.
IdentityStands ==
    /\ step \in {"ensure", "ensureWrite", "save"} => root["database"] \notin Unusable
    /\ step = "save" => root["identity"] # "broken"
    /\ used # "broken"
    /\ used # "none" =>
          /\ step \notin MigrationSteps
          /\ migrated # "none" \/ progress = "none"
          /\ root["database"] \notin Unusable
          /\ \/ root["identity"] = used
             \/ /\ root["identity"] = "broken" /\ step # "save"
                /\ step = "ensureWrite" => source = used

\* Nothing in .shareme but what comes from d, and what the agent writes itself.
OnlyFrom(d) == \A p \in Pieces : root[p] \in Unusable \cup {"own", d} \cup Fresh
Untouched(d) == \A p \in Pieces : root[p] \in Unusable \cup {d}

Taken(d, p) == legacy[d][p] = "valid" => root[p] = d

\* The file of p is being written again with the content from d.
Rewriting(d, p) ==
    /\ source = d
    /\ (p = "config" /\ step = "settingsWrite") \/ (p = "identity" /\ step = "ensureWrite")

BeforeMigration ==
    /\ step = "mark" => Untouched(source)
    /\ step \notin CopySteps \cup {"finish", "marking"}
    /\ step \in RunSteps \cup {"check"} => source \notin Dirs
    /\ \A p \in Pieces : root[p] \notin Dirs

MidMigration ==
    /\ progress \in Migratable /\ Untouched(progress)
    /\ step \in MigrationSteps \cup {"off", "check"}
    /\ step \in MigrationSteps => source = progress
    /\ step \in {"identity", "database", "finalize"} => Taken(progress, "config")
    /\ step \in {"database", "finalize"} => Taken(progress, "identity")
    /\ step = "finalize" => Taken(progress, "database")

AfterMigration ==
    /\ migrated \in Migratable /\ OnlyFrom(migrated)
    /\ progress \in {"none", migrated}
    /\ step \in RunSteps \cup {"check", "finish"} =>
          source \in Unusable \cup {"own", migrated} \cup Fresh
    /\ \A p \in Pieces : Taken(migrated, p) \/ p \in torn \/ Rewriting(migrated, p)

\* As long as the marker was not torn it tells where the migration stands.
MigrationStands ==
    "progress" \notin torn =>
        \/ migrated = "none" /\ progress = "none" /\ BeforeMigration
        \/ migrated = "none" /\ progress = "torn" /\ step = "marking" /\ Untouched(source)
        \/ migrated = "none" /\ progress \in Dirs /\ MidMigration
        \/ migrated # "none" /\ AfterMigration

DataInv ==
    /\ DataTypeOK /\ SourceIsGood /\ BrokenIsTorn
    /\ MigrationGoesOn /\ IdentityStands /\ MigrationStands

Servers == {"accelerated", "discovery", "peerServer"}
Resources == Servers \cup {"store", "heartbeat", "webui"}
NotStarted ==
    {"off", "check", "finish", "settings", "settingsWrite", "start"} \cup MigrationSteps
Started == {"webui", "running", "closing"}
Ensuring == {"ensure", "ensureWrite", "save", "listen"}

\* What an error branch, or Close, has still to close: the store goes last.
Queues ==
    {<< >>, <<"store">>, <<"accelerated", "store">>, <<"discovery", "store">>,
     <<"discovery", "accelerated", "store">>, <<"accelerated", "discovery", "store">>, Handles}

\* Each step of Start knows what is open.
StartOpens ==
    /\ step \in NotStarted \cup {"open"} => open = {}
    /\ step \in Ensuring => open = {"store"}
    /\ step = "discover" => open \subseteq {"store", "accelerated"}
    /\ step = "serve" => open \subseteq {"store", "accelerated", "discovery"}
    /\ step = "store" => open \subseteq Servers \cup {"store", "heartbeat"}
    /\ step \in {"discover", "serve", "store"} => "store" \in open
    /\ step = "failing" => open \subseteq Members(cleanup)
    /\ step = "failed" => open = {}

HostTypeOK ==
    /\ open \subseteq Resources
    /\ closer \in {"idle", "closing", "done"}
    /\ cleanup \in Queues
    /\ host \in [started : BOOLEAN, handles : {<< >>, Handles}, cancelled : BOOLEAN]
    /\ raced \in BOOLEAN

\* Where Start and Close stand: what Close has taken belongs to a Start that
\* returned, unless Close came too early to take anything.
CloseFollowsStart ==
    /\ step \in NotStarted => host = NoHost /\ closer = "idle"
    /\ step \in Starting => host.handles = << >> /\ (closer = "idle" \/ raced)
    /\ step = "failed" => host.cancelled /\ (closer = "idle" \/ raced)
    /\ step = "failed" => host.handles = << >> /\ ~host.started
    /\ step \in Started /\ closer = "idle" => host.handles = Handles
    /\ step = "webui" => closer = "idle" /\ shell = "agent"
    /\ raced => closer = "done" /\ shell = "desktop"
    /\ cleanup # << >> => step = "failing" \/ closer = "closing"

CloseClosesAll ==
    /\ closer # "idle" => host.cancelled /\ "webui" \notin open
    /\ closer = "closing" => open \subseteq Members(cleanup) \cup {"heartbeat"}
    /\ closer = "done" /\ ~raced => open \subseteq {"heartbeat"}
    /\ raced /\ step \in Started => host.handles = Handles

\* What is open belongs to a start that has not ended, and Close has what
\* Start opened.
HostInv ==
    HostTypeOK /\ StartOpens /\ CloseFollowsStart /\ CloseClosesAll /\ StoreOutlivesServers

IInv == DataInv /\ HostInv
---------------------------------------------------------------------------
\* A migration finds the directory it takes (prioritizedLegacyDirs).
LEMMA ChosenIsMigratable ==
    ASSUME Migratable # {}
    PROVE  Chosen \in Migratable
<1>1. CASE progress \in Migratable
  BY <1>1 DEF Chosen
<1>2. CASE progress \notin Migratable
  <2> DEFINE ranks == {Rank[d] : d \in Migratable}
  <2>1. ranks \in SUBSET Nat /\ ranks # {}
    BY MigrationAssumption DEF Migratable
  <2>2. PICK n \in ranks : \A k \in ranks : ~ (<<k, n>> \in OpToRel(<, Nat))
    BY <2>1, NatLessThanWellFounded, WFMin
  <2>3. PICK d \in Migratable : n = Rank[d]
    BY <2>2
  <2>4. \A e \in Migratable : Rank[e] \in Nat /\ ~ (Rank[e] < Rank[d])
    BY <2>1, <2>2, <2>3 DEF OpToRel
  <2>5. \A e \in Migratable : Rank[d] <= Rank[e]
    BY <2>4
  <2> QED
    BY <1>2, <2>5 DEF Chosen
<1> QED
  BY <1>1, <1>2

\* The data directory keeps its types.
LEMMA DataTypeOKStep ==
    ASSUME DataInv, [Next]_vars
    PROVE  DataTypeOK'
<1> USE MigrationAssumption DEF DataInv, Then, DataTypeOK, SourceIsGood, Contents,
     Steps, MigrationSteps, CopySteps, RunSteps, Pieces
<1>1. CASE Launch
  BY <1>1 DEF Launch, files
<1>2. CASE CheckMigration
  BY <1>2, ChosenIsMigratable DEF CheckMigration, NothingToMigrate, Migratable
<1>3. CASE BeginMarker
  BY <1>3 DEF BeginMarker
<1>4. CASE EndMarker
  BY <1>4 DEF EndMarker, Migratable
<1>5. ASSUME NEW p \in Pieces, CopyPiece(p) PROVE DataTypeOK'
  BY <1>5 DEF CopyPiece, AfterPiece, Copies, Migratable
<1>6. CASE WriteMigrated
  BY <1>6 DEF WriteMigrated, Migratable
<1>7. CASE RemoveProgress
  BY <1>7 DEF RemoveProgress
<1>8. CASE LoadSettings
  BY <1>8 DEF LoadSettings
<1>9. CASE WriteSettings
  BY <1>9 DEF WriteSettings, Written
<1>10. CASE OperationFails
  BY <1>10 DEF OperationFails
<1>11. CASE StartHost
  BY <1>11 DEF StartHost
<1>12. CASE OpenDatabase
  BY <1>12 DEF OpenDatabase, OpenStore
<1>13. CASE ReadIdentity
  BY <1>13 DEF ReadIdentity
<1>14. CASE WriteIdentity
  BY <1>14 DEF WriteIdentity, Written
<1>15. CASE SaveDevice
  BY <1>15 DEF SaveDevice, files
<1>16. CASE OpenPorts
  BY <1>16 DEF OpenPorts, Listen
<1>17. CASE StartFails
  BY <1>17 DEF StartFails, HalfWritten, files
<1>18. CASE DeferredClose
  BY <1>18 DEF DeferredClose
<1>19. CASE StoreHandles
  BY <1>19 DEF StoreHandles, files
<1>20. CASE StartLocalUI
  BY <1>20 DEF StartLocalUI
<1>21. CASE Exit
  BY <1>21 DEF Exit
<1>22. CASE Crash
  BY <1>22 DEF Crash, HalfWritten
<1>23. ASSUME NEW d \in Dirs, LegacyAppears(d) PROVE DataTypeOK'
  BY <1>23 DEF LegacyAppears
<1>24. CASE UNCHANGED dataVars
  BY <1>24 DEF dataVars, files
<1> QED
  BY <1>1, <1>2, <1>3, <1>4, <1>5, <1>6, <1>7, <1>8, <1>9, <1>10, <1>11, <1>12, <1>13,
     <1>14, <1>15, <1>16, <1>17, <1>18, <1>19, <1>20, <1>21, <1>22, <1>23, <1>24 DEF
     Next, MigrationStep, EnsureIdentity, TakeHandles, CloseNext, CloseReturns, ContextEnds, vars

\* What is copied stays where it is, and is never broken.
LEMMA SourceIsGoodStep ==
    ASSUME DataInv, [Next]_vars
    PROVE  SourceIsGood'
<1> USE MigrationAssumption DEF DataInv, Then, SourceIsGood, DataTypeOK, MigrationSteps,
     CopySteps, Pieces
<1>1. CASE Launch
  BY <1>1 DEF Launch, files, Migratable
<1>2. CASE CheckMigration
  BY <1>2, ChosenIsMigratable DEF CheckMigration, NothingToMigrate, Migratable
<1>3. CASE BeginMarker
  BY <1>3 DEF BeginMarker, Migratable
<1>4. CASE EndMarker
  BY <1>4 DEF EndMarker, Migratable
<1>5. ASSUME NEW p \in Pieces, CopyPiece(p) PROVE SourceIsGood'
  BY <1>5 DEF CopyPiece, AfterPiece, Copies, Migratable
<1>6. CASE WriteMigrated
  BY <1>6 DEF WriteMigrated, Migratable
<1>7. CASE RemoveProgress
  BY <1>7 DEF RemoveProgress, Migratable
<1>8. CASE LoadSettings
  BY <1>8 DEF LoadSettings, Migratable
<1>9. CASE WriteSettings
  BY <1>9 DEF WriteSettings, Written, Migratable
<1>10. CASE OperationFails
  BY <1>10 DEF OperationFails, Migratable
<1>11. CASE StartHost
  BY <1>11 DEF StartHost, Migratable
<1>12. CASE OpenDatabase
  BY <1>12 DEF OpenDatabase, OpenStore, Migratable
<1>13. CASE ReadIdentity
  BY <1>13 DEF ReadIdentity, Migratable
<1>14. CASE WriteIdentity
  BY <1>14 DEF WriteIdentity, Written, Migratable
<1>15. CASE SaveDevice
  BY <1>15 DEF SaveDevice, files, Migratable
<1>16. CASE OpenPorts
  BY <1>16 DEF OpenPorts, Listen, Migratable
<1>17. CASE StartFails
  BY <1>17 DEF StartFails, HalfWritten, files, Migratable
<1>18. CASE DeferredClose
  BY <1>18 DEF DeferredClose, Migratable
<1>19. CASE StoreHandles
  BY <1>19 DEF StoreHandles, files, Migratable
<1>20. CASE StartLocalUI
  BY <1>20 DEF StartLocalUI, Migratable
<1>21. CASE Exit
  BY <1>21 DEF Exit, Migratable
<1>22. CASE Crash
  BY <1>22 DEF Crash, HalfWritten, Migratable
<1>23. ASSUME NEW d \in Dirs, LegacyAppears(d) PROVE SourceIsGood'
  BY <1>23 DEF LegacyAppears, Migratable
<1>24. CASE UNCHANGED dataVars
  BY <1>24 DEF dataVars, files, Migratable
<1> QED
  BY <1>1, <1>2, <1>3, <1>4, <1>5, <1>6, <1>7, <1>8, <1>9, <1>10, <1>11, <1>12, <1>13,
     <1>14, <1>15, <1>16, <1>17, <1>18, <1>19, <1>20, <1>21, <1>22, <1>23, <1>24 DEF
     Next, MigrationStep, EnsureIdentity, TakeHandles, CloseNext, CloseReturns, ContextEnds, vars

\* Only a write that is cut off leaves a broken file.
LEMMA BrokenIsTornStep ==
    ASSUME DataInv, [Next]_vars
    PROVE  BrokenIsTorn'
<1> USE MigrationAssumption DEF DataInv, Then, BrokenIsTorn, SourceIsGood,
     MigrationSteps, CopySteps, DataTypeOK, Pieces
<1>1. CASE Launch
  BY <1>1 DEF Launch, files
<1>2. CASE CheckMigration
  BY <1>2, ChosenIsMigratable DEF CheckMigration, NothingToMigrate, Migratable
<1>3. CASE BeginMarker
  BY <1>3 DEF BeginMarker
<1>4. CASE EndMarker
  BY <1>4 DEF EndMarker
<1>5. ASSUME NEW p \in Pieces, CopyPiece(p) PROVE BrokenIsTorn'
  BY <1>5 DEF CopyPiece, AfterPiece, Copies, Migratable
<1>6. CASE WriteMigrated
  BY <1>6 DEF WriteMigrated
<1>7. CASE RemoveProgress
  BY <1>7 DEF RemoveProgress
<1>8. CASE LoadSettings
  BY <1>8 DEF LoadSettings
<1>9. CASE WriteSettings
  BY <1>9 DEF WriteSettings, Written
<1>10. CASE OperationFails
  BY <1>10 DEF OperationFails
<1>11. CASE StartHost
  BY <1>11 DEF StartHost
<1>12. CASE OpenDatabase
  BY <1>12 DEF OpenDatabase, OpenStore
<1>13. CASE ReadIdentity
  BY <1>13 DEF ReadIdentity
<1>14. CASE WriteIdentity
  BY <1>14 DEF WriteIdentity, Written
<1>15. CASE SaveDevice
  BY <1>15 DEF SaveDevice, files
<1>16. CASE OpenPorts
  BY <1>16 DEF OpenPorts, Listen
<1>17. CASE StartFails
  BY <1>17 DEF StartFails, HalfWritten, files
<1>18. CASE DeferredClose
  BY <1>18 DEF DeferredClose
<1>19. CASE StoreHandles
  BY <1>19 DEF StoreHandles, files
<1>20. CASE StartLocalUI
  BY <1>20 DEF StartLocalUI
<1>21. CASE Exit
  BY <1>21 DEF Exit
<1>22. CASE Crash
  BY <1>22 DEF Crash, HalfWritten
<1>23. ASSUME NEW d \in Dirs, LegacyAppears(d) PROVE BrokenIsTorn'
  BY <1>23 DEF LegacyAppears
<1>24. CASE UNCHANGED dataVars
  BY <1>24 DEF dataVars, files
<1> QED
  BY <1>1, <1>2, <1>3, <1>4, <1>5, <1>6, <1>7, <1>8, <1>9, <1>10, <1>11, <1>12, <1>13,
     <1>14, <1>15, <1>16, <1>17, <1>18, <1>19, <1>20, <1>21, <1>22, <1>23, <1>24 DEF
     Next, MigrationStep, EnsureIdentity, TakeHandles, CloseNext, CloseReturns, ContextEnds, vars

\* A migration is resumed until it is done, and not repeated.
LEMMA MigrationGoesOnStep ==
    ASSUME DataInv, [Next]_vars
    PROVE  MigrationGoesOn'
<1> USE MigrationAssumption DEF DataInv, Then, MigrationGoesOn, SourceIsGood,
     MigrationSteps, CopySteps, DataTypeOK, Pieces
<1>1. CASE Launch
  BY <1>1 DEF Launch, files, Migratable
<1>2. CASE CheckMigration
  BY <1>2, ChosenIsMigratable DEF CheckMigration, NothingToMigrate, Migratable
<1>3. CASE BeginMarker
  BY <1>3 DEF BeginMarker, Migratable
<1>4. CASE EndMarker
  BY <1>4 DEF EndMarker, Migratable
<1>5. ASSUME NEW p \in Pieces, CopyPiece(p) PROVE MigrationGoesOn'
  BY <1>5 DEF CopyPiece, AfterPiece, Copies, Migratable
<1>6. CASE WriteMigrated
  BY <1>6 DEF WriteMigrated, Migratable
<1>7. CASE RemoveProgress
  BY <1>7 DEF RemoveProgress, Migratable
<1>8. CASE LoadSettings
  BY <1>8 DEF LoadSettings, Migratable
<1>9. CASE WriteSettings
  BY <1>9 DEF WriteSettings, Written, Migratable
<1>10. CASE OperationFails
  BY <1>10 DEF OperationFails, Migratable
<1>11. CASE StartHost
  BY <1>11 DEF StartHost, Migratable
<1>12. CASE OpenDatabase
  BY <1>12 DEF OpenDatabase, OpenStore, Migratable
<1>13. CASE ReadIdentity
  BY <1>13 DEF ReadIdentity, Migratable
<1>14. CASE WriteIdentity
  BY <1>14 DEF WriteIdentity, Written, Migratable
<1>15. CASE SaveDevice
  BY <1>15 DEF SaveDevice, files, Migratable
<1>16. CASE OpenPorts
  BY <1>16 DEF OpenPorts, Listen, Migratable
<1>17. CASE StartFails
  BY <1>17 DEF StartFails, HalfWritten, files, Migratable
<1>18. CASE DeferredClose
  BY <1>18 DEF DeferredClose, Migratable
<1>19. CASE StoreHandles
  BY <1>19 DEF StoreHandles, files, Migratable
<1>20. CASE StartLocalUI
  BY <1>20 DEF StartLocalUI, Migratable
<1>21. CASE Exit
  BY <1>21 DEF Exit, Migratable
<1>22. CASE Crash
  BY <1>22 DEF Crash, HalfWritten, Migratable
<1>23. ASSUME NEW d \in Dirs, LegacyAppears(d) PROVE MigrationGoesOn'
  BY <1>23 DEF LegacyAppears, Migratable
<1>24. CASE UNCHANGED dataVars
  BY <1>24 DEF dataVars, files, Migratable
<1> QED
  BY <1>1, <1>2, <1>3, <1>4, <1>5, <1>6, <1>7, <1>8, <1>9, <1>10, <1>11, <1>12, <1>13,
     <1>14, <1>15, <1>16, <1>17, <1>18, <1>19, <1>20, <1>21, <1>22, <1>23, <1>24 DEF
     Next, MigrationStep, EnsureIdentity, TakeHandles, CloseNext, CloseReturns, ContextEnds, vars

\* The identity in use survives migrations, rewrites and crashes.
LEMMA IdentityStandsStep ==
    ASSUME DataInv, [Next]_vars
    PROVE  IdentityStands'
<1> USE MigrationAssumption DEF DataInv, Then, IdentityStands, MigrationGoesOn,
     BrokenIsTorn, SourceIsGood, MigrationSteps, CopySteps, DataTypeOK, Pieces, Unusable
<1>1. CASE Launch
  BY <1>1 DEF Launch, files
<1>2. CASE CheckMigration
  BY <1>2, ChosenIsMigratable DEF CheckMigration, NothingToMigrate, Migratable
<1>3. CASE BeginMarker
  BY <1>3 DEF BeginMarker
<1>4. CASE EndMarker
  BY <1>4 DEF EndMarker
<1>5. ASSUME NEW p \in Pieces, CopyPiece(p) PROVE IdentityStands'
  BY <1>5 DEF CopyPiece, AfterPiece, Copies, Migratable
<1>6. CASE WriteMigrated
  BY <1>6 DEF WriteMigrated
<1>7. CASE RemoveProgress
  BY <1>7 DEF RemoveProgress
<1>8. CASE LoadSettings
  BY <1>8 DEF LoadSettings
<1>9. CASE WriteSettings
  BY <1>9 DEF WriteSettings, Written
<1>10. CASE OperationFails
  BY <1>10 DEF OperationFails
<1>11. CASE StartHost
  BY <1>11 DEF StartHost
<1>12. CASE OpenDatabase
  BY <1>12 DEF OpenDatabase, OpenStore
<1>13. CASE ReadIdentity
  BY <1>13 DEF ReadIdentity
<1>14. CASE WriteIdentity
  BY <1>14 DEF WriteIdentity, Written
<1>15. CASE SaveDevice
  BY <1>15 DEF SaveDevice, files
<1>16. CASE OpenPorts
  BY <1>16 DEF OpenPorts, Listen
<1>17. CASE StartFails
  BY <1>17 DEF StartFails, HalfWritten, files
<1>18. CASE DeferredClose
  BY <1>18 DEF DeferredClose
<1>19. CASE StoreHandles
  BY <1>19 DEF StoreHandles, files
<1>20. CASE StartLocalUI
  BY <1>20 DEF StartLocalUI
<1>21. CASE Exit
  BY <1>21 DEF Exit
<1>22. CASE Crash
  BY <1>22 DEF Crash, HalfWritten
<1>23. ASSUME NEW d \in Dirs, LegacyAppears(d) PROVE IdentityStands'
  BY <1>23 DEF LegacyAppears
<1>24. CASE UNCHANGED dataVars
  BY <1>24 DEF dataVars, files
<1> QED
  BY <1>1, <1>2, <1>3, <1>4, <1>5, <1>6, <1>7, <1>8, <1>9, <1>10, <1>11, <1>12, <1>13,
     <1>14, <1>15, <1>16, <1>17, <1>18, <1>19, <1>20, <1>21, <1>22, <1>23, <1>24 DEF
     Next, MigrationStep, EnsureIdentity, TakeHandles, CloseNext, CloseReturns, ContextEnds, vars

\* The markers tell how far the migration is (MigrateLegacyData).
LEMMA MigrationStandsStep ==
    ASSUME DataInv, [Next]_vars
    PROVE  MigrationStands'
<1> USE MigrationAssumption DEF DataInv, Then, MigrationStands, BeforeMigration,
     MidMigration, AfterMigration, Untouched, OnlyFrom, Taken, Rewriting,
     IdentityStands, MigrationGoesOn, BrokenIsTorn, SourceIsGood, MigrationSteps,
     CopySteps, RunSteps, DataTypeOK, Contents, Steps, Pieces, Unusable
<1>1. CASE Launch
  BY <1>1 DEF Launch, files, Migratable
<1>2. CASE CheckMigration
  <2>1. CASE "progress" \in torn
    BY <1>2, <2>1 DEF CheckMigration
  <2>2. CASE "progress" \notin torn /\ NothingToMigrate
    BY <1>2, <2>2 DEF CheckMigration, NothingToMigrate, Migratable
  <2>3. CASE "progress" \notin torn /\ ~NothingToMigrate
    <3>1. Chosen \in Migratable /\ (progress \in Migratable => Chosen = progress)
      BY <2>3, ChosenIsMigratable DEF NothingToMigrate, Chosen
    <3>2. step = "check" /\ step' = "mark" /\ source' = Chosen
      BY <1>2, <2>3 DEF CheckMigration
    <3>3. UNCHANGED <<root, legacy, progress, migrated, torn>>
      BY <1>2 DEF CheckMigration
    <3>4. migrated = "none" /\ (progress = "none" => \A p \in Pieces : root[p] \in Unusable)
      BY <2>3 DEF NothingToMigrate
    <3> QED
      BY <2>3, <3>1, <3>2, <3>3, <3>4 DEF Migratable
  <2> QED
    BY <2>1, <2>2, <2>3
<1>3. CASE BeginMarker
  BY <1>3 DEF BeginMarker, Migratable
<1>4. CASE EndMarker
  BY <1>4 DEF EndMarker, Migratable
<1>5. ASSUME NEW p \in Pieces, CopyPiece(p) PROVE MigrationStands'
  BY <1>5 DEF CopyPiece, AfterPiece, Copies, Migratable
<1>6. CASE WriteMigrated
  BY <1>6 DEF WriteMigrated, Migratable
<1>7. CASE RemoveProgress
  BY <1>7 DEF RemoveProgress, Migratable
<1>8. CASE LoadSettings
  BY <1>8 DEF LoadSettings, Migratable
<1>9. CASE WriteSettings
  BY <1>9 DEF WriteSettings, Written, Migratable
<1>10. CASE OperationFails
  BY <1>10 DEF OperationFails, Migratable
<1>11. CASE StartHost
  BY <1>11 DEF StartHost, Migratable
<1>12. CASE OpenDatabase
  BY <1>12 DEF OpenDatabase, OpenStore, Migratable
<1>13. CASE ReadIdentity
  BY <1>13 DEF ReadIdentity, Migratable
<1>14. CASE WriteIdentity
  BY <1>14 DEF WriteIdentity, Written, Migratable
<1>15. CASE SaveDevice
  BY <1>15 DEF SaveDevice, files, Migratable
<1>16. CASE OpenPorts
  BY <1>16 DEF OpenPorts, Listen, Migratable
<1>17. CASE StartFails
  BY <1>17 DEF StartFails, HalfWritten, files, Migratable
<1>18. CASE DeferredClose
  BY <1>18 DEF DeferredClose, Migratable
<1>19. CASE StoreHandles
  BY <1>19 DEF StoreHandles, files, Migratable
<1>20. CASE StartLocalUI
  BY <1>20 DEF StartLocalUI, Migratable
<1>21. CASE Exit
  BY <1>21 DEF Exit, Migratable
<1>22. CASE Crash
  BY <1>22 DEF Crash, HalfWritten, Migratable
<1>23. ASSUME NEW d \in Dirs, LegacyAppears(d) PROVE MigrationStands'
  BY <1>23 DEF LegacyAppears, Migratable
<1>24. CASE UNCHANGED dataVars
  BY <1>24 DEF dataVars, files, Migratable
<1> QED
  BY <1>1, <1>2, <1>3, <1>4, <1>5, <1>6, <1>7, <1>8, <1>9, <1>10, <1>11, <1>12, <1>13,
     <1>14, <1>15, <1>16, <1>17, <1>18, <1>19, <1>20, <1>21, <1>22, <1>23, <1>24 DEF
     Next, MigrationStep, EnsureIdentity, TakeHandles, CloseNext, CloseReturns, ContextEnds, vars

\* Start and Close keep account of what is open (Host.Start, Host.Close).
LEMMA QueueMembers ==
    /\ Members(<< >>) = {} /\ Members(<<"store">>) = {"store"}
    /\ Members(<<"accelerated", "store">>) = {"accelerated", "store"}
    /\ Members(<<"discovery", "store">>) = {"discovery", "store"}
    /\ Members(<<"discovery", "accelerated", "store">>) = {"discovery", "accelerated", "store"}
    /\ Members(<<"accelerated", "discovery", "store">>) = {"discovery", "accelerated", "store"}
    /\ Members(Handles) = Servers \cup {"store"}
<1> USE DEF Members
<1>1. Members(<< >>) = {} /\ Members(<<"store">>) = {"store"}
  OBVIOUS
<1>2. Members(<<"accelerated", "store">>) = {"accelerated", "store"}
  OBVIOUS
<1>3. Members(<<"discovery", "store">>) = {"discovery", "store"}
  OBVIOUS
<1>4. Members(<<"discovery", "accelerated", "store">>) = {"discovery", "accelerated", "store"}
  OBVIOUS
<1>5. Members(<<"accelerated", "discovery", "store">>) = {"discovery", "accelerated", "store"}
  OBVIOUS
<1>6. Members(Handles) = Servers \cup {"store"}
  BY DEF Handles, Servers
<1> HIDE DEF Members
<1> QED
  BY <1>1, <1>2, <1>3, <1>4, <1>5, <1>6

LEMMA QueueStep ==
    ASSUME NEW queue \in Queues, queue # << >>
    PROVE  /\ Tail(queue) \in Queues /\ Head(queue) \in Servers \cup {"store"}
           /\ Members(queue) = {Head(queue)} \cup Members(Tail(queue))
           /\ Head(queue) = "store" => Tail(queue) = << >>
<1> USE QueueMembers DEF Queues, Servers
<1>1. CASE queue = <<"store">>
  <2>1. Head(queue) = "store" /\ Tail(queue) = << >>
    BY <1>1
  <2> QED
    BY <1>1, <2>1
<1>2. CASE queue = <<"accelerated", "store">>
  <2>1. Head(queue) = "accelerated" /\ Tail(queue) = <<"store">>
    BY <1>2
  <2> QED
    BY <1>2, <2>1
<1>3. CASE queue = <<"discovery", "store">>
  <2>1. Head(queue) = "discovery" /\ Tail(queue) = <<"store">>
    BY <1>3
  <2> QED
    BY <1>3, <2>1
<1>4. CASE queue = <<"discovery", "accelerated", "store">>
  <2>1. Head(queue) = "discovery" /\ Tail(queue) = <<"accelerated", "store">>
    BY <1>4
  <2> QED
    BY <1>4, <2>1
<1>5. CASE queue = <<"accelerated", "discovery", "store">>
  <2>1. Head(queue) = "accelerated" /\ Tail(queue) = <<"discovery", "store">>
    BY <1>5
  <2> QED
    BY <1>5, <2>1
<1>6. CASE queue = Handles
  <2>1. Head(queue) = "peerServer" /\ Tail(queue) = <<"accelerated", "discovery", "store">>
    BY <1>6 DEF Handles
  <2> QED
    BY <1>6, <2>1
<1> QED
  BY <1>1, <1>2, <1>3, <1>4, <1>5, <1>6

LEMMA HostInvStep ==
    ASSUME HostInv, step \in Steps, [Next]_vars
    PROVE  HostInv'
<1> USE DEF HostInv, HostTypeOK, StartOpens, CloseFollowsStart, CloseClosesAll,
        StoreOutlivesServers, Then, Opens, Off, NoHost, NotStarted, Started, Starting,
        Ensuring, Resources, Servers, EndsWithContext, MigrationSteps, CopySteps
<1>q. << >> \in Queues /\ Members(<< >>) = {} /\ Handles \in Queues /\ Handles # << >>
  BY QueueMembers DEF Queues, Handles
<1>1. ASSUME UNCHANGED hostVars, step \in NotStarted, step' \in NotStarted PROVE HostInv'
  BY <1>1 DEF hostVars
<1>2. ASSUME MigrationStep PROVE step \in NotStarted /\ step' \in NotStarted
  BY <1>2 DEF MigrationStep, Launch, CheckMigration, BeginMarker, EndMarker,
     WriteMigrated, RemoveProgress, LoadSettings, WriteSettings, OperationFails,
     CopyPiece, AfterPiece, Pieces
<1>3. CASE StartHost
  BY <1>3 DEF StartHost
<1>4. CASE OpenDatabase
  BY <1>4 DEF OpenDatabase, OpenStore
<1>5. CASE EnsureIdentity
  BY <1>5 DEF EnsureIdentity, ReadIdentity, WriteIdentity, hostVars
<1>6. CASE SaveDevice
  BY <1>6 DEF SaveDevice, hostVars
<1>7. CASE OpenPorts
  <2>1. CASE Listen("listen", "discover", {"accelerated"})
    BY <2>1 DEF Listen
  <2>2. CASE Listen("listen", "discover", {})
    BY <2>2 DEF Listen
  <2>3. CASE Listen("discover", "serve", {"discovery"})
    BY <2>3 DEF Listen
  <2>4. CASE Listen("serve", "store", {"peerServer", "heartbeat"})
    BY <2>4 DEF Listen
  <2> QED
    BY <1>7, <2>1, <2>2, <2>3, <2>4 DEF OpenPorts
<1>8. CASE StartFails
  <2>1. /\ step \in {"open", "discover", "serve"} \cup Ensuring /\ step' = "failing"
        /\ cleanup' = CleanupOf(step)
        /\ UNCHANGED <<shell, open, host, closer, raced>>
    BY <1>8 DEF StartFails
  <2>2. CleanupOf(step) \in Queues /\ open \subseteq Members(CleanupOf(step))
    BY <2>1, QueueMembers DEF CleanupOf, Queues
  <2> QED
    BY <2>1, <2>2
<1>9. CASE DeferredClose
  BY <1>9, <1>q DEF DeferredClose
<1>10. CASE StoreHandles
  BY <1>10 DEF StoreHandles
<1>11. CASE StartLocalUI
  BY <1>11 DEF StartLocalUI
<1>12. CASE TakeHandles
  <2>1. step \in Starting \/ (step \in {"running", "closing"} /\ host.handles = Handles)
    BY <1>12 DEF TakeHandles, MayClose, Steps, RunSteps
  <2>2. CASE step \in Starting
    BY <1>12, <2>2 DEF TakeHandles, MayClose, dataVars
  <2>3. CASE step \in {"running", "closing"} /\ host.handles = Handles
    <3>1. Members(Handles) = Servers \cup {"store"}
      BY QueueMembers
    <3>2. /\ closer = "idle" /\ closer' = "closing" /\ cleanup' = Handles
          /\ open' = open \ {"webui"} /\ host' = [NoHost EXCEPT !.cancelled = TRUE]
          /\ raced' = FALSE /\ UNCHANGED <<step, shell>>
      BY <1>12, <1>q, <2>3 DEF TakeHandles, dataVars
    <3>3. host' = [started |-> FALSE, handles |-> << >>, cancelled |-> TRUE]
      BY <3>2
    <3> QED
      BY <1>q, <2>3, <3>1, <3>2, <3>3
  <2> QED
    BY <2>1, <2>2, <2>3
<1>13. CASE CloseNext
  <2>1. /\ cleanup # << >> /\ open' = open \ {Head(cleanup)} /\ cleanup' = Tail(cleanup)
        /\ UNCHANGED <<step, shell, host, closer, raced>>
    BY <1>13 DEF CloseNext, dataVars
  <2>2. /\ Tail(cleanup) \in Queues /\ Head(cleanup) \in Servers \cup {"store"}
        /\ Members(cleanup) = {Head(cleanup)} \cup Members(Tail(cleanup))
        /\ Head(cleanup) = "store" => Tail(cleanup) = << >>
    BY <2>1, QueueStep
  <2>3. HostTypeOK' /\ StartOpens' /\ CloseFollowsStart'
    BY ZenonT(60), <2>1, <2>2, <1>q
  <2>4. CloseClosesAll' /\ StoreOutlivesServers'
    BY ZenonT(60), <2>1, <2>2, <1>q
  <2> QED
    BY <2>3, <2>4 DEF HostInv
<1>14. CASE CloseReturns
  BY <1>14, <1>q DEF CloseReturns, dataVars
<1>15. CASE ContextEnds
  BY <1>15 DEF ContextEnds, dataVars
<1>16. CASE Exit
  BY <1>16, <1>q DEF Exit
<1>17. CASE Crash /\ Off
  BY <1>17, <1>q DEF Crash
<1>18. CASE UNCHANGED hostVars /\ step' = step
  BY <1>18 DEF hostVars
<1> QED
  BY <1>1, <1>2, <1>3, <1>4, <1>5, <1>6, <1>7, <1>8, <1>9, <1>10, <1>11, <1>12, <1>13,
     <1>14, <1>15, <1>16, <1>17, <1>18 DEF Next, LegacyAppears, vars, dataVars

---------------------------------------------------------------------------
(* The theorems.                                                           *)

\* An installation, or what a crash left of it, satisfies the invariant.
LEMMA InitInv == Init => IInv
<1> SUFFICES ASSUME Init PROVE IInv
  OBVIOUS
<1> USE MigrationAssumption DEF Init, DataInit
<1>1. DataTypeOK
  <2>1. LegacyStates \subseteq [Pieces -> {"none", "broken", "valid"}]
    BY DEF LegacyStates, Pieces
  <2>2. InitialRoots \subseteq [Pieces -> Contents]
    BY DEF InitialRoots, Pieces, Contents
  <2> QED
    BY <2>1, <2>2 DEF DataTypeOK, Steps, Contents
<1>2. SourceIsGood /\ MigrationGoesOn
  BY DEF SourceIsGood, MigrationGoesOn, MigrationSteps, CopySteps
<1>3. BrokenIsTorn
  BY DEF BrokenIsTorn, InitialRoots, Pieces
<1>4. IdentityStands
  BY DEF IdentityStands, InitialRoots, MigrationSteps, CopySteps, Unusable
<1>5. MigrationStands
  <2>1. \A p \in Pieces : root[p] \notin Dirs
    BY DEF InitialRoots, Pieces
  <2> QED
    BY <2>1 DEF MigrationStands, BeforeMigration, CopySteps, RunSteps
<1>6. HostInv
  BY DEF HostInv, HostTypeOK, StartOpens, CloseFollowsStart, CloseClosesAll,
     StoreOutlivesServers, Queues, NoHost, NotStarted, Starting, Started, Ensuring
<1> QED
  BY <1>1, <1>2, <1>3, <1>4, <1>5, <1>6 DEF IInv, DataInv

\* In every state of every start the invariant holds: it is inductive.
THEOREM Invariance == Spec => []IInv
<1>1. IInv /\ [Next]_vars => IInv'
  BY DataTypeOKStep, SourceIsGoodStep, BrokenIsTornStep, MigrationGoesOnStep,
     IdentityStandsStep, MigrationStandsStep, HostInvStep DEF IInv, DataInv, DataTypeOK
<1> QED
  BY InitInv, <1>1, PTL DEF Spec

\* Only a write in place that was cut off leaves an unreadable file in
\* .shareme (writeSettings, EnsureLocalDevice); a migration never does
\* (copyFileIfMissing).
THEOREM NoHalfCopies == Spec => []OnlyTornFilesAreBroken
<1>1. IInv => OnlyTornFilesAreBroken
  BY DEF IInv, DataInv, BrokenIsTorn, OnlyTornFilesAreBroken, Pieces
<1> QED
  BY <1>1, Invariance, PTL

\* For any legacy directories, and any number of faults and crashes, the agent
\* runs with all of one legacy directory or with nothing of any
\* (MigrateLegacyData).
THEOREM LegacyTakenWhole == Spec => []LegacyComesWhole
<1>1. IInv => LegacyComesWhole
  <2> SUFFICES ASSUME IInv, step \in {"ensure", "running"}, "progress" \notin torn
               PROVE  LET from == {root[p] : p \in Pieces} \cap Dirs
                      IN from = {} \/ \E d \in Dirs :
                            /\ from = {d} /\ migrated = d
                            /\ \A p \in Pieces :
                                  legacy[d][p] = "valid" => root[p] = d \/ p \in torn
    BY DEF LegacyComesWhole
  <2> USE DEF IInv, DataInv
  <2>1. CASE migrated = "none" /\ BeforeMigration
    BY <2>1 DEF BeforeMigration
  <2>2. CASE migrated # "none" /\ AfterMigration
    <3>1. migrated \in Dirs
      BY <2>2 DEF DataTypeOK
    <3>2. {root[p] : p \in Pieces} \cap Dirs \subseteq {migrated}
      BY <2>2, MigrationAssumption DEF AfterMigration, OnlyFrom, Unusable
    <3>3. \A p \in Pieces :
            legacy[migrated][p] = "valid" => root[p] = migrated \/ p \in torn
      BY <2>2 DEF AfterMigration, Taken, Rewriting
    <3> QED
      BY <3>1, <3>2, <3>3
  <2> QED
    BY <2>1, <2>2 DEF MigrationStands, MidMigration, MigrationSteps, CopySteps
<1> QED
  BY <1>1, Invariance, PTL

\* An identity that was stored is never replaced, whatever fails and whatever
\* an old version of the program leaves behind (SaveLocalDevice).
THEOREM IdentityStays == Spec => IdentityIsKept
<1>1. IInv /\ [Next]_vars => (used # "none" => used' = used) \/ UNCHANGED used
  <2> SUFFICES ASSUME IInv, [Next]_vars, used # "none" PROVE used' = used
    OBVIOUS
  <2>1. CASE SaveDevice
    BY <2>1 DEF SaveDevice, IInv, DataInv, IdentityStands
  <2> QED
    BY <2>1 DEF Next, MigrationStep, EnsureIdentity, Launch, CheckMigration,
       BeginMarker,
       EndMarker, CopyPiece, WriteMigrated, RemoveProgress, LoadSettings, WriteSettings,
       OperationFails, StartHost, OpenDatabase, ReadIdentity, WriteIdentity, OpenPorts,
       Listen, StartFails, DeferredClose, StoreHandles, StartLocalUI, TakeHandles,
       CloseNext, CloseReturns, ContextEnds, Exit, Crash, LegacyAppears, Then, vars, dataVars
<1> QED
  BY <1>1, Invariance, PTL DEF Spec, IdentityIsKept

\* Whatever step of Start fails its error branch closes all that the steps
\* before it opened, also when Close runs between the lock regions; and a Close
\* that comes after Start closes all that Start has stored (Host.Start,
\* Host.Close).
THEOREM NothingStaysOpen == Spec => []NothingLeftOpen
<1>1. IInv => NothingLeftOpen
  <2> SUFFICES ASSUME HostInv PROVE NothingLeftOpen
    BY DEF IInv
  <2>1. raced /\ step = "running" => open \subseteq Members(host.handles) \cup EndsWithContext
    <3>1. Members(Handles) = {"peerServer", "accelerated", "discovery", "store"}
      BY DEF Members, Handles
    <3> QED
      BY <3>1 DEF HostInv, HostTypeOK, CloseClosesAll, CloseFollowsStart, Started,
         Resources, Servers, EndsWithContext
  <2> QED
    BY <2>1 DEF HostInv, StartOpens, CloseFollowsStart, CloseClosesAll, NothingLeftOpen
<1> QED
  BY <1>1, Invariance, PTL

\* The store is closed after everything that answers requests with it, in the
\* error branches of Start and in Close (Host.Start, Host.Close).
THEOREM StoreClosedLast == Spec => []StoreOutlivesServers
<1>1. IInv => StoreOutlivesServers
  BY DEF IInv, HostInv
<1> QED
  BY <1>1, Invariance, PTL
=============================================================================
