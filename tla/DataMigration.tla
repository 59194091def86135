---------------------------- MODULE DataMigration ----------------------------
(***************************************************************************)
(* What the agent does with its data directory before it runs:             *)
(* config.LoadDefault with MigrateLegacyData and LoadSettings, the store's *)
(* file, and device.EnsureLocalDevice.  The agent may stop between any two *)
(* file operations, and an earlier version of the program, run again, may  *)
(* fill a legacy directory.                                                *)
(*                                                                         *)
(* A file is known by where its content comes from.  os.WriteFile is two   *)
(* steps: the file is truncated, and holds a part of its content until it  *)
(* is complete.  A copy goes to a temporary file first, its rename is one  *)
(* step.                                                                   *)
(***************************************************************************)
EXTENDS Naturals

CONSTANTS
    Dirs,        \* the legacy directories
    Rank,        \* their place in LegacyDataDirCandidates
    Fresh,       \* the identities that may be generated
    MaxFaults    \* bound: failing file operations, and crashes

Pieces == {"config", "identity", "database"}
Unusable == {"none", "broken"}

ASSUME MigrationAssumption ==
    /\ Rank \in [Dirs -> Nat] /\ \A d, e \in Dirs : Rank[d] = Rank[e] => d = e
    /\ Dirs \cap ({"none", "broken", "torn", "own"} \cup Fresh) = {}
    /\ Fresh \cap {"none", "broken", "own"} = {}
    /\ MaxFaults \in Nat

VARIABLES
    legacy,      \* per directory and piece: "none", "broken", "valid"
    root,        \* per piece of .shareme: "none", "broken", "own", a directory, an identity
    progress,    \* .migration-in-progress: "none", "torn", or the directory it names
    migrated,    \* .migrated: "none", or the directory it names
    source,      \* the directory being copied; "none" before one is chosen
    step,        \* where the start is; "off" when the agent does not run
    used,        \* the identity the store's device row was last written with
    torn,        \* history: what a crash left half written
    faults

files == <<legacy, root, progress, migrated>>
dataVars == <<files, source, step, used, torn, faults>>

\* .shareme as an installation, or an earlier crash, leaves it.
InitialRoots ==
    LET Root(c, i, b) == [config |-> c, identity |-> i, database |-> b]
    IN {Root("none", "none", "none"), Root("broken", "none", "none")}
         \cup {Root("own", i, "own") : i \in Fresh}

LegacyStates == [config : {"none", "broken", "valid"},
                 identity : {"none", "broken", "valid"}, database : {"none", "valid"}]

DataInit ==
    /\ legacy \in [Dirs -> LegacyStates] /\ root \in InitialRoots
    /\ progress = "none" /\ migrated = "none" /\ source = "none"
    /\ step = "off"
    /\ used = IF root.identity \in Fresh THEN root.identity ELSE "none"
    /\ torn = {p \in Pieces : root[p] = "broken"} /\ faults = 0

Fault == faults < MaxFaults /\ faults' = faults + 1

\* A step of the start; nothing else is touched.
Then(next) == step' = next /\ UNCHANGED <<legacy, used, torn>>

Launch ==
    /\ step = "off" /\ step' = "check" /\ source' = "none"
    /\ UNCHANGED <<files, used, torn, faults>>

\* A file operation fails: the error is returned to main, which exits.
OperationFails ==
    /\ step \in {"mark", "config", "identity", "database", "finalize", "settings"}
    /\ Fault /\ Then("off")
    /\ UNCHANGED <<root, progress, migrated, source>>

---------------------------------------------------------------------------
(* MigrateLegacyData.                                                      *)

Migratable == {d \in Dirs : \E p \in Pieces : legacy[d][p] = "valid"}

\* prioritizedLegacyDirs: the directory of a migration that broke off, or the
\* first candidate with data.
Chosen ==
    IF progress \in Migratable THEN progress
    ELSE CHOOSE d \in Migratable : \A e \in Migratable : Rank[d] <= Rank[e]

\* Mutant: a root with any file counts as initialized, also in a migration.
NothingToMigrateBlind ==
    \/ migrated # "none" \/ Migratable = {}
    \/ \E p \in Pieces : root[p] \notin Unusable

\* Mutant: a database without a valid identity does not count.
NothingToMigrateWithoutIdentity ==
    \/ migrated # "none" \/ Migratable = {}
    \/ progress = "none" /\ root.identity \notin Unusable

\* migrationAlreadyHandled, hasInitializedRuntimeData.
NothingToMigrate ==
    \/ migrated # "none" \/ Migratable = {}
    \/ progress = "none" /\ \E p \in Pieces : root[p] \notin Unusable

CheckMigration ==
    /\ step = "check"
    /\ IF NothingToMigrate
       THEN Then("settings") /\ UNCHANGED source
       ELSE Then("mark") /\ source' = Chosen
    /\ UNCHANGED <<root, progress, migrated, faults>>

\* writeMigrationInProgressMarker.
BeginMarker ==
    /\ step = "mark" /\ Then("marking") /\ progress' = "torn"
    /\ UNCHANGED <<root, migrated, source, faults>>

EndMarker ==
    /\ step = "marking" /\ Then("config") /\ progress' = source
    /\ UNCHANGED <<root, migrated, source, faults>>

AfterPiece(p) ==
    CASE p = "config" -> "identity" [] p = "identity" -> "database" [] p = "database" -> "finalize"

Copies(p) == legacy[source][p] = "valid" /\ root[p] \in Unusable

\* Mutant: the copy is written to its final name.
CopyPieceInPlace(p) ==
    /\ step = p
    /\ IF ~Copies(p) THEN Then(AfterPiece(p)) /\ UNCHANGED root
       ELSE \/ root[p] = "none" /\ root' = [root EXCEPT ![p] = "broken"] /\ Then(p)
            \/ root[p] = "broken" /\ root' = [root EXCEPT ![p] = source] /\ Then(AfterPiece(p))
    /\ UNCHANGED <<progress, migrated, source, faults>>

\* copyFileIfMissing: an invalid file is removed and replaced, a valid one kept.
CopyPiece(p) ==
    /\ step = p
    /\ IF ~Copies(p) THEN Then(AfterPiece(p)) /\ UNCHANGED root
       ELSE \/ root[p] = "broken" /\ root' = [root EXCEPT ![p] = "none"] /\ Then(p)
            \/ root[p] = "none" /\ root' = [root EXCEPT ![p] = source] /\ Then(AfterPiece(p))
    /\ UNCHANGED <<progress, migrated, source, faults>>

\* finalizeMigration: only the existence of .migrated is ever read.
WriteMigrated ==
    /\ step = "finalize" /\ Then("finish") /\ migrated' = source
    /\ UNCHANGED <<root, progress, source, faults>>

RemoveProgress ==
    /\ step = "finish" /\ Then("settings") /\ progress' = "none"
    /\ UNCHANGED <<root, migrated, source, faults>>

---------------------------------------------------------------------------
(* LoadSettings, store.Open, EnsureLocalDevice.                            *)

\* Missing settings are written, settings without one of the keys are written
\* again with its default, broken ones stop the agent.  From here on source
\* remembers the content that is being written.
LoadSettings ==
    /\ step = "settings"
    /\ \/ root.config = "broken" /\ Then("off") /\ UNCHANGED root
       \/ root.config \notin Unusable /\ Then("start") /\ UNCHANGED root
       \/ root.config # "broken" /\ Then("settingsWrite") /\ root' = [root EXCEPT !.config = "broken"]
    /\ source' = root.config
    /\ UNCHANGED <<progress, migrated, faults>>

Written(content) == IF source = "none" THEN content ELSE source

WriteSettings ==
    /\ step = "settingsWrite" /\ Then("start")
    /\ root' = [root EXCEPT !.config = Written("own")]
    /\ UNCHANGED <<progress, migrated, source, faults>>

\* store.Open creates the database.
OpenStore ==
    /\ root' = [root EXCEPT !.database = IF @ = "none" THEN "own" ELSE @]
    /\ UNCHANGED <<progress, migrated, source, faults>>

\* A missing identity is generated, one with another device name is written
\* again, an invalid one is an error.
ReadIdentity ==
    /\ step = "ensure"
    /\ root.identity # "broken"
    /\ source' = root.identity
    /\ \/ root.identity # "none" /\ Then("save") /\ UNCHANGED root
       \/ Then("ensureWrite") /\ root' = [root EXCEPT !.identity = "broken"]
    /\ UNCHANGED <<progress, migrated, faults>>

WriteIdentity ==
    /\ step = "ensureWrite" /\ Then("save")
    /\ \E i \in Fresh \ {used} : root' = [root EXCEPT !.identity = Written(i)]
    /\ UNCHANGED <<progress, migrated, source, faults>>

---------------------------------------------------------------------------
\* The file whose writing would be cut off now.
HalfWritten ==
    CASE step = "marking" -> {"progress"}
      [] step = "settingsWrite" -> {"config"}
      [] step = "ensureWrite" -> {"identity"}
      [] OTHER -> {}

\* The agent stops at once, or writing the marker or the settings fails.  An
\* empty config.json is a valid one.
Crash ==
    /\ step # "off" /\ Fault /\ step' = "off"
    /\ torn' = torn \cup HalfWritten
    /\ \/ UNCHANGED root
       \/ step = "settingsWrite" /\ root' = [root EXCEPT !.config = "own"]
    /\ UNCHANGED <<legacy, progress, migrated, source, used>>

\* An earlier version of the program creates its data.
LegacyAppears(d) ==
    /\ \A p \in Pieces : legacy[d][p] = "none"
    /\ legacy' = [legacy EXCEPT ![d] = [p \in Pieces |-> "valid"]]
    /\ UNCHANGED <<root, progress, migrated, source, step, used, torn, faults>>

MigrationStep ==
    \/ Launch \/ CheckMigration \/ BeginMarker \/ EndMarker
    \/ \E p \in Pieces : CopyPiece(p)
    \/ WriteMigrated \/ RemoveProgress \/ LoadSettings \/ WriteSettings
    \/ OperationFails

---------------------------------------------------------------------------
(* Properties.                                                             *)

\* A file of .shareme is unreadable only if its own in-place write was cut
\* off: a migration that breaks off at any point leaves no half copied file.
OnlyTornFilesAreBroken ==
    \A p \in Pieces : root[p] = "broken" => p \in torn \/ step \in {"settingsWrite", "ensureWrite"}

\* The agent never comes as far as its identity with half of a legacy
\* directory: everything valid in it was taken, and nothing from another one,
\* however often the migration broke off.  Only if the marker itself was torn
\* may the resumed migration choose another directory.
LegacyComesWhole ==
    step \in {"ensure", "running"} /\ "progress" \notin torn =>
        LET from == {root[p] : p \in Pieces} \cap Dirs
        IN from = {} \/ \E d \in Dirs : /\ from = {d} /\ migrated = d
                                        /\ \A p \in Pieces : legacy[d][p] = "valid" => root[p] = d \/ p \in torn

\* Once the agent has stored an identity it runs under no other, although
\* the file is rewritten in place and legacy directories may turn up later:
\* peers have pinned its certificate.
IdentityIsKept == [][used # "none" => used' = used]_used
=============================================================================
