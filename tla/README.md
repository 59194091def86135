# A formal model of shareme

shareme is a peer-to-peer application for a local network. Every device runs an agent (Go, `src/backend`); its user works with a page (React, `src/frontend`) in a browser or in a desktop shell. Agents find each other by UDP broadcast, talk HTTPS with mutual TLS, pair by a confirmation of both users, exchange text messages, and send files in parallel parts or over framed TCP lanes.

This directory holds TLA+ modules that model the agent's concurrent and distributed behaviour, TLC configurations that check them on small instances, and proofs, checked by TLAPS, that hold for all instances. Paths below are relative to `src/backend/internal` unless they begin with `src/`.

## 1. Inventory

| Component | State | Operations | Works with | What is hard |
|---|---|---|---|---|
| Session transfer, receiver (`app/service.go`, `transfer/session_receiver.go`, `transfer/file_writer.go`) | map of incoming sessions, each with a lock, a part counter, an idle timer and a `SessionReceiver` (its own lock, completed and in-flight parts, staged file); the transfer's row; an in-memory override of it | start, part, complete, idle expiry | peer's sender, store, event bus | one goroutine per request, two locks, writes outside both; retried parts; timer against requests; failing store; crash |
| Session transfer, sender (`transfer/session_sender.go`) | workers, retries, a cancellable context, a parallel gate | `Send` | peer's receiver | lost requests and answers, retries, cancellation, waking blocked workers |
| Accelerated transfer (`app/accelerated_transfer_service.go`, `transfer/accelerated_*.go`) | prepared sessions, lanes, acknowledged chunks, a timer armed once | prepare, lanes, complete, fall back | listener, store, single-request transfer, leases | lanes against timer and completion; falling back when the receiver may have acted |
| Single-request file transfer (`app/service.go`, `transfer/service.go`) | staged file, row | send, accept | store, events | lost answer, free file name |
| Pairing and trust (`app/service.go`, `session/service.go`) | pairing sessions in memory, trusted peers in the store | start, confirm, and the two handlers for the peer's calls | peer, store, registry | two users and two calls that cross; confirmation before the call, trust after it |
| Reachability (`discovery/service.go`, `app/service.go`) | per peer: last seen, last direct activity, suppression flag; heartbeat failure counters | announcement, direct activity, failed call, heartbeat sweep | every client call | check and act in separate lock regions, time limits |
| Event stream (`api/event_bus.go`, `localui/server.go`, `src/frontend/src/AppShell.tsx`) | bus log and subscribers; the page's snapshot and cursor | publish, subscribe, bootstrap, reconnect, commands | everything that changes state | numbers drawn outside the lock, channels that overflow, snapshots read while events go on, restart |
| Messages and history (`app/service.go`, `app/message_history.go`, `store/sqlite.go`, `src/frontend/src/AppShell.tsx`) | message rows; the page's newest messages, older pages and cursor | send, accept, list a page, load older, refresh | store, page, events | any order of times, late arrivals, refreshes between pages |
| Runtime host (`runtime/host.go`, `src/backend/cmd/shareme-agent/main.go`, `src/backend/app.go`) | servers, runner, store handle, context | start, close | everything | start and close in separate lock regions; a start that fails half way |
| Configuration, migration, identity (`config/*.go`, `device/identity.go`) | the files of `.shareme`, two marker files, legacy directories | copy a legacy directory, load or write settings and identity | host, store | crash between any two file operations, files rewritten in place |
| Local file leases (`localfile/manager.go`) | map of leases with expiry | register, resolve | outgoing transfers | the file changes after the lease was checked |
| Telemetry and parallelism (`transfer/telemetry.go`, `transfer/adaptive_parallelism.go`) | samples, recommended parallelism | observe, snapshot | transfers | arithmetic at the edges |
| Desktop bridge, certificates, diagnostics, rendering | - | - | - | sequential code or library code |

What makes each modelled component correct is stated with its properties in section 3. The hazards, each with its line in the source and the properties that watch it, are in `PROJECT.json`.

## 2. Modules and plan

| Module | What it is |
|---|---|
| `IncomingSession` | the receiving side of a session transfer |
| `IncomingSessionProofs` | its inductive invariant, eight theorems that follow from it, and one about the scan over the parts |
| `MCIncomingSession` | instances: part headers, symmetry |
| `FileDelivery` | abstract: what a file transfer promises both users |
| `SessionTransfer` | extends `IncomingSession` with the sender and the network; implements `FileDelivery` |
| `SessionTransferProofs` | the composition refines `IncomingSession` and `FileDelivery`, and four properties of it |
| `MCSessionTransfer` | instances, and the scan of the code compared with `Tiles` on all small sets of parts |
| `Pairing`, `MCPairing` | two agents, two users, trust |
| `PairingProofs` | its inductive invariant and three theorems |
| `EventStream`, `MCEventStream` | bus, snapshot, stream and page |
| `EventStreamProofs` | its inductive invariant and two theorems |
| `Reachability`, `MCReachability` | registry, announcements, heartbeat, calls and requests |
| `ReachabilityProofs` | its inductive invariant and four theorems |
| `AcceleratedReception` | the receiving side of an accelerated transfer, and the ordinary upload that takes it over |
| `AcceleratedTransfer`, `MCAcceleratedTransfer` | extends `AcceleratedReception` with the sender, the network and the file's owner; implements `FileDelivery` |
| `AcceleratedTransferProofs` | the receiver's inductive invariant and four theorems; the composition refines `AcceleratedReception` and `FileDelivery`, and three properties of it |
| `DataMigration` | the data directory at a start: migration, settings, identity |
| `AgentStartup`, `MCAgentStartup` | extends `DataMigration` with the host's start and close, in both programs |
| `AgentStartupProofs` | its inductive invariant and five theorems |
| `MessageHistory`, `MCMessageHistory` | text messages, the newest page in snapshots, older pages, events |
| `MessageHistoryProofs` | its inductive invariant and two theorems |

What could still be added: several transfers at once that commit one file name; a second `Close` of a host whose `Start` was overtaken by the first.

## 3. What is modelled and how

### IncomingSession

One incoming session and all goroutines that touch it. `PartCalls`, `CompleteCalls` and `Expiries` are the goroutines; `pc` holds where each is. A step is one lock region of the code, or the piece of work between two of them: `LookupPart` (session map), `EnterPart` (session lock: closed? count the part, rearm the timer), `ValidWindow` and `BeginWrite` (receiver lock: duplicate, in flight), `WriteBody`/`BreakBody` (no lock), `EndWrite` (receiver lock), `ExitPart` or `ExitPartOnError` (session lock: counter, timer, finalization), `PublishProgress` (after the lock). Completion is `LookupComplete`, `ReceiverComplete`, `CommitFile` or `FailCommit`, `MarkDone`, `PersistOutcome`, `Unregister`. Expiry is `FireTimer`, `CheckExpiry` and then the same finalization. `Restart` forgets everything except the store's row and the disk.

`RemoveStaged` is `os.Remove` of the `.part` file, in `Cleanup` and, where the file was published by a hard link, in `CommitFile`. The code ignores its error, so it may leave the name in place: as one of the bounded failures, and without counting as one while the descriptor is open, since an open file cannot be removed on every system. `Faults` names the failures of a run: a refused store write ("store"), a failed removal ("remove"), a restart ("crash").

Data: a file is a set of unit cells (`Offsets`); a part request is a window of it; a disk write adds its cells. The hash of the file is left out, because the fast path sends none. The row `db` and the `override` are the transfer's state in the database and in memory; `Outcome` is what a user sees.

Properties: only a complete file is published (`PublishedFileComplete`); one goroutine finalizes (`SingleFinalizer`); a part is written by one request at a time (`PartWrittenOnce`); outcome and file agree (`OutcomeMatchesFile`); a closed session whose finalizer is done has left the map, keeps its descriptor open only if `Complete` was refused for a gap, and its `.part` file only under that descriptor or because its removal failed (`ClosedSessionIsReleased`): at `session_receiver.go:166` `Complete` returns without closing the file it has taken, and `Cleanup` then finds none; a listed one has its finalizer, or an armed timer and a right count of the parts for whose sake it is rearmed (`ListedSessionWillEnd`); an outcome is final (`OutcomeIsFinal`); sessions end and outcomes are reached (`SessionIsReleased`, `OutcomeIsReached`).

### SessionTransfer and FileDelivery

`Send` with its workers: the loop takes the lock of `parallelGate` and either leaves (`LeaveLoop`), waits for the condition (`WaitForSlot`), fails to read the next chunk (`ReadFails`) or starts a worker (`LaunchPart`); `SendAttempt`/`UploadReturns` are `uploadPartWithRetry`; `Release`, `SetLimit` and `WakeCancelled` are the three places that broadcast: a worker that gives its slot back, the ticker with a new limit, and the goroutine of `Acquire` that watches the context. `FinishParts` is the `Wait` after the loop, `CompleteReturns` the complete call. The limit may become any number from `Floor` to `Parallelism` at any time; which one `AdaptiveParallelism` chooses is left out. `WaiterIsWoken`: while `Send` waits, every slot is taken by a worker that has yet to give it back, so no wake-up is missed between the test and the wait; `SendReturns` is the liveness that rests on it. The network is the gap between a client's step and the server's `Deliver...` step: a request may arrive at any later time or never, and a client may see its call fail at any time. Mutual TLS neither duplicates nor corrupts.

`FileDelivery` is the promise without threads: the file appears once, the receiver's outcome follows it, and a sender says done only if the receiver has. The refinement maps `delivered` to `published`, the receiver's outcome to `Outcome`, and the sender's to `outcome`. The promise holds under restarts and under failing store writes, but not if both happen in one behaviour: the override that stands in for an unwritten row is memory. `MaxFaults` bounds the two together. What holds whatever fails, and however often, is `DoneIsDelivered`: a sender that shows "done" has delivered the file, and the peer's user is never told that it failed.

### Pairing

`StartPairing`, `AcceptIncomingPairing`, `StartReturns`; `ConfirmPairing` (marks the local flag), `ServeConfirm` and `ServerUpsert` (`AcceptPairingConfirm`), `ConfirmReturns` and `ClientUpsert`. Calls are identities, so a user may confirm twice while the first call is under way. A peer with other fingerprints is refused without a change of state and is left out. Failures: a call that its client sees fail, `UpsertTrustedPeer` failing, an agent restarting (pairings are memory, trust is not).

`OwnUserConfirmed`: no trust without the own user's confirmation, under all failures. `ConfirmedIsTrusted` and `TrustIsMutual` are about behaviours in which no call, store or agent has failed (`NothingFailed`): after a lost call a pairing may count as confirmed while the peer is not trusted, because `ConfirmPairing` marks the confirmation before the call and stores the trust after it. `SettledTrustIsMutual` says of them that whenever no call is under way, what both users confirmed both agents trust; `TrustIsMutual` that this comes about. The first can be stated although `ServeConfirm` refuses a confirmation that overtakes the answer to the pairing request: the one who is refused hears the other's confirmation later, from a side that knows the pairing. `BothUsersConfirmed`, which the design document states, does not hold (section 4).

### EventStream

A publisher commits a record, then `Publish` in three steps: `TakeSeq` (outside the lock), `Append2Log` (under it), `SendLive` (after it, dropping when the channel is full). `Subscribe` takes the backlog and the channel in one lock region; `Deliver` hands the next event to the page, whose cursor drops those it has passed. `StartLoad`, `ReadItem` (one record after the other), `ReadSeq`, `ApplySnapshot` are the bootstrap request and `reconcileBootstrapSnapshot`. A command's response writes its item to the page directly (`CommandReturns`).

`EveryEventAccounted`: no event falls between backlog and stream; it is on its way, applied, or lost for one of the known reasons: an overflowing channel, an overtaken number. `PageIsNotAhead`: until the agent restarts, neither the page's snapshot nor its cursor is ahead of the bus, so the next snapshot and the next event are taken. `ViewCatchesUp`: when commits stop, the periodic snapshot brings the page to the store's state, unless the agent restarted.

### Reachability

One agent's view of its peers. A step is one lock region of the registry or of the failure counters. `home` is where a peer really listens; it may come, go and move at any time. `OnAnnouncement` is `Registry.Upsert`; `StartSweep`, `SendHeartbeat`, `ProbeFails`, `Suppress`, `ProbeAnswered`, `MarkProbed`, `EndSweep` are `runHeartbeatSweep`; `Call`, `CallFails`, `CallSucceeds`, `ResetFailures`, `MarkCalled` a user's call and `updatePeerReachability`; `Contact` and `MarkContact` a peer's request and `markPeerDirectActive`. A time stamp is kept as the one bit it is compared for, which may turn to "too old" at any time; the failure counter saturates one above the threshold, since it is only compared with it. All user calls (pairing, message, file) treat the registry alike and are one action. Records are never deleted, and a restart is an initial state with the trusted peers of the store.

`SuppressedIsUnreachable`: announcements do not revive a peer that does not answer. `SuppressedIsEarned` and `FailingPeerIsSuppressed`: counter and flag, under two locks and changed by three kinds of goroutines, stay in step, up to activity newer than the failures. `TrustedPeerRecovers`: a trusted peer that is there is found again without the user's help. An untrusted peer that was suppressed by a failed call stays so until a call or a request of its own succeeds: it is never probed.

### AcceleratedReception and AcceleratedTransfer

The receiver has four threads: the handlers of prepare, complete and the ordinary upload, and the timer's goroutine; and one lane per chunk, since `sendChunk` opens a connection for each. A step is what runs under one lock, or one call to store or disk: `SavePrepared`, `ListSession`, `RegisterSession` are `PrepareAcceleratedTransfer`; `AuthorizeLane`, `BeginFrame`, `EndFrame`, `AcknowledgeFrame` a lane; `LookupSession`, `BeginFinalization`, `ReceiverComplete`, `CommitFile` the complete request; `BeginCleanup`, `EndCleanup` the `Cleanup` of whoever gives the session up, with `RemoveStaged`, the removal whose error is ignored (`disk.left`: a staged file stayed because of it); `Settle` the outcome in the store or the override; `TakeSession`, `InsertTransfer`, `CopyBody` are `AcceptIncomingFileTransfer` for the same transfer. `Elapse` and `FireTimer` are the timer, which is armed once. `Restart` may happen anywhere.

The sender is `SendAcceleratedFile` with the batches of `AcceleratedSender.Send`: `StartBatch` (any level the striping controller may choose), one lane per chunk, `StreamFails` with `shouldFallbackAcceleratedSend`, `FinishStream` (hash), `CompleteReturns`, `Fallback`. Every request may arrive late or never; every call may fail at any time. The owner of the file may edit it in place (`EditSource`: every chunk read from then on has another content, and so has the hash) or remove it (`RemoveSource`).

A fall back may take a session that somebody else has begun to end (`contested`): then both write the outcome. The properties about outcomes except what follows.

Properties: a lane that is writing has its file (`LaneWritesStagedFile`); the published file is one state of the source (`PublishedIsOneVersion`); outcome and file agree (`OutcomeMatchesFile`); the file comes once (`DeliveredOnce`); the sender's own orders never make the receiver refuse (`OwnCompleteIsAccepted`); a "done" that the sender shows is true (`DoneIsDelivered`); `FileDelivery` is implemented (`DeliversOnePromise`); everything ends (`EverythingEnds`), up to a staged file that could not be removed. `LostSourceEndsTransfer`, which the repository's specification states of a local file that became invalid, does not hold: when the fall back cannot open the file it returns without touching the record (section 4).

### DataMigration and AgentStartup

One start of the agent after the other over the files of `.shareme`, two legacy directories with any contents, and the two marker files. A file is known by where its content comes from, or as broken. `os.WriteFile` is two steps, a truncated file between them; a copy goes to a temporary file and its rename is one step. `CheckMigration`, `BeginMarker`, `EndMarker`, `CopyPiece`, `WriteMigrated`, `RemoveProgress` are `MigrateLegacyData`; `LoadSettings`, `WriteSettings` the settings; `ReadIdentity`, `WriteIdentity` are `EnsureLocalDevice`. `Crash` stops the agent at any step, `OperationFails` makes a file operation fail, `LegacyAppears` is an earlier version of the program run in between.

`AgentStartup` adds `Host.Start` (first lock region, database, identity, ports, second lock region), the local web UI, and `Host.Close`; in the desktop application it may run while `Start` is still under way. `CleanupOf` is the list of what each error branch closes, in its order, and `Handles` what `Close` takes, in its order; `CloseNext` closes the next of either, one at a time, while the other call goes on. `DeferredClose` follows the error branch; it finds no handles and cancels the context.

`OnlyTornFilesAreBroken`: the only unreadable files are those whose own in-place write was cut off. `LegacyComesWhole`: whatever breaks off the migration, the agent runs with all the valid pieces of one legacy directory or with none. `IdentityIsKept`: the agent never runs under another identity than before. `NothingLeftOpen`: a start that failed has closed all that its steps opened, also when `Close` ran inside it; a `Close` that returns after `Start` leaves nothing open but what the cancelled context ends; and what `Start` opens although `Close` ran between its lock regions (`raced`) is still in the handles for another `Close`, or ends with the context. `StoreOutlivesServers`: no listener is open without the store it uses, in any branch and any overlap.

### MessageHistory

Two agents, their stores, and the page of one of them. A message is its place in the order of the store, (`created_at`, `message_id`): the sender's clock sets it, so a new message may take any place. `SendTextMessage`, `SaveIncoming`, `PublishIncoming`, `SaveSent`, `SendFails`, `PublishSent`, `CommandReturns` are a message's way; `ListMessagesPage` the query; `Bootstrap` and `ReadEventSeq` the two reads of the bootstrap handler, between which messages may be saved and published, `ApplySnapshot`, `ApplyEvent` the page's newest messages; `LoadOlder`, `ListMessageHistory`, `ApplyPage`, `PageFails` are `handleLoadOlderMessages`. The event stream is taken as reliable here; what it may lose is the subject of `EventStream`.

`SentIsDelivered`: what the sender has in its history its peer has too. `EveryMessageAccounted`: a stored message is shown, or announced by an event to come, or behind the cursor, with two exceptions that the code has. A message that was saved and published between the two reads is not in the snapshot although its number covers the event: it is missing until the next snapshot (`missed`). And what a refresh leaves out after older pages were loaded, be it shown or missed before, no later page brings back (`dropped`). `HistoryIsReached`: a user who keeps scrolling sees everything but what was dropped: in particular what one snapshot missed the next one brings. `LoadedHistoryStays`, which the repository's specification states, does not hold (section 4).

## 4. Runs

| Run | Bounds | Shows |
|---|---|---|
| `incoming` | 3 part requests, each with a good, a contradicting or an impossible window, repeats being retries; 1 complete, 1 timer, 1 fault (failing write, failing removal or restart) | all safety properties of the receiver, and that nothing keeps a session listed |
| `transfer` | 2 parts, one of them tried twice, a gate of 1 slot, 1 fault (failing write or restart) | an honest complete request finds every part; sender and receiver keep the promise, and a success that is shown is true; the waiting loop is woken, `Send` returns, the session ends, an outcome is reached |
| `pairing` | 2 agents, 1 pairing, 3 confirm calls, 3 faults | trust needs the own user; without a fault it is mutual when no call is under way, and becomes so |
| `pairing_one_sided` (violation) | no failure | the initiator trusts before the peer's user confirms |
| `events` | 2 publishers, 1 record with 2 versions, a channel of 1, one break, one restart | no event unaccounted for; the page catches up |
| `events_restart` (violation) | 1 restart | an open page ignores the restarted agent |
| `reachability` | 1 peer with 2 addresses, 1 call, 1 request at a time, threshold 2 | suppression is earned, followed and lifted |
| `accelerated` | 2 chunks, batches of 1 or 2, 1 edit and 1 removal of the source, 1 fault | one whole file, once; outcomes agree; everything ends |
| `accelerated_removed` (violation) | 1 chunk, no fault, the source removed | the transfer stays in sending when the fall back cannot open the file |
| `startup` | 2 legacy directories with any contents, 2 identities, 2 faults or crashes | migration whole or not at all, identity kept, nothing left open, the store closed last |
| `messages` | 2 earlier messages on pages of 1, 2 new ones in either of 2 arrangements of places, 1 failing request | every message can be found, up to the two gaps |
| `messages_gap` (violation) | 3 earlier messages on pages of 1, 1 new one | a refresh drops a shown message |

The bounds are the smallest at which each race can happen: two parts so that one can fail while the other is written; a third request so that one of them is retried; one fault, because a second one of the same kind only repeats the first from a state already covered (in `pairing` three, one of each kind); a channel of one event so that it overflows with two publishers; two addresses so that a sweep's address can be out of date; one peer, because peers meet only in the order in which a sweep probes them; threshold 2 (3 in the code) so that there is a count below it. In `accelerated`, two chunks, so that one lane can fail after another was acknowledged and the two can hold different versions of the source. In `startup`, two faults, so that a resumed migration breaks off again, and two directories, so that there is a wrong one to resume from. In `transfer`, one slot for two parts, so that the loop waits for the first worker and a failure, a retry, a cancellation or a tick meets it there; with `Floor = Parallelism` the limit itself does not move in the run, and what the waiter owes to a moving limit is proved for every `Floor` and `Parallelism` (`GateWakes`). In `messages`, two messages on pages of one so that there is an older page, and two new ones so that the cursor's page can move twice and one can fall between the two reads while the other follows; the arrangements put them after the earlier ones, and one before each. Deadlock is not checked where the system stops when every request is answered; `reachability` never stops, and is checked. Requests are interchangeable in `incoming`, which uses symmetry. The view of `incoming` hides what no action and no property of the run reads: what was answered or shown, a part count that has been judged.

What the violations show is in `PROJECT.json` under `findings`, each with the sentence of the documentation or test it disagrees with.

## 5. Other differences from the documents

Met while modelling; the models have this behaviour, and no run is spent on it.

- `app/service.go:1205` fails the whole incoming session when one part breaks, so the retries the sender has left are refused; `src/docs/superpowers/specs/2026-04-13-lan-bandwidth-maximization-design.md:401-402` has a failed part retried by itself.
- `app/service.go:1232` publishes a part's progress after it has released the lock, so it may be the last event, after the terminal one; `src/docs/superpowers/specs/2026-04-13-heartbeat-and-transfer-throughput-design.md:210` has the final state always published at the end.
- `api/event_bus.go:30` draws a number before it takes the lock, so two publishers may deliver out of order and the page's cursor skips the lower number.
- `localui/server.go:164` reads the state before its event number, so a snapshot may take an update back, or miss a message, until the next one; the test `src/frontend/src/App.refresh.test.tsx:72` is about the opposite.
- `runtime/host.go:199` stores the handles of a start that `Close` has overtaken; the desktop application makes no second `Close`, so they stay open until the process exits.

## 6. Fairness

Goroutines that can take a step take one in the end (weak fairness per goroutine and handler), because the Go scheduler runs every runnable goroutine and no modelled lock is held across a wait. Request bodies end or break: the server has no read timeout, so this is an assumption on the network and on the peer, and `SessionIsReleased` fails without it. Client calls return. Timers fire. Users, commits, failures and restarts are never forced. In `Reachability` some announcement of a peer that stays is heard, what is known of a peer gets too old in the end, and a peer that is probed again and again where it is answers some probe: this last one is strong fairness of `ProbeAnswered`, since any single probe may be lost. The user's calls and the peer's requests are not fair: recovery does not depend on them. In `AcceleratedTransfer` both agents keep running, the session's time passes and its timer fires; no request has to arrive, and the file's owner does nothing. In `MessageHistory` the handlers end, the page reloads on its timer and reads its stream, and, for `HistoryIsReached`, the user scrolls up as long as there is more. `AgentStartup` has no liveness property. Elsewhere weak fairness is enough: no step is disabled for ever again and again by others except by ending the work it was to do.

## 7. Proofs

`IncomingSessionProofs` proves, for any finite or infinite sets of requests, any file size, any windows and any number of failures and restarts, that `IInv` is inductive. The invariant is needed because the safety properties alone are not: `SingleFinalizer` follows from "a finalizer has closed the session" (`FinalizerOwnsClose`); `PartWrittenOnce` from "a writer has marked its part in flight" (`WritersAreMarked`); `PublishedFileComplete` from "completed parts are in the file" (`CompletedIsWritten`) and the tiling test of `Complete`; `OutcomeMatchesFile` from what each step of a finalizer knows about the file (`OutcomeFollowsFile`). `ThreadKinds` and `NothingBeforeStart` exclude program counters that a handler never reaches. The lemma for a step has one case per action, and the actions share the lemmas that describe what opening, closing and writing leave alone. `OutcomeIsFinal` is an action property proved from the same invariant. `ListedSessionWillEnd` is the safety core of `SessionIsReleased`, on two inductive facts of its own: the timer is stopped only by the goroutine it starts, by whoever closes the session and by whoever takes it out of the map (`TimerGuards`), and the counter is the number of handlers between `EnterPart` and `ExitPart` (`CountIsRight`); `CheckExpiry` rearms while the counter is positive, so a count left too high would rearm for ever. `ClosedSessionIsReleased` speaks of the time after the last finalizer, so it needs what each finalizer has already put away: `ReleaseInOrder` lists it by program counter, and `ReleaseStep` shows that a step of another thread does not undo it before a crash. A descriptor that is open there was left by a refused gap, and then the completed parts do not tile the file, which no later step changes.

`ScanAcceptsTilings` is about the loop of `SessionReceiver.Complete`: for any number and size of parts, the scan over the parts in the order of their offsets ends at the size of the file exactly when the parts tile it (`Tiles`). It needs induction over the sequence, which is done by least counterexample: `LeastOf` takes the first index at which a statement fails, from the well-foundedness of `<` on the naturals. `MCSessionTransfer` has TLC compare the two on all small sets, with the sort of the code.

`SessionTransferProofs` carries this over to the composition. Each step of `SessionTransfer` is a step of `IncomingSession` or leaves its variables alone (`ImplementsIncoming`), so the invariant holds there too. `HonestCompleteAccepted` is the hard one, because a part may be attempted several times and an attempt the sender has given up may be served later: an answer is the last thing a handler does (`AnswersAreLast`), an attempt carries the window of its chunk and is acknowledged only when that part is complete (`PartsAreChunks`), and the complete call starts only when each chunk is acknowledged (`SenderInOrder`). So, when the complete request is served, the completed parts are exactly the windows of the file (`AllPartsHeld`); the windows tile the file, no part is in flight, and a bijection counts them (`WindowsCounted`). `DescriptorIsReleased`, that an honest sender never leaves the descriptor open, needs besides that the file is held as long as the session is open (`FileIsHeld`). `WaiterIsWoken` is inductive with the count of the gate's slots (`GateCounts`) and with what a worker holds (`WorkerHolds`): whoever has a slot has not returned, and each change of slots or limit moves a waiting loop back to its test. `PromiseKept` maps the whole to `FileDelivery` step by step; it assumes `MaxFaults <= 1`, as the run does: with two faults a crash loses an outcome that the database had refused. `SenderTellsTruth` has no such bound: a good answer is given only after the file was moved (`AnsweredDelivered`), a moved file stays over any crash, and a published file is complete and never shown as failed by the receiver's own invariant.

`PairingProofs` proves `OwnUserConfirmed` for any agents, pairings and calls: a call carries a pairing of which its caller is a side and which the caller's user has confirmed (`CallsBelong`), a session's local flag implies the approval of its agent's user (`SessionsBelong`), and a pairing has two different sides that never change (`TwoSides`). `ConfirmedIsTrusted` is about runs in which nothing fails. There, nobody confirms a pairing that he does not know, and who has heard of the other's confirmation knows that the other has the pairing (`BothKnow`); and a side that counts a pairing as confirmed trusts the peer or is in a call that is about to store it (`ConfirmedIsSettled`). The two are inductive as long as nothing has failed (`Smooth`), and what has failed stays failed (`FailuresStay`). `SettledMutual` adds what each side has heard: a side records a pairing once, before anybody can mark it, so no later answer wipes out a mark (`CreatedOnce`, `MarksStay`); who approved has marked the session and made a call; who was asked, or was answered, has marked the other's confirmation; and two calls from opposite sides are not both refused, since a side refuses only while it does not know the pairing and a caller does (`ConfirmationsHeard`). So of two finished calls one was served, its two ends count the pairing as confirmed, and `ConfirmedIsSettled` makes both trust.

`EventStreamProofs` proves both invariants of `EventStream`, for any publishers, records, channel capacity, breaks and restarts. Behind them is where a number is between `TakeSeq` and the page: a number that is taken is in the log or its publisher is about to append it (`NumberedIsHeld`), so a subscription, which takes log and channel under one lock, finds it in the backlog or its publisher finds the new channel; and nothing carries a number that is not taken (`NothingAhead`). What the loop of `Subscribe` over the log selects is again shown by least counterexample (`LaterSelects`).

`ReachabilityProofs` proves three safety properties of `Reachability` and its types, for any peers, addresses, goroutines and threshold. They are inductive only together with `CountIsBacked` (the counter never exceeds the row of failed probes; the heartbeat suppresses only at the end of a row, and has reset the counter before it records an answer), `SuppressedIsNotDirect` (suppression erases the last direct activity) and `SuppressorsKnowThePeer` (`MarkReachable` never misses the record). The step is split in `TypeStep` and `RestStep`, with one case per action.

`AcceleratedTransferProofs` begins with four properties of `AcceleratedReception`, its types among them, for any number of chunks, any contents, faults and orders of arrival. `LaneWritesStagedFile` is inductive with `WritersAreCounted` (a writing lane is in the receiver's count, and the receiver is open) and `StagedFileIsHeld` (who drains the lanes and who publishes exclude each other). `OutcomeMatchesFile` needs `OneOwner`: one thread at a time is on its way to an outcome (`OwnerIsAlone`), it has made every later claim impossible (`OwnedIsClaimed`), no outcome is stored before it decides (`OwnedIsOpen`), and the file is delivered by its decision only (`UndecidedIsUndelivered`). `NothingBeforeSession` describes the time before the session is listed, when a claim could still be undone by listing it.

It goes on to show that every step of the whole transfer is a step of that receiver or leaves it alone (`ImplementsReception`), so the properties carry over; that the sender asks for completion or for the ordinary upload but never for both, hence `DeliveredOnce`; and, step by step, that the whole implements `FileDelivery` (`PromiseKept`). The last one assumes at most one fault, as the run does: with two, a crash loses an outcome that the store had refused. `SenderTellsTruth` holds for any number of faults, by the same argument as above. `CompleteAccepted` follows the run in which nothing has failed, the source is what it was and the session has time (`Undisturbed`): the receiver keeps every chunk it has acknowledged (`FramesAreKept`), the session stays open for the complete request because no timer fires (`SessionIsServed`), and the sender completes only when all lanes were acknowledged (`LanesInOrder`); so at the complete request the chunks are all there, and the hash is that of the content read.

`MessageHistoryProofs` proves both invariants of `MessageHistory` for any page size and any places the messages take. `SentIsDelivered` follows from where a message is on its way (`InFlight`): an answer exists only after the receiver has saved it. `EveryMessageAccounted` is inductive together with the same statement about what is still on its way: a snapshot half read covers the store as it was read, and later messages are announced or counted as missed when the number is read (`ReadingAccounts`); a snapshot covers the store as it is now, but for the events after its number and what it missed (`RefreshAccounts`); and an older page covers all that lies before the cursor it was asked for (`ReplyAccounts`), although messages were saved, and events applied, since they were read. `HistoryKnowsItsPlace` says that the cursor of an open history is there as long as there is more, so a refresh, which moves the snapshot's cursor, does not move it; `EventsInOrder` that a snapshot that replaces the page's is not older than the events applied. The lemma `PageCovers` is about the query itself: whatever a page leaves out lies before its cursor, because the oldest message of the page is newer than every message it left out.

`AgentStartupProofs` proves all five properties of a start, for any number of legacy directories and identities and any number of faults and crashes. `LegacyComesWhole` follows from `MigrationStands`: as long as the marker file was not torn, the two markers tell which of four phases the data directory is in, and the phase what each file may hold; a migration under way has copied from the directory the marker names only, and the pieces before the present step are there. `IdentityIsKept` follows from `IdentityStands`: once an identity is stored the database is usable, so no later migration begins, and the identity's file holds it, or is being written with it, or is broken, in which case the agent does not come as far as storing another. `NothingLeftOpen` and `StoreOutlivesServers` follow from `HostInv`: each step of `Start` knows what may be open (`StartOpens`), so whatever list its error branch has, it names all of that; a queue of things to close is one of seven, its members are all that is open, and the store is the last of each (`QueueStep`); and what `Close` takes belongs to a `Start` that returned (`CloseFollowsStart`). That there is a directory to choose (`ChosenIsMigratable`) uses that ranks are natural numbers.

Assumptions are those in the modules' `ASSUME`s: numbers are naturals, marker strings are not agents. TLC evaluates them in every run.

Model-checked only is all liveness, which is out of the prover's reach: `SendReturns`, `SessionIsReleased`, `OutcomeIsReached`, `TrustIsMutual`, `ViewCatchesUp`, `TrustedPeerRecovers`, `EverythingEnds` and `HistoryIsReached`. Every invariant and every action property of a passing run is a theorem (`PromiseKept`, of either transfer, for at most one fault). Proved and in no run are the type invariants, `PageIsNotAhead`, `DescriptorIsReleased`, `DoneIsDelivered` beyond one fault, and the gate with a moving limit.

## 8. Not modelled

Transfer telemetry (rates over floating-point time, shown and never decided on), the decision rule of the adaptive parallelism and of the striping controller (any level is allowed instead), certificates and TLS, the picker, diagnostics, static files and rendering. Of the local file leases only what a transfer meets afterwards is modelled; of `SendFile` not the single request it uses for small files, whose receiving side is that of the fall back.

Within the modelled components: the hash comparison of a session transfer's `Complete` (the fast path never sends one), throttling of progress events (when an event is published, not what it says), the choice of a free file name by transfers that meet, peer reachability updates that calls make on the side, contents of messages, several conversations, the journal that SQLite keeps beside a migrated database, the later saving of settings, and the desktop shell's event forwarding.
