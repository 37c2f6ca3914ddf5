# TLA+ models of Leaf Syncthing

Leaf Syncthing packages Syncthing for a handheld games console: a Go controller
(`leaf-syncthing`) runs a pinned upstream Syncthing binary, restricts it to
directories of enrolled memory cards, stops it around games, and is driven by a
C user interface over a local socket. What makes it hard is where its state is:
a document and a configuration directory on the primary filesystem, markers and
snapshots on cards that can be pulled, the configuration of a separate process
that is changed over REST, and copies of all of these in memory. The device is
switched off without notice, and every transaction crosses several of them.

## Components

| Part | State | Operations | Correct when | Module |
| --- | --- | --- | --- | --- |
| First-sync protection (`first_sync.go`, handlers of `run.go`) | completion marker and snapshots on the card, flag and epoch in the record | prepare a snapshot, complete, invalidate, recover, clean up | a receive-capable folder runs only behind a durable snapshot and an explicit start | `FirstSync` |
| Folder-control document (`folder_state.go`) | one record per folder (state, manual pause, first sync, pending stop, membership intent) and a pending peer removal | begin, complete, roll back, set flags; each a rewrite of the file | the file on disk is one the next start-up accepts, and matches upstream after recovery | `FirstSync`, `FolderTransactions` |
| Onboarding, membership, local stop, peer removal (`onboarding.go`, `membership.go`, `local_stop.go`, `ui.go`) | the document, the upstream configuration, the folder marker on the card | intent, REST call, verification, completion; recovery in `Bootstrap` | interrupted work is completed or undone; no two folders run on one directory | `FolderTransactions` |
| Upstream configuration and identity (`config_recovery.go`, `offline_pause.go`, `identity.go`) | `config.xml`, its temporary and backup, generation marker | generate, migrate, edit the pause set, recover | a known-good configuration survives every interruption | `UpstreamConfig`, `ConfigRegister` |
| Reset (`reset.go`, `ctl1.go`, `main.go`, `waitForResetRecovery`) | sealed plan, intent file, roots on several filesystems, controller lock | prepare, execute in a helper, recover in the service and in `doctor` | an announced deletion is completed exactly, before anything starts | `Reset` |
| Start-up and run loop (`bootstrap.go`, `run.go`) | session, status value, game state | `Bootstrap`, UI handlers, LIFE-1 events, ticks | recovery comes before the spawn; status updates are not lost | parts in the modules above |
| Upstream process (`process.go`, `proc_linux.go`) | direct child, process group, what an earlier controller left | detect a conflict, start, wait for readiness, clean shutdown, TERM, KILL | a stop reported as verified leaves no process; no second upstream is started | `UpstreamProcess` |
| LIFE-1 client and game check (`life1/`, `game_check.go`, the events of `run.go`) | subscription, queued events, launch id, one check goroutine per launch | handshake, next event, select, probe, answer, cancel | each launch is answered by one check, in time, and "stop" only when every peer has everything | `GameCheck` |
| Browser gateway (`gateway.go`) | listener, leases, offer, failure counters | open, keep alive, extend, close, pair, tick, revoke | one offer pairs one browser; nothing is served past its deadline | `Gateway` |
| Trusted browsers (`trust.go`) | records in memory and in a file | issue, authenticate, revoke, count, load | the file always loads; trust is neither lost nor resurrected | `GatewayStore` |
| Card registry and enrollment (`cards/`) | identity file on the card, registry with temporary and backup on the primary filesystem | inspect, enroll, reconcile, recover | one card has one identity for ever, and the registry remembers every card | `Cards` |
| Card relocation (`relocation.go`) | folder paths of the upstream configuration | pause, change path, resume at start-up | a folder follows its card and nothing else | not modelled (plan) |
| Network profile (`controller/network.go`, `syncthing/network.go`) | profile, networks, file; pause and boundary of each peer upstream | initialize, set, refresh when the routes change | LAN only keeps other addresses out, follows the routes, and restores the peers | `Network` |
| UI control server (`uicontrol/`) | one connection at a time | parse, dispatch | requests are handled one by one (assumed by the handler modules) | not modelled: parsing and I/O |
| Reports, settings, Leaf paths, C user interface, catui | none of their own, or presentation | | | not modelled |

Interactions. The supervisor (Jawaka) starts `leaf-syncthing service run`;
`Runner.Run` calls `Bootstrap`, which recovers a pending reset, the configuration
directory, pending onboardings and stops, first sync and then writes the pause
set and spawns upstream. After the spawn the memberships and a pending peer
removal are completed over REST. UI handlers then run one at a time in the
server's goroutine, concurrently with the run loop (LIFE-1 events, status
refresh, network refresh, gateway tick), and with a goroutine for each game check
and for each HTTP request of the gateway. A reset is executed by a helper process that takes the
controller lock while the service is down.

Hard behaviours: a kill or power loss between any two steps; writes that are in
the page cache only; REST requests lost before or after they took effect; document
writes that fail after the rename; a card pulled or inserted at any moment; a
status row that is older than the record; several processes on one state root.
`PROJECT.json` lists them as hazards at the line where each bites.

## Filesystems

The state of the primary filesystem (`$USERDATA_PATH`) and of the cards lies on FAT
filesystems (`docs/decision-record-b1.md:200-204`), which give no order to the changes
of different names. The modules therefore keep, for each name, what the processes see
and the set of what a power loss may leave: until the next `syncfs` of its filesystem a
name may have on the disk anything it has had since the last one, independently of the
others, and a power loss picks one for each. Only `syncfs` orders; a rename is two
changes, of the old name and of the new one, of which either may be lost. What is
assumed of such a filesystem: a name that is found on the disk stands for a content
that name has had since the last flush (a mount does not see two files in one place),
and contents that were flushed by `fsync` before a rename are whole. `FirstSync` has the
same for a card, entry by entry (`Writeback`). `GatewayStore` and the document of
`FolderTransactions` are single files that are replaced by a rename.

## Modules

### FirstSync

One folder. `pc` is the position in the handler or start-up in flight; handlers
are serial because the UI server handles one connection at a time. `mem`/`store`
are the record in memory and on disk, `up*` the upstream configuration,
`sessType` the controller's copy of the type, `row` the pause reasons of the
status row that the handlers consult, `fs*`/`dk*` the card through the page cache
and as a power loss would leave it.

| Actions | Code |
| --- | --- |
| `PrepareBegin` ... `PrepareVerify` | `prepareLocked`: copy, syncfs, header, syncfs, rename, syncfs, verification |
| `StartFirstSync`, `CompleteSync`, `CompleteMark`, `CompleteClear`, `StartUnpause` | `StartFirstSync` and `Complete`: syncfs of the snapshot, pending marker, complete marker, clearing of the flag, the REST unpause |
| `SetFolderType`, `InvalidateRemove/Sync/Require`, `TypePatch` | `SetFolderType` and `Invalidate`: marker removed before the epoch is advanced and the type is patched |
| `FolderPause`, `FolderResume`, `FolderMembership`, `PersistDocument`, `RefreshStatus` | the other handlers that write the record or the row |
| `CleanupBegin/Remove/Sync` | `CleanupStorage`; `removeDeclaredPath` removes in reverse lexical order, so the header goes before the content |
| `CreateFolder`, `FolderStop` | begin and end of a binding, as single steps (their own steps are in `FolderTransactions`) |
| `BootLoad`, `RecoverComplete/Require/Absent`, `ApplyPauseAndSpawn` | `Bootstrap`, `recover`, offline pause set and spawn |
| `HandlerFails`, `Kill`, `PowerLoss`, `CardRemoved`, `CardInserted`, `Writeback` | environment |

The card is taken to write back its dirty documents and directory entries one by
one in any order (vfat and exfat give no order); only `syncfs` orders them. A
failed document write keeps the change in memory, and may or may not have reached
the disk (`PersistFails`).

`FirstSyncHistory` adds two history variables, what the user started and which
snapshots are recent, for the sentences that speak about a folder's past; it adds no
behaviour.

### FolderTransactions

Folders with the directory (`Slot`) each binds, peers, the document (`mem`,
`disk`), the upstream configuration (`conf`, `peers`), `session.Folders` and the
status rows, the marker directories, the card, and a count of failures. Each
transaction is one action per step: `Create*` (record, POST, rollback or
activation), `Membership*` (intent, PATCH with read-back, completion, unpause),
`Stop*` (record, pause, DELETE, marker, forget), `DeviceRemoveBegin`,
`RemovePeer`, `RemoveComplete`, and `Boot*` for the recovery of each in
`Bootstrap`'s order. `Rest` gives every request its three outcomes: done, lost,
applied and not acknowledged. `PersistRolledBack` and `PersistKept` are the two
ways the document's methods treat a failed write.

### UpstreamConfig and ConfigRegister

`fs` is the state root as seen: the staged generation, the config directory,
`config.xml`, `.tmp`, `.bak`, the generation marker. `disk` has for each of these
names what a power loss may leave. A file is absent, torn, or a revision in a format.
Start-up is `RecoverConfig` (`RecoverDiscard`, `RecoverReady`, `RestoreDiscard`,
`RestoreRename`), `EnsureIdentity` (`Generate*` or `MigrateIdentity`, `MarkerReplace`,
`MarkerSync`), `ApplyOfflinePauseSet`, and `Spawn`; both edits go through `Promote*`
and, on a failed verification, `Undo*`. `Change` and `Swap` are the two ways a step
changes the tree: `Swap` is one that takes `config.xml` from its name or puts another
file there. The history `open` says that no `syncfs` has returned since, `lost` that the
power failed then and no start-up has recovered yet.

That distinction is forced by the code. `promoteConfig` removes the old backup, renames
`config.xml` to `.bak` and `.tmp` to `config.xml`, and flushes once, after all three
(`offline_pause.go:105-118`). A power loss before that flush may leave none of the names
a good file, since the disk may have both the removal of `config.xml` and the absence of
the backup. A kill in the same place is no danger by itself: `RecoverConfig` finds the
config or its backup. But a start-up that finds `config.xml` valid and nothing to
discard flushes nothing either (`RecoverReady`), so that `open` outlives the process that
was killed.

`ConfigRegister` is what the directory promises: one value, `cur`, and the set `durable`
of the values that a power loss may leave. It is edited between `Begin` and `Stop`,
committed in one step, and recovery never changes it. A power loss leaves a value
written since it was last persisted; an edit may suspend this (`Suspended`) until the
value is persisted, and nothing but that. The mapping is the configuration that
`RecoverConfig` would return from each tree (`Recovered`).

### Reset

Three processes (`service`, `helper`, `doctor`) with a program counter, the
document each works from and the roots it has not removed; the controller lock;
the sealed plan; `fs`, the intent and the contents of every root, and `disk`, what a
power loss may leave of each. A root holds the number of the reset period in which its
contents were made, so that a property can tell old contents from new ones; a directory
of which a part has been removed counts as there, and is removed again.
`runResetIntent` is `VerifyCards`, `WriteIntent`, `SyncIntent`, `RemoveRoot`,
`SyncRoots`, `VerifyAbsent`, `ClearIntent`, `SyncClear`; the service reaches it from
`Bootstrap` and from `WaitTick`, the helper from `ExecuteResetPlan`, `doctor` from
`DoctorStart`. `Sync` flushes the filesystems of the roots it is given, the one of the
intent among them when a root is on it. The history `unflushed` is set when the process
that has renamed an intent into place ends before its flush; nothing repeats that flush,
because `runResetIntent` takes an intent that it finds for durable (`reset.go:240-254`).
`MCReset` adds the symmetry of the cards.

### Gateway

One step is one critical section of the manager's mutex; the UI operation, the run
loop and each browser's request have a program counter between two of them.
`OpenCompare`, `OpenListen`, `OpenFinish` are the three sections of `Open`;
`TickRead`, `TickJudge`, `TickClose` those of `Tick`; `SubmitPairing`,
`AcceptPairing`, `IssueTrust` those of a pairing, whose trust is issued after the
unlock. Deadlines are what is left of them and the failures are a set of records that
carry their age (`failures` and their counts in the code), so that `Advance` is the
only step of the clock. TLS, pages and the proxy are left out.

### GatewayStore

The records with their ages, the file, and what a power loss would leave of it.
Each method is one step because it holds the store's mutex throughout. `Persist`
may fail and then leaves memory and file apart, as the code does. `Restart` loads,
`PowerLoss` may undo a rename, since the directory is not flushed. Two histories are
kept over restarts: how long ago each browser was last accepted (`used`), and how long
ago that was last made the record's time of use (`touched`). They differ by what
`LastUsedFlush` withholds; a record that is older than `touched` is one whose write
failed, an error that `Authenticate` ignores (`trust.go:113`), or was undone.

### UpstreamProcess

The tree of the upstream: the direct child, what it forks, and what an earlier
controller left. Every census of `/proc` (`groupAbsent`, `signalGroupMembers`,
`DetectForeignConflict`) is a list made at once and one `ReadStat` per process, with
forks and exits between. The ladder is `Shutdown`, `RetryRequest`, `GracefulExit`
or `GracefulOver`, `TermSent`, `KillSent` and, after each, `Verified`, `LookAgain`
or `WindowOver`. `ExitedUnexpectedly`, `LifecycleFails`, `ConflictEnds` and `Killed`
are the ways out of `Run`.

### GameCheck

`Jawaka` (external) launches, cancels and answers `game.state` over a connection
that may drop; `Connect` is the handshake with its queue of events; `HandleEvent` is
the run loop; `RunGameCheck(l)` is the goroutine of a launch, with the time it has
used up to its first reply. A probe's answer is any combination of folder and peer
states; `ReadGameCheckStatus` folds them as the code does, its counts as the numbers of
folders and peers (`LocalNeeds`, `PeerNeeds`). The two messages the run
loop can send (`StartCheck`'s rejection and the goroutine's answers) go through
`Heard`, which keeps what the launcher last heard about its current launch.

### Cards

The identity of each card and the three files of the registry, each as seen and as
the set of contents a power loss may leave. `InspectSources` reads the mount table once;
then the cards are inspected one after the other, `ReadIdentity` and, as a step of its
own, `Believe`, the `syncfs` after which the identity counts: a card may be pulled out
between the two, and another inserted. The `syncfs` of a card that is gone succeeds on
what is at its mount point, which the history `strayed` records. `Reconcile` is
`ReconcileRegistry` step by step, from the recovery of temporary and backup to the
validation, `Enroll` the enrollment of one card. Two actors, the UI handler and the run
loop on `game.check`, do all this beside each other, as in the code, which has no lock
here (`registry.go:183`). A reconciliation that begins beside another counts as one of
the `MaxFaults` and is remembered in `spoiled`, and so is a power loss between the
renames of `cards-v1.json` and their flush.

### Network

Three layers: the manager (`profile`, `allowed`, `observed`, the file), the
transition under way (`op`, one request per step: `List`, `Clear`, `Pause`,
`WaitDisconnected`, `Confine`, `PatchNetworkOptions`, `Restore`, `Persist`,
`Commit`) and the upstream (`configured`, `paused`, `policy`, connections). `Patch`
gives every request its outcomes: done, refused, applied and not acknowledged; once
the context is `expired` all that is asked fails. A failed transition restores the
peers it paused, then the UI's returns an error and the run loop's ends the service.
Peers are added (`AddPeerRead`, `AddPeerPost`) and removed beside it.

## Runs

Passing runs:

- `first_sync`: `ClearedOnlyWhenDurable` (the flag is cleared, in memory or on
  disk, only behind a marker and a snapshot that would survive a power loss now),
  `PromotedSnapshotIsWhole` (a snapshot under its final name has header and
  contents after any loss), `SpawnGate` (upstream is spawned with the folder
  unpaused only behind a completion made for its type). One snapshot name, one
  receive type, epochs up to 2, two bindings: enough for a type change there and
  back, the epoch at its limit, and a second onboarding that meets the leftovers of
  the first. About 3.2 million states.
- `folder_transactions`: `DocumentInv` (the document can be loaded), `NoFolderLost`,
  `OneRunningFolderPerTree`, `OrphanStaysPaused`, `SessionMatchesUpstream`. Three
  network ids of which two compete for one directory, one peer, three failures
  anywhere: the shortest ways to break a check of these transactions take a request
  that fails, a rollback or recovery that fails, and a crash. The two competing ids
  are interchangeable, which the run uses as a symmetry.
- `folder_recovery`: `InterruptedWorkCompletes` under fairness (below).
- `upstream_config`: `KnownGoodSurvives` (a known-good configuration is found after kills
  at any step, and after a power loss unless `config.xml` had left its name unflushed),
  `RunsMigrated`, and `ImplementsRegister`, the refinement of `ConfigRegister`. Two
  revisions and two formats (one upgrade), which make four contents: the one in use, the
  one being written and the one in a stale backup can differ.
- `reset`: `NothingStartsDuringReset`, `IntentInv` (an intent, also one a power loss
  brings back, never names an identity, state or history made after it),
  `RemovalIsAnnounced` (what is removed, but not yet for good, is named by an intent that
  is on the disk for good), `ClearedResetIsComplete`. Two cards (interchangeable, a
  symmetry), two resets, two failures: a reset that does not name every card, and one that
  recovers an earlier one. In this run cards are not pulled while a process works on them,
  and `doctor` is not started; the exceptions are below. Two more exceptions are part of
  the properties: `RemovalIsAnnounced` does not speak of a reset whose helper was ended
  between the rename of the intent and its flush (below), and `IntentInv` not of an
  index-only reset. The service starts on its configuration right after such a reset,
  before anything is flushed, so that a power loss may bring the intent back beside the
  index that upstream has derived anew, and that index is removed once more.
- `reset_recovery`: `InterruptedResetCompletes` under fairness.
- `gateway`: `ListenerInv` (a published listener has exactly one deadline, an offer is
  there only in the foreground lease), `OfferPairsOneBrowser`, `GuessesBounded`,
  `LeaseEnds`. Two browsers that submit at once, two sets of
  addresses, two openings, limits of one guess per source and two in all, lifetimes
  of one and two ticks: the offer outlives the foreground, a listener is replaced
  while `Tick` judges the one before, and both limits are reached.
- `gateway_store`: `StoreInv` (the file can be loaded), `CookieSurvivesRestart`, `RevokedStaysRevoked`,
  `EvictionSparesRecentUse`. Three browsers for two places (eviction), one failure. The
  last one compares with the histories over restarts; it has one exception, a record whose
  last use was not written because the write failed, or whose write was undone (below).
  Browsers are interchangeable (symmetry; the run has no liveness property).
  A power loss that undoes the rename of a revocation is counted as not revoked:
  the directory is not flushed and the code promises nothing about it.
- `upstream_process`: `StopInv` (a verified stop leaves nothing), `NoSecondUpstream`, `StopReturns`. Four
  processes and two controllers: the direct child, its child and one that is forked
  while `/proc` is read, and the leftovers that the second controller meets. The first
  two properties except a fork that the scan was overtaken by.
- `game_check`: `CheckInv` (one live check, the one asked for last), `GameStateConverges`, `StopOnlyWhenCurrent`,
  `FirstReplyLeavesMargin`, `LaunchGetsVerdict`. Two launches, one dropped connection,
  one folder with two peers (one may need data while the other is away), an
  acknowledgement time of five units of which one is the margin.
- `cards`: `IdentityInv` (an identity that was reported is the card's only one, for good,
  unless the card was pulled out just before the flush), `NoPhantomCards` (no registry
  file, nor one that a power loss could leave, has an identity that is on no card),
  `RegistryRemembers` (a recorded card is in the registry that a start finds, unless
  reconciliations overlapped or power was lost amid a write). Two cards in two slots, two
  identities, a registry of one place, so that it is full, and two faults: failed writes,
  pulled cards, power losses and overlapping reconciliations. Cards are interchangeable
  (symmetry; the run has no liveness property).
- `network`: `BoundaryInv` (its parts are `BoundaryHolds` and `SuccessRestoresPeers`),
  `BoundaryFollowsRoutes`. Two
  peers, one network that comes and goes, two route changes, two additions (one peer
  can be removed and added again during a transition) and two faults (a request that
  fails and a kill or an expired context on the way back). Peers added since a
  transition listed its peers are excepted from `BoundaryHolds` until the next one:
  what they start with is a property of its own, below.

Each component module has one type invariant, `TypeOK` (`StoreTypeOK` in `GatewayStore`,
`ProcessTypeOK` in `UpstreamProcess`). It is a property of its own
where it is a theorem (`first_sync`, `upstream_config`), and elsewhere a conjunct of the
invariant whose name ends in `Inv`. The deadlock check
is disabled in `upstream_process` and `game_check` only: the controllers of the one
are bounded by `MaxRuns`, and in the other `Run` may return for good. In all other
runs the environment always has a step.

## Disagreements between the code and its documents

These properties state a sentence of the repository's documents or comments and do
not hold of the code. They have no run of their own. Each can be shown by checking
the property alone with the specification and constants given:

| Property | Specification and constants | Counterexample |
| --- | --- | --- |
| `FirstSync!RunningNeedsNoFirstSync` | `Spec`, one name, `{"sendreceive"}`, `MaxEpoch = 2`, `MaxBindings = 1` | `SetFolderType` fails after `Invalidate` (`run.go:504-520`) and does not refresh the status row; resume (`run.go:705`) reads the old row and unpauses a folder whose first sync is pending. `docs/ui-control-v1.md:244`: "Resume refuses while any non-manual reason remains, including B3's `first-sync` reason." |
| `FirstSyncHistory!ClearedByExplicitStart` | `HistorySpec`, one name, `{"sendreceive"}`, `MaxEpoch = 1`, `MaxBindings = 2` | `newFolderControlRecord` starts every binding at epoch 1 and a stop keeps the card's marker, so the next start-up (`first_sync.go:161`) takes the marker of the earlier binding. `docs/decision-record-b3.md:30`: the folder leaves first-sync pause only when "the user explicitly starts the merge" |
| `FirstSync!ReceiveStartsFromSnapshot` | `Spec`, as for `RunningNeedsNoFirstSync` | a type PATCH that upstream applied and the controller saw fail (`run.go:519`) leaves `session.Folders` with the old type; first sync completes as Send Only (`run.go:436`) while upstream receives (`docs/decision-record-b3.md:30`) |
| `FolderTransactions!InterruptedRemovalCompletes` | `FairSpec`, `MCFolderTransactions` with one folder, one peer, `Slot <- OneSlot`, `MaxFaults = 1` | a peer whose removal was interrupted is shared a folder; `recoverPendingDeviceRemoval` (`ui.go:41`) then fails in every start-up. `docs/ui-control-v1.md:356`: "Startup completes an interrupted removal." |
| `FolderTransactions!RemovalKeepsMemberships` | `Spec`, same constants | the check (`run.go:801`) reads `session.Folders`, which is nil after a failed stop (`run.go:685`) and lacks a share that was not acknowledged. `docs/ui-control-v1.md:352`: "Removal is refused while any managed folder still includes the peer." |
| `Reset!NothingStartsDuringReset` | `DoctorSpec`, one card, one reset, one fault | `doctor` (`main.go:65`) recovers without the lock: it writes the intent again, and removes roots, after the service has finished that reset and started. `reset.go:129`: "RecoverReset completes a durable intent before any entrypoint may generate, migrate, inspect, or start Syncthing state." |
| `FirstSyncHistory!CompletionUsesFreshSnapshot` | `HistorySpec`, one name, `MaxEpoch = 3`, `MaxBindings = 1` | `RequireFirstSync` keeps an epoch in memory whose write failed (`folder_state.go:269`); a snapshot is taken under it; after a restart the number is given out again and the earlier snapshot serves a later receive period (`docs/decision-record-b3.md:43`) |
| `FolderTransactions!StoppingFolderStaysPaused` | `Spec`, one folder, one peer, `MaxFaults = 1` | a stop that fails after `BeginStop` (`run.go:688`) leaves the old row, and resume unpauses the folder (`docs/ui-control-v1.md:244`) |
| `Reset!ClearedResetIsComplete` | `UnplugSpec`, one card, one reset, one fault | a card pulled after `verifyRequiredCards` counts as emptied (`reset.go:513`; `docs/decision-record-b2.md:136`) |
| `Reset!RemovalIsAlwaysAnnounced` | `Spec`, one card, one reset, one fault | an intent that the helper renamed and, killed, did not flush is taken as durable by the recovery (`reset.go:240-254`): roots leave the disk, and a power loss takes the intent back. `docs/decision-record-b2.md:136`: "Before intent, all prior durable Syncthing state remains; after intent, recovery completes the same exact deletion set." |
| `UpstreamConfig!KnownGoodAlways` | `Spec`, two revisions, `MaxFormat = 1` | a power loss between the retirement of `config.xml` and the only `syncfs` of `promoteConfig` (`offline_pause.go:105-118`): the unordered disk has neither `config.xml` nor `config.xml.bak`, and `RecoverConfig` ends with `ErrNoKnownGoodConfig`. The backup is kept for an interrupted edit (`config_recovery.go:38-40`: "only the steady config or the last known-good backup may survive recovery"), and here it does not serve |
| `Reset!StopRequestEndsService` | `StopSpec`, one card, one reset, two faults | `waitForResetRecovery` returns nil when it is cancelled and `Run` calls `Bootstrap` again (`run.go:1103`): while the card is missing, the stop request is not obeyed |
| `Gateway!RevokeAllRemovesTrust` | `Gateway.cfg` | a pairing is accepted under the mutex and its trust issued after the unlock (`gateway.go:459-461`): a revoke-all in between leaves a trusted browser. `docs/ui-control-v1.md`: "`gateway.revoke-all` removes all browser trust and closes the listener" |
| `UpstreamProcess!ReturnsAfterCleanup` | `UpstreamProcess.cfg` | when the direct child ends by itself `Run` returns at once (`run.go:946-950`) although others of its group live. `docs/decision-record-b1.md:81-83`: "guardian cleanup signals every other group member, escalates survivors, and proves non-zombie absence before the controller returns" |
| `Cards!RegistryAlwaysRemembers` | one card, one slot, `MaxIDs = 1`; `MaxFaults = 0` for the disk, 1 for the overlap | a second write of the registry, between its renames and its only flush (`registry.go:199-214`): the unordered disk may have none of the three files. And without any power loss: the run loop on `game.check` (`run.go:1036`) and a handler reconcile at once, and the recovery of the one removes the backup, or promotes the unwritten temporary, of the other (`registry.go:183`). `docs/ui-control-v1.md:121`: "The primary registry retains physical ID, last logical slot, and last measured retained bytes so an absent card remains visible." |
| `Cards!IdentityAlwaysDurable` | one card, one slot, `MaxIDs = 1`, one fault | a card pulled out between the rename of `card-id`, or the reading of it, and the `syncfs` (`cards.go:238-243`, `275-286`): the `syncfs` succeeds on the empty mount point and the identity is reported, but the card may not have it. `docs/ui-control-v1.md:117`: the handler "renames it, then requires card `syncfs`" |
| `GatewayStore!EvictionAlwaysSparesRecentUse` | `GatewayStore.cfg` | the write of a time of use fails, which `Authenticate` ignores (`trust.go:113`), and the controller restarts: the next new browser evicts the one used last (`trust.go:85`) |
| `Network!StatusTellsBoundary` | `Network.cfg`, `MaxFaults = 1` | Sync Anywhere clears the boundary of peer after peer (`syncthing/network.go:77`); after an error the cleared peers are unrestricted and the status says LAN only |
| `Network!NewPeersAreConfined` | `Network.cfg`, `MaxFaults = 1` | without any network the list a new peer is given is empty (`run.go:788-791`), which admits everybody; existing peers are given `noEligibleNetwork`. `docs/ui-control-v1.md:345`: new peers "inherit the current route-derived LAN boundary" |
| `Network!ReportedProfileIsKept` | `Network.cfg`, `MaxFaults = 1` | the flush of the directory fails after the rename (`controller/network.go:210`): the change is reported as failed and the next start enforces it |
| `Network!PausedPeersComeBack` | `Network.cfg`, `MaxFaults = 1` | a kill between pause and restoration, or a pause whose answer was lost, leaves a peer paused, and every later transition takes the pause for the user's (`syncthing/network.go:101`) |

Mutants: every property of a passing run has a definition beside the one it
mutates (`...Skipped`, `...AnySlot`, `...Unflushed` and the like) that changes the
code the way a plausible mistake would, and under which TLC finds that property
violated.

## Fairness

- `FolderTransactions!Fairness`. Weak fairness of `Progress`: the controller takes
  the next step of what it has begun, and the supervisor starts a stopped service.
  Weak fairness of `CardInserted`: a recorded stop needs its card, so the card must
  come back. Strong fairness of `Restart`: every game stops the service, so a service
  that is idle again and again is restarted again and again; recovery of a membership
  change happens only in `Bootstrap`. Failures are bounded by `MaxFaults`, so they are
  finitely many. No fairness of user actions is assumed.
- `Reset!FairSpec`. Weak fairness of the service's steps (the supervisor restarts it),
  of the helper's, and of the return of each card. `StopSpec` has the service's steps
  only.
- `Gateway!Fairness`. Weak fairness of the run loop's `Tick` (a ticker twice a second)
  and of the clock.
- `UpstreamProcess!Fairness`. Weak fairness of reading `/proc` and of the ladder;
  strong fairness of `WindowOver`: a window is a timer that runs while the census is
  repeated. None of the processes' exits.
- `GameCheck!Fairness`. Weak fairness of the handshake, of the run loop's handling of
  an event and of each check's goroutine. None of the launcher's steps:
  `LaunchGetsVerdict` excuses a launch the launcher gave up.
- `Network!Fairness`. The supervisor restarts the service, a transition goes on, the
  run loop looks at the routes again and again (strong: a transition of the UI makes
  it wait), and the upstream drops peers that are paused. Failures are bounded.

`InterruptedWorkCompletes` is checked for `FolderSpec`, without peer removal: with
it, forgetting a peer that a recorded share names has the effect of the counterexample
of `InterruptedRemovalCompletes`.

## Proofs

TLAPS checks the theorems of eight modules, each named after the component whose
specification it `EXTENDS`. Two of them cover two components of one part of the system:
`GatewayProofs` the manager and the trust store, `UpstreamProofs` the configuration and
the process; the specifications of the second components are called `StoreSpec` and
`ProcessSpec`. The theorems hold for all values of the constants under the named
assumptions of the component modules, which TLC evaluates in the runs.

Every safety property of a run, action properties included, is a theorem, except
`RegistryRemembers` of the card registry. Each theorem
is `Spec => []P` for such a property `P`, the refinement `Spec => ImplementsRegister`,
the invariance of an `IInv`, or one of two more that no run states: `OneResetSafety` and
`RemovalSafety` of the reset. Hardly any of the
properties is inductive: each proof module states an `IInv`, proves that `Init`
establishes it, and that each action preserves it in a lemma (or one lemma per part) of
its own, combined in `StepInv`; the theorems follow from `IInv`. What `IInv` adds to the
properties is the content of the proofs:

| Module | Theorems | What the inductive invariant adds, and why |
| --- | --- | --- |
| `FirstSyncProofs` | `TypeCorrectness`, `SnapshotSafety`, `ClearedSafety`, `SpawnSafety` | What each step of `prepareLocked` and `Complete` has established about cache and medium (`PrepareInv`, `CompleteInv`); a snapshot under its final name is equal in both (`SnapshotInv`); a complete marker, cached or not, names a snapshot held in both (`Backed`); a marker of a cleared epoch is never only cached (`ClearedInv`); how far memory and disk may differ after a failed write (`RecordInv`); what `Bootstrap` knows before the spawn (`BootInv`). |
| `UpstreamProofs`, of `UpstreamConfig` | `TypeCorrectness`, `KnownGoodSafety`, `MigrationSafety`, `Refinement` | What a start-up would find in the tree that the processes see (`FoundInv`) and in those that the disk may hold: while no swap is unflushed, every content that `config.xml` may have on the disk is good, or the disk is exactly what a power loss has left (`DiskInv`). What generation has flushed before its rename (`GenerateInv`), and what the step in progress knows of the three files (`LiveInv`, `BackupInv`, `PromoteInv`), which makes the retirement of the backup and the undo path safe against kills. The refinement maps every step to a register step or a stutter: the rename in `PromoteSwap` or the end of `RestoreRename` commits, the steps that take `config.xml` away suspend, each `syncfs` persists. |
| `UpstreamProofs`, of `UpstreamProcess` | `StopSafety`, `OneUpstreamSafety` | A census that no fork has overtaken has every live process of those it lists among the ones it has still to read or has found (`CensusInv`): without a fork, processes only leave the set while it is scanned, so that a census that finds nobody is right. |
| `FolderTransactionsProofs` | `DocumentSafety`, `FolderSafety`, `TreeSafety`, `OrphanSafety`, `SessionSafety` | Memory and disk may differ after a failed write, so each must be `Good` for the configuration upstream has by itself (`DocInv`): loadable, no active folder missing, nothing running without a record. A handler that unpauses a folder or restarts from a document knows memory and disk equal (`PlaceInv`). The session shows folders that have a record and exist upstream, except the one whose removal is under way, and none with a pending stop once the controller serves (`SessInv`): this is why `BeginMembership` needs no check of its own. `AddInv`: a folder being added is not yet shown and paused if it is there, which makes the rollback safe. `ShareInv`, `LeaveInv`: what the two handlers have verified upstream. |
| `ResetProofs` | `StartSafety`, `IntentSafety`, `AnnouncementSafety`, `CompletionSafety`, `OneResetSafety`, `RemovalSafety` | Which process may be where, with the lock or without (`PlaceInv`): a service that waits for a card recovers without the lock, but a plan is sealed only when no reset is under way, so it never does so beside the helper; the process that carries a reset out and the intent have the same document (`AgreeInv`); what a document names is not newer than it, in everything a power loss may leave (`EpochInv`); what each step has removed and flushed (`WorkInv`); what is gone, but not for good, is named by the intent (`FlushInv`); while the disk may have an intent for more than the index that the processes do not see, there is no configuration to run with (`StaleInv`), because generation flushes before it renames. |
| `GatewayProofs`, of `Gateway` | `ListenerSafety`, `SinglePairing`, `GuessSafety` | What a UI operation knows between its critical sections (`ProgressInv`); who holds trust of an offer or is about to be issued it, and that nobody does while the offer is there (`HolderInv`); the guesses of an offer are failures younger than the offer, which the global window has not yet forgotten, and the lock is there once they reach the limit (`CountInv`). |
| `GatewayProofs`, of `GatewayStore` | `StoreSafety`, `CookieSafety`, `RevocationSafety`, `EvictionSafety` | Every table, also the one a power loss leaves, is within its limit (`SizeInv`); no browser was last used `LastUsedFlush` or more after its last touch, and no record of the three tables is younger than that touch (`AgeInv`): a stale record makes its own browser look older, never another one, so that eviction by recorded use is wrong by less than `LastUsedFlush` about everybody else. |
| `NetworkProofs` | `BoundarySafety` | What a LAN-only transition has achieved before its next request, for all peers `Listed` (configured, and not added since it listed them): paused, disconnected, confined, options set (`StageInv`); what any transition knows of its own lists, so that the restoration leaves no peer paused (`ListsInv`). |
| `GameCheckProofs` | `OneCheckSafety`, `StopSafety`, `ConvergenceSafety`, `FirstReplySafety` | The queue of a new connection leads from what the snapshot said to what Jawaka now has (`RunInv`, with `Leads`); nothing of a launch is in flight after its end, nor of an earlier one after its check (`OrderInv`, with `Precedes`); who has begun and what there can be of it (`BegunInv`); a launch is not checked again (`OnceInv`); the goroutines (`GoroutineInv`). The order of events on the two queues is needed to know that a game.check finds no other check alive. |
| `CardsProofs` | `IdentitySafety`, `PhantomSafety` | What an actor has at hand between the reading of an identity and its flush is on the card, unless that was pulled out since (`HandInv`), so that the flush is one of this identity and makes it `Certain`, which no step takes back; nobody has any but certain identities to record, wherever they were read (`HaveInv`). Neither depends on reconciliations not overlapping, nor on an order of the registry's three names. |

None of the theorems has a hypothesis beyond these assumptions. Where the code leaves a
window, the exception is a part of the property and a history variable records when it
was met (`open` and `lost`, `unflushed`, `strayed`, `touched`); the sentence without it is
among the disagreements above.

Assumptions on the constants:

- `FirstSync`, `UpstreamConfig`: `NoName` is not a name; `sendonly` is not
  receive-capable and there is a receive-capable type; the epoch and format bounds are
  positive; `Initial` is a revision, `Absent` and `Torn` are not contents.
- `FolderTransactions`: `NoFolder` and `NoPeer` are none of theirs, every folder has a
  directory, the number of faults is a natural number. Folders, peers and faults are
  unbounded.
- `Reset`: finitely many cards; none is a root of the primary filesystem; `None` is
  neither a process nor a document.
- `Gateway`: lifetimes and limits are positive, and an offer does not outlive
  the window in which failures are counted (`PairingLifetime <= GlobalWindow`: two and
  ten minutes in the code).
- `GatewayStore`: finitely many tokens, at least one place, and the lifetimes are natural
  numbers.
- `UpstreamProcess`: there is at least one attempt at the shutdown request, and `None` is
  not a process. Processes and their forks are unbounded.
- `Cards`: finitely many actors (two in the code), the UI handler one of them; the limits
  are natural numbers. Cards are unbounded.
- `Network`: `Away` and `None` are not networks.
- `GameCheck`: `UnitAssumption` says that a fifth of an acknowledgement time not larger
  than the margin is not zero. The code computes it with integer division of
  nanoseconds, of a time that is a positive number of milliseconds.

The invariants on which the proofs rest were checked with TLC first, as
invariants of the runs' instances. In four places the models were written so that they can be
reasoned about: `Gateway` keeps its failures as a finite set of records numbered within
their tick and `GameCheck` counts needs as cardinalities, both instead of numbers kept
beside them; `Reset` names the values that its documents and processes must not have; and
`Cards` states the list of files to discard (`Discards`) as a concatenation.

Only model-checked, and why:

- `RegistryRemembers`: that nothing is forgotten by one reconciliation at a time rests on
  what each step has left in which of the three files, step by step. TLC enumerates it;
  the theorem about the registry is `PhantomSafety`, which holds with overlaps.
- Liveness under fairness (`InterruptedWorkCompletes`, `InterruptedResetCompletes`,
  `LeaseEnds`, `StopReturns`, `LaunchGetsVerdict`, `BoundaryFollowsRoutes`): the prover
  has no rules for `WF`, `SF` and `ENABLED` that are usable here.
- The sentences of the documents that the code does not keep (above) hold of no
  specification and are not stated as theorems.

## Not modelled, and why

XML and JSON contents, path validation, space checks and plan expiry are inputs or
given (data, not control); the UI protocol, C front end and rendering are I/O;
reports are read-only. Power loss during a write of the folder-control document is
covered by the outcomes of a failed write (the document is written by rename).

Of the modelled components these parts are left out. Gateway: TLS, the certificate
file, proxying, a failing random source, a wall clock that is set back. Game check:
`game.start` (the subscription is of mode stop), the several requests of one probe as
separate steps, the time the run loop spends elsewhere before it starts a check.
Cards: the parsing of mountinfo and of the registry's JSON. Upstream process:
environment and arguments. Network: how the routes are read, and a state file that is
damaged (the start then ends with an error). The status value shared by handlers and
run loop (`run.go:259`) is modelled only as the stale row that the folder handlers
read.

## Plan

1. Relocation: mount points in `FolderTransactions`, with the start-up's pause, path
   change and resumption.
2. `StatusBoard`: the status value that handlers and the run loop load, modify and
   store (`run.go:259`, `979`, `1024`, `1073`); lost updates.
