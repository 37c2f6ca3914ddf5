------------------------------ MODULE FirstSync ------------------------------
(***************************************************************************)
(* First-sync protection of one managed folder (internal/controller/       *)
(* first_sync.go and the UI handlers of run.go that call it).              *)
(*                                                                         *)
(* A receive-capable folder stays paused until a safety snapshot of the    *)
(* card directory and a completion marker are durable on the card and the  *)
(* user has started the merge.  The protection is spread over four places  *)
(* that fail independently:                                                *)
(*   - the card, seen through the page cache (fs...) and as it would be    *)
(*     found after a power loss (dk...); only syncfs makes them equal;     *)
(*   - the folder-control record in memory (mem) and on disk (store);      *)
(*   - the configuration of the upstream Syncthing process (up...);        *)
(*   - the controller's own copy of that configuration (sessType) and the  *)
(*     status row it shows (row).                                          *)
(* The controller may be killed, the power may fail, the card may be       *)
(* pulled and any I/O or REST call may fail between any two steps.         *)
(***************************************************************************)
EXTENDS Naturals, FiniteSets

CONSTANTS
    Names,        \* names of snapshot directories (timestamp and random suffix)
    NoName,       \* "no snapshot"
    ReceiveTypes, \* receive-capable folder types: sendreceive, receiveonly
    MaxEpoch,     \* largest first-sync epoch (2^64-1 in the code)
    MaxBindings   \* how often the folder may be onboarded

ASSUME NameAssumption == NoName \notin Names
ASSUME TypeAssumption == "sendonly" \notin ReceiveTypes /\ ReceiveTypes # {}
ASSUME BoundAssumption == MaxEpoch \in Nat \ {0} /\ MaxBindings \in Nat

VARIABLES
    pc,          \* where the controller is: down, booting, idle or in a handler
    opName,      \* snapshot the handler in flight works on
    opType,      \* folder type the handler in flight sets
    bound,       \* the folder is registered and configured upstream
    mem, store,  \* folder-control record in memory and on disk
    up,          \* the upstream process runs
    upType, upPaused,  \* the folder in the upstream configuration
    sessType,    \* session.Folders[i].Type
    row,         \* pause reasons of the status row the handlers consult
    present,     \* the enrolled card is mounted and writable
    inventory,   \* Bootstrap's card inventory, read once: it lists the card
    fsMarker, dkMarker,    \* .leaf-first-sync.json
    fsPlace, dkPlace,      \* snapshot directory: none, .partial-<name>, <name>
    fsHeader, dkHeader,    \* snapshot.json in it
    fsContent, dkContent,  \* copied files and manifest in it
    bindings,    \* history: number of onboardings so far
    cleaned,     \* history: snapshots the user had removed
    revoked      \* history: Invalidate removed the marker and the record does
                 \*   not say so durably yet

opVars    == <<pc, opName, opType>>
fsVars    == <<fsMarker, fsPlace, fsHeader, fsContent>>
dkVars    == <<dkMarker, dkPlace, dkHeader, dkContent>>
cardVars  == <<present, inventory, fsVars, dkVars>>
upVars    == <<up, upType, upPaused>>
histVars  == <<bindings, cleaned, revoked>>
vars      == <<opVars, bound, mem, store, upVars, sessType, row, cardVars, histVars>>

-----------------------------------------------------------------------------
(* Values.                                                                  *)

Types   == {"sendonly"} \cup ReceiveTypes
Reasons == {"manual", "first-sync", "health"}

Record  == [firstSync : BOOLEAN, epoch : 0..MaxEpoch, manual : BOOLEAN]
Marker  == [state : {"none", "pending", "complete"}, epoch : 0..MaxEpoch,
            mode : {"none", "sendonly", "snapshot"}, name : Names \cup {NoName}]
Header  == [state : {"none", "pending", "ready"}, epoch : 0..MaxEpoch]

NoMarker == [state |-> "none", epoch |-> 0, mode |-> "none", name |-> NoName]
NoHeader == [state |-> "none", epoch |-> 0]

BootPCs == {"recover", "decide", "gate"}
PreparePCs == {"prep-copy", "prep-sync-copy", "prep-ready", "prep-sync-ready",
               "prep-promote", "prep-sync-promote", "prep-verify"}
CompletePCs == {"done-confirm", "done-pending", "done-sync-pending",
                "done-complete", "done-sync-complete", "done-clear"}
TypePCs == {"inv-remove", "inv-sync", "inv-require", "type-patch"}
CleanPCs == {"clean-remove", "clean-sync"}
\* steps that touch the card and therefore can fail with an I/O error
CardPCs == (PreparePCs \cup CompletePCs \cup CleanPCs \cup {"inv-remove", "inv-sync"})
             \ {"done-clear"}
PCs == {"down", "idle", "done-unpause"} \cup BootPCs \cup PreparePCs
         \cup CompletePCs \cup TypePCs \cup CleanPCs

StepType ==
    pc \in PCs /\ opName \in Names \cup {NoName} /\ opType \in Types
FlagType ==
    /\ bound \in BOOLEAN /\ up \in BOOLEAN /\ upPaused \in BOOLEAN
    /\ present \in BOOLEAN /\ inventory \in BOOLEAN
    /\ revoked \in BOOLEAN
RecordType ==
    mem \in Record /\ store \in Record
ConfigType ==
    upType \in Types /\ sessType \in Types /\ row \in SUBSET Reasons
CardType ==
    /\ fsMarker \in Marker /\ dkMarker \in Marker
    /\ fsPlace \in [Names -> {"none", "partial", "final"}]
    /\ dkPlace \in [Names -> {"none", "partial", "final"}]
    /\ fsHeader \in [Names -> Header] /\ dkHeader \in [Names -> Header]
    /\ fsContent \in [Names -> BOOLEAN] /\ dkContent \in [Names -> BOOLEAN]
HistoryType ==
    bindings \in 0..MaxBindings /\ cleaned \in SUBSET Names

\* Every variable has its type; in particular no epoch passes MaxEpoch.
TypeOK ==
    /\ StepType /\ FlagType /\ RecordType
    /\ ConfigType /\ CardType /\ HistoryType

-----------------------------------------------------------------------------
(* What the code reads from the card.                                       *)

\* readSnapshotHeader accepts directory n for this epoch
SnapshotValid(n, epoch) ==
    /\ epoch # 0
    /\ fsPlace[n] = "final"
    /\ fsHeader[n] = [state |-> "ready", epoch |-> epoch]
    /\ fsContent[n]

\* readSnapshotHeader fails: the header is there and the manifest is not
SnapshotTorn(n) ==
    fsPlace[n] = "final" /\ fsHeader[n].state # "none" /\ ~fsContent[n]

\* mutant: the marker's mode is not compared with the folder type
MarkerValidAnyType(type, epoch) ==
    epoch # 0 /\ fsMarker.state = "complete" /\ fsMarker.epoch = epoch

\* readFirstSyncMarker accepts the marker for a folder of this type
MarkerValid(type, epoch) ==
    /\ epoch # 0
    /\ fsMarker.state = "complete" /\ fsMarker.epoch = epoch
    /\ \/ fsMarker.mode = "sendonly" /\ type = "sendonly"
       \/ /\ fsMarker.mode = "snapshot" /\ type # "sendonly"
          /\ fsMarker.name \in Names /\ SnapshotValid(fsMarker.name, epoch)

\* readFirstSyncMarker returns an error instead of "not complete"
MarkerTorn(type, epoch) ==
    /\ fsMarker.state = "complete" /\ fsMarker.epoch = epoch
    /\ fsMarker.mode = "snapshot" /\ type # "sendonly"
    /\ fsMarker.name \in Names /\ SnapshotTorn(fsMarker.name)

\* reconcileManagedFolders: the reasons that keep the folder paused, with a
\* usable card or not
ReasonsFor(record, usable) ==
    (IF record.manual THEN {"manual"} ELSE {})
      \cup (IF record.firstSync THEN {"first-sync"} ELSE {})
      \cup (IF usable THEN {} ELSE {"health"})

\* the handlers load the inventory themselves
PauseReasons(record) == ReasonsFor(record, present)

folderSafeForAction == "health" \notin row

-----------------------------------------------------------------------------
(* Building blocks.                                                         *)

\* folderControlStore.persistLocked of a record already changed in memory.  On
\* failure memory keeps the change and the file may hold either version.
PersistOK(record) == mem' = record /\ store' = record
PersistFails(record) == mem' = record /\ store' \in {store, record}

\* syncfs on the card
SyncFilesystem ==
    /\ dkMarker' = fsMarker /\ dkPlace' = fsPlace
    /\ dkHeader' = fsHeader /\ dkContent' = fsContent

\* a REST request: applied and acknowledged, lost, or applied with the
\* acknowledgement lost (timeout)
RestOutcomes == {"ok", "lost", "unacked"}

Goto(next) == pc' = next /\ UNCHANGED <<opName, opType>>
Return == pc' = "idle" /\ opName' = NoName /\ opType' = "sendonly"
Serving == pc = "idle" /\ bound

-----------------------------------------------------------------------------
(* PrepareFirstSync and firstSyncManager.Prepare: copy the folder into      *)
(* .partial-<n>, flush, mark the header ready, flush, rename, flush.        *)

\* Snapshot names embed the time and four random bytes: never used before.
PrepareBegin(n) ==
    /\ Serving /\ folderSafeForAction /\ present
    /\ mem.firstSync /\ mem.epoch # 0 /\ sessType # "sendonly"
    /\ n \notin cleaned /\ fsPlace[n] = "none" /\ dkPlace[n] = "none"
    /\ fsPlace' = [fsPlace EXCEPT ![n] = "partial"]
    /\ pc' = "prep-copy" /\ opName' = n /\ UNCHANGED opType
    /\ UNCHANGED <<bound, mem, store, upVars, sessType, row, present, inventory, fsMarker,
                   fsHeader, fsContent, dkVars, histVars>>

\* copySnapshotTree and the pending header
PrepareCopy ==
    /\ pc = "prep-copy" /\ present
    /\ fsContent' = [fsContent EXCEPT ![opName] = TRUE]
    /\ fsHeader' = [fsHeader EXCEPT ![opName] = [state |-> "pending", epoch |-> mem.epoch]]
    /\ Goto("prep-sync-copy")
    /\ UNCHANGED <<bound, mem, store, upVars, sessType, row, present, inventory, fsMarker,
                   fsPlace, dkVars, histVars>>

\* mutant: prepareLocked goes on without the syncfs
PrepareSyncSkipped(at, next) ==
    /\ pc = at /\ present
    /\ Goto(next)
    /\ UNCHANGED <<bound, mem, store, upVars, sessType, row, cardVars, histVars>>

PrepareSync(at, next) ==
    /\ pc = at /\ present
    /\ SyncFilesystem
    /\ Goto(next)
    /\ UNCHANGED <<bound, mem, store, upVars, sessType, row, present, inventory, fsVars, histVars>>

PrepareReady ==
    /\ pc = "prep-ready" /\ present
    /\ fsHeader' = [fsHeader EXCEPT ![opName].state = "ready"]
    /\ Goto("prep-sync-ready")
    /\ UNCHANGED <<bound, mem, store, upVars, sessType, row, present, inventory, fsMarker,
                   fsPlace, fsContent, dkVars, histVars>>

PreparePromote ==
    /\ pc = "prep-promote" /\ present
    /\ fsPlace' = [fsPlace EXCEPT ![opName] = "final"]
    /\ Goto("prep-sync-promote")
    /\ UNCHANGED <<bound, mem, store, upVars, sessType, row, present, inventory, fsMarker,
                   fsHeader, fsContent, dkVars, histVars>>

\* the promoted header is read back and the status row refreshed
PrepareVerify ==
    /\ pc = "prep-verify" /\ present
    /\ SnapshotValid(opName, mem.epoch)
    /\ row' = PauseReasons(mem)
    /\ Return
    /\ UNCHANGED <<bound, mem, store, upVars, sessType, cardVars, histVars>>

prepareLocked ==
    \/ PrepareCopy
    \/ PrepareSync("prep-sync-copy", "prep-ready")
    \/ PrepareReady
    \/ PrepareSync("prep-sync-ready", "prep-promote")
    \/ PreparePromote
    \/ PrepareSync("prep-sync-promote", "prep-verify")
    \/ PrepareVerify

-----------------------------------------------------------------------------
(* StartFirstSync and firstSyncManager.Complete: find a snapshot of this    *)
(* epoch, flush, write the marker pending, flush, complete, flush, clear    *)
(* the flag and unpause.  The folder type is the controller's own copy.     *)

StartFirstSync ==
    /\ Serving /\ present
    /\ mem.firstSync /\ mem.epoch # 0
    /\ UNCHANGED opType
    /\ \/ /\ sessType = "sendonly"
          /\ pc' = "done-pending" /\ opName' = NoName
       \/ /\ sessType # "sendonly"
          \* latestPreparedSnapshot stops at the first torn directory it meets
          /\ \E n \in Names : SnapshotValid(n, mem.epoch) /\ opName' = n
          /\ pc' = "done-confirm"
    /\ UNCHANGED <<bound, mem, store, upVars, sessType, row, cardVars, histVars>>

\* mutant: Complete goes on without the syncfs
CompleteSyncSkipped(at, next) ==
    /\ pc = at /\ present
    /\ Goto(next)
    /\ UNCHANGED <<bound, mem, store, upVars, sessType, row, cardVars, histVars>>

CompleteSync(at, next) ==
    /\ pc = at /\ present
    /\ SyncFilesystem
    /\ Goto(next)
    /\ UNCHANGED <<bound, mem, store, upVars, sessType, row, present, inventory, fsVars, histVars>>

CompleteMark(at, state, next) ==
    /\ pc = at /\ present
    /\ fsMarker' = [state |-> state, epoch |-> mem.epoch,
                    mode |-> IF sessType = "sendonly" THEN "sendonly" ELSE "snapshot",
                    name |-> opName]
    /\ Goto(next)
    /\ UNCHANGED <<bound, mem, store, upVars, sessType, row, present, inventory, fsPlace, fsHeader,
                   fsContent, dkVars, histVars>>

\* controls.SetFirstSync(folder.ID, false)
CompleteClear ==
    /\ pc = "done-clear"
    /\ LET cleared == [mem EXCEPT !.firstSync = FALSE] IN
       \/ /\ PersistOK(cleared) /\ Goto("done-unpause")
          /\ revoked' = FALSE
       \/ PersistFails(cleared) /\ Return /\ UNCHANGED revoked
    /\ UNCHANGED <<bound, upVars, sessType, row, cardVars, bindings, cleaned>>

\* the unpause at the end of StartFirstSync
StartUnpause ==
    /\ pc = "done-unpause"
    /\ Return
    /\ \/ /\ PauseReasons(mem) # {}
          /\ row' = PauseReasons(mem)
          /\ UNCHANGED upPaused
       \/ /\ PauseReasons(mem) = {}
          /\ \E outcome \in RestOutcomes :
               /\ upPaused' = (upPaused /\ outcome = "lost")
               /\ row' = IF outcome = "ok" THEN {} ELSE row
    /\ UNCHANGED <<bound, mem, store, up, upType, sessType, cardVars, histVars>>

Complete ==
    \/ CompleteSync("done-confirm", "done-pending")
    \/ CompleteMark("done-pending", "pending", "done-sync-pending")
    \/ CompleteSync("done-sync-pending", "done-complete")
    \/ CompleteMark("done-complete", "complete", "done-sync-complete")
    \/ CompleteSync("done-sync-complete", "done-clear")
    \/ CompleteClear
    \/ StartUnpause

-----------------------------------------------------------------------------
(* SetFolderType and firstSyncManager.Invalidate: pause, and when the       *)
(* change crosses sendonly remove the marker, flush and require first sync  *)
(* again under a new epoch; then patch the type and restore the pause.      *)

SetFolderType(t) ==
    /\ Serving /\ folderSafeForAction /\ present /\ t # sessType
    /\ UNCHANGED opName
    /\ \E outcome \in RestOutcomes :
         /\ upPaused' = (upPaused \/ outcome # "lost")
         /\ IF outcome # "ok" THEN UNCHANGED <<pc, opType>>
            ELSE /\ opType' = t
                 /\ pc' = IF (sessType = "sendonly") # (t = "sendonly")
                          THEN "inv-remove" ELSE "type-patch"
    /\ UNCHANGED <<bound, mem, store, up, upType, sessType, row, cardVars, histVars>>

InvalidateRemove ==
    /\ pc = "inv-remove" /\ present
    /\ fsMarker' = NoMarker
    /\ revoked' = TRUE
    /\ Goto("inv-sync")
    /\ UNCHANGED <<bound, mem, store, upVars, sessType, row, present, inventory, fsPlace, fsHeader,
                   fsContent, dkVars, bindings, cleaned>>

InvalidateSync ==
    /\ pc = "inv-sync" /\ present
    /\ SyncFilesystem
    /\ Goto("inv-require")
    /\ UNCHANGED <<bound, mem, store, upVars, sessType, row, present, inventory, fsVars, histVars>>

\* folderControlStore.RequireFirstSync refuses to wrap the epoch
Required(record) ==
    [firstSync |-> TRUE, epoch |-> record.epoch + 1, manual |-> record.manual]

\* mutant: the epoch is incremented without the overflow check
InvalidateRequireWraps ==
    /\ pc = "inv-require"
    /\ \/ PersistOK(Required(mem)) /\ Goto("type-patch") /\ revoked' = FALSE
       \/ PersistFails(Required(mem)) /\ Return /\ UNCHANGED revoked
    /\ UNCHANGED <<bound, upVars, sessType, row, cardVars, bindings, cleaned>>

InvalidateRequire ==
    /\ pc = "inv-require"
    /\ \/ /\ mem.epoch < MaxEpoch
          /\ \/ PersistOK(Required(mem)) /\ Goto("type-patch") /\ revoked' = FALSE
             \/ PersistFails(Required(mem)) /\ Return /\ UNCHANGED revoked
       \/ mem.epoch = MaxEpoch /\ Return /\ UNCHANGED <<mem, store, revoked>>
    /\ UNCHANGED <<bound, upVars, sessType, row, cardVars, bindings, cleaned>>

\* SetManagedFolderType, the session update and the final unpause.  When the
\* request fails the handler returns at once: neither the session's type nor
\* the status row follow, although upstream may have applied the patch.
TypePatch ==
    /\ pc = "type-patch"
    /\ Return
    /\ \E patch \in RestOutcomes, unpause \in RestOutcomes :
         LET changed == patch # "lost"
             restore == patch = "ok" /\ PauseReasons(mem) = {}
         IN /\ upType' = IF changed THEN opType ELSE upType
            /\ sessType' = IF patch = "ok" THEN opType ELSE sessType
            /\ upPaused' = IF restore /\ unpause # "lost" THEN FALSE ELSE upPaused \/ changed
            /\ row' = IF patch = "ok" /\ (restore => unpause = "ok")
                      THEN PauseReasons(mem) ELSE row
    /\ UNCHANGED <<bound, mem, store, up, cardVars, histVars>>

Invalidate == InvalidateRemove \/ InvalidateSync \/ InvalidateRequire

-----------------------------------------------------------------------------
(* The other handlers that read or change the same state.                   *)

\* FolderAction pause: the durable reason first, then upstream
FolderPause ==
    /\ Serving /\ folderSafeForAction
    /\ LET paused == [mem EXCEPT !.manual = TRUE] IN
       \/ /\ PersistFails(paused)
          /\ UNCHANGED <<upPaused, row>>
       \/ /\ PersistOK(paused)
          /\ \E outcome \in RestOutcomes :
               /\ upPaused' = (upPaused \/ outcome # "lost")
               /\ row' = IF outcome = "ok" THEN row \cup {"manual"} ELSE row
    /\ UNCHANGED <<opVars, bound, up, upType, sessType, cardVars, histVars>>

\* FolderAction resume: onlyManualPause looks at the status row
FolderResume ==
    /\ Serving /\ folderSafeForAction
    /\ row \subseteq {"manual"}
    /\ LET resumed == [mem EXCEPT !.manual = FALSE] IN
       \/ /\ PersistFails(resumed)
          /\ UNCHANGED <<upPaused, row>>
       \/ /\ PersistOK(resumed)
          /\ \E outcome \in RestOutcomes :
               /\ upPaused' = (upPaused /\ outcome = "lost")
               /\ row' = IF outcome = "ok" THEN {} ELSE row
    /\ UNCHANGED <<opVars, bound, up, upType, sessType, cardVars, histVars>>

\* FolderMembership: record the intent, patch paused and the devices upstream,
\* clear the intent, then restore the pause state the reasons ask for
FolderMembership ==
    /\ Serving /\ folderSafeForAction
    /\ store' = mem
    /\ \E patch \in RestOutcomes, unpause \in RestOutcomes :
         LET restore == patch = "ok" /\ PauseReasons(mem) = {} IN
         /\ upPaused' = IF restore /\ unpause # "lost" THEN FALSE
                        ELSE upPaused \/ patch # "lost"
         /\ row' = IF patch = "ok" /\ (restore => unpause = "ok")
                   THEN PauseReasons(mem) ELSE row
    /\ UNCHANGED <<opVars, bound, mem, up, upType, sessType, cardVars, histVars>>

\* A queued rescan, an ignored offer or a device-removal intent: the document is
\* written again whole, with whatever an earlier failed write left in memory.
PersistDocument ==
    /\ Serving
    /\ store' = mem
    /\ UNCHANGED <<opVars, bound, mem, upVars, sessType, row, cardVars, histVars>>

\* EnrollCard, PlanFolder and the other handlers that end in applyInventory
RefreshStatus ==
    /\ Serving
    /\ row' = PauseReasons(mem)
    /\ UNCHANGED <<opVars, bound, mem, store, upVars, sessType, cardVars, histVars>>

\* CleanupStorage of snapshot n: refused while first sync is pending;
\* removeDeclaredPath goes backwards through the directory, the header first
CleanupBegin(n) ==
    /\ pc = "idle" /\ present
    /\ bound => ~mem.firstSync
    /\ fsPlace[n] = "final"
    /\ cleaned' = cleaned \cup {n}
    /\ pc' = "clean-remove" /\ opName' = n /\ UNCHANGED opType
    /\ UNCHANGED <<bound, mem, store, upVars, sessType, row, cardVars, bindings,
                   revoked>>

CleanupRemove ==
    /\ pc = "clean-remove" /\ present
    /\ \/ /\ fsHeader[opName] = NoHeader /\ fsContent[opName]
          /\ fsContent' = [fsContent EXCEPT ![opName] = FALSE]
          /\ UNCHANGED <<opVars, fsHeader, fsPlace>>
       \/ /\ fsHeader[opName] # NoHeader
          /\ fsHeader' = [fsHeader EXCEPT ![opName] = NoHeader]
          /\ UNCHANGED <<opVars, fsContent, fsPlace>>
       \/ /\ ~fsContent[opName] /\ fsHeader[opName] = NoHeader
          /\ fsPlace' = [fsPlace EXCEPT ![opName] = "none"]
          /\ Goto("clean-sync")
          /\ UNCHANGED <<fsContent, fsHeader>>
    /\ UNCHANGED <<bound, mem, store, upVars, sessType, row, present, inventory, fsMarker, dkVars, histVars>>

CleanupSync ==
    /\ pc = "clean-sync" /\ present
    /\ SyncFilesystem
    /\ Return
    /\ UNCHANGED <<bound, mem, store, upVars, sessType, row, present, inventory, fsVars, histVars>>

\* CreateFolder: a new record starts at epoch 1 with first sync required.  The
\* folder id and marker name follow from the card and the kind, so the card's
\* first-sync files of an earlier binding are files of this one.
CreateFolder(t) ==
    /\ pc = "idle" /\ ~bound /\ present /\ bindings < MaxBindings
    /\ bindings' = bindings + 1
    /\ bound' = TRUE
    /\ PersistOK([firstSync |-> TRUE, epoch |-> 1, manual |-> FALSE])
    /\ upType' = t /\ upPaused' = TRUE /\ sessType' = t
    /\ row' = {"first-sync"}
    /\ revoked' = FALSE
    /\ UNCHANGED <<opVars, up, cardVars, cleaned>>

\* FolderAction stop, run to its end (module FolderTransactions has its steps):
\* snapshots and the first-sync marker stay on the card
FolderStop ==
    /\ Serving /\ folderSafeForAction /\ present
    /\ bound' = FALSE
    /\ UNCHANGED <<opVars, mem, store, upVars, sessType, row, cardVars, histVars>>

-----------------------------------------------------------------------------
(* Bootstrap: load the record, firstSyncManager.recover, write the pause    *)
(* set into the offline configuration, start upstream.                      *)

BootLoad ==
    /\ pc = "down"
    /\ mem' = store /\ sessType' = upType
    /\ inventory' = present
    /\ pc' = IF bound THEN "recover" ELSE "gate"
    /\ UNCHANGED <<opName, opType, bound, store, upVars, row, present, fsVars, dkVars, histVars>>

\* recoverFirstSyncKind: drop partial snapshots and a marker that is not complete
RecoverKind ==
    /\ pc = "recover"
    /\ LET partial == {n \in Names : fsPlace[n] = "partial"} IN
       IF inventory /\ present
       THEN /\ fsPlace' = [n \in Names |-> IF n \in partial THEN "none" ELSE fsPlace[n]]
            /\ fsHeader' = [n \in Names |-> IF n \in partial THEN NoHeader ELSE fsHeader[n]]
            /\ fsContent' = [n \in Names |-> n \notin partial /\ fsContent[n]]
            /\ fsMarker' = IF fsMarker.state = "complete" THEN fsMarker ELSE NoMarker
       ELSE UNCHANGED fsVars
    /\ Goto("decide")
    /\ UNCHANGED <<bound, mem, store, upVars, sessType, row, present, inventory, dkVars, histVars>>

\* a usable card decides: a valid marker clears the flag (after syncfs when the
\* record still asks for first sync), anything else requires first sync
RecoverComplete ==
    /\ pc = "decide" /\ inventory /\ present /\ MarkerValid(sessType, mem.epoch)
    /\ IF mem.firstSync THEN SyncFilesystem ELSE UNCHANGED dkVars
    /\ PersistOK([mem EXCEPT !.firstSync = FALSE])
    /\ revoked' = FALSE
    /\ Goto("gate")
    /\ UNCHANGED <<bound, upVars, sessType, row, present, inventory, fsVars,
                   bindings, cleaned>>

\* an inventoried card that has gone meanwhile reads as a card without marker
RecoverRequire ==
    /\ pc = "decide" /\ inventory
    /\ present => ~MarkerValid(sessType, mem.epoch) /\ ~MarkerTorn(sessType, mem.epoch)
    /\ \/ mem.firstSync /\ PersistOK(mem)
       \/ ~mem.firstSync /\ mem.epoch < MaxEpoch /\ PersistOK(Required(mem))
    /\ revoked' = FALSE
    /\ Goto("gate")
    /\ UNCHANGED <<bound, upVars, sessType, row, cardVars, bindings, cleaned>>

\* an absent card leaves the durable decision alone
RecoverAbsent ==
    /\ pc = "decide" /\ ~inventory
    /\ Goto("gate")
    /\ UNCHANGED <<bound, mem, store, upVars, sessType, row, cardVars, histVars>>

\* Bootstrap returns an error and the process exits: a torn snapshot, an I/O
\* error, a refused or failed persist.  (A persist that fails after its rename
\* is the step above followed by Kill.)
BootFails ==
    /\ pc \in BootPCs
    /\ pc' = "down" /\ inventory' = FALSE
    /\ UNCHANGED <<opName, opType, bound, mem, store, upVars, sessType, row, present,
                   fsVars, dkVars, histVars>>

\* requiredOfflinePauseSet, ApplyOfflinePauseSet, StartProcess, first status.
\* The pause set also looks for the folder's own marker on the card.
ApplyPauseAndSpawn ==
    /\ pc = "gate"
    /\ LET reasons == ReasonsFor(mem, inventory /\ present) IN
       /\ upPaused' = IF bound THEN reasons # {} ELSE upPaused
       /\ row' = reasons
    /\ up' = TRUE /\ inventory' = FALSE
    /\ Return
    /\ UNCHANGED <<bound, mem, store, upType, sessType, present, fsVars, dkVars, histVars>>

recover == RecoverKind \/ RecoverComplete \/ RecoverRequire \/ RecoverAbsent \/ BootFails

-----------------------------------------------------------------------------
(* Failures and the environment.                                            *)

\* an I/O error, ENOSPC, a missing snapshot or the request's deadline ends the
\* handler; what it has written stays
HandlerFails ==
    /\ pc \in CardPCs
    /\ Return
    /\ UNCHANGED <<bound, mem, store, upVars, sessType, row, cardVars, histVars>>

\* the controller and its process group end (stop, kill, failed supervision)
Kill ==
    /\ pc # "down"
    /\ pc' = "down" /\ opName' = NoName /\ opType' = "sendonly"
    /\ up' = FALSE /\ inventory' = FALSE
    /\ UNCHANGED <<bound, mem, store, upType, upPaused, sessType, row, present,
                   fsVars, dkVars, histVars>>

LoseCache ==
    /\ fsMarker' = dkMarker /\ fsPlace' = dkPlace
    /\ fsHeader' = dkHeader /\ fsContent' = dkContent

PowerLoss ==
    /\ pc' = "down" /\ opName' = NoName /\ opType' = "sendonly"
    /\ up' = FALSE /\ inventory' = FALSE
    /\ LoseCache
    /\ UNCHANGED <<bound, mem, store, upType, upPaused, sessType, row, present, dkVars, histVars>>

CardRemoved ==
    /\ present /\ present' = FALSE
    /\ LoseCache
    /\ UNCHANGED <<opVars, bound, mem, store, upVars, sessType, row, inventory, dkVars, histVars>>

\* a handler that needed the card has failed long before it is back
CardInserted ==
    /\ ~present /\ pc \notin CardPCs
    /\ present' = TRUE
    /\ UNCHANGED <<opVars, bound, mem, store, upVars, sessType, row, inventory, fsVars, dkVars, histVars>>

\* the kernel writes back one dirty document or directory entry
Writeback ==
    /\ present
    /\ \/ dkMarker # fsMarker /\ dkMarker' = fsMarker
          /\ UNCHANGED <<dkPlace, dkHeader, dkContent>>
       \/ \E n \in Names :
            \/ dkPlace[n] # fsPlace[n] /\ dkPlace' = [dkPlace EXCEPT ![n] = fsPlace[n]]
               /\ UNCHANGED <<dkMarker, dkHeader, dkContent>>
            \/ dkHeader[n] # fsHeader[n] /\ dkHeader' = [dkHeader EXCEPT ![n] = fsHeader[n]]
               /\ UNCHANGED <<dkMarker, dkPlace, dkContent>>
            \/ dkContent[n] # fsContent[n] /\ dkContent' = [dkContent EXCEPT ![n] = fsContent[n]]
               /\ UNCHANGED <<dkMarker, dkPlace, dkHeader>>
    /\ UNCHANGED <<opVars, bound, mem, store, upVars, sessType, row, present, inventory, fsVars, histVars>>

Init ==
    /\ pc = "down" /\ opName = NoName /\ opType = "sendonly"
    /\ bound = FALSE
    /\ mem = [firstSync |-> TRUE, epoch |-> 0, manual |-> FALSE] /\ store = mem
    /\ up = FALSE /\ upType = "sendonly" /\ upPaused = TRUE /\ sessType = "sendonly"
    /\ row = {} /\ present = TRUE /\ inventory = FALSE
    /\ fsMarker = NoMarker /\ dkMarker = NoMarker
    /\ fsPlace = [n \in Names |-> "none"] /\ dkPlace = fsPlace
    /\ fsHeader = [n \in Names |-> NoHeader] /\ dkHeader = fsHeader
    /\ fsContent = [n \in Names |-> FALSE] /\ dkContent = fsContent
    /\ bindings = 0 /\ cleaned = {} /\ revoked = FALSE

Controller ==
    \/ \E n \in Names : PrepareBegin(n) \/ CleanupBegin(n)
    \/ prepareLocked
    \/ StartFirstSync
    \/ Complete
    \/ \E t \in Types : SetFolderType(t) \/ CreateFolder(t)
    \/ Invalidate
    \/ TypePatch
    \/ FolderPause
    \/ FolderResume
    \/ FolderMembership
    \/ PersistDocument
    \/ RefreshStatus
    \/ CleanupRemove
    \/ CleanupSync
    \/ FolderStop
    \/ BootLoad
    \/ recover
    \/ ApplyPauseAndSpawn

Environment ==
    \/ HandlerFails
    \/ Kill
    \/ PowerLoss
    \/ CardRemoved
    \/ CardInserted
    \/ Writeback

Next == Controller \/ Environment

Spec == Init /\ [][Next]_vars

-----------------------------------------------------------------------------
(* Properties.                                                              *)

DurableSnapshot(n, epoch) ==
    /\ dkPlace[n] = "final"
    /\ dkHeader[n] = [state |-> "ready", epoch |-> epoch]
    /\ dkContent[n]

DurablyComplete(epoch) ==
    /\ epoch # 0
    /\ dkMarker.state = "complete" /\ dkMarker.epoch = epoch
    /\ dkMarker.mode = "snapshot" =>
         /\ dkMarker.name \in Names
         /\ dkMarker.name \in cleaned \/ DurableSnapshot(dkMarker.name, epoch)

\* firstSyncManager.Complete and recover: the record, in memory or on disk,
\* stops asking for first sync only when the completion marker of its epoch and
\* the snapshot it names would survive a power loss now.  The user may remove
\* that snapshot later, and a change across sendonly revokes the marker first.
ClearedOnlyWhenDurable ==
    bound /\ ~revoked =>
        /\ ~store.firstSync => DurablyComplete(store.epoch)
        /\ ~mem.firstSync /\ pc \notin {"down"} => DurablyComplete(mem.epoch)

\* prepareLocked: whenever the power fails, a snapshot directory found under its
\* final name on the card is whole, unless the user asked to remove it.
PromotedSnapshotIsWhole ==
    \A n \in Names \ cleaned :
        dkPlace[n] = "final" => dkHeader[n].state = "ready" /\ dkContent[n]

\* Bootstrap: upstream is spawned with the folder unpaused only behind a durable
\* completion made for the folder type upstream will run, whatever was
\* interrupted before.
SpawnGate ==
    [][~up /\ up' /\ bound' /\ ~upPaused' =>
         /\ DurablyComplete(store.epoch)
         /\ (dkMarker.mode = "sendonly") <=> (upType = "sendonly")]_vars

\* ui-control-v1.md: "Resume refuses while any non-manual reason remains,
\* including B3's first-sync reason", so no running folder has it pending.
RunningNeedsNoFirstSync ==
    up /\ bound /\ ~upPaused => ~mem.firstSync

\* decision-record-b3.md: receive-capable folders "cannot leave first-sync pause
\* until a same-card copy" is complete; here, when StartFirstSync unpauses.
ReceiveStartsFromSnapshot ==
    [][pc = "done-unpause" /\ upPaused /\ ~upPaused' /\ upType # "sendonly"
         => dkMarker.mode = "snapshot"]_vars

=============================================================================
