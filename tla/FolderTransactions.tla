------------------------- MODULE FolderTransactions -------------------------
(***************************************************************************)
(* The durable transactions on managed folders and peers: onboarding,      *)
(* sharing and unsharing, local stop, forgetting a peer, and the recovery  *)
(* of each at start-up (internal/controller: folder_state.go,              *)
(* onboarding.go, membership.go, local_stop.go, ui.go, bootstrap.go and    *)
(* the UI handlers of run.go; internal/syncthing: managed_folders.go).     *)
(*                                                                         *)
(* Every transaction spans three places that change one at a time: the     *)
(* folder-control document (mem in memory, disk on disk), the              *)
(* configuration of the upstream Syncthing (conf, peers) and the folder's  *)
(* marker directory on the card.  The controller can die between any two   *)
(* steps, a REST request can be lost before or after it was applied, a     *)
(* document write can fail before or after the rename, and the card can    *)
(* be pulled.  Upstream keeps its own configuration over a restart.        *)
(***************************************************************************)
EXTENDS Naturals, FiniteSets

CONSTANTS
    Folders,   \* network folder ids, made by Leaf or offered by a peer
    Peers,     \* device ids of remote peers
    NoFolder, NoPeer,
    Slot,      \* Slot[f]: the card directory (card id and content kind) f binds
    MaxFaults  \* how many requests, writes, cards or processes may fail

ASSUME NoneAssumption == NoFolder \notin Folders /\ NoPeer \notin Peers
ASSUME SlotAssumption == DOMAIN Slot = Folders
ASSUME FaultAssumption == MaxFaults \in Nat

VARIABLES
    pc,         \* where the controller is
    booting,    \* start-up recovery runs: an error ends the process
    opFolder,   \* folder of the transaction in flight
    opDevs,     \* peers selected for the folder being created
    recovered,  \* folders whose membership this start-up has completed
    mem, disk,  \* folder-control document
    conf,       \* upstream configuration of each folder
    peers,      \* devices configured upstream
    sess,       \* session.Folders
    row,        \* status.Folders: the pause reasons of each row
    marker,     \* slots whose directory holds the Leaf marker
    card,       \* the enrolled card is mounted and writable
    faults      \* failures so far

opVars == <<pc, booting, opFolder, opDevs, recovered>>
docVars == <<mem, disk>>
upVars == <<conf, peers>>
viewVars == <<sess, row>>
vars == <<opVars, docVars, upVars, viewVars, marker, card, faults>>

-----------------------------------------------------------------------------
(* Values.                                                                  *)

Reasons == {"manual", "first-sync", "membership", "stop", "health"}
NoRow == {"absent"}

FolderRecord == [st : {"none", "adding", "active"}, manual : BOOLEAN, firstSync : BOOLEAN,
                 intent : {"none", "share", "unshare"}, peer : Peers \cup {NoPeer},
                 stop : BOOLEAN]
Document == [rec : [Folders -> FolderRecord], removal : Peers \cup {NoPeer}]
FolderConfig == [on : BOOLEAN, paused : BOOLEAN, devs : SUBSET Peers]

NoRecord == [st |-> "none", manual |-> FALSE, firstSync |-> FALSE,
             intent |-> "none", peer |-> NoPeer, stop |-> FALSE]
NoConfig == [on |-> FALSE, paused |-> TRUE, devs |-> {}]
NoSession == [on |-> FALSE, devs |-> {}]

BootPCs == {"reconcile", "gate", "members", "unpause", "removal"}
HandlerPCs == {"add-post", "add-rollback", "add-activate", "share-patch", "share-complete",
               "share-unpause"}
StopPCs == {"stops", "stop-pause", "stop-remove", "stop-marker", "stop-forget"}
RemovePCs == {"remove-peer", "remove-complete"}

\* Every variable has its type.
TypeOK ==
    /\ pc \in {"down", "idle"} \cup BootPCs \cup HandlerPCs \cup StopPCs \cup RemovePCs
    /\ booting \in BOOLEAN /\ opFolder \in Folders \cup {NoFolder}
    /\ opDevs \in SUBSET Peers /\ recovered \in SUBSET Folders
    /\ mem \in Document /\ disk \in Document
    /\ conf \in [Folders -> FolderConfig] /\ peers \in SUBSET Peers
    /\ sess \in [Folders -> [on : BOOLEAN, devs : SUBSET Peers]]
    /\ row \in [Folders -> (SUBSET Reasons) \cup {NoRow}]
    /\ marker \in SUBSET {Slot[f] : f \in Folders} /\ card \in BOOLEAN
    /\ faults \in 0..MaxFaults

-----------------------------------------------------------------------------
(* What the code computes.                                                  *)

\* validateFolderControlRecords: readFolderControlState refuses anything else
LoadableRecords(rec) ==
    /\ \A f \in Folders :
         /\ rec[f].st = "adding" => rec[f].intent = "none" /\ ~rec[f].stop
         /\ rec[f].stop => rec[f].intent = "none"
         /\ (rec[f].intent = "none") <=> (rec[f].peer = NoPeer)
    /\ \A f, g \in Folders :
         rec[f].st # "none" /\ rec[g].st # "none" /\ Slot[f] = Slot[g] => f = g

\* reconcileManagedFolders for one configured folder
PauseReasons(record, f) ==
    (IF record.manual THEN {"manual"} ELSE {})
      \cup (IF record.firstSync THEN {"first-sync"} ELSE {})
      \cup (IF record.intent # "none" THEN {"membership"} ELSE {})
      \cup (IF record.stop THEN {"stop"} ELSE {})
      \cup (IF record.st # "none" /\ card /\ Slot[f] \in marker THEN {} ELSE {"health"})

\* applyInventory: one row for each folder of the session
Rows(session, doc) ==
    [f \in Folders |-> IF session[f].on THEN PauseReasons(doc.rec[f], f) ELSE NoRow]

\* findFolder and folderSafeForAction
RowSafe(f) == row[f] # NoRow /\ "health" \notin row[f]

\* deviceFolderMemberships
deviceFolderMemberships(p) == {f \in Folders : sess[f].on /\ p \in sess[f].devs}

\* folderWithMembership
folderWithMembership(f, p, intent) ==
    IF intent = "share" THEN sess[f].devs \cup {p} ELSE sess[f].devs \ {p}

EmptySession == [f \in Folders |-> NoSession]

-----------------------------------------------------------------------------
(* Building blocks.                                                         *)

Fine == UNCHANGED faults
Fault == faults < MaxFaults /\ faults' = faults + 1

\* persistLocked: temporary file, fsync, rename, syncfs.  A failure is reported
\* before or after the rename; most callers then restore memory, SetManual and
\* SetFirstSync do not.
Persisted(doc) == mem' = doc /\ disk' = doc
PersistRolledBack(doc) == disk' \in {disk, doc} /\ UNCHANGED mem
PersistKept(doc) == mem' = doc /\ disk' \in {disk, doc}

WithRecord(f, record) == [mem EXCEPT !.rec[f] = record]

\* a REST request that changes upstream: applied and acknowledged, lost, or
\* applied with the answer lost.  Only the first is reported as success.
Rest(applied, missed, success, failure) ==
    \/ applied /\ success /\ Fine
    \/ (applied \/ missed) /\ failure /\ Fault

Goto(next) == pc' = next /\ UNCHANGED <<booting, opFolder, opDevs, recovered>>
Return == /\ pc' = "idle" /\ booting' = FALSE /\ opFolder' = NoFolder
          /\ opDevs' = {} /\ recovered' = {}
Exit == /\ pc' = "down" /\ booting' = FALSE /\ opFolder' = NoFolder
        /\ opDevs' = {} /\ recovered' = {}
Serving == pc = "idle"

\* what upstream makes of a device list: members that are not configured
\* devices are dropped (external)
Accepted(devs) == devs \cap peers

SetConf(f, config) == conf' = [conf EXCEPT ![f] = config]

\* SetFolderPaused: a PATCH; a folder that is gone answers 404
SetFolderPaused(f, paused, success, failure) ==
    \/ conf[f].on /\ Rest(SetConf(f, [conf[f] EXCEPT !.paused = paused]),
                          UNCHANGED conf, success, failure)
    \/ ~conf[f].on /\ UNCHANGED conf /\ failure /\ Fine


-----------------------------------------------------------------------------
(* CreateFolder and onboardingManager.Create.                               *)

\* mutant: BeginAdd does not compare card and kind
CreateBeginAnySlot(f, devs) ==
    /\ Serving /\ card /\ devs # {} /\ devs \subseteq peers
    /\ \A g \in Folders : sess[g].on => Slot[g] # Slot[f]
    /\ marker' = marker \cup {Slot[f]}
    /\ mem.rec[f].st = "none"
    /\ Persisted(WithRecord(f, [NoRecord EXCEPT !.st = "adding", !.firstSync = TRUE])) /\ Fine
    /\ pc' = "add-post" /\ opFolder' = f /\ opDevs' = devs
    /\ UNCHANGED <<booting, recovered, upVars, viewVars, card>>

\* the reviewed plan still holds: storage first, then BeginAdd
CreateBegin(f, devs) ==
    /\ Serving /\ card /\ devs # {} /\ devs \subseteq peers
    /\ \A g \in Folders : sess[g].on => Slot[g] # Slot[f]
    /\ marker' = marker \cup {Slot[f]}
    /\ LET refused == \E g \in Folders : mem.rec[g].st # "none" /\ (g = f \/ Slot[g] = Slot[f])
           added == WithRecord(f, [NoRecord EXCEPT !.st = "adding", !.firstSync = TRUE])
       IN \/ /\ ~refused /\ Persisted(added) /\ Fine
             /\ pc' = "add-post" /\ opFolder' = f /\ opDevs' = devs
             /\ UNCHANGED <<booting, recovered>>
          \/ ~refused /\ PersistRolledBack(added) /\ Fault /\ UNCHANGED opVars
          \/ refused /\ UNCHANGED <<opVars, docVars, faults>>
    /\ UNCHANGED <<upVars, viewVars, card>>

\* mutant: the folder is not created paused
CreatePostRunning ==
    /\ pc = "add-post"
    /\ Rest(SetConf(opFolder, [on |-> TRUE, paused |-> FALSE, devs |-> Accepted(opDevs)]),
            UNCHANGED conf, Goto("add-activate"), Goto("add-rollback"))
    /\ UNCHANGED <<docVars, peers, viewVars, marker, card>>

\* AddManagedFolder: a POST, not read back; it replaces a folder of that id
CreatePost ==
    /\ pc = "add-post"
    /\ Rest(SetConf(opFolder, [on |-> TRUE, paused |-> TRUE, devs |-> Accepted(opDevs)]),
            UNCHANGED conf, Goto("add-activate"), Goto("add-rollback"))
    /\ UNCHANGED <<docVars, peers, viewVars, marker, card>>

\* controls.Remove after a POST that reported an error
CreateRollback ==
    /\ pc = "add-rollback"
    /\ \/ Persisted(WithRecord(opFolder, NoRecord)) /\ Fine
       \/ PersistRolledBack(WithRecord(opFolder, NoRecord)) /\ Fault
    /\ Return
    /\ UNCHANGED <<upVars, viewVars, marker, card>>

\* controls.Activate, then the session and the status rows
CreateActivate ==
    /\ pc = "add-activate"
    /\ LET active == WithRecord(opFolder, [mem.rec[opFolder] EXCEPT !.st = "active"]) IN
       \/ /\ Persisted(active) /\ Fine
          /\ sess' = [sess EXCEPT ![opFolder] = [on |-> TRUE, devs |-> opDevs]]
          /\ row' = Rows(sess', active)
       \/ PersistRolledBack(active) /\ Fault /\ UNCHANGED viewVars
    /\ Return
    /\ UNCHANGED <<upVars, marker, card>>

-----------------------------------------------------------------------------
(* FolderMembership: record the intent, patch and verify, clear the intent, *)
(* unpause when nothing else keeps the folder paused.                       *)

MembershipBegin(f, p, intent) ==
    /\ Serving /\ RowSafe(f) /\ sess[f].on /\ p \in peers
    /\ LET record == mem.rec[f]
           same == record.intent = intent /\ record.peer = p
           begun == WithRecord(f, [record EXCEPT !.intent = intent, !.peer = p])
       IN /\ folderWithMembership(f, p, intent) # sess[f].devs \/ same
          /\ record.st = "active"
          /\ record.intent = "none" \/ same
          /\ \/ /\ IF same THEN UNCHANGED docVars ELSE Persisted(begun)
                /\ Fine
                /\ pc' = "share-patch" /\ opFolder' = f
                /\ row' = Rows(sess, mem')
                /\ UNCHANGED <<booting, opDevs, recovered>>
             \/ ~same /\ PersistRolledBack(begun) /\ Fault /\ UNCHANGED <<opVars, row>>
    /\ UNCHANGED <<upVars, sess, marker, card>>

\* SetManagedFolderDevices: PATCH paused and devices, GET, compare
MembershipTarget(f) == folderWithMembership(f, mem.rec[f].peer, mem.rec[f].intent)

\* mutant: the resulting membership is not read back and compared
SetManagedFolderDevicesUnverified(f, success, failure) ==
    \/ conf[f].on
         /\ Rest(SetConf(f, [conf[f] EXCEPT !.paused = TRUE, !.devs = Accepted(MembershipTarget(f))]),
                 UNCHANGED conf, success, failure)
    \/ ~conf[f].on /\ UNCHANGED conf /\ failure /\ Fine

SetManagedFolderDevices(f, success, failure) ==
    LET target == MembershipTarget(f)
        applied == SetConf(f, [conf[f] EXCEPT !.paused = TRUE, !.devs = Accepted(target)])
    IN \/ conf[f].on /\ Accepted(target) = target
            /\ Rest(applied, UNCHANGED conf, success, failure)
       \/ conf[f].on /\ Accepted(target) # target /\ applied /\ failure /\ Fine
       \/ ~conf[f].on /\ UNCHANGED conf /\ failure /\ Fine

JoinSession(f) == sess' = [sess EXCEPT ![f].devs = MembershipTarget(f)]

MembershipPatch ==
    /\ pc = "share-patch"
    /\ SetManagedFolderDevices(opFolder,
           Goto("share-complete") /\ JoinSession(opFolder), Return /\ UNCHANGED sess)
    /\ UNCHANGED <<docVars, peers, row, marker, card>>

WithoutIntent(f) == WithRecord(f, [mem.rec[f] EXCEPT !.intent = "none", !.peer = NoPeer])

MembershipComplete ==
    /\ pc = "share-complete"
    /\ \/ Persisted(WithoutIntent(opFolder)) /\ Fine /\ Goto("share-unpause")
       \/ PersistRolledBack(WithoutIntent(opFolder)) /\ Fault /\ Return
    /\ UNCHANGED <<upVars, viewVars, marker, card>>

MembershipUnpause ==
    /\ pc = "share-unpause"
    /\ IF PauseReasons(mem.rec[opFolder], opFolder) = {}
       THEN SetFolderPaused(opFolder, FALSE, row' = Rows(sess, mem), UNCHANGED row)
       ELSE row' = Rows(sess, mem) /\ UNCHANGED conf /\ Fine
    /\ Return
    /\ UNCHANGED <<docVars, peers, sess, marker, card>>

FolderMembership ==
    \/ \E f \in Folders, p \in Peers, intent \in {"share", "unshare"} :
         MembershipBegin(f, p, intent)
    \/ MembershipPatch
    \/ MembershipComplete
    \/ MembershipUnpause

-----------------------------------------------------------------------------
(* FolderAction stop and recoverPendingFolderStops: every pending stop is   *)
(* taken through pause, upstream removal, marker removal and the record, in *)
(* this order.  At run time an error leaves the controller without folders  *)
(* (session.Folders becomes nil); at start-up it ends the process.          *)

\* mutant: BeginStop accepts a folder with a pending membership change
StopBeginAnyIntent(f) ==
    /\ Serving /\ RowSafe(f) /\ sess[f].on /\ card /\ Slot[f] \in marker
    /\ mem.rec[f].st = "active"
    /\ Persisted(WithRecord(f, [mem.rec[f] EXCEPT !.stop = TRUE])) /\ Fine /\ Goto("stops")
    /\ UNCHANGED <<upVars, viewVars, marker, card>>

StopBegin(f) ==
    /\ Serving /\ RowSafe(f) /\ sess[f].on /\ card /\ Slot[f] \in marker
    /\ mem.rec[f].st = "active" /\ mem.rec[f].intent = "none"
    /\ LET stopping == WithRecord(f, [mem.rec[f] EXCEPT !.stop = TRUE]) IN
       \/ Persisted(stopping) /\ Fine /\ Goto("stops")
       \/ PersistRolledBack(stopping) /\ Fault /\ UNCHANGED opVars
    /\ UNCHANGED <<upVars, viewVars, marker, card>>

PendingStops == {f \in Folders : mem.rec[f].st # "none" /\ mem.rec[f].stop}

StopError == IF booting THEN Exit /\ UNCHANGED sess ELSE Return /\ sess' = EmptySession

\* mutant: the marker is required although upstream no longer has the folder
StopCheckMarkerRequired(f) ==
    /\ pc = "stops" /\ f \in PendingStops
    /\ \/ /\ card /\ Slot[f] \in marker
          /\ pc' = IF sess[f].on THEN "stop-pause" ELSE "stop-remove"
          /\ opFolder' = f
          /\ UNCHANGED <<booting, opDevs, recovered, sess>>
       \/ ~(card /\ Slot[f] \in marker) /\ StopError
    /\ UNCHANGED <<docVars, upVars, row, marker, card, faults>>

\* the card and the marker are validated before upstream is touched
StopCheck(f) ==
    /\ pc = "stops" /\ f \in PendingStops
    /\ \/ /\ card /\ (sess[f].on => Slot[f] \in marker)
          /\ pc' = IF sess[f].on THEN "stop-pause" ELSE "stop-remove"
          /\ opFolder' = f
          /\ UNCHANGED <<booting, opDevs, recovered, sess>>
       \/ ~(card /\ (sess[f].on => Slot[f] \in marker)) /\ StopError
    /\ UNCHANGED <<docVars, upVars, row, marker, card, faults>>

StopPause ==
    /\ pc = "stop-pause"
    /\ SetFolderPaused(opFolder, TRUE, Goto("stop-remove") /\ UNCHANGED sess, StopError)
    /\ UNCHANGED <<docVars, peers, row, marker, card>>

\* RemoveManagedFolder: idempotent and verified
StopRemove ==
    /\ pc = "stop-remove"
    /\ Rest(SetConf(opFolder, NoConfig), UNCHANGED conf,
            Goto("stop-marker") /\ UNCHANGED sess, StopError)
    /\ UNCHANGED <<docVars, peers, row, marker, card>>

StopMarker ==
    /\ pc = "stop-marker"
    /\ \/ /\ card /\ marker' = marker \ {Slot[opFolder]}
          /\ \/ Goto("stop-forget") /\ UNCHANGED sess /\ Fine
             \/ StopError /\ Fault
       \/ ~card /\ StopError /\ UNCHANGED <<marker, faults>>
    /\ UNCHANGED <<docVars, upVars, row, card>>

StopForget ==
    /\ pc = "stop-forget"
    /\ LET forgotten == WithRecord(opFolder, NoRecord) IN
       \/ /\ Persisted(forgotten) /\ Fine
          /\ sess' = [sess EXCEPT ![opFolder] = NoSession]
          /\ pc' = "stops" /\ opFolder' = NoFolder /\ UNCHANGED <<booting, opDevs, recovered>>
       \/ PersistRolledBack(forgotten) /\ Fault /\ StopError
    /\ UNCHANGED <<upVars, row, marker, card>>

StopsDone ==
    /\ pc = "stops" /\ PendingStops = {}
    /\ IF booting THEN Goto("removal") /\ UNCHANGED row
       ELSE Return /\ row' = Rows(sess, mem)
    /\ UNCHANGED <<docVars, upVars, sess, marker, card, faults>>

FolderStop ==
    \/ \E f \in Folders : StopBegin(f) \/ StopCheck(f)
    \/ StopPause
    \/ StopRemove
    \/ StopMarker
    \/ StopForget
    \/ StopsDone

-----------------------------------------------------------------------------
(* DeviceAction add and remove.                                             *)

\* AddPeer: an unacknowledged request differs from a success only in the answer
DeviceAdd(p) ==
    /\ Serving /\ p \notin peers
    /\ peers' = peers \cup {p}
    /\ UNCHANGED <<opVars, docVars, conf, viewVars, marker, card, faults>>

\* the peer must be configured and in no folder of the session; BeginDeviceRemoval
DeviceRemoveBegin(p) ==
    /\ Serving /\ p \in peers /\ deviceFolderMemberships(p) = {}
    /\ mem.removal \in {NoPeer, p}
    /\ LET begun == [mem EXCEPT !.removal = p] IN
       \/ /\ IF mem.removal = p THEN UNCHANGED docVars ELSE Persisted(begun)
          /\ Fine /\ Goto("remove-peer")
       \/ mem.removal = NoPeer /\ PersistRolledBack(begun) /\ Fault /\ UNCHANGED opVars
    /\ UNCHANGED <<upVars, viewVars, marker, card>>

RemovalError == IF booting THEN Exit ELSE Return

\* Syncthing forgets the device, also as a member of folders (external)
DropDevice(p) ==
    /\ peers' = peers \ {p}
    /\ conf' = [f \in Folders |-> [conf[f] EXCEPT !.devs = @ \ {p}]]

\* RemovePeer: idempotent and verified
RemovePeer ==
    /\ pc = "remove-peer"
    /\ Rest(DropDevice(mem.removal), UNCHANGED upVars, Goto("remove-complete"), RemovalError)
    /\ UNCHANGED <<docVars, viewVars, marker, card>>

\* CompleteDeviceRemoval; the last step of start-up when it runs there
RemoveComplete ==
    /\ pc = "remove-complete"
    /\ LET done == [mem EXCEPT !.removal = NoPeer] IN
       \/ Persisted(done) /\ Fine /\ Return
       \/ PersistRolledBack(done) /\ Fault /\ RemovalError
    /\ row' = IF booting THEN Rows(sess, mem) ELSE row
    /\ UNCHANGED <<upVars, sess, marker, card>>

DeviceRemoval ==
    \/ \E p \in Peers : DeviceRemoveBegin(p)
    \/ RemovePeer
    \/ RemoveComplete

-----------------------------------------------------------------------------
(* The handlers that change a pause reason.  They keep the change in memory *)
(* when the document cannot be written.                                     *)

\* FolderAction pause
FolderPause(f) ==
    /\ Serving /\ RowSafe(f) /\ mem.rec[f].st # "none"
    /\ LET paused == WithRecord(f, [mem.rec[f] EXCEPT !.manual = TRUE]) IN
       \/ PersistKept(paused) /\ Fault /\ UNCHANGED <<conf, row>>
       \/ /\ Persisted(paused)
          /\ SetFolderPaused(f, TRUE, row' = [row EXCEPT ![f] = @ \cup {"manual"}], UNCHANGED row)
    /\ UNCHANGED <<opVars, peers, sess, marker, card>>

\* FolderAction resume: onlyManualPause reads the status row
FolderResume(f) ==
    /\ Serving /\ RowSafe(f) /\ row[f] \subseteq {"manual"} /\ mem.rec[f].st # "none"
    /\ LET resumed == WithRecord(f, [mem.rec[f] EXCEPT !.manual = FALSE]) IN
       \/ PersistKept(resumed) /\ Fault /\ UNCHANGED <<conf, row>>
       \/ /\ Persisted(resumed)
          /\ SetFolderPaused(f, FALSE, row' = [row EXCEPT ![f] = {}], UNCHANGED row)
    /\ UNCHANGED <<opVars, peers, sess, marker, card>>

\* StartFirstSync, its completion on the card taken whole (module FirstSync)
StartFirstSync(f) ==
    /\ Serving /\ sess[f].on /\ card /\ mem.rec[f].firstSync
    /\ LET cleared == WithRecord(f, [mem.rec[f] EXCEPT !.firstSync = FALSE]) IN
       \/ PersistKept(cleared) /\ Fault /\ UNCHANGED <<conf, row>>
       \/ /\ Persisted(cleared)
          /\ IF PauseReasons(cleared.rec[f], f) = {}
             THEN SetFolderPaused(f, FALSE, row' = Rows(sess, cleared), UNCHANGED row)
             ELSE row' = Rows(sess, cleared) /\ UNCHANGED conf /\ Fine
    /\ UNCHANGED <<opVars, peers, sess, marker, card>>

\* EnrollCard, PlanFolder and the other handlers that end in applyInventory
RefreshStatus ==
    /\ Serving /\ row' = Rows(sess, mem)
    /\ UNCHANGED <<opVars, docVars, upVars, sess, marker, card, faults>>

-----------------------------------------------------------------------------
(* Start-up: load and validate the document, reconcile interrupted adds,    *)
(* pause offline, start upstream, then complete memberships, stops and the  *)
(* device removal.  Any error ends the process; the supervisor starts it    *)
(* again.                                                                   *)

\* newFolderControlStore, ReadAvailableManagedFoldersForBindings
BootLoad ==
    /\ pc = "down" /\ LoadableRecords(disk.rec)
    /\ mem' = disk
    /\ sess' = [f \in Folders |->
                  IF disk.rec[f].st # "none" /\ conf[f].on
                  THEN [on |-> TRUE, devs |-> conf[f].devs] ELSE NoSession]
    /\ pc' = "reconcile" /\ booting' = TRUE /\ UNCHANGED <<opFolder, opDevs, recovered>>
    /\ UNCHANGED <<disk, upVars, row, marker, card, faults>>

\* mutant: every interrupted add is activated
BootReconcileActivates(f) ==
    /\ pc = "reconcile" /\ mem.rec[f].st = "adding"
    /\ Persisted(WithRecord(f, [mem.rec[f] EXCEPT !.st = "active"])) /\ Fine
    /\ UNCHANGED <<opVars, upVars, viewVars, marker, card>>

\* an add whose POST reached upstream is activated, another one is dropped
BootReconcile(f) ==
    /\ pc = "reconcile" /\ mem.rec[f].st = "adding"
    /\ LET settled == WithRecord(f, IF sess[f].on THEN [mem.rec[f] EXCEPT !.st = "active"]
                                    ELSE NoRecord)
       IN \/ Persisted(settled) /\ Fine /\ UNCHANGED opVars
          \/ PersistRolledBack(settled) /\ Fault /\ Exit
    /\ UNCHANGED <<upVars, viewVars, marker, card>>

\* "active registered folder is missing from upstream config"
Unreconciled ==
    \E f \in Folders : mem.rec[f].st = "active" /\ ~sess[f].on /\ ~mem.rec[f].stop

BootReconciled ==
    /\ pc = "reconcile" /\ \A f \in Folders : mem.rec[f].st # "adding"
    /\ IF Unreconciled THEN Exit ELSE Goto("gate")
    /\ UNCHANGED <<docVars, upVars, viewVars, marker, card, faults>>

\* firstSyncManager.recover may require or clear first sync of a folder whose
\* card is there (module FirstSync decides which); then ApplyOfflinePauseSet
\* and the upstream process
BootGate ==
    /\ pc = "gate"
    /\ \E pending \in SUBSET Folders :
         LET decided == [mem EXCEPT !.rec = [f \in Folders |->
                           IF sess[f].on THEN [mem.rec[f] EXCEPT !.firstSync = f \in pending]
                           ELSE mem.rec[f]]]
         IN /\ ~card => \A f \in Folders : sess[f].on => (f \in pending <=> mem.rec[f].firstSync)
            /\ pending \subseteq {f \in Folders : sess[f].on}
            /\ Persisted(decided)
            /\ conf' = [f \in Folders |->
                          IF sess[f].on
                          THEN [conf[f] EXCEPT !.paused = PauseReasons(decided.rec[f], f) # {}]
                          ELSE conf[f]]
    /\ Goto("members")
    /\ UNCHANGED <<peers, viewVars, marker, card, faults>>

\* recoverFolderMemberships, one folder: patch, verify, clear the intent.  (A
\* failure to clear it is an unacknowledged patch, or this step and Crash.)
BootMember(f) ==
    /\ pc = "members" /\ mem.rec[f].st # "none" /\ mem.rec[f].intent # "none"
    /\ \/ /\ sess[f].on
          /\ SetManagedFolderDevices(f,
               /\ JoinSession(f) /\ Persisted(WithoutIntent(f))
               /\ recovered' = recovered \cup {f}
               /\ UNCHANGED <<pc, booting, opFolder, opDevs>>,
               Exit /\ UNCHANGED <<docVars, sess>>)
       \/ ~sess[f].on /\ Exit /\ UNCHANGED <<conf, docVars, sess, faults>>
    /\ UNCHANGED <<peers, row, marker, card>>

BootMembersDone ==
    /\ pc = "members" /\ \A f \in Folders : mem.rec[f].intent = "none"
    /\ Goto("unpause")
    /\ UNCHANGED <<docVars, upVars, viewVars, marker, card, faults>>

\* the recovered folders get the pause state their other reasons ask for
BootUnpause(f) ==
    /\ pc = "unpause" /\ f \in recovered
    /\ SetFolderPaused(f, PauseReasons(mem.rec[f], f) # {},
         recovered' = recovered \ {f} /\ UNCHANGED <<pc, booting, opFolder, opDevs>>, Exit)
    /\ UNCHANGED <<docVars, peers, viewVars, marker, card>>

BootUnpaused ==
    /\ pc = "unpause" /\ recovered = {}
    /\ Goto("stops")
    /\ UNCHANGED <<docVars, upVars, viewVars, marker, card, faults>>

\* recoverPendingDeviceRemoval; without an intent the controller serves
BootRemoval ==
    /\ pc = "removal"
    /\ \/ mem.removal = NoPeer /\ Return /\ row' = Rows(sess, mem)
       \/ /\ mem.removal # NoPeer /\ UNCHANGED row
          /\ IF deviceFolderMemberships(mem.removal) = {} THEN Goto("remove-peer") ELSE Exit
    /\ UNCHANGED <<docVars, upVars, sess, marker, card, faults>>

Bootstrap ==
    \/ BootLoad
    \/ BootReconciled
    \/ BootGate
    \/ BootMembersDone
    \/ BootUnpaused
    \/ BootRemoval
    \/ \E f \in Folders : BootReconcile(f) \/ BootMember(f) \/ BootUnpause(f)

-----------------------------------------------------------------------------
(* The environment.                                                         *)

GoDown ==
    /\ Exit /\ sess' = EmptySession /\ row' = [f \in Folders |-> NoRow] /\ mem' = disk
    /\ UNCHANGED <<disk, upVars, marker, card>>

\* the controller is stopped while it serves (a game starts, the user stops it)
Restart == Serving /\ GoDown /\ Fine
\* or dies at any other moment
Crash == pc \notin {"down", "idle"} /\ GoDown /\ Fault

CardRemoved ==
    /\ card /\ card' = FALSE /\ Fault
    /\ UNCHANGED <<opVars, docVars, upVars, viewVars, marker>>
CardInserted ==
    /\ ~card /\ card' = TRUE
    /\ UNCHANGED <<opVars, docVars, upVars, viewVars, marker, faults>>

-----------------------------------------------------------------------------
Init ==
    /\ pc = "down" /\ booting = FALSE /\ opFolder = NoFolder /\ opDevs = {} /\ recovered = {}
    /\ mem = [rec |-> [f \in Folders |-> NoRecord], removal |-> NoPeer] /\ disk = mem
    /\ conf = [f \in Folders |-> NoConfig] /\ peers = {}
    /\ sess = EmptySession /\ row = [f \in Folders |-> NoRow]
    /\ marker = {} /\ card = TRUE /\ faults = 0

CreateFolder ==
    \/ \E f \in Folders, devs \in SUBSET Peers : CreateBegin(f, devs)
    \/ CreatePost
    \/ CreateRollback
    \/ CreateActivate

\* everything but forgetting a peer
FolderNext ==
    \/ CreateFolder
    \/ FolderMembership
    \/ FolderStop
    \/ Bootstrap
    \/ RefreshStatus
    \/ \E f \in Folders : FolderPause(f) \/ FolderResume(f) \/ StartFirstSync(f)
    \/ \E p \in Peers : DeviceAdd(p)
    \/ Restart
    \/ Crash
    \/ CardRemoved
    \/ CardInserted

Next == FolderNext \/ DeviceRemoval

Spec == Init /\ [][Next]_vars

\* The controller takes the next step of what it has begun, the supervisor
\* starts a stopped service, the service is stopped again and again (every game
\* does it) and a pulled card comes back.
Progress ==
    \/ CreatePost \/ CreateRollback \/ CreateActivate
    \/ MembershipPatch \/ MembershipComplete \/ MembershipUnpause
    \/ \E f \in Folders : StopCheck(f)
    \/ StopPause \/ StopRemove \/ StopMarker \/ StopForget \/ StopsDone
    \/ RemovePeer \/ RemoveComplete
    \/ Bootstrap

Fairness == WF_vars(Progress) /\ WF_vars(CardInserted) /\ SF_vars(Restart)

FolderSpec == Init /\ [][FolderNext]_vars /\ Fairness
FairSpec == Spec /\ Fairness

-----------------------------------------------------------------------------
(* Properties.                                                              *)

\* validateFolderControlRecords: whatever is interrupted, the document on disk
\* is one that the next start-up accepts.  (BeginMembership does not look at a
\* pending stop; it is never reached with one.)
RecordsLoadable == LoadableRecords(disk.rec)

\* The document in memory and on disk is well typed and can be loaded.
DocumentInv == TypeOK /\ RecordsLoadable

\* Bootstrap's "active registered folder is missing from upstream config" never
\* happens: an active record without a pending stop has its upstream folder.
NoFolderLost ==
    \A f \in Folders : disk.rec[f].st = "active" /\ ~disk.rec[f].stop => conf[f].on

\* BeginAdd and recoverPendingFolderStops: upstream never runs two folders on
\* the same card directory, although an unacknowledged POST can leave a folder
\* that no record names.
OneRunningFolderPerTree ==
    \A f, g \in Folders :
        Slot[f] = Slot[g] /\ conf[f].on /\ conf[g].on /\ ~conf[f].paused /\ ~conf[g].paused
          => f = g

\* Such a folder is never unpaused: no handler reaches it.
OrphanStaysPaused ==
    \A f \in Folders : conf[f].on /\ disk.rec[f].st = "none" => conf[f].paused

\* FolderMembership: when the controller serves and no membership change is
\* pending, the peers it shows for a folder are those upstream shares it with.
SessionMatchesUpstream ==
    pc = "idle" =>
        \A f \in Folders : sess[f].on /\ mem.rec[f].intent = "none"
                             => conf[f].on /\ sess[f].devs = conf[f].devs

\* local_stop.go and membership.go: a stop or a membership change that was
\* recorded durably is completed, at run time or by a later start-up.
InterruptedWorkCompletes ==
    \A f \in Folders :
        (disk.rec[f].stop \/ disk.rec[f].intent # "none")
          ~> (~disk.rec[f].stop /\ disk.rec[f].intent = "none")

\* ui-control-v1.md: "Removal is refused while any managed folder still includes
\* the peer."
RemovalKeepsMemberships ==
    [][\A p \in peers \ peers', f \in Folders :
         mem.rec[f].st = "active" => p \notin conf[f].devs]_vars

\* ui-control-v1.md: "Startup completes an interrupted removal."
InterruptedRemovalCompletes ==
    disk.removal # NoPeer ~> disk.removal = NoPeer

\* ui-control-v1.md: "Resume refuses while any non-manual reason remains"; here
\* the reason is a recorded stop, which "forces the folder paused".
StoppingFolderStaysPaused ==
    [][\A f \in Folders : conf[f].paused /\ ~conf'[f].paused => ~mem.rec[f].stop]_vars

=============================================================================
