-------------------------- MODULE FirstSyncProofs --------------------------
(***************************************************************************)
(* Proofs about module FirstSync: type correctness, the safety invariants  *)
(* of the snapshot and of the completion marker, and the spawn gate.       *)
(***************************************************************************)
EXTENDS FirstSync, TLAPS

-----------------------------------------------------------------------------
(* The inductive invariant, in parts.                                       *)

\* A snapshot the user has not had removed reaches the medium under its final
\* name only after the cache, and then both hold the same whole snapshot.
SnapshotInv ==
    \A n \in Names \ cleaned :
        /\ dkPlace[n] = "final" => fsPlace[n] = "final"
        /\ fsPlace[n] = "final" =>
             /\ fsHeader[n].state = "ready" /\ dkHeader[n] = fsHeader[n]
             /\ fsContent[n] /\ dkContent[n]

\* What prepareLocked has established at each of its steps while the card is in.
PrepareInv ==
    pc \in PreparePCs /\ present =>
        /\ opName \in Names \ cleaned
        /\ pc \in PreparePCs \ {"prep-sync-promote", "prep-verify"} =>
             fsPlace[opName] = "partial"
        /\ pc # "prep-copy" => fsContent[opName]
        /\ pc \in {"prep-ready", "prep-sync-ready", "prep-promote"} => dkContent[opName]
        /\ pc \in {"prep-sync-ready",
            "prep-promote"} => fsHeader[opName].state = "ready"
        /\ pc = "prep-promote" => dkHeader[opName] = fsHeader[opName]

CleanInv == pc = "clean-remove" => opName \in cleaned

\* n is a whole snapshot of this epoch, in the cache and on the medium
Held(n, epoch) ==
    /\ fsPlace[n] = "final" /\ dkPlace[n] = "final"
    /\ fsHeader[n] = [state |-> "ready", epoch |-> epoch] /\ dkHeader[n] = fsHeader[n]
    /\ fsContent[n] /\ dkContent[n]

Backed(marker) ==
    marker.state = "complete" =>
        /\ marker.epoch # 0
        /\ marker.mode = "snapshot" =>
             /\ marker.name \in Names
             /\ marker.name \in cleaned \/ Held(marker.name, marker.epoch)

\* What Complete has established at each of its steps.
CompleteInv ==
    pc \in CompletePCs =>
        /\ mem.firstSync /\ mem.epoch # 0
        /\ sessType # "sendonly" => opName \in Names
        /\ present /\ pc = "done-confirm" =>
             /\ sessType # "sendonly"
             /\ SnapshotValid(opName, mem.epoch)
        /\ present /\ pc \notin {"done-confirm",
            "done-clear"} /\ sessType # "sendonly" =>
             opName \in cleaned \/ Held(opName, mem.epoch)
        /\ present /\ pc = "done-sync-complete" =>
             fsMarker.state = "complete" /\ fsMarker.epoch = mem.epoch
        /\ pc = "done-clear" =>
             fsMarker.state = "complete" /\ fsMarker.epoch = mem.epoch /\ dkMarker = fsMarker

\* the completion marker of this epoch, in the cache and on the medium
MarkersAt(epoch) ==
    fsMarker.state = "complete" /\ fsMarker.epoch = epoch /\ dkMarker = fsMarker

\* A completion marker of the epoch of a cleared record is never only cached.
NoCachedCompletion(record) ==
    ~record.firstSync /\ fsMarker.state = "complete" /\ fsMarker.epoch = record.epoch
        => dkMarker = fsMarker

\* The record in memory against the one on disk: a failed persist can leave a
\* cleared record on disk only below the epoch required in memory, and only
\* while the marker is revoked.
RecordInv ==
    pc # "down" =>
        /\ mem.epoch >= store.epoch
        /\ mem.firstSync /\ ~store.firstSync => mem.epoch > store.epoch /\ revoked

RevokeInv == pc \in {"inv-sync", "inv-require"} => revoked

ClearedInv ==
    /\ NoCachedCompletion(store)
    /\ pc # "down" => NoCachedCompletion(mem)
    /\ ~revoked =>
         /\ ~store.firstSync => MarkersAt(store.epoch)
         /\ pc # "down" /\ ~mem.firstSync => MarkersAt(mem.epoch)

\* What Bootstrap knows when it is about to write the pause set.
BootInv ==
    /\ pc \in BootPCs => mem = store /\ sessType = upType
    /\ pc = "gate" /\ bound /\ inventory /\ ~mem.firstSync =>
         ~revoked /\ ((fsMarker.mode = "sendonly") <=> (upType = "sendonly"))

IInv ==
    /\ TypeOK
    /\ SnapshotInv /\ PrepareInv /\ CleanInv
    /\ Backed(fsMarker) /\ Backed(dkMarker) /\ CompleteInv
    /\ RecordInv /\ RevokeInv /\ ClearedInv /\ BootInv

-----------------------------------------------------------------------------
(* Type correctness.                                                        *)

\* RequireFirstSync stays within the epochs.
LEMMA RequiredType ==
    ASSUME RecordType, mem.epoch < MaxEpoch
    PROVE  Required(mem) \in Record
<1>1. mem.epoch + 1 \in 0..MaxEpoch
  BY BoundAssumption DEF RecordType, Record
<1> QED BY <1>1 DEF RecordType, Record, Required

\* Every action keeps the type invariant; PreparePromote needs to know that a
\* snapshot is in hand.
LEMMA TypeStep ==
    ASSUME TypeOK, PrepareInv, [Next]_vars
    PROVE  TypeOK'
<1> USE NameAssumption, TypeAssumption, BoundAssumption
<1> USE DEF vars, opVars, fsVars, dkVars, cardVars, upVars, histVars
<1> USE DEF TypeOK, Types, Marker, Header, NoMarker, NoHeader
<1> USE DEF PCs, BootPCs, PreparePCs, CompletePCs, TypePCs, CleanPCs, CardPCs
<1>1. ASSUME NEW n \in Names, PrepareBegin(n) PROVE TypeOK'
  <2>1. StepType'
    BY <1>1 DEF PrepareBegin, StepType
  <2>2. CardType'
    BY <1>1 DEF PrepareBegin, CardType, StepType, RecordType, Record
  <2> QED BY <2>1, <2>2, <1>1
    DEF PrepareBegin, FlagType, RecordType, ConfigType, HistoryType
<1>2. ASSUME NEW n \in Names, CleanupBegin(n) PROVE TypeOK'
  <2>1. StepType'
    BY <1>2 DEF CleanupBegin, StepType
  <2>2. HistoryType'
    BY <1>2 DEF CleanupBegin, HistoryType
  <2> QED BY <2>1, <2>2, <1>2
    DEF CleanupBegin, FlagType, RecordType, ConfigType, CardType
<1>3. CASE PrepareCopy
  <2>1. StepType'
    BY <1>3 DEF PrepareCopy, Goto, StepType
  <2>2. CardType'
    BY <1>3 DEF PrepareCopy, Goto, CardType, StepType, RecordType, Record
  <2> QED BY <2>1, <2>2, <1>3
    DEF PrepareCopy, Goto, FlagType, RecordType, ConfigType, HistoryType
<1>4. CASE \/ PrepareSync("prep-sync-copy", "prep-ready")
            \/ PrepareSync("prep-sync-ready", "prep-promote")
            \/ PrepareSync("prep-sync-promote", "prep-verify")
  <2>1. StepType'
    BY <1>4 DEF PrepareSync, SyncFilesystem, Goto, StepType
  <2>2. CardType'
    BY <1>4
      DEF PrepareSync, SyncFilesystem, Goto, CardType, StepType, RecordType, Record
  <2> QED BY <2>1, <2>2, <1>4
    DEF PrepareSync, SyncFilesystem, Goto, FlagType, RecordType, ConfigType,
        HistoryType
<1>5. CASE PrepareReady
  <2>1. StepType'
    BY <1>5 DEF PrepareReady, Goto, StepType
  <2>2. CardType'
    BY <1>5 DEF PrepareReady, Goto, CardType, StepType, RecordType, Record
  <2> QED BY <2>1, <2>2, <1>5
    DEF PrepareReady, Goto, FlagType, RecordType, ConfigType, HistoryType
<1>6. CASE PreparePromote
  <2>1. StepType'
    BY <1>6 DEF PreparePromote, Goto, StepType
  <2>2. CardType'
    BY <1>6 DEF PreparePromote, Goto, CardType, StepType, RecordType, Record
  <2>3. HistoryType'
    <3>1. opName \in Names
      BY <1>6 DEF PreparePromote, PrepareInv, PreparePCs
    <3> QED BY <3>1, <1>6 DEF PreparePromote, HistoryType
  <2> QED BY <2>1, <2>2, <2>3, <1>6
    DEF PreparePromote, Goto, FlagType, RecordType, ConfigType
<1>7. CASE PrepareVerify
  <2>1. StepType'
    BY <1>7 DEF PrepareVerify, Return, PauseReasons, ReasonsFor, StepType
  <2>2. ConfigType'
    BY <1>7 DEF PrepareVerify, Return, PauseReasons, ReasonsFor, ConfigType, Reasons
  <2> QED BY <2>1, <2>2, <1>7
    DEF PrepareVerify, Return, PauseReasons, ReasonsFor, FlagType, RecordType,
        CardType, HistoryType
<1>8. CASE StartFirstSync
  <2>1. StepType'
    BY <1>8 DEF StartFirstSync, StepType
  <2> QED BY <2>1, <1>8
    DEF StartFirstSync, FlagType, RecordType, ConfigType, CardType, HistoryType
<1>9. CASE \/ CompleteSync("done-confirm", "done-pending")
            \/ CompleteSync("done-sync-pending", "done-complete")
            \/ CompleteSync("done-sync-complete", "done-clear")
  <2>1. StepType'
    BY <1>9 DEF CompleteSync, SyncFilesystem, Goto, StepType
  <2>2. CardType'
    BY <1>9
      DEF CompleteSync, SyncFilesystem, Goto, CardType, StepType, RecordType, Record
  <2> QED BY <2>1, <2>2, <1>9
    DEF CompleteSync, SyncFilesystem, Goto, FlagType, RecordType, ConfigType,
        HistoryType
<1>10. CASE \/ CompleteMark("done-pending", "pending", "done-sync-pending")
            \/ CompleteMark("done-complete", "complete", "done-sync-complete")
  <2>1. StepType'
    BY <1>10 DEF CompleteMark, Goto, StepType
  <2>2. FlagType'
    BY <1>10 DEF CompleteMark, Goto, FlagType
  <2>3. CardType'
    BY <1>10 DEF CompleteMark, Goto, CardType, StepType, RecordType, Record
  <2> QED BY <2>1, <2>2, <2>3, <1>10
    DEF CompleteMark, Goto, RecordType, ConfigType, HistoryType
<1>11. CASE CompleteClear
  <2>1. StepType'
    BY <1>11 DEF CompleteClear, PersistOK, PersistFails, Return, Goto, StepType
  <2>2. FlagType'
    BY <1>11 DEF CompleteClear, PersistOK, PersistFails, Return, Goto, FlagType
  <2>3. RecordType'
    BY <1>11
      DEF CompleteClear, PersistOK, PersistFails, Return, Goto, RecordType, Record
  <2>4. HistoryType'
    BY <1>11 DEF CompleteClear, PersistOK, PersistFails, Return, Goto, HistoryType
  <2> QED BY <2>1, <2>2, <2>3, <2>4, <1>11
    DEF CompleteClear, PersistOK, PersistFails, Return, Goto, ConfigType, CardType
<1>12. CASE StartUnpause
  <2>1. StepType'
    BY <1>12 DEF StartUnpause, Return, PauseReasons, ReasonsFor, StepType
  <2>2. FlagType'
    BY <1>12 DEF StartUnpause, Return, PauseReasons, ReasonsFor, FlagType
  <2>3. ConfigType'
    BY <1>12 DEF StartUnpause, Return, PauseReasons, ReasonsFor, ConfigType, Reasons
  <2> QED BY <2>1, <2>2, <2>3, <1>12
    DEF StartUnpause, Return, PauseReasons, ReasonsFor, RecordType, CardType,
        HistoryType
<1>13. ASSUME NEW t \in Types, SetFolderType(t) PROVE TypeOK'
  <2>1. StepType'
    BY <1>13 DEF SetFolderType, StepType
  <2>2. FlagType'
    BY <1>13 DEF SetFolderType, FlagType
  <2> QED BY <2>1, <2>2, <1>13
    DEF SetFolderType, RecordType, ConfigType, CardType, HistoryType
<1>14. ASSUME NEW t \in Types, CreateFolder(t) PROVE TypeOK'
  <2>1. FlagType'
    BY <1>14 DEF CreateFolder, PersistOK, FlagType
  <2>2. RecordType'
    BY <1>14 DEF CreateFolder, PersistOK, RecordType, Record
  <2>3. ConfigType'
    BY <1>14 DEF CreateFolder, PersistOK, ConfigType, Reasons
  <2>4. HistoryType'
    BY <1>14 DEF CreateFolder, PersistOK, HistoryType
  <2> QED BY <2>1, <2>2, <2>3, <2>4, <1>14
    DEF CreateFolder, PersistOK, StepType, CardType
<1>15. CASE InvalidateRemove
  <2>1. StepType'
    BY <1>15 DEF InvalidateRemove, Goto, StepType
  <2>2. FlagType'
    BY <1>15 DEF InvalidateRemove, Goto, FlagType
  <2>3. CardType'
    BY <1>15 DEF InvalidateRemove, Goto, CardType, StepType, RecordType, Record
  <2> QED BY <2>1, <2>2, <2>3, <1>15
    DEF InvalidateRemove, Goto, RecordType, ConfigType, HistoryType
<1>16. CASE InvalidateSync
  <2>1. StepType'
    BY <1>16 DEF InvalidateSync, SyncFilesystem, Goto, StepType
  <2>2. CardType'
    BY <1>16
      DEF InvalidateSync, SyncFilesystem, Goto, CardType, StepType, RecordType,
          Record
  <2> QED BY <2>1, <2>2, <1>16
    DEF InvalidateSync, SyncFilesystem, Goto, FlagType, RecordType, ConfigType,
        HistoryType
<1>17. CASE InvalidateRequire
  <2>1. StepType'
    BY <1>17 DEF InvalidateRequire, PersistOK, PersistFails, Return, Goto, StepType
  <2>2. FlagType'
    BY <1>17 DEF InvalidateRequire, PersistOK, PersistFails, Return, Goto, FlagType
  <2>3. RecordType'
    BY RequiredType, <1>17 DEF InvalidateRequire, PersistOK, PersistFails, RecordType
  <2> QED BY <2>1, <2>2, <2>3, <1>17
    DEF InvalidateRequire, PersistOK, PersistFails, Return, Goto, ConfigType,
        CardType, HistoryType
<1>18. CASE TypePatch
  <2>1. StepType'
    BY <1>18 DEF TypePatch, StepType, Return, PauseReasons, ReasonsFor, StepType
  <2>2. FlagType'
    BY <1>18 DEF TypePatch, StepType, Return, PauseReasons, ReasonsFor, FlagType
  <2>3. ConfigType'
    BY <1>18
      DEF TypePatch, StepType, Return, PauseReasons, ReasonsFor, ConfigType, Reasons
  <2> QED BY <2>1, <2>2, <2>3, <1>18
    DEF TypePatch, StepType, Return, PauseReasons, ReasonsFor, RecordType, CardType,
        HistoryType
<1>19. CASE FolderPause
  <2>1. FlagType'
    BY <1>19 DEF FolderPause, PersistOK, PersistFails, FlagType
  <2>2. RecordType'
    BY <1>19 DEF FolderPause, PersistOK, PersistFails, RecordType, Record
  <2>3. ConfigType'
    BY <1>19 DEF FolderPause, PersistOK, PersistFails, ConfigType, Reasons
  <2> QED BY <2>1, <2>2, <2>3, <1>19
    DEF FolderPause, PersistOK, PersistFails, StepType, CardType, HistoryType
<1>20. CASE FolderResume
  <2>1. FlagType'
    BY <1>20 DEF FolderResume, PersistOK, PersistFails, FlagType
  <2>2. RecordType'
    BY <1>20 DEF FolderResume, PersistOK, PersistFails, RecordType, Record
  <2>3. ConfigType'
    BY <1>20 DEF FolderResume, PersistOK, PersistFails, ConfigType, Reasons
  <2> QED BY <2>1, <2>2, <2>3, <1>20
    DEF FolderResume, PersistOK, PersistFails, StepType, CardType, HistoryType
<1>21. CASE FolderMembership \/ PersistDocument
  <2>1. FlagType'
    BY <1>21 DEF FolderMembership, PersistDocument, PauseReasons, ReasonsFor, FlagType
  <2>2. RecordType'
    BY <1>21 DEF FolderMembership, PersistDocument, PauseReasons, ReasonsFor, RecordType, Record
  <2>3. ConfigType'
    BY <1>21 DEF FolderMembership, PersistDocument, PauseReasons, ReasonsFor, ConfigType, Reasons
  <2> QED BY <2>1, <2>2, <2>3, <1>21
    DEF FolderMembership, PersistDocument, PauseReasons, ReasonsFor, StepType, CardType, HistoryType
<1>22. CASE RefreshStatus
  <2>1. ConfigType'
    BY <1>22 DEF RefreshStatus, PauseReasons, ReasonsFor, ConfigType, Reasons
  <2> QED BY <2>1, <1>22
    DEF RefreshStatus, PauseReasons, ReasonsFor, StepType, FlagType, RecordType,
        CardType, HistoryType
<1>23. CASE CleanupRemove
  <2>1. StepType'
    BY <1>23 DEF CleanupRemove, Goto, StepType
  <2>2. CardType'
    <3>1. NoHeader \in Header
      BY DEF NoHeader, Header
    <3>2. fsHeader' \in [Names -> Header]
      BY <3>1, <1>23 DEF CleanupRemove, CardType
    <3>3. fsContent' \in [Names -> BOOLEAN]
      BY <1>23 DEF CleanupRemove, CardType
    <3>4. fsPlace' \in [Names -> {"none", "partial", "final"}]
      BY <1>23 DEF CleanupRemove, CardType
    <3> QED BY <3>2, <3>3, <3>4, <1>23 DEF CleanupRemove, CardType
  <2> QED BY <2>1, <2>2, <1>23
    DEF CleanupRemove, Goto, FlagType, RecordType, ConfigType, HistoryType
<1>24. CASE CleanupSync
  <2>1. StepType'
    BY <1>24 DEF CleanupSync, SyncFilesystem, Return, StepType
  <2>2. CardType'
    BY <1>24
      DEF CleanupSync, SyncFilesystem, Return, CardType, StepType, RecordType, Record
  <2> QED BY <2>1, <2>2, <1>24
    DEF CleanupSync, SyncFilesystem, Return, FlagType, RecordType, ConfigType,
        HistoryType
<1>25. CASE FolderStop
  <2>1. FlagType'
    BY <1>25 DEF FolderStop, FlagType
  <2> QED BY <2>1, <1>25
    DEF FolderStop, StepType, RecordType, ConfigType, CardType, HistoryType
<1>26. CASE BootLoad
  <2>1. StepType'
    BY <1>26 DEF BootLoad, StepType
  <2>2. FlagType'
    BY <1>26 DEF BootLoad, FlagType
  <2>3. RecordType'
    BY <1>26 DEF BootLoad, RecordType, Record
  <2>4. ConfigType'
    BY <1>26 DEF BootLoad, ConfigType, Reasons
  <2> QED BY <2>1, <2>2, <2>3, <2>4, <1>26 DEF BootLoad, CardType, HistoryType
<1>27. CASE RecoverKind
  <2>1. StepType'
    BY <1>27 DEF RecoverKind, Goto, StepType
  <2>2. CardType'
    <3>1. NoHeader \in Header /\ NoMarker \in Marker
      BY DEF NoHeader, Header, NoMarker, Marker
    <3>2. fsHeader' \in [Names -> Header]
      BY <3>1, <1>27 DEF RecoverKind, CardType
    <3>3. fsContent' \in [Names -> BOOLEAN]
      BY <1>27 DEF RecoverKind, CardType
    <3>4. fsPlace' \in [Names -> {"none", "partial", "final"}]
      BY <1>27 DEF RecoverKind, CardType
    <3>5. fsMarker' \in Marker
      BY <3>1, <1>27 DEF RecoverKind, CardType
    <3> QED BY <3>2, <3>3, <3>4, <3>5, <1>27 DEF RecoverKind, CardType
  <2> QED BY <2>1, <2>2, <1>27
    DEF RecoverKind, Goto, FlagType, RecordType, ConfigType, HistoryType
<1>28. CASE RecoverComplete
  <2>1. StepType'
    BY <1>28 DEF RecoverComplete, SyncFilesystem, PersistOK, Goto, StepType
  <2>2. FlagType'
    BY <1>28 DEF RecoverComplete, SyncFilesystem, PersistOK, Goto, FlagType
  <2>3. RecordType'
    BY <1>28 DEF RecoverComplete, SyncFilesystem, PersistOK, Goto, RecordType, Record
  <2>4. CardType'
    BY <1>28
      DEF RecoverComplete, SyncFilesystem, PersistOK, Goto, CardType, StepType,
          RecordType, Record
  <2>5. HistoryType'
    BY <1>28 DEF RecoverComplete, SyncFilesystem, PersistOK, Goto, HistoryType
  <2> QED BY <2>1, <2>2, <2>3, <2>4, <2>5, <1>28
    DEF RecoverComplete, SyncFilesystem, PersistOK, Goto, ConfigType
<1>29. CASE RecoverRequire
  <2>1. StepType'
    BY <1>29 DEF RecoverRequire, PersistOK, Goto, StepType
  <2>2. FlagType'
    BY <1>29 DEF RecoverRequire, PersistOK, Goto, FlagType
  <2>3. RecordType'
    BY RequiredType, <1>29 DEF RecoverRequire, PersistOK, RecordType
  <2> QED BY <2>1, <2>2, <2>3, <1>29
    DEF RecoverRequire, PersistOK, Goto, ConfigType, CardType, HistoryType
<1>30. CASE RecoverAbsent
  <2>1. StepType'
    BY <1>30 DEF RecoverAbsent, Goto, StepType
  <2> QED BY <2>1, <1>30
    DEF RecoverAbsent, Goto, FlagType, RecordType, ConfigType, CardType, HistoryType
<1>31. CASE BootFails
  <2>1. StepType'
    BY <1>31 DEF BootFails, StepType
  <2>2. FlagType'
    BY <1>31 DEF BootFails, FlagType
  <2> QED BY <2>1, <2>2, <1>31
    DEF BootFails, RecordType, ConfigType, CardType, HistoryType
<1>32. CASE ApplyPauseAndSpawn
  <2>1. StepType'
    BY <1>32 DEF ApplyPauseAndSpawn, Return, ReasonsFor, StepType
  <2>2. FlagType'
    BY <1>32 DEF ApplyPauseAndSpawn, Return, ReasonsFor, FlagType
  <2>3. ConfigType'
    BY <1>32 DEF ApplyPauseAndSpawn, Return, ReasonsFor, ConfigType, Reasons
  <2> QED BY <2>1, <2>2, <2>3, <1>32
    DEF ApplyPauseAndSpawn, Return, ReasonsFor, RecordType, CardType, HistoryType
<1>33. CASE HandlerFails
  <2>1. StepType'
    BY <1>33 DEF HandlerFails, Return, StepType
  <2> QED BY <2>1, <1>33
    DEF HandlerFails, Return, FlagType, RecordType, ConfigType, CardType, HistoryType
<1>34. CASE Kill
  <2>1. StepType'
    BY <1>34 DEF Kill, StepType
  <2>2. FlagType'
    BY <1>34 DEF Kill, FlagType
  <2> QED BY <2>1, <2>2, <1>34 DEF Kill, RecordType, ConfigType, CardType, HistoryType
<1>35. CASE PowerLoss
  <2>1. StepType'
    BY <1>35 DEF PowerLoss, LoseCache, StepType
  <2>2. FlagType'
    BY <1>35 DEF PowerLoss, LoseCache, FlagType
  <2>3. CardType'
    BY <1>35 DEF PowerLoss, LoseCache, CardType, StepType, RecordType, Record
  <2> QED BY <2>1, <2>2, <2>3, <1>35
    DEF PowerLoss, LoseCache, RecordType, ConfigType, HistoryType
<1>36. CASE CardRemoved
  <2>1. FlagType'
    BY <1>36 DEF CardRemoved, LoseCache, FlagType
  <2>2. CardType'
    BY <1>36 DEF CardRemoved, LoseCache, CardType, StepType, RecordType, Record
  <2> QED BY <2>1, <2>2, <1>36
    DEF CardRemoved, LoseCache, StepType, RecordType, ConfigType, HistoryType
<1>37. CASE CardInserted
  <2>1. FlagType'
    BY <1>37 DEF CardInserted, FlagType
  <2> QED BY <2>1, <1>37
    DEF CardInserted, StepType, RecordType, ConfigType, CardType, HistoryType
<1>38. CASE Writeback
  <2>1. CardType'
    <3>1. dkMarker' \in Marker
      BY <1>38 DEF Writeback, CardType
    <3>2. dkHeader' \in [Names -> Header]
      BY <1>38 DEF Writeback, CardType
    <3>3. dkContent' \in [Names -> BOOLEAN]
      BY <1>38 DEF Writeback, CardType
    <3>4. dkPlace' \in [Names -> {"none", "partial", "final"}]
      BY <1>38 DEF Writeback, CardType
    <3> QED BY <3>1, <3>2, <3>3, <3>4, <1>38 DEF Writeback, CardType
  <2> QED BY <2>1, <1>38
    DEF Writeback, StepType, FlagType, RecordType, ConfigType, HistoryType
<1>39. CASE UNCHANGED vars
  BY <1>39 DEF StepType, FlagType, RecordType, ConfigType, CardType, HistoryType
<1> QED
  BY <1>1, <1>2, <1>3, <1>4, <1>5, <1>6, <1>7, <1>8, <1>9, <1>10, <1>11, <1>12,
      <1>13, <1>14, <1>15, <1>16, <1>17, <1>18, <1>19, <1>20, <1>21, <1>22, <1>23,
      <1>24, <1>25, <1>26, <1>27, <1>28, <1>29, <1>30, <1>31, <1>32, <1>33, <1>34,
      <1>35, <1>36, <1>37, <1>38, <1>39
  DEF Next, Controller, Environment, prepareLocked, Complete, Invalidate, recover

-----------------------------------------------------------------------------
(* The snapshot.                                                            *)

\* Every action keeps what is known of snapshots.  Most leave snapshots alone and
\* do not enter Prepare or the removal (Quiet); the others are taken in turn.
LEMMA SnapshotStep ==
    ASSUME TypeOK, SnapshotInv, PrepareInv, CleanInv, [Next]_vars
    PROVE  SnapshotInv' /\ PrepareInv' /\ CleanInv'
<1> USE NameAssumption, TypeAssumption, BoundAssumption
<1> USE DEF vars, opVars, fsVars, dkVars, cardVars, upVars, histVars
<1> USE DEF PreparePCs, CompletePCs, BootPCs, TypePCs, CleanPCs, CardPCs
<1> DEFINE snapVars == <<cleaned, fsPlace, fsHeader, fsContent, dkPlace, dkHeader,
    dkContent>>
           Quiet == UNCHANGED snapVars /\ pc' \notin PreparePCs \cup {"clean-remove"}
           Goal == SnapshotInv' /\ PrepareInv' /\ CleanInv'
<1>q. ASSUME Quiet PROVE Goal
  BY <1>q DEF SnapshotInv, PrepareInv, CleanInv
<1>u. CASE UNCHANGED vars
  BY <1>u DEF SnapshotInv, PrepareInv, CleanInv
<1>1. ASSUME NEW t \in Types, SetFolderType(t) PROVE Goal
  <2> Quiet
    BY <1>1 DEF SetFolderType, Serving
  <2> QED BY <1>q
<1>2. ASSUME NEW t \in Types, CreateFolder(t) PROVE Goal
  <2> Quiet
    BY <1>2 DEF CreateFolder
  <2> QED BY <1>q
<1>3. CASE PrepareVerify
  <2> Quiet
    BY <1>3 DEF PrepareVerify, Return
  <2> QED BY <1>q
<1>4. CASE StartFirstSync
  <2> Quiet
    BY <1>4 DEF StartFirstSync
  <2> QED BY <1>q
<1>5. CASE CompleteMark("done-pending", "pending", "done-sync-pending")
         \/ CompleteMark("done-complete", "complete", "done-sync-complete")
  <2> Quiet
    BY <1>5 DEF CompleteMark, Goto
  <2> QED BY <1>q
<1>6. CASE CompleteClear \/ StartUnpause
  <2> Quiet
    BY <1>6 DEF CompleteClear, StartUnpause, Goto, Return
  <2> QED BY <1>q
<1>7. CASE InvalidateRemove \/ InvalidateRequire
  <2> Quiet
    BY <1>7 DEF InvalidateRemove, InvalidateRequire, Goto, Return
  <2> QED BY <1>q
<1>8. CASE TypePatch
  <2> Quiet
    BY <1>8 DEF TypePatch, Return
  <2> QED BY <1>q
<1>9. CASE FolderPause \/ FolderResume \/ FolderMembership \/ PersistDocument
  <2> Quiet
    BY <1>9 DEF FolderPause, FolderResume, FolderMembership, PersistDocument, Serving
  <2> QED BY <1>q
<1>10. CASE RefreshStatus \/ FolderStop
  <2> Quiet
    BY <1>10 DEF RefreshStatus, FolderStop, Serving
  <2> QED BY <1>q
<1>11. CASE BootLoad \/ BootFails
  <2> Quiet
    BY <1>11 DEF BootLoad, BootFails
  <2> QED BY <1>q
<1>12. CASE RecoverRequire \/ RecoverAbsent
  <2> Quiet
    BY <1>12 DEF RecoverRequire, RecoverAbsent, Goto
  <2> QED BY <1>q
<1>13. CASE ApplyPauseAndSpawn
  <2> Quiet
    BY <1>13 DEF ApplyPauseAndSpawn, Return
  <2> QED BY <1>q
<1>14. CASE HandlerFails \/ Kill
  <2> Quiet
    BY <1>14 DEF HandlerFails, Kill, Return
  <2> QED BY <1>q
<1>15. CASE CardInserted
  <2> Quiet
    BY <1>15 DEF CardInserted
  <2> QED BY <1>q
<1>16. ASSUME NEW n \in Names, PrepareBegin(n) PROVE Goal
  <2>1. SnapshotInv'
    BY <1>16
      DEF PrepareBegin, SnapshotInv, PrepareInv, CleanInv, TypeOK, StepType, CardType
  <2>2. PrepareInv'
    BY <1>16 DEF PrepareBegin, SnapshotInv, PrepareInv, TypeOK, StepType, CardType
  <2>3. CleanInv'
    BY <1>16 DEF PrepareBegin, CleanInv
  <2> QED BY <2>1, <2>2, <2>3
<1>17. ASSUME NEW n \in Names, CleanupBegin(n) PROVE Goal
  <2>1. SnapshotInv'
    BY <1>17
      DEF CleanupBegin, SnapshotInv, PrepareInv, CleanInv, TypeOK, StepType, CardType
  <2>2. PrepareInv'
    BY <1>17 DEF CleanupBegin, SnapshotInv, PrepareInv, TypeOK, StepType, CardType
  <2>3. CleanInv'
    BY <1>17 DEF CleanupBegin, CleanInv
  <2> QED BY <2>1, <2>2, <2>3
<1>18. CASE PrepareCopy
  <2>1. SnapshotInv'
    BY <1>18
      DEF PrepareCopy, Goto, SnapshotInv, PrepareInv, CleanInv, TypeOK, StepType,
          CardType
  <2>2. PrepareInv'
    BY <1>18 DEF PrepareCopy, Goto, SnapshotInv, PrepareInv, TypeOK, StepType, CardType
  <2>3. CleanInv'
    BY <1>18 DEF PrepareCopy, Goto, CleanInv
  <2> QED BY <2>1, <2>2, <2>3
<1>19. CASE PrepareSync("prep-sync-copy", "prep-ready")
  <2>1. SnapshotInv'
    BY <1>19
      DEF PrepareSync, SyncFilesystem, Goto, SnapshotInv, PrepareInv, CleanInv,
          TypeOK, StepType, CardType
  <2>2. PrepareInv'
    BY <1>19
      DEF PrepareSync, SyncFilesystem, Goto, SnapshotInv, PrepareInv, TypeOK,
          StepType, CardType
  <2>3. CleanInv'
    BY <1>19 DEF PrepareSync, SyncFilesystem, Goto, CleanInv
  <2> QED BY <2>1, <2>2, <2>3
<1>20. CASE PrepareSync("prep-sync-ready", "prep-promote")
  <2>1. SnapshotInv'
    BY <1>20
      DEF PrepareSync, SyncFilesystem, Goto, SnapshotInv, PrepareInv, CleanInv,
          TypeOK, StepType, CardType
  <2>2. PrepareInv'
    BY <1>20
      DEF PrepareSync, SyncFilesystem, Goto, SnapshotInv, PrepareInv, TypeOK,
          StepType, CardType
  <2>3. CleanInv'
    BY <1>20 DEF PrepareSync, SyncFilesystem, Goto, CleanInv
  <2> QED BY <2>1, <2>2, <2>3
<1>21. CASE PrepareSync("prep-sync-promote", "prep-verify")
  <2>1. SnapshotInv'
    BY <1>21
      DEF PrepareSync, SyncFilesystem, Goto, SnapshotInv, PrepareInv, CleanInv,
          TypeOK, StepType, CardType
  <2>2. PrepareInv'
    BY <1>21
      DEF PrepareSync, SyncFilesystem, Goto, SnapshotInv, PrepareInv, TypeOK,
          StepType, CardType
  <2>3. CleanInv'
    BY <1>21 DEF PrepareSync, SyncFilesystem, Goto, CleanInv
  <2> QED BY <2>1, <2>2, <2>3
<1>22. CASE PrepareReady
  <2>1. SnapshotInv'
    BY <1>22
      DEF PrepareReady, Goto, SnapshotInv, PrepareInv, CleanInv, TypeOK, StepType,
          CardType
  <2>2. PrepareInv'
    BY <1>22 DEF PrepareReady, Goto, SnapshotInv, PrepareInv, TypeOK, StepType, CardType
  <2>3. CleanInv'
    BY <1>22 DEF PrepareReady, Goto, CleanInv
  <2> QED BY <2>1, <2>2, <2>3
<1>23. CASE PreparePromote
  <2>1. SnapshotInv'
    BY <1>23
      DEF PreparePromote, Goto, SnapshotInv, PrepareInv, CleanInv, TypeOK, StepType,
          CardType
  <2>2. PrepareInv'
    BY <1>23
      DEF PreparePromote, Goto, SnapshotInv, PrepareInv, TypeOK, StepType, CardType
  <2>3. CleanInv'
    BY <1>23 DEF PreparePromote, Goto, CleanInv
  <2> QED BY <2>1, <2>2, <2>3
<1>24. CASE CompleteSync("done-confirm", "done-pending")
         \/ CompleteSync("done-sync-pending", "done-complete")
         \/ CompleteSync("done-sync-complete", "done-clear")
  <2>1. SnapshotInv'
    BY <1>24
      DEF CompleteSync, SyncFilesystem, Goto, SnapshotInv, PrepareInv, CleanInv,
          TypeOK, StepType, CardType
  <2>2. PrepareInv'
    BY <1>24
      DEF CompleteSync, SyncFilesystem, Goto, SnapshotInv, PrepareInv, TypeOK,
          StepType, CardType
  <2>3. CleanInv'
    BY <1>24 DEF CompleteSync, SyncFilesystem, Goto, CleanInv
  <2> QED BY <2>1, <2>2, <2>3
<1>25. CASE InvalidateSync \/ CleanupSync
  <2>1. SnapshotInv'
    BY <1>25
      DEF InvalidateSync, CleanupSync, SyncFilesystem, Goto, Return, SnapshotInv,
          PrepareInv, CleanInv, TypeOK, StepType, CardType
  <2>2. PrepareInv'
    BY <1>25
      DEF InvalidateSync, CleanupSync, SyncFilesystem, Goto, Return, SnapshotInv,
          PrepareInv, TypeOK, StepType, CardType
  <2>3. CleanInv'
    BY <1>25 DEF InvalidateSync, CleanupSync, SyncFilesystem, Goto, Return, CleanInv
  <2> QED BY <2>1, <2>2, <2>3
<1>26. CASE CleanupRemove
  <2>1. SnapshotInv'
    BY <1>26
      DEF CleanupRemove, Goto, SnapshotInv, PrepareInv, CleanInv, TypeOK, StepType,
          CardType
  <2>2. PrepareInv'
    BY <1>26
      DEF CleanupRemove, Goto, SnapshotInv, PrepareInv, TypeOK, StepType, CardType
  <2>3. CleanInv'
    BY <1>26 DEF CleanupRemove, Goto, CleanInv
  <2> QED BY <2>1, <2>2, <2>3
<1>27. CASE RecoverKind
  <2>1. SnapshotInv'
    BY <1>27
      DEF RecoverKind, Goto, SnapshotInv, PrepareInv, CleanInv, TypeOK, StepType,
          CardType
  <2>2. PrepareInv'
    BY <1>27 DEF RecoverKind, Goto, SnapshotInv, PrepareInv, TypeOK, StepType, CardType
  <2>3. CleanInv'
    BY <1>27 DEF RecoverKind, Goto, CleanInv
  <2> QED BY <2>1, <2>2, <2>3
<1>28. CASE RecoverComplete
  <2>1. SnapshotInv'
    BY <1>28
      DEF RecoverComplete, SyncFilesystem, Goto, SnapshotInv, PrepareInv, CleanInv,
          TypeOK, StepType, CardType
  <2>2. PrepareInv'
    BY <1>28
      DEF RecoverComplete, SyncFilesystem, Goto, SnapshotInv, PrepareInv, TypeOK,
          StepType, CardType
  <2>3. CleanInv'
    BY <1>28 DEF RecoverComplete, SyncFilesystem, Goto, CleanInv
  <2> QED BY <2>1, <2>2, <2>3
<1>29. CASE PowerLoss \/ CardRemoved
  <2>1. SnapshotInv'
    BY <1>29
      DEF PowerLoss, CardRemoved, LoseCache, SnapshotInv, PrepareInv, CleanInv,
          TypeOK, StepType, CardType
  <2>2. PrepareInv'
    BY <1>29
      DEF PowerLoss, CardRemoved, LoseCache, SnapshotInv, PrepareInv, TypeOK,
          StepType, CardType
  <2>3. CleanInv'
    BY <1>29 DEF PowerLoss, CardRemoved, LoseCache, CleanInv
  <2> QED BY <2>1, <2>2, <2>3
<1>30. CASE Writeback
  <2>1. SnapshotInv'
    BY <1>30
      DEF Writeback, SnapshotInv, PrepareInv, CleanInv, TypeOK, StepType, CardType
  <2>2. PrepareInv'
    BY <1>30 DEF Writeback, SnapshotInv, PrepareInv, TypeOK, StepType, CardType
  <2>3. CleanInv'
    BY <1>30 DEF Writeback, CleanInv
  <2> QED BY <2>1, <2>2, <2>3
<1> QED
  BY <1>1, <1>2, <1>3, <1>4, <1>5, <1>6, <1>7, <1>8, <1>9, <1>10, <1>11, <1>12,
      <1>13, <1>14, <1>15, <1>16, <1>17, <1>18, <1>19, <1>20, <1>21, <1>22, <1>23,
      <1>24, <1>25, <1>26, <1>27, <1>28, <1>29, <1>30, <1>u
  DEF Next, Controller, Environment, prepareLocked, Complete, Invalidate, recover

\* No step changes a snapshot that is whole in the cache and on the medium,
\* unless the user has had it removed.
LEMMA HeldStep ==
    ASSUME TypeOK, SnapshotInv, PrepareInv, CleanInv, [Next]_vars,
           NEW m \in Names, m \notin cleaned, NEW e, Held(m, e)
    PROVE  Held(m, e)'
<1> USE NameAssumption, TypeAssumption, BoundAssumption
<1> USE DEF vars, opVars, fsVars, dkVars, cardVars, upVars, histVars
<1> DEFINE snapVars == <<fsPlace, fsHeader, fsContent, dkPlace, dkHeader, dkContent>>
           Goal == Held(m, e)'
<1>q. ASSUME UNCHANGED snapVars PROVE Goal
  BY <1>q DEF Held
<1>1. ASSUME NEW t \in Types, SetFolderType(t) \/ CreateFolder(t) PROVE Goal
  BY <1>1, <1>q DEF SetFolderType, CreateFolder
<1>2. ASSUME NEW n \in Names, CleanupBegin(n) PROVE Goal
  BY <1>2, <1>q DEF CleanupBegin
<1>3. CASE PrepareVerify \/ StartFirstSync
  BY <1>3, <1>q DEF PrepareVerify, StartFirstSync
<1>4. CASE CompleteMark("done-pending", "pending", "done-sync-pending")
         \/ CompleteMark("done-complete", "complete", "done-sync-complete")
  BY <1>4, <1>q DEF CompleteMark
<1>5. CASE CompleteClear \/ StartUnpause
  BY <1>5, <1>q DEF CompleteClear, StartUnpause
<1>6. CASE InvalidateRemove \/ InvalidateRequire \/ TypePatch
  BY <1>6, <1>q DEF InvalidateRemove, InvalidateRequire, TypePatch
<1>7. CASE FolderPause \/ FolderResume \/ FolderMembership \/ PersistDocument
  BY <1>7, <1>q DEF FolderPause, FolderResume, FolderMembership, PersistDocument
<1>8. CASE RefreshStatus \/ FolderStop
  BY <1>8, <1>q DEF RefreshStatus, FolderStop
<1>9. CASE BootLoad \/ BootFails \/ ApplyPauseAndSpawn
  BY <1>9, <1>q DEF BootLoad, BootFails, ApplyPauseAndSpawn
<1>10. CASE RecoverRequire \/ RecoverAbsent
  BY <1>10, <1>q DEF RecoverRequire, RecoverAbsent
<1>11. CASE HandlerFails \/ Kill \/ CardInserted
  BY <1>11, <1>q DEF HandlerFails, Kill, CardInserted
<1>12. CASE UNCHANGED vars
  BY <1>12, <1>q
<1>13. ASSUME NEW n \in Names, PrepareBegin(n) PROVE Goal
  BY <1>13 DEF PrepareBegin, Held, TypeOK, CardType
<1>14. CASE PrepareCopy \/ PrepareReady \/ PreparePromote
  BY <1>14
    DEF PrepareCopy, PrepareReady, PreparePromote, PrepareInv, PreparePCs, Held,
        TypeOK, CardType
<1>15. CASE PrepareSync("prep-sync-copy", "prep-ready")
         \/ PrepareSync("prep-sync-ready", "prep-promote")
         \/ PrepareSync("prep-sync-promote", "prep-verify")
  BY <1>15 DEF PrepareSync, SyncFilesystem, Held, TypeOK, CardType
<1>16. CASE CompleteSync("done-confirm", "done-pending")
         \/ CompleteSync("done-sync-pending", "done-complete")
         \/ CompleteSync("done-sync-complete", "done-clear")
  BY <1>16 DEF CompleteSync, SyncFilesystem, Held, TypeOK, CardType
<1>17. CASE InvalidateSync \/ CleanupSync
  BY <1>17 DEF InvalidateSync, CleanupSync, SyncFilesystem, Held, TypeOK, CardType
<1>18. CASE CleanupRemove
  BY <1>18 DEF CleanupRemove, CleanInv, Held, TypeOK, CardType
<1>19. CASE RecoverKind
  BY <1>19 DEF RecoverKind, Held, TypeOK, CardType
<1>20. CASE RecoverComplete
  BY <1>20 DEF RecoverComplete, SyncFilesystem, Held, TypeOK, CardType
<1>21. CASE PowerLoss \/ CardRemoved
  BY <1>21 DEF PowerLoss, CardRemoved, LoseCache, Held, TypeOK, CardType
<1>22. CASE Writeback
  BY <1>22 DEF Writeback, Held, TypeOK, CardType
<1> QED
  BY <1>1, <1>2, <1>3, <1>4, <1>5, <1>6, <1>7, <1>8, <1>9, <1>10, <1>11, <1>12,
      <1>13, <1>14, <1>15, <1>16, <1>17, <1>18, <1>19, <1>20, <1>21, <1>22
  DEF Next, Controller, Environment, prepareLocked, Complete, Invalidate, recover

\* The history of removals only grows.
LEMMA CleanedGrows ==
    ASSUME [Next]_vars
    PROVE  cleaned \subseteq cleaned'
<1> USE NameAssumption, TypeAssumption, BoundAssumption
<1> USE DEF vars, opVars, fsVars, dkVars, cardVars, upVars, histVars
<1>1. ASSUME NEW n \in Names, CleanupBegin(n) PROVE cleaned \subseteq cleaned'
  BY <1>1 DEF CleanupBegin
<1>2. ASSUME NEW n \in Names, PrepareBegin(n) PROVE UNCHANGED cleaned
  BY <1>2 DEF PrepareBegin
<1>3. ASSUME NEW t \in Types,
    SetFolderType(t) \/ CreateFolder(t) PROVE UNCHANGED cleaned
  BY <1>3 DEF SetFolderType, CreateFolder
<1>4. ASSUME prepareLocked PROVE UNCHANGED cleaned
  BY <1>4
    DEF prepareLocked, PrepareCopy, PrepareSync, PrepareReady, PreparePromote,
        PrepareVerify
<1>5. ASSUME StartFirstSync \/ Complete PROVE UNCHANGED cleaned
  BY <1>5
    DEF StartFirstSync, Complete, CompleteSync, CompleteMark, CompleteClear,
        StartUnpause
<1>6. ASSUME Invalidate \/ TypePatch PROVE UNCHANGED cleaned
  BY <1>6 DEF Invalidate, InvalidateRemove, InvalidateSync, InvalidateRequire, TypePatch
<1>7. ASSUME FolderPause \/ FolderResume \/ FolderMembership \/ PersistDocument \/ RefreshStatus \/ FolderStop
      PROVE  UNCHANGED cleaned
  BY <1>7 DEF FolderPause, FolderResume, FolderMembership, PersistDocument, RefreshStatus, FolderStop
<1>8. ASSUME CleanupRemove \/ CleanupSync PROVE UNCHANGED cleaned
  BY <1>8 DEF CleanupRemove, CleanupSync
<1>9. ASSUME BootLoad \/ recover \/ ApplyPauseAndSpawn PROVE UNCHANGED cleaned
  BY <1>9
    DEF BootLoad, recover, RecoverKind, RecoverComplete, RecoverRequire,
        RecoverAbsent, BootFails,
      ApplyPauseAndSpawn
<1>10. ASSUME Environment PROVE UNCHANGED cleaned
  BY <1>10
    DEF Environment, HandlerFails, Kill, PowerLoss, CardRemoved, CardInserted,
        Writeback
<1>11. ASSUME UNCHANGED vars PROVE UNCHANGED cleaned
  BY <1>11
<1> QED
  BY <1>1, <1>2, <1>3, <1>4, <1>5, <1>6, <1>7, <1>8, <1>9, <1>10, <1>11
  DEF Next, Controller

-----------------------------------------------------------------------------
(* The completion marker.                                                   *)

\* Every action keeps completion markers backed by a snapshot, and what Complete
\* has established so far.
LEMMA MarkerStep ==
    ASSUME TypeOK, SnapshotInv, PrepareInv, CleanInv, [Next]_vars,
           Backed(fsMarker), Backed(dkMarker), CompleteInv
    PROVE  Backed(fsMarker)' /\ Backed(dkMarker)' /\ CompleteInv'
<1> USE NameAssumption, TypeAssumption, BoundAssumption
<1> USE DEF vars, opVars, fsVars, dkVars, cardVars, upVars, histVars
<1> USE DEF PreparePCs, CompletePCs, BootPCs, TypePCs, CleanPCs, CardPCs
<1> DEFINE Goal == Backed(fsMarker)' /\ Backed(dkMarker)' /\ CompleteInv'
<1>b. ASSUME NEW k \in {fsMarker, dkMarker} PROVE Backed(k)'
  BY HeldStep, CleanedGrows, <1>b DEF Backed
<1>f. ASSUME fsMarker' \in {fsMarker, dkMarker, NoMarker} PROVE Backed(fsMarker)'
  BY <1>b, <1>f DEF Backed, NoMarker
<1>d. ASSUME dkMarker' \in {fsMarker, dkMarker} PROVE Backed(dkMarker)'
  BY <1>b, <1>d DEF Backed
\* A step that writes no marker and does not enter or leave a step of Complete.
<1>q. ASSUME fsMarker' \in {fsMarker, dkMarker, NoMarker}, dkMarker' \in {fsMarker,
    dkMarker},
             pc' \notin CompletePCs
      PROVE  Goal
  BY <1>q, <1>f, <1>d DEF CompleteInv
<1>1. ASSUME NEW n \in Names, PrepareBegin(n) \/ CleanupBegin(n) PROVE Goal
  BY <1>1, <1>q DEF PrepareBegin, CleanupBegin
<1>2. ASSUME NEW t \in Types, SetFolderType(t) \/ CreateFolder(t) PROVE Goal
  BY <1>2, <1>q DEF SetFolderType, CreateFolder, Serving
<1>3. CASE PrepareCopy \/ PrepareReady \/ PreparePromote \/ PrepareVerify
  BY <1>3, <1>q
    DEF PrepareCopy, PrepareReady, PreparePromote, PrepareVerify, Goto, Return
<1>4. CASE PrepareSync("prep-sync-copy", "prep-ready")
         \/ PrepareSync("prep-sync-ready", "prep-promote")
         \/ PrepareSync("prep-sync-promote", "prep-verify")
  BY <1>4, <1>q DEF PrepareSync, SyncFilesystem, Goto
<1>5. CASE InvalidateRemove \/ InvalidateSync \/ InvalidateRequire
  BY <1>5, <1>q
    DEF InvalidateRemove, InvalidateSync, InvalidateRequire, SyncFilesystem, Goto,
        Return
<1>6. CASE StartUnpause \/ TypePatch
  BY <1>6, <1>q DEF StartUnpause, TypePatch, Return
<1>7. CASE FolderPause \/ FolderResume \/ FolderMembership \/ PersistDocument
  BY <1>7, <1>q DEF FolderPause, FolderResume, FolderMembership, PersistDocument, Serving
<1>8. CASE RefreshStatus \/ FolderStop
  BY <1>8, <1>q DEF RefreshStatus, FolderStop, Serving
<1>9. CASE CleanupRemove \/ CleanupSync
  BY <1>9, <1>q DEF CleanupRemove, CleanupSync, SyncFilesystem, Goto, Return
<1>10. CASE BootLoad \/ BootFails \/ ApplyPauseAndSpawn
  BY <1>10, <1>q DEF BootLoad, BootFails, ApplyPauseAndSpawn, Return
<1>11. CASE RecoverKind \/ RecoverComplete
  BY <1>11, <1>q DEF RecoverKind, RecoverComplete, SyncFilesystem, Goto
<1>12. CASE RecoverRequire \/ RecoverAbsent
  BY <1>12, <1>q DEF RecoverRequire, RecoverAbsent, Goto
<1>13. CASE HandlerFails \/ Kill \/ PowerLoss
  BY <1>13, <1>q DEF HandlerFails, Kill, PowerLoss, LoseCache, Return
<1>14. CASE CompleteClear
  BY <1>14, <1>q DEF CompleteClear, Goto, Return
<1>15. CASE StartFirstSync
  <2>1. CompleteInv'
    BY <1>15 DEF StartFirstSync, SnapshotValid, CompleteInv, TypeOK, CardType, StepType
  <2> QED BY <1>15, <2>1, <1>f, <1>d DEF StartFirstSync, SnapshotValid
<1>16. CASE CompleteSync("done-confirm", "done-pending")
  <2>1. CompleteInv'
    BY <1>16
      DEF CompleteSync, SyncFilesystem, Goto, SnapshotValid, Held, CompleteInv,
          TypeOK, CardType, StepType
  <2> QED BY <1>16, <2>1, <1>f, <1>d
    DEF CompleteSync, SyncFilesystem, Goto, SnapshotValid, Held
<1>17. CASE CompleteSync("done-sync-pending", "done-complete")
  <2>1. CompleteInv'
    BY <1>17
      DEF CompleteSync, SyncFilesystem, Goto, Held, CompleteInv, TypeOK, CardType,
          StepType
  <2> QED BY <1>17, <2>1, <1>f, <1>d DEF CompleteSync, SyncFilesystem, Goto, Held
<1>18. CASE CompleteSync("done-sync-complete", "done-clear")
  <2>1. CompleteInv'
    BY <1>18
      DEF CompleteSync, SyncFilesystem, Goto, CompleteInv, TypeOK, CardType, StepType
  <2> QED BY <1>18, <2>1, <1>f, <1>d DEF CompleteSync, SyncFilesystem, Goto
<1>19. CASE CardRemoved
  <2>1. CompleteInv'
    BY <1>19 DEF CardRemoved, LoseCache, CompleteInv, TypeOK, CardType, StepType
  <2> QED BY <1>19, <2>1, <1>f, <1>d DEF CardRemoved, LoseCache
<1>20. CASE CardInserted
  <2>1. CompleteInv'
    BY <1>20 DEF CardInserted, CardPCs, CompleteInv, TypeOK, CardType, StepType
  <2> QED BY <1>20, <2>1, <1>f, <1>d DEF CardInserted, CardPCs
<1>21. CASE Writeback
  <2>1. CompleteInv'
    BY HeldStep, CleanedGrows, <1>21
      DEF Writeback, SnapshotValid, CompleteInv, TypeOK, CardType, StepType
  <2> QED BY <1>21, <2>1, <1>f, <1>d DEF Writeback, SnapshotValid
<1>22. CASE UNCHANGED vars
  <2>1. CompleteInv'
    BY <1>22 DEF SnapshotValid, Held, CompleteInv, TypeOK, CardType, StepType
  <2> QED BY <1>22, <2>1, <1>f, <1>d DEF SnapshotValid, Held
<1>23. CASE CompleteMark("done-pending", "pending", "done-sync-pending")
  <2>1. sessType # "sendonly" => opName \in Names /\ (opName \in cleaned \/ Held(opName,
      mem.epoch))
    BY <1>23 DEF CompleteMark, CompleteInv, CompletePCs
  <2>2. sessType # "sendonly" => (opName \in cleaned' \/ Held(opName, mem.epoch)')
    BY <2>1, <1>23 DEF CompleteMark, Goto, Held
  <2>3. Backed(fsMarker)'
    BY <2>1, <2>2, <1>23 DEF CompleteMark, Backed, CompleteInv, CompletePCs, Held
  <2>4. CompleteInv'
    BY <2>1, <2>2, <1>23 DEF CompleteMark, Goto, CompleteInv, CompletePCs, Held
  <2> QED BY <1>23, <2>3, <2>4, <1>d DEF CompleteMark
<1>24. CASE CompleteMark("done-complete", "complete", "done-sync-complete")
  <2>1. sessType # "sendonly" => opName \in Names /\ (opName \in cleaned \/ Held(opName,
      mem.epoch))
    BY <1>24 DEF CompleteMark, CompleteInv, CompletePCs
  <2>2. sessType # "sendonly" => (opName \in cleaned' \/ Held(opName, mem.epoch)')
    BY <2>1, <1>24 DEF CompleteMark, Goto, Held
  <2>3. Backed(fsMarker)'
    BY <2>1, <2>2, <1>24 DEF CompleteMark, Backed, CompleteInv, CompletePCs, Held
  <2>4. CompleteInv'
    BY <2>1, <2>2, <1>24 DEF CompleteMark, Goto, CompleteInv, CompletePCs, Held
  <2> QED BY <1>24, <2>3, <2>4, <1>d DEF CompleteMark
<1> QED
  BY <1>1, <1>2, <1>3, <1>4, <1>5, <1>6, <1>7, <1>8, <1>9, <1>10, <1>11, <1>12,
      <1>13, <1>14, <1>15, <1>16, <1>17, <1>18, <1>19, <1>20, <1>21, <1>22, <1>23,
      <1>24
  DEF Next, Controller, Environment, prepareLocked, Complete, Invalidate, recover

-----------------------------------------------------------------------------
(* The record, and the decision to let the folder run.                      *)

\* Every action keeps the relation between the two copies of the record and the
\* two copies of the completion marker.
LEMMA ClearedStep ==
    ASSUME TypeOK, Backed(fsMarker), CompleteInv, [Next]_vars,
           RecordInv, RevokeInv, ClearedInv, BootInv
    PROVE  RecordInv' /\ RevokeInv' /\ ClearedInv' /\ BootInv'
<1> USE NameAssumption, TypeAssumption, BoundAssumption
<1> USE DEF vars, opVars, fsVars, dkVars, cardVars, upVars, histVars
<1> USE DEF PreparePCs, CompletePCs, BootPCs, TypePCs, CleanPCs, CardPCs
<1> DEFINE Goal == RecordInv' /\ RevokeInv' /\ ClearedInv' /\ BootInv'
           Settled == \/ UNCHANGED <<fsMarker, dkMarker>>
                      \/ fsMarker' \in {fsMarker, dkMarker} /\ dkMarker' = fsMarker'
           Still == /\ UNCHANGED <<mem, store, revoked>> /\ Settled
                    /\ pc' # "down" => pc # "down"
                    /\ pc' \notin {"inv-sync", "inv-require"} \cup BootPCs
<1>q. ASSUME Still PROVE Goal
  BY <1>q
    DEF RecordInv, RevokeInv, ClearedInv, BootInv, NoCachedCompletion, MarkersAt,
        BootPCs
<1>1. ASSUME NEW n \in Names, PrepareBegin(n) \/ CleanupBegin(n) PROVE Goal
  <2> Still
    BY <1>1 DEF PrepareBegin, CleanupBegin, Serving
  <2> QED BY <1>q
<1>2. ASSUME NEW t \in Types, SetFolderType(t) PROVE Goal
  <2> Still
    BY <1>2 DEF SetFolderType, Serving
  <2> QED BY <1>q
<1>3. CASE PrepareCopy \/ PrepareReady \/ PreparePromote \/ PrepareVerify
  <2> Still
    BY <1>3 DEF PrepareCopy, PrepareReady, PreparePromote, PrepareVerify, Goto, Return
  <2> QED BY <1>q
<1>4. CASE PrepareSync("prep-sync-copy", "prep-ready")
         \/ PrepareSync("prep-sync-ready", "prep-promote")
         \/ PrepareSync("prep-sync-promote", "prep-verify")
  <2> Still
    BY <1>4 DEF PrepareSync, SyncFilesystem, Goto
  <2> QED BY <1>q
<1>5. CASE StartFirstSync \/ StartUnpause \/ TypePatch
  <2> Still
    BY <1>5 DEF StartFirstSync, StartUnpause, TypePatch, Serving, Return
  <2> QED BY <1>q
<1>6. CASE CompleteSync("done-confirm", "done-pending")
         \/ CompleteSync("done-sync-pending", "done-complete")
         \/ CompleteSync("done-sync-complete", "done-clear")
  <2> Still
    BY <1>6 DEF CompleteSync, SyncFilesystem, Goto
  <2> QED BY <1>q
<1>7. CASE RefreshStatus \/ FolderStop
  <2> Still
    BY <1>7 DEF RefreshStatus, FolderStop, Serving
  <2> QED BY <1>q
<1>8. CASE CleanupRemove \/ CleanupSync
  <2> Still
    BY <1>8 DEF CleanupRemove, CleanupSync, SyncFilesystem, Goto, Return
  <2> QED BY <1>q
<1>9. CASE BootFails \/ ApplyPauseAndSpawn
  <2> Still
    BY <1>9 DEF BootFails, ApplyPauseAndSpawn, Return
  <2> QED BY <1>q
<1>10. CASE HandlerFails \/ Kill \/ PowerLoss
  <2> Still
    BY <1>10 DEF HandlerFails, Kill, PowerLoss, LoseCache, Return
  <2> QED BY <1>q
<1>11. CASE CardRemoved \/ CardInserted \/ Writeback
  <2>1. RecordInv'
    BY <1>11
      DEF CardRemoved, CardInserted, Writeback, LoseCache, RecordInv, TypeOK,
          RecordType, Record
  <2>2. RevokeInv'
    BY <1>11 DEF CardRemoved, CardInserted, Writeback, LoseCache, RevokeInv
  <2>3. ClearedInv'
    BY <1>11
      DEF CardRemoved, CardInserted, Writeback, LoseCache, RecordInv, ClearedInv,
          NoCachedCompletion, MarkersAt, TypeOK, RecordType, Record
  <2>4. BootInv'
    BY <1>11
      DEF CardRemoved, CardInserted, Writeback, LoseCache, BootInv, BootPCs,
          ClearedInv, MarkersAt
  <2> QED BY <2>1, <2>2, <2>3, <2>4
<1>12. CASE CompleteMark("done-pending", "pending", "done-sync-pending")
         \/ CompleteMark("done-complete", "complete", "done-sync-complete")
  <2>1. RecordInv'
    BY <1>12
      DEF CompleteMark, Goto, CompleteInv, CompletePCs, RecordInv, TypeOK,
          RecordType, Record
  <2>2. RevokeInv'
    BY <1>12 DEF CompleteMark, Goto, CompleteInv, CompletePCs, RevokeInv
  <2>3. ClearedInv'
    BY <1>12
      DEF CompleteMark, Goto, CompleteInv, CompletePCs, RecordInv, ClearedInv,
          NoCachedCompletion, MarkersAt, TypeOK, RecordType, Record
  <2>4. BootInv'
    BY <1>12 DEF CompleteMark, Goto, CompleteInv, CompletePCs, BootInv, BootPCs
  <2> QED BY <2>1, <2>2, <2>3, <2>4
<1>13. CASE CompleteClear
  <2>1. RecordInv'
    BY <1>13
      DEF CompleteClear, PersistOK, PersistFails, Goto, Return, CompleteInv,
          CompletePCs, RecordInv, TypeOK, RecordType, Record
  <2>2. RevokeInv'
    BY <1>13
      DEF CompleteClear, PersistOK, PersistFails, Goto, Return, CompleteInv,
          CompletePCs, RevokeInv
  <2>3. ClearedInv'
    BY <1>13
      DEF CompleteClear, PersistOK, PersistFails, Goto, Return, CompleteInv,
          CompletePCs, RecordInv, ClearedInv, NoCachedCompletion, MarkersAt, TypeOK,
          RecordType, Record
  <2>4. BootInv'
    BY <1>13
      DEF CompleteClear, PersistOK, PersistFails, Goto, Return, CompleteInv,
          CompletePCs, BootInv, BootPCs
  <2> QED BY <2>1, <2>2, <2>3, <2>4
<1>14. ASSUME NEW t \in Types, CreateFolder(t) PROVE Goal
  <2>1. RecordInv'
    BY <1>14 DEF CreateFolder, PersistOK, RecordInv, TypeOK, RecordType, Record
  <2>2. RevokeInv'
    BY <1>14 DEF CreateFolder, PersistOK, RevokeInv
  <2>3. ClearedInv'
    BY <1>14
      DEF CreateFolder, PersistOK, RecordInv, ClearedInv, NoCachedCompletion,
          MarkersAt, TypeOK, RecordType, Record
  <2>4. BootInv'
    BY <1>14 DEF CreateFolder, PersistOK, BootInv, BootPCs
  <2> QED BY <2>1, <2>2, <2>3, <2>4
<1>15. CASE InvalidateRemove
  <2>1. RecordInv'
    BY <1>15 DEF InvalidateRemove, NoMarker, Goto, RecordInv, TypeOK, RecordType, Record
  <2>2. RevokeInv'
    BY <1>15 DEF InvalidateRemove, NoMarker, Goto, RevokeInv
  <2>3. ClearedInv'
    BY <1>15
      DEF InvalidateRemove, NoMarker, Goto, RecordInv, ClearedInv,
          NoCachedCompletion, MarkersAt, TypeOK, RecordType, Record
  <2>4. BootInv'
    BY <1>15 DEF InvalidateRemove, NoMarker, Goto, BootInv, BootPCs
  <2> QED BY <2>1, <2>2, <2>3, <2>4
<1>16. CASE InvalidateSync
  <2>1. RecordInv'
    BY <1>16
      DEF InvalidateSync, SyncFilesystem, Goto, RecordInv, TypeOK, RecordType, Record
  <2>2. RevokeInv'
    BY <1>16 DEF InvalidateSync, SyncFilesystem, Goto, RevokeInv
  <2>3. ClearedInv'
    BY <1>16
      DEF InvalidateSync, SyncFilesystem, Goto, RecordInv, ClearedInv,
          NoCachedCompletion, MarkersAt, TypeOK, RecordType, Record
  <2>4. BootInv'
    BY <1>16 DEF InvalidateSync, SyncFilesystem, Goto, BootInv, BootPCs
  <2> QED BY <2>1, <2>2, <2>3, <2>4
<1>17. CASE InvalidateRequire
  <2>0. Required(mem).firstSync = TRUE /\ Required(mem).epoch = mem.epoch + 1
    BY DEF Required
  <2>r. revoked /\ mem.epoch \in Nat /\ store.epoch \in Nat /\ mem.epoch >= store.epoch
    BY <1>17, BoundAssumption
      DEF InvalidateRequire, RevokeInv, RecordInv, TypeOK, RecordType, Record
  <2>1. RecordInv'
    <3>1. CASE UNCHANGED <<mem, store, revoked>>
      BY <3>1, <1>17, <2>r DEF InvalidateRequire, RecordInv
    <3>2. CASE mem' = Required(mem) /\ store' = Required(mem)
      BY <3>2, <2>0, <2>r DEF RecordInv
    <3>3. CASE mem' = Required(mem) /\ store' = store /\ revoked' = revoked
      BY <3>3, <2>0, <2>r DEF RecordInv
    <3> QED BY <3>1, <3>2, <3>3, <1>17 DEF InvalidateRequire, PersistOK, PersistFails
  <2>2. RevokeInv'
    BY <1>17 DEF InvalidateRequire, Goto, Return, RevokeInv
  <2>3. ClearedInv'
    <3>0. UNCHANGED <<fsMarker, dkMarker>> /\ pc # "down"
      BY <1>17 DEF InvalidateRequire
    <3>1. CASE UNCHANGED <<mem, store, revoked>>
      BY <3>0, <3>1, <2>r DEF ClearedInv, NoCachedCompletion
    <3>2. CASE mem' = Required(mem) /\ store' = Required(mem)
      BY <3>2, <2>0 DEF ClearedInv, NoCachedCompletion
    <3>3. CASE mem' = Required(mem) /\ store' = store /\ revoked' = revoked
      BY <3>0, <3>3, <2>0, <2>r DEF ClearedInv, NoCachedCompletion
    <3> QED BY <3>1, <3>2, <3>3, <1>17 DEF InvalidateRequire, PersistOK, PersistFails
  <2>4. BootInv'
    BY <1>17
      DEF InvalidateRequire, Required, PersistOK, PersistFails, Goto, Return,
          BootInv, BootPCs
  <2> QED BY <2>1, <2>2, <2>3, <2>4
<1>18. CASE FolderPause \/ FolderResume
  <2>1. RecordInv'
    BY <1>18
      DEF FolderPause, FolderResume, PersistOK, PersistFails, Serving, RecordInv,
          TypeOK, RecordType, Record
  <2>2. RevokeInv'
    BY <1>18 DEF FolderPause, FolderResume, PersistOK, PersistFails, Serving, RevokeInv
  <2>3. ClearedInv'
    BY <1>18
      DEF FolderPause, FolderResume, PersistOK, PersistFails, Serving, RecordInv,
          ClearedInv, NoCachedCompletion, MarkersAt, TypeOK, RecordType, Record
  <2>4. BootInv'
    BY <1>18
      DEF FolderPause, FolderResume, PersistOK, PersistFails, Serving, BootInv,
          BootPCs
  <2> QED BY <2>1, <2>2, <2>3, <2>4
<1>19. CASE FolderMembership \/ PersistDocument
  <2>0. pc = "idle" /\ store' = mem /\ UNCHANGED <<pc, bound, mem, fsMarker, dkMarker, revoked>>
    BY <1>19 DEF FolderMembership, PersistDocument, Serving
  <2>1. RecordInv'
    BY <2>0 DEF RecordInv, TypeOK, RecordType, Record
  <2>2. RevokeInv'
    BY <1>19 DEF FolderMembership, PersistDocument, Serving, RevokeInv
  <2>3. ClearedInv'
    BY <1>19
      DEF FolderMembership, PersistDocument, Serving, RecordInv, ClearedInv, NoCachedCompletion,
          MarkersAt, TypeOK, RecordType, Record
  <2>4. BootInv'
    BY <1>19 DEF FolderMembership, PersistDocument, Serving, BootInv, BootPCs
  <2> QED BY <2>1, <2>2, <2>3, <2>4
<1>20. CASE BootLoad
  <2>1. RecordInv'
    BY <1>20 DEF BootLoad, RecordInv, TypeOK, RecordType, Record
  <2>2. RevokeInv'
    BY <1>20 DEF BootLoad, RevokeInv
  <2>3. ClearedInv'
    BY <1>20
      DEF BootLoad, RecordInv, ClearedInv, NoCachedCompletion, MarkersAt, TypeOK,
          RecordType, Record
  <2>4. BootInv'
    BY <1>20 DEF BootLoad, BootInv, BootPCs
  <2> QED BY <2>1, <2>2, <2>3, <2>4
<1>21. CASE RecoverKind
  <2>1. RecordInv'
    BY <1>21 DEF RecoverKind, NoMarker, Goto, RecordInv, TypeOK, RecordType, Record
  <2>2. RevokeInv'
    BY <1>21 DEF RecoverKind, NoMarker, Goto, RevokeInv
  <2>3. ClearedInv'
    BY <1>21
      DEF RecoverKind, NoMarker, Goto, RecordInv, ClearedInv, NoCachedCompletion,
          MarkersAt, TypeOK, RecordType, Record
  <2>4. BootInv'
    BY <1>21 DEF RecoverKind, NoMarker, Goto, BootInv, BootPCs
  <2> QED BY <2>1, <2>2, <2>3, <2>4
<1>22. CASE RecoverComplete
  <2>1. RecordInv'
    BY <1>22
      DEF RecoverComplete, MarkerValid, SyncFilesystem, PersistOK, Goto, RecordInv,
          TypeOK, RecordType, Record
  <2>2. RevokeInv'
    BY <1>22
      DEF RecoverComplete, MarkerValid, SyncFilesystem, PersistOK, Goto, RevokeInv
  <2>3. ClearedInv'
    BY <1>22
      DEF RecoverComplete, MarkerValid, SyncFilesystem, PersistOK, Goto, RecordInv,
          ClearedInv, NoCachedCompletion, MarkersAt, TypeOK, RecordType, Record,
          BootInv, BootPCs
  <2>4. BootInv'
    BY <1>22
      DEF RecoverComplete, MarkerValid, SyncFilesystem, PersistOK, Goto, BootInv,
          BootPCs
  <2> QED BY <2>1, <2>2, <2>3, <2>4
<1>23. CASE RecoverRequire
  <2>0. mem' = store' /\ mem'.firstSync
    <3>1. CASE mem.firstSync
      BY <3>1, <1>23 DEF RecoverRequire, PersistOK
    <3>2. CASE ~mem.firstSync
      <4>1. Required(mem).firstSync = TRUE
        BY DEF Required
      <4>2. mem' = Required(mem) /\ store' = mem'
        BY <3>2, <1>23 DEF RecoverRequire, PersistOK
      <4> QED BY <4>1, <4>2
    <3> QED BY <3>1, <3>2
  <2>e. mem'.epoch \in Nat
    BY <1>23, BoundAssumption
      DEF RecoverRequire, PersistOK, Required, TypeOK, RecordType, Record
  <2>1. RecordInv'
    BY <2>0, <2>e DEF RecordInv
  <2>2. RevokeInv'
    BY <1>23 DEF RecoverRequire, Goto, RevokeInv
  <2>3. ClearedInv'
    BY <2>0 DEF ClearedInv, NoCachedCompletion
  <2>4. BootInv'
    BY <2>0, <1>23 DEF RecoverRequire, Goto, BootInv, BootPCs
  <2> QED BY <2>1, <2>2, <2>3, <2>4
<1>24. CASE RecoverAbsent
  <2>1. RecordInv'
    BY <1>24 DEF RecoverAbsent, Goto, RecordInv, TypeOK, RecordType, Record
  <2>2. RevokeInv'
    BY <1>24 DEF RecoverAbsent, Goto, RevokeInv
  <2>3. ClearedInv'
    BY <1>24
      DEF RecoverAbsent, Goto, RecordInv, ClearedInv, NoCachedCompletion, MarkersAt,
          TypeOK, RecordType, Record
  <2>4. BootInv'
    BY <1>24 DEF RecoverAbsent, Goto, BootInv, BootPCs
  <2> QED BY <2>1, <2>2, <2>3, <2>4
<1>25. CASE UNCHANGED vars
  <2>1. RecordInv'
    BY <1>25 DEF BootPCs, RecordInv, TypeOK, RecordType, Record
  <2>2. RevokeInv'
    BY <1>25 DEF BootPCs, RevokeInv
  <2>3. ClearedInv'
    BY <1>25
      DEF BootPCs, RecordInv, ClearedInv, NoCachedCompletion, MarkersAt, TypeOK,
          RecordType, Record
  <2>4. BootInv'
    BY <1>25 DEF BootPCs, BootInv, BootPCs
  <2> QED BY <2>1, <2>2, <2>3, <2>4
<1> QED
  BY <1>1, <1>2, <1>3, <1>4, <1>5, <1>6, <1>7, <1>8, <1>9, <1>10, <1>11, <1>12,
      <1>13, <1>14, <1>15, <1>16, <1>17, <1>18, <1>19, <1>20, <1>21, <1>22, <1>23,
      <1>24, <1>25
  DEF Next, Controller, Environment, prepareLocked, Complete, Invalidate, recover

-----------------------------------------------------------------------------
(* The theorems.                                                            *)

LEMMA InitInv == Init => IInv
<1> SUFFICES ASSUME Init PROVE IInv
  OBVIOUS
<1> USE NameAssumption, TypeAssumption, BoundAssumption DEF Init
<1>1. TypeOK
  <2>1. StepType
    BY DEF StepType, PCs, Types
  <2>2. FlagType
    BY DEF FlagType
  <2>3. RecordType
    BY DEF RecordType, Record
  <2>4. ConfigType
    BY DEF ConfigType, Types, Reasons
  <2>5. CardType
    BY DEF CardType, Marker, Header, NoMarker, NoHeader
  <2>6. HistoryType
    BY DEF HistoryType
  <2> QED BY <2>1, <2>2, <2>3, <2>4, <2>5, <2>6 DEF TypeOK
<1>2. SnapshotInv /\ PrepareInv /\ CleanInv
  BY DEF SnapshotInv, PrepareInv, CleanInv, PreparePCs
<1>3. Backed(fsMarker) /\ Backed(dkMarker) /\ CompleteInv
  BY DEF Backed, NoMarker, CompleteInv, CompletePCs
<1>4. RecordInv /\ RevokeInv /\ BootInv
  BY DEF RecordInv, RevokeInv, BootInv, BootPCs
<1>5. ClearedInv
  BY DEF ClearedInv, NoCachedCompletion
<1> QED BY <1>1, <1>2, <1>3, <1>4, <1>5 DEF IInv

LEMMA StepInv == IInv /\ [Next]_vars => IInv'
BY TypeStep, SnapshotStep, MarkerStep, ClearedStep DEF IInv

\* The conjunction of the parts above is an inductive invariant of first-sync
\* protection, for any number of snapshots, epochs and onboardings.
THEOREM Invariance == Spec => []IInv
BY InitInv, StepInv, PTL DEF Spec

\* Every variable of the first-sync model keeps its type: no epoch, snapshot name
\* or folder type ever leaves its range.
THEOREM TypeCorrectness == Spec => []TypeOK
<1>1. IInv => TypeOK
  BY DEF IInv
<1> QED BY <1>1, Invariance, PTL

\* prepareLocked: a snapshot directory found under its final name after a power
\* loss is whole, however many snapshots there are.
THEOREM SnapshotSafety == Spec => []PromotedSnapshotIsWhole
<1>1. IInv => PromotedSnapshotIsWhole
  BY DEF IInv, SnapshotInv, PromotedSnapshotIsWhole
<1> QED BY <1>1, Invariance, PTL

LEMMA MarkersMeanComplete ==
    ASSUME NEW e, IInv, MarkersAt(e)
    PROVE  DurablyComplete(e)
<1>1. dkMarker.state = "complete" /\ dkMarker.epoch = e /\ Backed(dkMarker)
  BY DEF IInv, MarkersAt
<1> QED BY <1>1 DEF Backed, Held, DurablyComplete, DurableSnapshot

\* Complete and recover: the record stops asking for first sync, in memory or on
\* disk, only while the completion marker of its epoch and the snapshot it names
\* would survive a power loss.
THEOREM ClearedSafety == Spec => []ClearedOnlyWhenDurable
<1>1. IInv => ClearedOnlyWhenDurable
  BY MarkersMeanComplete DEF IInv, ClearedInv, ClearedOnlyWhenDurable
<1> QED BY <1>1, Invariance, PTL

\* Bootstrap: whatever was interrupted before, upstream is spawned with the folder
\* unpaused only behind a durable completion made for the type it will run.
THEOREM SpawnSafety == Spec => SpawnGate
<1> DEFINE Gate == ~up /\ up' /\ bound' /\ ~upPaused' =>
                     /\ DurablyComplete(store.epoch)
                     /\ (dkMarker.mode = "sendonly") <=> (upType = "sendonly")
<1>1. ASSUME IInv, [Next]_vars PROVE [Gate]_vars
  <2> USE DEF vars, opVars, fsVars, dkVars, cardVars, upVars, histVars
  <2>1. CASE ApplyPauseAndSpawn
    <3> SUFFICES ASSUME bound', ~upPaused'
                 PROVE  DurablyComplete(store.epoch)
                        /\ ((dkMarker.mode = "sendonly") <=> (upType = "sendonly"))
      BY <2>1
    <3>1. ~mem.firstSync /\ inventory /\ bound /\ pc = "gate"
      BY <2>1 DEF ApplyPauseAndSpawn, ReasonsFor
    <3>2. mem = store /\ ~revoked /\ ((fsMarker.mode = "sendonly") <=> (upType = "sendonly"))
      BY <1>1, <3>1 DEF IInv, BootInv, BootPCs
    <3>3. MarkersAt(store.epoch)
      BY <1>1, <3>1, <3>2 DEF IInv, ClearedInv
    <3> QED BY <1>1, <3>2, <3>3, MarkersMeanComplete DEF MarkersAt
  <2>2. ASSUME NEW n \in Names, PrepareBegin(n) \/ CleanupBegin(n) PROVE up' => up
    BY <2>2 DEF PrepareBegin, CleanupBegin
  <2>3. ASSUME NEW t \in Types, SetFolderType(t) \/ CreateFolder(t) PROVE up' => up
    BY <2>3 DEF SetFolderType, CreateFolder
  <2>4. ASSUME prepareLocked PROVE up' => up
    BY <2>4
      DEF prepareLocked, PrepareCopy, PrepareSync, PrepareReady, PreparePromote,
          PrepareVerify
  <2>5. ASSUME StartFirstSync \/ Complete PROVE up' => up
    BY <2>5
      DEF StartFirstSync, Complete, CompleteSync, CompleteMark, CompleteClear,
          StartUnpause
  <2>6. ASSUME Invalidate \/ TypePatch PROVE up' => up
    BY <2>6
      DEF Invalidate, InvalidateRemove, InvalidateSync, InvalidateRequire, TypePatch
  <2>7. ASSUME FolderPause \/ FolderResume \/ FolderMembership \/ PersistDocument \/ RefreshStatus \/ FolderStop
        PROVE  up' => up
    BY <2>7 DEF FolderPause, FolderResume, FolderMembership, PersistDocument, RefreshStatus, FolderStop
  <2>8. ASSUME CleanupRemove \/ CleanupSync PROVE up' => up
    BY <2>8 DEF CleanupRemove, CleanupSync
  <2>9. ASSUME BootLoad \/ recover PROVE up' => up
    BY <2>9
      DEF BootLoad, recover, RecoverKind, RecoverComplete, RecoverRequire,
          RecoverAbsent, BootFails
  <2>10. ASSUME Environment PROVE up' => up
    BY <2>10
      DEF Environment, HandlerFails, Kill, PowerLoss, CardRemoved, CardInserted,
          Writeback
  <2>11. ASSUME UNCHANGED vars PROVE up' => up
    BY <2>11
  <2> QED
    BY <1>1, <2>1, <2>2, <2>3, <2>4, <2>5, <2>6, <2>7, <2>8, <2>9, <2>10, <2>11
    DEF Next, Controller
<1> QED BY <1>1, Invariance, PTL DEF Spec, SpawnGate

=============================================================================
