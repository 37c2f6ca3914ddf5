---------------------------- MODULE UpstreamProofs ---------------------------
(***************************************************************************)
(* Proofs about the upstream's configuration, UpstreamConfig, for every    *)
(* set of revisions and every number of formats, and about its process     *)
(* group, UpstreamProcess, for every set of processes, every number of     *)
(* shutdown requests and of controllers.                                   *)
(*                                                                         *)
(* UpstreamConfig: kills never cost the configuration directory its last   *)
(* known-good config, power losses only while config.xml has left its name *)
(* unflushed, and the directory implements one register.  IInv says what   *)
(* a start-up would find in the tree the processes see (FoundInv) and in   *)
(* those the disk may hold (DiskInv), and what the step in progress knows  *)
(* about the three files (the other parts).                                *)
(*                                                                         *)
(* UpstreamProcess: a stop that is reported as verified left nobody alive, *)
(* and no upstream is started beside another.  ProcessIInv says what a     *)
(* scan of /proc under way is worth while processes come and go.           *)
(***************************************************************************)
EXTENDS UpstreamConfig, UpstreamProcess, TLAPS

\* RecoverConfig finds a config, unless a power loss came at the wrong moment
FoundInv ==
    /\ ~lost => KnownGood(fs)
    /\ open => fs.dir

\* the disk may hold what the processes see; while no swap is unflushed it
\* holds good configs only, or exactly what a power loss has left
Settled == \A c \in disk.config : Valid(c)
Remains ==
    /\ lost /\ pc \in {"down", "recover"}
    /\ disk.dir = {TRUE} /\ disk.bak = {fs.bak}
    /\ \A c \in disk.config : ~Valid(c)
DiskInv ==
    /\ fs.staged \in disk.staged /\ fs.dir \in disk.dir
    /\ fs.config \in disk.config /\ fs.tmp \in disk.tmp
    /\ fs.bak \in disk.bak /\ fs.marker \in disk.marker
    /\ TRUE \in disk.dir => fs.dir
    /\ Torn \notin disk.bak
    /\ fs.dir /\ ~open => Settled \/ Remains

\* generation works outside the config directory until it is flushed
GenerateInv ==
    /\ pc \in {"generate", "gen-run", "gen-sync", "gen-promote"} => ~fs.dir
    /\ pc \in {"gen-run", "gen-sync", "gen-promote"} => fs.staged
    /\ pc \in {"gen-sync", "gen-promote"} =>
         fs.config = [fmt |-> binary, rev |-> Initial] /\ fs.marker = binary
    /\ pc = "gen-promote" => disk.config = {fs.config}

\* everything else works inside it
Current == fs.marker = binary /\ fs.config.fmt = binary
LiveInv ==
    /\ pc \in RecoverPCs \cup PromotePCs
              \cup {"identity", "marker", "marker-sync", "pause", "spawn", "running",
                    "gen-promoted"} => fs.dir
    /\ pc \in {"discard-sync", "restore-sync", "identity", "pause", "spawn", "running",
               "marker", "marker-sync", "gen-promoted", "promote", "promote-flush",
               "promote-retire", "promote-sync", "promote-verify", "undo", "undo-sync"}
         => Valid(fs.config)
    /\ pc \in {"pause", "spawn", "running", "gen-promoted", "marker-sync"} => Current
    /\ pc = "marker" => fs.config.fmt = binary
    /\ lost => pc \in RecoverPCs \cup GeneratePCs \cup {"down"}

\* a backup that restoreBackup may need is the config before the edit
BackupInv ==
    pc \in {"promote-swap", "promote-sync", "promote-verify", "undo", "undo-rename"}
      => Valid(fs.bak)

PromoteInv ==
    /\ pc \in PromotePCs => want \in Content /\ want.fmt = binary
    /\ pc \in PromotePCs /\ after = "spawn" => fs.marker = binary
    /\ pc \in {"promote-retire", "promote-swap"} => fs.tmp = want
    /\ pc \in {"promote-sync", "promote-verify"} => fs.config.fmt = binary

IInv == TypeOK /\ FoundInv /\ DiskInv /\ GenerateInv /\ LiveInv /\ BackupInv /\ PromoteInv

LEMMA EmptyIs == Empty \in Tree /\ Absent \in File /\ Torn \in File
BY FormatAssumption DEF Empty, Tree, File

LEMMA InitInv == Init => IInv
<1> SUFFICES ASSUME Init PROVE IInv
    OBVIOUS
<1>1. Empty \in Tree
    BY EmptyIs
<1>2. fs = Empty /\ disk = Only(Empty) /\ ~fs.dir
    BY DEF Init, Empty
<1>3. disk \in Disks
    BY <1>1, <1>2 DEF Only, Tree, Disks
<1>4. TypeOK
  <2>1. 1 \in Formats
    BY FormatAssumption DEF Formats
  <2> QED
    BY <1>1, <1>2, <1>3, <2>1 DEF Init, TypeOK, PCs
<1>5. FoundInv /\ DiskInv
    BY <1>2, FileAssumption DEF Init, FoundInv, DiskInv, KnownGood, Only, Empty
<1> QED
    BY <1>4, <1>5 DEF Init, IInv, GenerateInv, LiveInv, BackupInv, PromoteInv, RecoverPCs,
       GeneratePCs, PromotePCs

\* what syncfs, a step that writes, and a power loss do to the disk
Synced ==
    /\ fs' = fs /\ disk' \in Disks /\ open' = FALSE /\ lost' = FALSE
    /\ disk'.staged = {fs.staged} /\ disk'.dir = {fs.dir} /\ disk'.config = {fs.config}
    /\ disk'.tmp = {fs.tmp} /\ disk'.bak = {fs.bak} /\ disk'.marker = {fs.marker}
LEMMA SyncedIs == ASSUME TypeOK, SyncFilesystem PROVE Synced
BY DEF Synced, SyncFilesystem, Only, TypeOK, Tree, Disks

Written ==
    /\ disk' \in Disks /\ lost' = lost
    /\ disk'.staged = disk.staged \cup {fs'.staged} /\ disk'.dir = disk.dir \cup {fs'.dir}
    /\ disk'.config = disk.config \cup {fs'.config} /\ disk'.tmp = disk.tmp \cup {fs'.tmp}
    /\ disk'.bak = disk.bak \cup {fs'.bak} /\ disk'.marker = disk.marker \cup {fs'.marker}
LEMMA WrittenIs == ASSUME TypeOK, NEW t \in Tree, Write(t) PROVE fs' = t /\ Written
BY DEF Written, Write, TypeOK, Tree, Disks

LEMMA StepInv == IInv /\ [Next]_vars => IInv'
<1> SUFFICES ASSUME IInv, [Next]_vars PROVE IInv'
    OBVIOUS
<1> USE RevisionAssumption, FormatAssumption, FileAssumption
    DEF IInv, PCs, RecoverPCs, GeneratePCs, PromotePCs, EditPCs, Goto, Valid
<1>a. TypeOK
    OBVIOUS
<1>b. /\ binary \in Nat \ {0} /\ binary \in 0..MaxFormat
      /\ [fmt |-> binary, rev |-> Initial] \in File \ {Absent, Torn}
    BY DEF TypeOK, Formats, File, Content
<1>1. CASE BootStart
    BY <1>1
    DEF BootStart, TypeOK, FoundInv, DiskInv, Settled, Remains, GenerateInv, LiveInv,
        BackupInv, PromoteInv, Current, KnownGood, files
<1>2. CASE RecoverDiscard
  <2>1. /\ fs' \in Tree /\ Written /\ open' = open
        /\ fs'.staged = fs.staged /\ fs'.dir = fs.dir
        /\ fs'.config = fs.config /\ fs'.tmp = Absent
        /\ fs'.bak = (IF fs.bak = Torn THEN Absent ELSE fs.bak) /\ fs'.marker = fs.marker
    <3> DEFINE t == [fs EXCEPT !.tmp = Absent, !.bak = IF fs.bak = Torn THEN Absent ELSE fs.bak]
    <3>1. t \in Tree
      BY <1>b, <1>2, EmptyIs DEF RecoverDiscard, TypeOK, Tree, File, GenerateInv, PromoteInv
    <3>2. Write(t) /\ open' = open
      BY <1>2 DEF RecoverDiscard, Change, Swap
    <3>3. fs' = t /\ Written
      BY <1>a, <3>1, <3>2, WrittenIs
    <3> QED
      BY <3>1, <3>2, <3>3 DEF TypeOK, Tree, Empty
  <2>2. FoundInv' /\ DiskInv'
    BY <1>2, <2>1
    DEF RecoverDiscard, Written, FoundInv, DiskInv, Settled, Remains, KnownGood, LiveInv,
        BackupInv, PromoteInv, GenerateInv, Current, TypeOK, Content
  <2>3. TypeOK' /\ GenerateInv' /\ BackupInv' /\ PromoteInv'
    BY <1>2, <2>1
    DEF RecoverDiscard, Written, TypeOK, GenerateInv, BackupInv, PromoteInv, LiveInv,
        Current, DiskInv
  <2>4. LiveInv'
    BY <1>2, <2>1
    DEF RecoverDiscard, Written, LiveInv, Current, PromoteInv, BackupInv, GenerateInv, TypeOK
  <2> QED
    BY <2>2, <2>3, <2>4
<1>3. CASE RecoverReady
  <2>1. CASE SyncFilesystem
    <3>1. Synced
      BY <1>a, <2>1, SyncedIs
        <3>2. FoundInv' /\ DiskInv'
      BY <1>3, <3>1
      DEF RecoverReady, Synced, FoundInv, DiskInv, Settled, Remains, KnownGood, LiveInv,
          BackupInv, PromoteInv, GenerateInv, Current, TypeOK, Content
    <3>3. TypeOK' /\ GenerateInv' /\ BackupInv' /\ PromoteInv'
      BY <1>3, <3>1
      DEF RecoverReady, Synced, TypeOK, GenerateInv, BackupInv, PromoteInv, LiveInv, Current,
          DiskInv
    <3>4. LiveInv'
      BY <1>3, <3>1
      DEF RecoverReady, Synced, LiveInv, Current, PromoteInv, BackupInv, GenerateInv, TypeOK
    <3> QED
      BY <3>2, <3>3, <3>4
  <2>2. CASE pc = "recover" /\ Valid(fs.config) /\ lost' = FALSE /\ UNCHANGED <<fs, disk, open>>
    BY <1>3, <2>2
    DEF RecoverReady, TypeOK, FoundInv, DiskInv, Settled, Remains, GenerateInv, LiveInv,
        BackupInv, PromoteInv, Current, KnownGood
  <2> QED
    BY <1>3, <2>1, <2>2 DEF RecoverReady
<1>4. CASE RestoreDiscard
  <2>1. /\ fs' \in Tree /\ Written /\ open' = open
        /\ fs'.staged = fs.staged /\ fs'.dir = fs.dir
        /\ fs'.config = Absent /\ fs'.tmp = Absent
        /\ fs'.bak = fs.bak /\ fs'.marker = fs.marker
    <3> DEFINE t == [fs EXCEPT !.config = Absent, !.tmp = Absent]
    <3>1. t \in Tree
      BY <1>b, <1>4, EmptyIs DEF RestoreDiscard, TypeOK, Tree, File, GenerateInv, PromoteInv
    <3>2. Write(t) /\ open' = open
      BY <1>4 DEF RestoreDiscard, Change, Swap
    <3>3. fs' = t /\ Written
      BY <1>a, <3>1, <3>2, WrittenIs
    <3> QED
      BY <3>1, <3>2, <3>3 DEF TypeOK, Tree, Empty
  <2>2. FoundInv' /\ DiskInv'
    BY <1>4, <2>1
    DEF RestoreDiscard, Written, FoundInv, DiskInv, Settled, Remains, KnownGood, LiveInv,
        BackupInv, PromoteInv, GenerateInv, Current, TypeOK, Content
  <2>3. TypeOK' /\ GenerateInv' /\ BackupInv' /\ PromoteInv'
    BY <1>4, <2>1
    DEF RestoreDiscard, Written, TypeOK, GenerateInv, BackupInv, PromoteInv, LiveInv,
        Current, DiskInv
  <2>4. LiveInv'
    BY <1>4, <2>1
    DEF RestoreDiscard, Written, LiveInv, Current, PromoteInv, BackupInv, GenerateInv, TypeOK
  <2> QED
    BY <2>2, <2>3, <2>4
<1>5. CASE RestoreRename
  <2>1. /\ fs' \in Tree /\ Written /\ open' = TRUE
        /\ fs'.staged = fs.staged /\ fs'.dir = fs.dir
        /\ fs'.config = fs.bak /\ fs'.tmp = fs.tmp
        /\ fs'.bak = Absent /\ fs'.marker = fs.marker
    <3> DEFINE t == [fs EXCEPT !.config = fs.bak, !.bak = Absent]
    <3>1. t \in Tree
      BY <1>b, <1>5, EmptyIs DEF RestoreRename, TypeOK, Tree, File, GenerateInv, PromoteInv
    <3>2. Write(t) /\ open' = TRUE
      BY <1>5 DEF RestoreRename, Change, Swap
    <3>3. fs' = t /\ Written
      BY <1>a, <3>1, <3>2, WrittenIs
    <3> QED
      BY <3>1, <3>2, <3>3 DEF TypeOK, Tree, Empty
  <2>2. FoundInv' /\ DiskInv'
    BY <1>5, <2>1
    DEF RestoreRename, Written, FoundInv, DiskInv, Settled, Remains, KnownGood, LiveInv,
        BackupInv, PromoteInv, GenerateInv, Current, TypeOK, Content
  <2>3. TypeOK' /\ GenerateInv' /\ BackupInv' /\ PromoteInv'
    BY <1>5, <2>1
    DEF RestoreRename, Written, TypeOK, GenerateInv, BackupInv, PromoteInv, LiveInv, Current,
        DiskInv
  <2>4. LiveInv'
    BY <1>5, <2>1
    DEF RestoreRename, Written, LiveInv, Current, PromoteInv, BackupInv, GenerateInv, TypeOK
  <2> QED
    BY <2>2, <2>3, <2>4
<1>6. CASE GenerateStage
  <2>1. /\ fs' \in Tree /\ Written /\ open' = open
        /\ fs'.staged = TRUE /\ fs'.dir = FALSE
        /\ fs'.config = Absent /\ fs'.tmp = Absent
        /\ fs'.bak = Absent /\ fs'.marker = 0
    <3> DEFINE t == [Empty EXCEPT !.staged = TRUE]
    <3>1. t \in Tree
      BY <1>b, <1>6, EmptyIs DEF GenerateStage, TypeOK, Tree, File, GenerateInv, PromoteInv
    <3>2. Write(t) /\ open' = open
      BY <1>6 DEF GenerateStage, Change, Swap
    <3>3. fs' = t /\ Written
      BY <1>a, <3>1, <3>2, WrittenIs
    <3> QED
      BY <3>1, <3>2, <3>3 DEF TypeOK, Tree, Empty
  <2>2. FoundInv' /\ DiskInv'
    BY <1>6, <2>1
    DEF GenerateStage, Written, FoundInv, DiskInv, Settled, Remains, KnownGood, LiveInv,
        BackupInv, PromoteInv, GenerateInv, Current, TypeOK, Content
  <2>3. TypeOK' /\ GenerateInv' /\ BackupInv' /\ PromoteInv'
    BY <1>6, <2>1
    DEF GenerateStage, Written, TypeOK, GenerateInv, BackupInv, PromoteInv, LiveInv, Current,
        DiskInv
  <2>4. LiveInv'
    BY <1>6, <2>1
    DEF GenerateStage, Written, LiveInv, Current, PromoteInv, BackupInv, GenerateInv, TypeOK
  <2> QED
    BY <2>2, <2>3, <2>4
<1>7. CASE GenerateRun
  <2>1. /\ fs' \in Tree /\ Written /\ open' = open
        /\ fs'.staged = fs.staged /\ fs'.dir = fs.dir
        /\ fs'.config = [fmt |-> binary, rev |-> Initial] /\ fs'.tmp = fs.tmp
        /\ fs'.bak = fs.bak /\ fs'.marker = binary
    <3> DEFINE t == [fs EXCEPT !.marker = binary, !.config = [fmt |-> binary, rev |-> Initial]]
    <3>1. t \in Tree
      BY <1>b, <1>7, EmptyIs DEF GenerateRun, TypeOK, Tree, File, GenerateInv, PromoteInv
    <3>2. Write(t) /\ open' = open
      BY <1>7 DEF GenerateRun, Change, Swap
    <3>3. fs' = t /\ Written
      BY <1>a, <3>1, <3>2, WrittenIs
    <3> QED
      BY <3>1, <3>2, <3>3 DEF TypeOK, Tree, Empty
  <2>2. FoundInv' /\ DiskInv'
    BY <1>7, <2>1
    DEF GenerateRun, Written, FoundInv, DiskInv, Settled, Remains, KnownGood, LiveInv,
        BackupInv, PromoteInv, GenerateInv, Current, TypeOK, Content
  <2>3. TypeOK' /\ GenerateInv' /\ BackupInv' /\ PromoteInv'
    BY <1>7, <2>1
    DEF GenerateRun, Written, TypeOK, GenerateInv, BackupInv, PromoteInv, LiveInv, Current,
        DiskInv
  <2>4. LiveInv'
    BY <1>7, <2>1
    DEF GenerateRun, Written, LiveInv, Current, PromoteInv, BackupInv, GenerateInv, TypeOK
  <2> QED
    BY <2>2, <2>3, <2>4
<1>8. CASE GenerateSync
  <2>1. Synced
    BY <1>a, <1>8, SyncedIs DEF GenerateSync
  <2>2. FoundInv' /\ DiskInv'
    BY <1>8, <2>1
    DEF GenerateSync, Synced, FoundInv, DiskInv, Settled, Remains, KnownGood, LiveInv,
        BackupInv, PromoteInv, GenerateInv, Current, TypeOK, Content
  <2>3. TypeOK' /\ GenerateInv' /\ BackupInv' /\ PromoteInv'
    BY <1>8, <2>1
    DEF GenerateSync, Synced, TypeOK, GenerateInv, BackupInv, PromoteInv, LiveInv, Current,
        DiskInv
  <2>4. LiveInv'
    BY <1>8, <2>1
    DEF GenerateSync, Synced, LiveInv, Current, PromoteInv, BackupInv, GenerateInv, TypeOK
  <2> QED
    BY <2>2, <2>3, <2>4
<1>9. CASE GeneratePromote
  <2>1. /\ fs' \in Tree /\ Written /\ open' = open
        /\ fs'.staged = FALSE /\ fs'.dir = TRUE
        /\ fs'.config = fs.config /\ fs'.tmp = fs.tmp
        /\ fs'.bak = fs.bak /\ fs'.marker = fs.marker
    <3> DEFINE t == [fs EXCEPT !.staged = FALSE, !.dir = TRUE]
    <3>1. t \in Tree
      BY <1>b, <1>9, EmptyIs DEF GeneratePromote, TypeOK, Tree, File, GenerateInv, PromoteInv
    <3>2. Write(t) /\ open' = open
      BY <1>9 DEF GeneratePromote, Change, Swap
    <3>3. fs' = t /\ Written
      BY <1>a, <3>1, <3>2, WrittenIs
    <3> QED
      BY <3>1, <3>2, <3>3 DEF TypeOK, Tree, Empty
  <2>2. FoundInv' /\ DiskInv'
    BY <1>9, <2>1, <1>b
    DEF GeneratePromote, Written, FoundInv, DiskInv, Settled, Remains, KnownGood, LiveInv,
        BackupInv, PromoteInv, GenerateInv, Current, TypeOK, Content
  <2>3. TypeOK' /\ GenerateInv' /\ BackupInv' /\ PromoteInv'
    BY <1>9, <2>1, <1>b
    DEF GeneratePromote, Written, TypeOK, GenerateInv, BackupInv, PromoteInv, LiveInv,
        Current, DiskInv
  <2>4. LiveInv'
    BY <1>9, <2>1, <1>b
    DEF GeneratePromote, Written, LiveInv, Current, PromoteInv, BackupInv, GenerateInv,
        TypeOK
  <2> QED
    BY <2>2, <2>3, <2>4
<1>10. CASE GenerateDone
  <2>1. Synced
    BY <1>a, <1>10, SyncedIs DEF GenerateDone
  <2>2. FoundInv' /\ DiskInv'
    BY <1>10, <2>1
    DEF GenerateDone, Synced, FoundInv, DiskInv, Settled, Remains, KnownGood, LiveInv,
        BackupInv, PromoteInv, GenerateInv, Current, TypeOK, Content
  <2>3. TypeOK' /\ GenerateInv' /\ BackupInv' /\ PromoteInv'
    BY <1>10, <2>1
    DEF GenerateDone, Synced, TypeOK, GenerateInv, BackupInv, PromoteInv, LiveInv, Current,
        DiskInv
  <2>4. LiveInv'
    BY <1>10, <2>1
    DEF GenerateDone, Synced, LiveInv, Current, PromoteInv, BackupInv, GenerateInv, TypeOK
  <2> QED
    BY <2>2, <2>3, <2>4
<1>11. CASE GenerateFails
  <2>1. fs' \in Tree /\ Written /\ open' = open /\ fs' = (IF fs.dir THEN fs ELSE Empty)
    <3> DEFINE t == IF fs.dir THEN fs ELSE Empty
    <3>1. t \in Tree
      BY DEF TypeOK, Tree, File, Empty
    <3>2. Write(t) /\ open' = open
      BY <1>11 DEF GenerateFails, Change
    <3> QED
      BY <1>a, <3>1, <3>2, WrittenIs
  <2>2. FoundInv' /\ DiskInv'
    BY <1>11, <2>1
    DEF GenerateFails, Written, FoundInv, DiskInv, Settled, Remains, KnownGood, LiveInv,
        BackupInv, PromoteInv, GenerateInv, Current, TypeOK, Content, Empty
  <2>3. TypeOK' /\ GenerateInv' /\ BackupInv' /\ PromoteInv'
    BY <1>11, <2>1
    DEF GenerateFails, Written, TypeOK, GenerateInv, BackupInv, PromoteInv, LiveInv, Current,
        DiskInv, Empty
  <2>4. LiveInv'
    BY <1>11, <2>1
    DEF GenerateFails, Written, LiveInv, Current, PromoteInv, BackupInv, GenerateInv, TypeOK,
        Empty
  <2> QED
    BY <2>2, <2>3, <2>4
<1>12. CASE IdentityCurrent
    BY <1>12
    DEF IdentityCurrent, MarkerCurrent, TypeOK, FoundInv, DiskInv, Settled, Remains,
        GenerateInv, LiveInv, BackupInv, PromoteInv, Current, KnownGood, files
<1>13. CASE MigrateIdentity
    BY <1>13
    DEF MigrateIdentity, Content, Tree, File, TypeOK, FoundInv, DiskInv, Settled, Remains,
        GenerateInv, LiveInv, BackupInv, PromoteInv, Current, KnownGood, files
<1>14. CASE MarkerReplace
  <2>1. /\ fs' \in Tree /\ Written /\ open' = open
        /\ fs'.staged = fs.staged /\ fs'.dir = fs.dir
        /\ fs'.config = fs.config /\ fs'.tmp = fs.tmp
        /\ fs'.bak = fs.bak /\ fs'.marker = binary
    <3> DEFINE t == [fs EXCEPT !.marker = binary]
    <3>1. t \in Tree
      BY <1>b, <1>14, EmptyIs DEF MarkerReplace, TypeOK, Tree, File, GenerateInv, PromoteInv
    <3>2. Write(t) /\ open' = open
      BY <1>14 DEF MarkerReplace, Change, Swap
    <3>3. fs' = t /\ Written
      BY <1>a, <3>1, <3>2, WrittenIs
    <3> QED
      BY <3>1, <3>2, <3>3 DEF TypeOK, Tree, Empty
  <2>2. FoundInv' /\ DiskInv'
    BY <1>14, <2>1
    DEF MarkerReplace, Written, FoundInv, DiskInv, Settled, Remains, KnownGood, LiveInv,
        BackupInv, PromoteInv, GenerateInv, Current, TypeOK, Content
  <2>3. TypeOK' /\ GenerateInv' /\ BackupInv' /\ PromoteInv'
    BY <1>14, <2>1
    DEF MarkerReplace, Written, TypeOK, GenerateInv, BackupInv, PromoteInv, LiveInv, Current,
        DiskInv
  <2>4. LiveInv'
    BY <1>14, <2>1
    DEF MarkerReplace, Written, LiveInv, Current, PromoteInv, BackupInv, GenerateInv, TypeOK
  <2> QED
    BY <2>2, <2>3, <2>4
<1>15. CASE MarkerSync
  <2>1. Synced
    BY <1>a, <1>15, SyncedIs DEF MarkerSync
  <2>2. FoundInv' /\ DiskInv'
    BY <1>15, <2>1
    DEF MarkerSync, Synced, FoundInv, DiskInv, Settled, Remains, KnownGood, LiveInv,
        BackupInv, PromoteInv, GenerateInv, Current, TypeOK, Content
  <2>3. TypeOK' /\ GenerateInv' /\ BackupInv' /\ PromoteInv'
    BY <1>15, <2>1
    DEF MarkerSync, Synced, TypeOK, GenerateInv, BackupInv, PromoteInv, LiveInv, Current,
        DiskInv
  <2>4. LiveInv'
    BY <1>15, <2>1
    DEF MarkerSync, Synced, LiveInv, Current, PromoteInv, BackupInv, GenerateInv, TypeOK
  <2> QED
    BY <2>2, <2>3, <2>4
<1>16. CASE PromoteCreate
  <2>1. /\ fs' \in Tree /\ Written /\ open' = open
        /\ fs'.staged = fs.staged /\ fs'.dir = fs.dir
        /\ fs'.config = fs.config /\ fs'.tmp = Torn
        /\ fs'.bak = fs.bak /\ fs'.marker = fs.marker
    <3> DEFINE t == [fs EXCEPT !.tmp = Torn]
    <3>1. t \in Tree
      BY <1>b, <1>16, EmptyIs DEF PromoteCreate, TypeOK, Tree, File, GenerateInv, PromoteInv
    <3>2. Write(t) /\ open' = open
      BY <1>16 DEF PromoteCreate, Change, Swap
    <3>3. fs' = t /\ Written
      BY <1>a, <3>1, <3>2, WrittenIs
    <3> QED
      BY <3>1, <3>2, <3>3 DEF TypeOK, Tree, Empty
  <2>2. FoundInv' /\ DiskInv'
    BY <1>16, <2>1
    DEF PromoteCreate, Written, FoundInv, DiskInv, Settled, Remains, KnownGood, LiveInv,
        BackupInv, PromoteInv, GenerateInv, Current, TypeOK, Content
  <2>3. TypeOK' /\ GenerateInv' /\ BackupInv' /\ PromoteInv'
    BY <1>16, <2>1
    DEF PromoteCreate, Written, TypeOK, GenerateInv, BackupInv, PromoteInv, LiveInv, Current,
        DiskInv
  <2>4. LiveInv'
    BY <1>16, <2>1
    DEF PromoteCreate, Written, LiveInv, Current, PromoteInv, BackupInv, GenerateInv, TypeOK
  <2> QED
    BY <2>2, <2>3, <2>4
<1>17. CASE PromoteFlush
  <2>1. /\ fs' \in Tree /\ Written /\ open' = open
        /\ fs'.staged = fs.staged /\ fs'.dir = fs.dir
        /\ fs'.config = fs.config /\ fs'.tmp = want
        /\ fs'.bak = fs.bak /\ fs'.marker = fs.marker
    <3> DEFINE t == [fs EXCEPT !.tmp = want]
    <3>1. t \in Tree
      BY <1>b, <1>17, EmptyIs DEF PromoteFlush, TypeOK, Tree, File, GenerateInv, PromoteInv
    <3>2. Write(t) /\ open' = open
      BY <1>17 DEF PromoteFlush, Change, Swap
    <3>3. fs' = t /\ Written
      BY <1>a, <3>1, <3>2, WrittenIs
    <3> QED
      BY <3>1, <3>2, <3>3 DEF TypeOK, Tree, Empty
  <2>2. FoundInv' /\ DiskInv'
    BY <1>17, <2>1
    DEF PromoteFlush, Written, FoundInv, DiskInv, Settled, Remains, KnownGood, LiveInv,
        BackupInv, PromoteInv, GenerateInv, Current, TypeOK, Content
  <2>3. TypeOK' /\ GenerateInv' /\ BackupInv' /\ PromoteInv'
    BY <1>17, <2>1
    DEF PromoteFlush, Written, TypeOK, GenerateInv, BackupInv, PromoteInv, LiveInv, Current,
        DiskInv
  <2>4. LiveInv'
    BY <1>17, <2>1
    DEF PromoteFlush, Written, LiveInv, Current, PromoteInv, BackupInv, GenerateInv, TypeOK
  <2> QED
    BY <2>2, <2>3, <2>4
<1>18. CASE PromoteRetire
  <2>1. CASE Change([fs EXCEPT !.bak = Absent]) /\ Goto("promote-retire")
    <3>1. /\ fs' \in Tree /\ Written /\ open' = open
          /\ fs'.staged = fs.staged /\ fs'.dir = fs.dir
          /\ fs'.config = fs.config /\ fs'.tmp = fs.tmp
          /\ fs'.bak = Absent /\ fs'.marker = fs.marker
      <4> DEFINE t == [fs EXCEPT !.bak = Absent]
      <4>1. t \in Tree
        BY DEF TypeOK, Tree, File
      <4>2. Write(t) /\ open' = open
        BY <2>1 DEF Change, Swap
      <4>3. fs' = t /\ Written
        BY <1>a, <4>1, <4>2, WrittenIs
      <4> QED
        BY <4>1, <4>2, <4>3 DEF TypeOK, Tree
    <3>2. FoundInv' /\ DiskInv'
      BY <1>18, <2>1, <3>1
      DEF PromoteRetire, Written, FoundInv, DiskInv, Settled, Remains, KnownGood, LiveInv,
          BackupInv, PromoteInv, GenerateInv, Current, TypeOK, Content
    <3>3. TypeOK' /\ GenerateInv' /\ BackupInv' /\ PromoteInv'
      BY <1>18, <2>1, <3>1
      DEF PromoteRetire, Written, TypeOK, GenerateInv, BackupInv, PromoteInv, LiveInv,
          Current, DiskInv
    <3>4. LiveInv'
      BY <1>18, <2>1, <3>1
      DEF PromoteRetire, Written, LiveInv, Current, PromoteInv, BackupInv, GenerateInv,
          TypeOK
    <3> QED
      BY <3>2, <3>3, <3>4
  <2>2. CASE Swap([fs EXCEPT !.bak = fs.config, !.config = Absent]) /\ Goto("promote-swap")
    <3>1. /\ fs' \in Tree /\ Written /\ open' = TRUE
          /\ fs'.staged = fs.staged /\ fs'.dir = fs.dir
          /\ fs'.config = Absent /\ fs'.tmp = fs.tmp
          /\ fs'.bak = fs.config /\ fs'.marker = fs.marker
      <4> DEFINE t == [fs EXCEPT !.bak = fs.config, !.config = Absent]
      <4>1. t \in Tree
        BY DEF TypeOK, Tree, File
      <4>2. Write(t) /\ open' = TRUE
        BY <2>2 DEF Change, Swap
      <4>3. fs' = t /\ Written
        BY <1>a, <4>1, <4>2, WrittenIs
      <4> QED
        BY <4>1, <4>2, <4>3 DEF TypeOK, Tree
    <3>2. FoundInv' /\ DiskInv'
      BY <1>18, <2>2, <3>1
      DEF PromoteRetire, Written, FoundInv, DiskInv, Settled, Remains, KnownGood, LiveInv,
          BackupInv, PromoteInv, GenerateInv, Current, TypeOK, Content
    <3>3. TypeOK' /\ GenerateInv' /\ BackupInv' /\ PromoteInv'
      BY <1>18, <2>2, <3>1
      DEF PromoteRetire, Written, TypeOK, GenerateInv, BackupInv, PromoteInv, LiveInv,
          Current, DiskInv
    <3>4. LiveInv'
      BY <1>18, <2>2, <3>1
      DEF PromoteRetire, Written, LiveInv, Current, PromoteInv, BackupInv, GenerateInv,
          TypeOK
    <3> QED
      BY <3>2, <3>3, <3>4
  <2> QED
    BY <1>18, <2>1, <2>2 DEF PromoteRetire
<1>19. CASE PromoteSwap
  <2>1. /\ fs' \in Tree /\ Written /\ open' = TRUE
        /\ fs'.staged = fs.staged /\ fs'.dir = fs.dir
        /\ fs'.config = fs.tmp /\ fs'.tmp = Absent
        /\ fs'.bak = fs.bak /\ fs'.marker = fs.marker
    <3> DEFINE t == [fs EXCEPT !.config = fs.tmp, !.tmp = Absent]
    <3>1. t \in Tree
      BY <1>b, <1>19, EmptyIs DEF PromoteSwap, TypeOK, Tree, File, GenerateInv, PromoteInv
    <3>2. Write(t) /\ open' = TRUE
      BY <1>19 DEF PromoteSwap, Change, Swap
    <3>3. fs' = t /\ Written
      BY <1>a, <3>1, <3>2, WrittenIs
    <3> QED
      BY <3>1, <3>2, <3>3 DEF TypeOK, Tree, Empty
  <2>2. FoundInv' /\ DiskInv'
    BY <1>19, <2>1
    DEF PromoteSwap, Written, FoundInv, DiskInv, Settled, Remains, KnownGood, LiveInv,
        BackupInv, PromoteInv, GenerateInv, Current, TypeOK, Content
  <2>3. TypeOK' /\ GenerateInv' /\ BackupInv' /\ PromoteInv'
    BY <1>19, <2>1
    DEF PromoteSwap, Written, TypeOK, GenerateInv, BackupInv, PromoteInv, LiveInv, Current,
        DiskInv
  <2>4. LiveInv'
    BY <1>19, <2>1
    DEF PromoteSwap, Written, LiveInv, Current, PromoteInv, BackupInv, GenerateInv, TypeOK
  <2> QED
    BY <2>2, <2>3, <2>4
<1>20. CASE PromoteSync
  <2>1. Synced
    BY <1>a, <1>20, SyncedIs DEF PromoteSync
  <2>2. FoundInv' /\ DiskInv'
    BY <1>20, <2>1
    DEF PromoteSync, Synced, FoundInv, DiskInv, Settled, Remains, KnownGood, LiveInv,
        BackupInv, PromoteInv, GenerateInv, Current, TypeOK, Content
  <2>3. TypeOK' /\ GenerateInv' /\ BackupInv' /\ PromoteInv'
    BY <1>20, <2>1
    DEF PromoteSync, Synced, TypeOK, GenerateInv, BackupInv, PromoteInv, LiveInv, Current,
        DiskInv
  <2>4. LiveInv'
    BY <1>20, <2>1
    DEF PromoteSync, Synced, LiveInv, Current, PromoteInv, BackupInv, GenerateInv, TypeOK
  <2> QED
    BY <2>2, <2>3, <2>4
<1>21. CASE PromoteVerify
    BY <1>21
    DEF PromoteVerify, TypeOK, FoundInv, DiskInv, Settled, Remains, GenerateInv, LiveInv,
        BackupInv, PromoteInv, Current, KnownGood, files
<1>22. CASE UndoRemove
  <2>1. /\ fs' \in Tree /\ Written /\ open' = TRUE
        /\ fs'.staged = fs.staged /\ fs'.dir = fs.dir
        /\ fs'.config = Absent /\ fs'.tmp = Absent
        /\ fs'.bak = fs.bak /\ fs'.marker = fs.marker
    <3> DEFINE t == [fs EXCEPT !.config = Absent, !.tmp = Absent]
    <3>1. t \in Tree
      BY <1>b, <1>22, EmptyIs DEF UndoRemove, TypeOK, Tree, File, GenerateInv, PromoteInv
    <3>2. Write(t) /\ open' = TRUE
      BY <1>22 DEF UndoRemove, Change, Swap
    <3>3. fs' = t /\ Written
      BY <1>a, <3>1, <3>2, WrittenIs
    <3> QED
      BY <3>1, <3>2, <3>3 DEF TypeOK, Tree, Empty
  <2>2. FoundInv' /\ DiskInv'
    BY <1>22, <2>1
    DEF UndoRemove, Written, FoundInv, DiskInv, Settled, Remains, KnownGood, LiveInv,
        BackupInv, PromoteInv, GenerateInv, Current, TypeOK, Content
  <2>3. TypeOK' /\ GenerateInv' /\ BackupInv' /\ PromoteInv'
    BY <1>22, <2>1
    DEF UndoRemove, Written, TypeOK, GenerateInv, BackupInv, PromoteInv, LiveInv, Current,
        DiskInv
  <2>4. LiveInv'
    BY <1>22, <2>1
    DEF UndoRemove, Written, LiveInv, Current, PromoteInv, BackupInv, GenerateInv, TypeOK
  <2> QED
    BY <2>2, <2>3, <2>4
<1>23. CASE UndoRename
  <2>1. /\ fs' \in Tree /\ Written /\ open' = TRUE
        /\ fs'.staged = fs.staged /\ fs'.dir = fs.dir
        /\ fs'.config = fs.bak /\ fs'.tmp = fs.tmp
        /\ fs'.bak = Absent /\ fs'.marker = fs.marker
    <3> DEFINE t == [fs EXCEPT !.config = fs.bak, !.bak = Absent]
    <3>1. t \in Tree
      BY <1>b, <1>23, EmptyIs DEF UndoRename, TypeOK, Tree, File, GenerateInv, PromoteInv
    <3>2. Write(t) /\ open' = TRUE
      BY <1>23 DEF UndoRename, Change, Swap
    <3>3. fs' = t /\ Written
      BY <1>a, <3>1, <3>2, WrittenIs
    <3> QED
      BY <3>1, <3>2, <3>3 DEF TypeOK, Tree, Empty
  <2>2. FoundInv' /\ DiskInv'
    BY <1>23, <2>1
    DEF UndoRename, Written, FoundInv, DiskInv, Settled, Remains, KnownGood, LiveInv,
        BackupInv, PromoteInv, GenerateInv, Current, TypeOK, Content
  <2>3. TypeOK' /\ GenerateInv' /\ BackupInv' /\ PromoteInv'
    BY <1>23, <2>1
    DEF UndoRename, Written, TypeOK, GenerateInv, BackupInv, PromoteInv, LiveInv, Current,
        DiskInv
  <2>4. LiveInv'
    BY <1>23, <2>1
    DEF UndoRename, Written, LiveInv, Current, PromoteInv, BackupInv, GenerateInv, TypeOK
  <2> QED
    BY <2>2, <2>3, <2>4
<1>24. CASE UndoSync
  <2>1. Synced
    BY <1>a, <1>24, SyncedIs DEF UndoSync
  <2>2. FoundInv' /\ DiskInv'
    BY <1>24, <2>1
    DEF UndoSync, Synced, FoundInv, DiskInv, Settled, Remains, KnownGood, LiveInv, BackupInv,
        PromoteInv, GenerateInv, Current, TypeOK, Content
  <2>3. TypeOK' /\ GenerateInv' /\ BackupInv' /\ PromoteInv'
    BY <1>24, <2>1
    DEF UndoSync, Synced, TypeOK, GenerateInv, BackupInv, PromoteInv, LiveInv, Current,
        DiskInv
  <2>4. LiveInv'
    BY <1>24, <2>1
    DEF UndoSync, Synced, LiveInv, Current, PromoteInv, BackupInv, GenerateInv, TypeOK
  <2> QED
    BY <2>2, <2>3, <2>4
<1>25. CASE \E rev \in Revisions : ApplyOfflinePauseSet(rev)
  <2>1. UNCHANGED <<fs, disk, open, lost>>
    BY <1>25 DEF ApplyOfflinePauseSet, Content, Tree, File, files
  <2>2. FoundInv' /\ DiskInv'
    BY <1>25, <2>1
    DEF ApplyOfflinePauseSet, Content, Tree, File, FoundInv, DiskInv, Settled, Remains,
        KnownGood, LiveInv, BackupInv, PromoteInv, GenerateInv, Current, TypeOK, Content
  <2>3. TypeOK' /\ GenerateInv' /\ BackupInv' /\ PromoteInv'
    BY <1>25, <2>1
    DEF ApplyOfflinePauseSet, Content, Tree, File, TypeOK, GenerateInv, BackupInv,
        PromoteInv, LiveInv, Current, DiskInv
  <2>4. LiveInv'
    BY <1>25, <2>1
    DEF ApplyOfflinePauseSet, Content, Tree, File, LiveInv, Current, PromoteInv, BackupInv,
        GenerateInv, TypeOK
  <2> QED
    BY <2>2, <2>3, <2>4
<1>26. CASE \E rev \in Revisions : UpstreamSaves(rev)
  <2> PICK rev \in Revisions : UpstreamSaves(rev)
    BY <1>26
  <2> DEFINE new == [fs.config EXCEPT !.rev = rev]
  <2>0. pc = "running" /\ fs.config \in Content
    BY DEF UpstreamSaves, LiveInv, TypeOK, Tree, File
  <2>a. new \in Content /\ new.fmt = fs.config.fmt
    BY <2>0 DEF Content
  <2>1. /\ fs' \in Tree /\ Written /\ open' = open
        /\ fs'.staged = fs.staged /\ fs'.dir = fs.dir
        /\ fs'.config = new /\ fs'.tmp = fs.tmp
        /\ fs'.bak = fs.bak /\ fs'.marker = fs.marker
    <3> DEFINE t == [fs EXCEPT !.config = new]
    <3>1. t \in Tree
      BY <2>a DEF TypeOK, Tree, File
    <3>2. Write(t) /\ open' = open
      BY DEF UpstreamSaves, Change
    <3>3. fs' = t /\ Written
      BY <1>a, <3>1, <3>2, WrittenIs
    <3> QED
      BY <3>1, <3>2, <3>3 DEF TypeOK, Tree
  <2>b. pc' = pc /\ want' = want /\ after' = after /\ binary' = binary
    BY DEF UpstreamSaves
  <2> HIDE DEF new
  <2>2. FoundInv' /\ DiskInv'
    BY <2>0, <2>a, <2>b, <2>1
    DEF Written, FoundInv, DiskInv, Settled, Remains, KnownGood, LiveInv, BackupInv,
        PromoteInv, GenerateInv, Current, TypeOK, Content
  <2>3. TypeOK' /\ GenerateInv' /\ BackupInv' /\ PromoteInv'
    BY <2>0, <2>a, <2>b, <2>1
    DEF Written, TypeOK, GenerateInv, BackupInv, PromoteInv, LiveInv, Current, DiskInv
  <2>4. LiveInv'
    BY <2>0, <2>a, <2>b, <2>1
    DEF Written, LiveInv, Current, PromoteInv, BackupInv, GenerateInv, TypeOK
  <2> QED
    BY <2>2, <2>3, <2>4
<1>27. CASE Spawn
    BY <1>27
    DEF Spawn, TypeOK, FoundInv, DiskInv, Settled, Remains, GenerateInv, LiveInv, BackupInv,
        PromoteInv, Current, KnownGood, files
<1>28. CASE Stop
    BY <1>28
    DEF Stop, TypeOK, FoundInv, DiskInv, Settled, Remains, GenerateInv, LiveInv, BackupInv,
        PromoteInv, Current, KnownGood, files
<1>29. CASE PowerLoss
  <2> PICK t \in Possible : fs' = AfterLoss(t)
    BY <1>29 DEF PowerLoss
  <2>1. t \in Tree /\ fs' \in Tree
    BY EmptyIs DEF TypeOK, Disks, Possible, Tree, AfterLoss
  <2>2. /\ disk' \in Disks /\ open' = FALSE /\ lost' = (open \/ lost)
        /\ disk'.staged = {fs'.staged} /\ disk'.dir = {fs'.dir}
        /\ disk'.config = {fs'.config} /\ disk'.tmp = {fs'.tmp}
        /\ disk'.bak = {fs'.bak} /\ disk'.marker = {fs'.marker}
    BY <1>29, <2>1 DEF PowerLoss, Only, Tree, Disks
  <2>3. /\ t.dir \in disk.dir /\ t.config \in disk.config /\ t.bak \in disk.bak
        /\ fs'.dir = t.dir /\ (t.dir => fs' = t)
        /\ (~t.dir => fs' = [Empty EXCEPT !.staged = t.staged])
    BY <2>1 DEF Possible, AfterLoss, Empty, Tree
  <2>4. pc' = "down" /\ want' = want /\ after' = after /\ binary' = binary
    BY <1>29 DEF PowerLoss
  <2>5. FoundInv' /\ DiskInv'
    <3>1. CASE ~t.dir
      BY <2>2, <2>3, <2>4, <3>1, FileAssumption DEF FoundInv, DiskInv, KnownGood, Empty
    <3>2. CASE t.dir
      <4>1. fs.dir /\ fs' = t /\ Torn # t.bak /\ t.dir = TRUE
        BY <2>1, <2>3, <3>2 DEF DiskInv, Tree
      <4>2. CASE open
        BY <2>2, <2>4, <4>1, <4>2 DEF FoundInv, DiskInv, Settled, Remains
      <4>3. CASE ~open
        BY <2>2, <2>3, <2>4, <4>1, <4>3 DEF FoundInv, DiskInv, Settled, Remains, KnownGood
      <4> QED
        BY <4>2, <4>3
    <3> QED
      BY <3>1, <3>2
  <2>6. TypeOK'
    BY <2>1, <2>2, <2>3, <2>4 DEF TypeOK, Empty, Tree
  <2> QED
    BY <2>4, <2>5, <2>6 DEF GenerateInv, LiveInv, BackupInv, PromoteInv
<1>30. CASE Upgrade
  <2>1. UNCHANGED <<fs, disk, open, lost>>
    BY <1>30 DEF Upgrade, Formats, files
  <2>2. FoundInv' /\ DiskInv'
    BY <1>30, <2>1
    DEF Upgrade, Formats, FoundInv, DiskInv, Settled, Remains, KnownGood, LiveInv, BackupInv,
        PromoteInv, GenerateInv, Current, TypeOK, Content
  <2>3. TypeOK' /\ GenerateInv' /\ BackupInv' /\ PromoteInv'
    BY <1>30, <2>1
    DEF Upgrade, Formats, TypeOK, GenerateInv, BackupInv, PromoteInv, LiveInv, Current,
        DiskInv
  <2>4. LiveInv'
    BY <1>30, <2>1
    DEF Upgrade, Formats, LiveInv, Current, PromoteInv, BackupInv, GenerateInv, TypeOK
  <2> QED
    BY <2>2, <2>3, <2>4
<1>31. CASE UNCHANGED vars
  <2>1. UNCHANGED <<fs, disk, open, lost>>
    BY <1>31 DEF vars, files
  <2>2. FoundInv' /\ DiskInv'
    BY <1>31, <2>1
    DEF vars, FoundInv, DiskInv, Settled, Remains, KnownGood, LiveInv, BackupInv, PromoteInv,
        GenerateInv, Current, TypeOK, Content
  <2>3. TypeOK' /\ GenerateInv' /\ BackupInv' /\ PromoteInv'
    BY <1>31, <2>1
    DEF vars, TypeOK, GenerateInv, BackupInv, PromoteInv, LiveInv, Current, DiskInv
  <2>4. LiveInv'
    BY <1>31, <2>1 DEF vars, LiveInv, Current, PromoteInv, BackupInv, GenerateInv, TypeOK
  <2> QED
    BY <2>2, <2>3, <2>4
<1>32. QED
    BY <1>1, <1>2, <1>3, <1>4, <1>5, <1>6, <1>7, <1>8, <1>9, <1>10, <1>11, <1>12, <1>13,
       <1>14, <1>15, <1>16, <1>17, <1>18, <1>19, <1>20, <1>21, <1>22, <1>23, <1>24, <1>25,
       <1>26, <1>27, <1>28, <1>29, <1>30, <1>31
    DEF Next, RecoverConfig, EnsureIdentity, generateIdentity, promoteConfig, restoreBackup

\* The invariant holds in every behaviour of the start-up sequence.
THEOREM Invariance == Spec => []IInv
<1>1. Init => IInv
    BY InitInv
<1>2. IInv /\ [Next]_vars => IInv'
    BY StepInv
<1>3. QED
    BY <1>1, <1>2, PTL DEF Spec

\* Every variable keeps its type and no file is left outside a directory.
THEOREM TypeCorrectness == Spec => []TypeOK
<1>1. IInv => TypeOK
    BY DEF IInv
<1>2. QED
    BY <1>1, Invariance, PTL

\* RecoverConfig reports ErrNoKnownGoodConfig after no kill, and after no power
\* loss outside the window between a swap of config.xml and its flush.
THEOREM KnownGoodSafety == Spec => []KnownGoodSurvives
<1>1. ASSUME IInv, ~lost, ~open, NEW t \in Possible PROVE KnownGood(t)
    BY <1>1 DEF IInv, DiskInv, Settled, Remains, Possible, KnownGood
<1>2. IInv => KnownGoodSurvives
    BY <1>1 DEF IInv, FoundInv, KnownGoodSurvives
<1>3. QED
    BY <1>2, Invariance, PTL

\* Upstream runs only on a config of its own format.
THEOREM MigrationSafety == Spec => []RunsMigrated
<1>1. IInv => RunsMigrated
    BY DEF IInv, LiveInv, Current, RunsMigrated
<1>2. QED
    BY <1>1, Invariance, PTL
\* What a start-up may find on the disk, read off the sets of the three names
\* that RecoverConfig looks at.
Kept ==
    (IF FALSE \in disk.dir THEN {Absent} ELSE {})
    \cup (IF TRUE \in disk.dir
          THEN {c \in disk.config : Valid(c)}
               \cup (IF \E c \in disk.config : ~Valid(c) THEN disk.bak ELSE {})
          ELSE {})

LEMMA DurableIs == TypeOK /\ DiskInv => Durable = Kept
<1> SUFFICES ASSUME TypeOK, DiskInv PROVE Durable = Kept
    OBVIOUS
<1>1. ASSUME NEW t \in Possible PROVE Recovered(t) \in Kept
    BY <1>1 DEF Possible, Recovered, Kept, TypeOK, Disks
<1>2. ASSUME NEW v \in Kept PROVE v \in Durable
  <2> DEFINE t(d, c, b) == [staged |-> fs.staged, dir |-> d, config |-> c, tmp |-> fs.tmp,
                            bak |-> b, marker |-> fs.marker]
  <2>1. \A d \in disk.dir, c \in disk.config, b \in disk.bak :
          t(d, c, b) \in Possible /\ Recovered(t(d, c, b)) \in Durable
    BY DEF Possible, Durable, DiskInv
  <2>2. CASE v = Absent /\ FALSE \in disk.dir
    BY <2>1, <2>2 DEF Recovered, DiskInv
  <2>3. CASE TRUE \in disk.dir /\ v \in disk.config /\ Valid(v)
    BY <2>1, <2>3 DEF Recovered, DiskInv
  <2>4. CASE TRUE \in disk.dir /\ v \in disk.bak /\ \E c \in disk.config : ~Valid(c)
    BY <2>1, <2>4 DEF Recovered, DiskInv
  <2> QED
    BY <1>2, <2>2, <2>3, <2>4 DEF Kept
<1> QED
    BY <1>1, <1>2 DEF Durable

\* a step of the files is a step of the register, or leaves the register alone
LEMMA WriteIs == ASSUME TypeOK, TypeOK', NEW t, Write(t) PROVE fs' = t /\ Written
<1>1. t \in Tree
    BY DEF Write, TypeOK
<1> QED
    BY <1>1, WrittenIs

\* what the disk may hold, read off before and after a step
LEMMA DurableIsNext == (TypeOK /\ DiskInv)' => (Durable = Kept)'
<1>1. TypeOK /\ DiskInv => Durable = Kept
    BY DurableIs
<1>2. QED
    BY <1>1, PTL

\* while config.xml is at its name and good, the disk holds good configs only
LEMMA SettledIs ==
    ASSUME IInv, fs.dir, ~open, Valid(fs.config) PROVE Settled
BY DEF IInv, DiskInv, Remains, Settled

\* a step that changes no name that RecoverConfig would look at
LEMMA MayFindSame ==
    ASSUME IInv, IInv', Written, open' = open, fs'.dir = fs.dir,
           ~fs.dir \/ (Valid(fs.config) /\ fs'.config = fs.config)
    PROVE  MayFind' = MayFind
<1>a. Durable = Kept /\ Durable' = Kept'
    BY DurableIs, DurableIsNext DEF IInv
<1>b. disk.dir \in SUBSET BOOLEAN /\ fs.dir \in disk.dir /\ (TRUE \in disk.dir => fs.dir)
    BY DEF IInv, TypeOK, Disks, DiskInv
<1>c. /\ disk'.dir = disk.dir \cup {fs'.dir} /\ disk'.config = disk.config \cup {fs'.config}
      /\ fs.config \in disk.config
    BY DEF IInv, DiskInv, Written
<1>1. CASE open
    BY <1>1 DEF MayFind
<1>2. CASE ~open /\ ~fs.dir
  <2>1. disk.dir = {FALSE} /\ disk'.dir = {FALSE}
    BY <1>2, <1>b, <1>c
  <2> QED
    BY <1>a, <1>2, <2>1 DEF MayFind, Kept
<1>3. CASE ~open /\ fs.dir
  <2>1. Settled
    BY <1>3, SettledIs
  <2>2. disk'.dir = disk.dir /\ disk'.config = disk.config
    BY <1>3, <1>b, <1>c
  <2>3. Kept' = Kept
    BY <2>1, <2>2 DEF Kept, Settled
  <2> QED
    BY <1>a, <1>3, <2>3 DEF MayFind
<1> QED
    BY <1>1, <1>2, <1>3

LEMMA KeptSynced == ASSUME TypeOK, Synced PROVE Kept' = {Recovered(fs)}
BY DEF TypeOK, Tree, Synced, Kept, Recovered

LEMMA RefinesStep == IInv /\ IInv' /\ [Next]_vars => [Register!Next]_(Register!vars)
<1> SUFFICES ASSUME IInv, IInv', [Next]_vars PROVE [Register!Next]_(Register!vars)
    OBVIOUS
<1>a. Durable = Kept /\ Durable' = Kept'
    BY DurableIs, DurableIsNext DEF IInv
<1>t. TypeOK /\ TypeOK'
    BY DEF IInv
<1>d. /\ disk.dir \in SUBSET BOOLEAN /\ fs.dir \in disk.dir /\ (TRUE \in disk.dir => fs.dir)
      /\ fs.config \in disk.config /\ fs.bak \in disk.bak
    BY DEF IInv, TypeOK, Disks, DiskInv
<1>c. fs.config \in File /\ fs.bak \in File /\ fs.dir \in BOOLEAN
    BY DEF IInv, TypeOK, Tree
<1> USE RevisionAssumption, FormatAssumption, FileAssumption
    DEF Goto, Register!vars, Register!Next
<1>1. CASE BootStart
  <2>1. UNCHANGED <<Recovered(fs), MayFind>>
    BY <1>1 DEF BootStart, files, Recovered, MayFind, Durable, Possible, Content, Valid
  <2> QED
    BY <1>1, <2>1
    DEF BootStart, Mode, EditPCs, GeneratePCs, PromotePCs, Register!Begin, Register!Stop,
        Register!Run, Register!MayPersist
<1>2. CASE RecoverDiscard
  <2>1. fs' = [fs EXCEPT !.tmp = Absent, !.bak = IF fs.bak = Torn THEN Absent ELSE fs.bak] /\ Written /\ open' = open
    BY <1>t, <1>2, WriteIs DEF RecoverDiscard, Change
  <2>2. fs'.dir = fs.dir /\ (~fs.dir \/ (fs'.config = fs.config /\ Valid(fs.config)))
    BY <1>t, <1>2, <2>1
    DEF RecoverDiscard, IInv, TypeOK, Tree, Empty, GenerateInv, LiveInv, PromotePCs,
        RecoverPCs
  <2>3. MayFind' = MayFind
    BY <2>1, <2>2, MayFindSame
  <2>4. Recovered(fs)' = Recovered(fs)
    BY <2>2 DEF Recovered
  <2> QED
    BY <1>2, <2>3, <2>4
    DEF RecoverDiscard, Mode, EditPCs, GeneratePCs, PromotePCs, Register!Stop,
        Register!MayPersist
<1>3. CASE RecoverReady
  <2>1. CASE SyncFilesystem
    <3>1. Synced
      BY <1>t, <2>1, SyncedIs
    <3>2. MayFind' = {Recovered(fs)} /\ Recovered(fs)' = Recovered(fs)
      BY <1>a, <1>t, <3>1, KeptSynced DEF MayFind, Synced
    <3> QED
      BY <1>3, <3>2
      DEF RecoverReady, Mode, EditPCs, GeneratePCs, PromotePCs, Register!Begin,
          Register!MayPersist
  <2>2. CASE UNCHANGED <<fs, disk, open>>
    <3>1. UNCHANGED <<Recovered(fs), MayFind>>
      BY <2>2 DEF Recovered, MayFind, Durable, Possible, Valid
    <3> QED
      BY <1>3, <3>1
      DEF RecoverReady, Mode, EditPCs, GeneratePCs, PromotePCs, Register!Begin,
          Register!MayPersist
  <2> QED
    BY <1>3, <2>1, <2>2 DEF RecoverReady
<1>4. CASE RestoreDiscard
  <2>1. fs' = [fs EXCEPT !.config = Absent, !.tmp = Absent] /\ Written /\ open' = open
    BY <1>t, <1>4, WriteIs DEF RestoreDiscard, Change
  <2>2. fs'.dir = fs.dir /\ fs'.config = Absent /\ fs'.bak = fs.bak
    BY <1>t, <2>1 DEF TypeOK, Tree
  <2>3. MayFind' = MayFind
    <3>1. CASE open
      BY <2>1, <3>1 DEF MayFind
    <3>2. CASE ~open
      <4>1. Remains
        BY <1>4, <3>2 DEF RestoreDiscard, IInv, DiskInv, LiveInv, RecoverPCs, Settled
      <4>2. disk'.dir = {TRUE} /\ disk'.bak = disk.bak /\ disk'.config = disk.config \cup {Absent}
        BY <1>d, <2>1, <2>2, <4>1 DEF Remains, Written
      <4>3. Kept = disk.bak
        BY <1>d, <4>1 DEF Remains, Kept
      <4>4. Kept' = disk.bak
        BY <4>1, <4>2 DEF Remains, Kept, Valid
      <4> QED
        BY <1>a, <2>1, <3>2, <4>3, <4>4 DEF MayFind
    <3> QED
      BY <3>1, <3>2 DEF IInv, TypeOK
  <2>4. Recovered(fs)' = Recovered(fs)
    BY <1>4, <2>2 DEF RestoreDiscard, Recovered, Valid
  <2> QED
    BY <1>4, <2>3, <2>4 DEF RestoreDiscard, Mode, EditPCs, GeneratePCs, PromotePCs
<1>5. CASE RestoreRename
  <2>1. fs' = [fs EXCEPT !.config = fs.bak, !.bak = Absent] /\ Written /\ open' = TRUE
    BY <1>t, <1>5, WriteIs DEF RestoreRename, Swap
  <2>2. MayFind' = Register!Suspended
    BY <2>1 DEF MayFind, Register!Suspended
  <2>3. fs'.dir = fs.dir /\ fs'.config = fs.bak
    BY <1>t, <2>1 DEF TypeOK, Tree
  <2>4. Recovered(fs)' = Recovered(fs)
    BY <1>5, <2>3 DEF RestoreRename, Recovered, Valid
  <2> QED
    BY <1>5, <2>2, <2>4
    DEF RestoreRename, Mode, EditPCs, GeneratePCs, PromotePCs, Register!Suspend
<1>6. CASE GenerateStage
  <2>1. fs' = [Empty EXCEPT !.staged = TRUE] /\ Written /\ open' = open
    BY <1>t, <1>6, WriteIs DEF GenerateStage, Change
  <2>2. fs'.dir = fs.dir /\ (~fs.dir \/ (fs'.config = fs.config /\ Valid(fs.config)))
    BY <1>t, <1>6, <2>1
    DEF GenerateStage, IInv, TypeOK, Tree, Empty, GenerateInv, LiveInv, PromotePCs,
        RecoverPCs
  <2>3. MayFind' = MayFind
    BY <2>1, <2>2, MayFindSame
  <2>4. Recovered(fs)' = Recovered(fs)
    BY <2>2 DEF Recovered
  <2> QED
    BY <1>6, <2>3, <2>4
    DEF GenerateStage, Mode, EditPCs, GeneratePCs, PromotePCs, Register!Stop,
        Register!MayPersist
<1>7. CASE GenerateRun
  <2>1. fs' = [fs EXCEPT !.marker = binary, !.config = [fmt |-> binary, rev |-> Initial]] /\ Written /\ open' = open
    BY <1>t, <1>7, WriteIs DEF GenerateRun, Change
  <2>2. fs'.dir = fs.dir /\ (~fs.dir \/ (fs'.config = fs.config /\ Valid(fs.config)))
    BY <1>t, <1>7, <2>1
    DEF GenerateRun, IInv, TypeOK, Tree, Empty, GenerateInv, LiveInv, PromotePCs, RecoverPCs
  <2>3. MayFind' = MayFind
    BY <2>1, <2>2, MayFindSame
  <2>4. Recovered(fs)' = Recovered(fs)
    BY <2>2 DEF Recovered
  <2> QED
    BY <1>7, <2>3, <2>4
    DEF GenerateRun, Mode, EditPCs, GeneratePCs, PromotePCs, Register!Stop,
        Register!MayPersist
<1>8. CASE GenerateSync
  <2>1. Synced
    BY <1>t, <1>8, SyncedIs DEF GenerateSync
  <2>2. MayFind' = {Recovered(fs)} /\ Recovered(fs)' = Recovered(fs)
    BY <1>a, <1>t, <2>1, KeptSynced DEF MayFind, Synced
  <2> QED
    BY <1>8, <2>2
    DEF GenerateSync, Mode, EditPCs, GeneratePCs, PromotePCs, Register!Persist,
        Register!Begin, Register!Stop, Register!MayPersist
<1>9. CASE GeneratePromote
  <2>1. fs' = [fs EXCEPT !.staged = FALSE, !.dir = TRUE] /\ Written /\ open' = open
    BY <1>t, <1>9, WriteIs DEF GeneratePromote, Change
  <2> DEFINE new == [fmt |-> binary, rev |-> Initial]
  <2>2. fs'.dir /\ fs'.config = fs.config
    BY <1>t, <2>1 DEF TypeOK, Tree
  <2>3. /\ ~fs.dir /\ ~open /\ disk.config = {new} /\ disk.dir = {FALSE}
        /\ fs.config = new /\ new \in Content
    <3>1. ~fs.dir /\ disk.config = {new} /\ fs.config = new
      BY <1>9 DEF GeneratePromote, IInv, GenerateInv
    <3>2. ~open
      BY <3>1 DEF IInv, FoundInv
    <3>4. disk.dir = {FALSE}
      BY <1>c, <1>d, <3>1
    <3>3. new \in Content
      BY DEF IInv, TypeOK, Content
    <3> QED
      BY <3>1, <3>2, <3>3, <3>4
  <2> HIDE DEF new
  <2>4. MayFind = {Absent} /\ MayFind' = {Absent} \cup {new}
    BY <1>a, <2>1, <2>2, <2>3 DEF MayFind, Kept, Written, Valid
  <2>5. Recovered(fs)' = new
    BY <2>2, <2>3 DEF Recovered, Valid
  <2>6. Register!Commit(new)
    BY <1>9, <2>4, <2>5
    DEF GeneratePromote, Mode, EditPCs, GeneratePCs, PromotePCs, Register!Commit
  <2> QED
    BY <2>3, <2>6
<1>10. CASE GenerateDone
  <2>1. Synced
    BY <1>t, <1>10, SyncedIs DEF GenerateDone
  <2>2. MayFind' = {Recovered(fs)} /\ Recovered(fs)' = Recovered(fs)
    BY <1>a, <1>t, <2>1, KeptSynced DEF MayFind, Synced
  <2> QED
    BY <1>10, <2>2
    DEF GenerateDone, Mode, EditPCs, GeneratePCs, PromotePCs, Register!Persist,
        Register!Begin, Register!Stop, Register!MayPersist
<1>11. CASE GenerateFails
  <2>1. fs' = (IF fs.dir THEN fs ELSE Empty) /\ Written /\ open' = open
    BY <1>t, <1>11, WriteIs DEF GenerateFails, Change
  <2>2. fs'.dir = fs.dir
    BY <1>t, <2>1 DEF TypeOK, Tree, Empty
  <2>3. ~fs.dir \/ (Valid(fs.config) /\ fs'.config = fs.config)
    BY <1>11, <2>1 DEF GenerateFails, IInv, GenerateInv, LiveInv, GeneratePCs
  <2>4. MayFind' = MayFind
    BY <2>1, <2>2, <2>3, MayFindSame
  <2>5. Recovered(fs)' = Recovered(fs)
    BY <2>2, <2>3 DEF Recovered
  <2> QED
    BY <1>11, <2>4, <2>5
    DEF GenerateFails, Mode, EditPCs, GeneratePCs, PromotePCs, Register!Stop,
        Register!MayPersist
<1>12. CASE IdentityCurrent
  <2>1. UNCHANGED <<Recovered(fs), MayFind>>
    BY <1>12 DEF IdentityCurrent, files, Recovered, MayFind, Durable, Possible, Content, Valid
  <2> QED
    BY <1>12, <2>1
    DEF IdentityCurrent, Mode, EditPCs, GeneratePCs, PromotePCs, Register!Begin,
        Register!Stop, Register!Run, Register!MayPersist
<1>13. CASE MigrateIdentity
  <2>1. UNCHANGED <<Recovered(fs), MayFind>>
    BY <1>13 DEF MigrateIdentity, files, Recovered, MayFind, Durable, Possible, Content, Valid
  <2> QED
    BY <1>13, <2>1
    DEF MigrateIdentity, Mode, EditPCs, GeneratePCs, PromotePCs, Register!Begin,
        Register!Stop, Register!Run, Register!MayPersist
<1>14. CASE MarkerReplace
  <2>1. fs' = [fs EXCEPT !.marker = binary] /\ Written /\ open' = open
    BY <1>t, <1>14, WriteIs DEF MarkerReplace, Change
  <2>2. fs'.dir = fs.dir /\ (~fs.dir \/ (fs'.config = fs.config /\ Valid(fs.config)))
    BY <1>t, <1>14, <2>1
    DEF MarkerReplace, IInv, TypeOK, Tree, Empty, GenerateInv, LiveInv, PromotePCs,
        RecoverPCs
  <2>3. MayFind' = MayFind
    BY <2>1, <2>2, MayFindSame
  <2>4. Recovered(fs)' = Recovered(fs)
    BY <2>2 DEF Recovered
  <2> QED
    BY <1>14, <2>3, <2>4
    DEF MarkerReplace, Mode, EditPCs, GeneratePCs, PromotePCs, Register!Stop,
        Register!MayPersist
<1>15. CASE MarkerSync
  <2>1. Synced
    BY <1>t, <1>15, SyncedIs DEF MarkerSync
  <2>2. MayFind' = {Recovered(fs)} /\ Recovered(fs)' = Recovered(fs)
    BY <1>a, <1>t, <2>1, KeptSynced DEF MayFind, Synced
  <2> QED
    BY <1>15, <2>2
    DEF MarkerSync, Mode, EditPCs, GeneratePCs, PromotePCs, Register!Persist, Register!Begin,
        Register!Stop, Register!MayPersist
<1>16. CASE PromoteCreate
  <2>1. fs' = [fs EXCEPT !.tmp = Torn] /\ Written /\ open' = open
    BY <1>t, <1>16, WriteIs DEF PromoteCreate, Change
  <2>2. fs'.dir = fs.dir /\ (~fs.dir \/ (fs'.config = fs.config /\ Valid(fs.config)))
    BY <1>t, <1>16, <2>1
    DEF PromoteCreate, IInv, TypeOK, Tree, Empty, GenerateInv, LiveInv, PromotePCs,
        RecoverPCs
  <2>3. MayFind' = MayFind
    BY <2>1, <2>2, MayFindSame
  <2>4. Recovered(fs)' = Recovered(fs)
    BY <2>2 DEF Recovered
  <2> QED
    BY <1>16, <2>3, <2>4
    DEF PromoteCreate, Mode, EditPCs, GeneratePCs, PromotePCs, Register!Stop,
        Register!MayPersist
<1>17. CASE PromoteFlush
  <2>1. fs' = [fs EXCEPT !.tmp = want] /\ Written /\ open' = open
    BY <1>t, <1>17, WriteIs DEF PromoteFlush, Change
  <2>2. fs'.dir = fs.dir /\ (~fs.dir \/ (fs'.config = fs.config /\ Valid(fs.config)))
    BY <1>t, <1>17, <2>1
    DEF PromoteFlush, IInv, TypeOK, Tree, Empty, GenerateInv, LiveInv, PromotePCs, RecoverPCs
  <2>3. MayFind' = MayFind
    BY <2>1, <2>2, MayFindSame
  <2>4. Recovered(fs)' = Recovered(fs)
    BY <2>2 DEF Recovered
  <2> QED
    BY <1>17, <2>3, <2>4
    DEF PromoteFlush, Mode, EditPCs, GeneratePCs, PromotePCs, Register!Stop,
        Register!MayPersist
<1>18. CASE PromoteRetire
  <2>0. fs.dir /\ Valid(fs.config)
    BY <1>18 DEF PromoteRetire, IInv, LiveInv, PromotePCs
  <2>m. UNCHANGED Mode
    BY <1>18 DEF PromoteRetire, Mode, EditPCs, GeneratePCs, PromotePCs
  <2>1. CASE Change([fs EXCEPT !.bak = Absent])
    <3>1. fs' = [fs EXCEPT !.bak = Absent] /\ Written /\ open' = open
      BY <1>t, <2>1, WriteIs DEF Change
    <3>2. fs'.dir = fs.dir /\ fs'.config = fs.config
      BY <1>t, <3>1 DEF TypeOK, Tree
    <3>3. MayFind' = MayFind
      BY <2>0, <3>1, <3>2, MayFindSame
    <3>4. Recovered(fs)' = Recovered(fs)
      BY <2>0, <3>2 DEF Recovered
    <3> QED
      BY <2>m, <3>3, <3>4
  <2>2. CASE Swap([fs EXCEPT !.bak = fs.config, !.config = Absent])
    <3>1. fs' = [fs EXCEPT !.bak = fs.config, !.config = Absent] /\ open' = TRUE
      BY <1>t, <2>2, WriteIs DEF Swap
    <3>2. fs'.dir = fs.dir /\ fs'.config = Absent /\ fs'.bak = fs.config
      BY <1>t, <3>1 DEF TypeOK, Tree
    <3>3. MayFind' = Register!Suspended
      BY <3>1 DEF MayFind, Register!Suspended
    <3>4. Recovered(fs)' = Recovered(fs)
      BY <2>0, <3>2 DEF Recovered, Valid
    <3> QED
      BY <1>18, <2>m, <3>3, <3>4
      DEF PromoteRetire, Mode, EditPCs, GeneratePCs, PromotePCs, Register!Suspend
  <2> QED
    BY <1>18, <2>1, <2>2 DEF PromoteRetire
<1>19. CASE PromoteSwap
  <2>1. fs' = [fs EXCEPT !.config = fs.tmp, !.tmp = Absent] /\ Written /\ open' = TRUE
    BY <1>t, <1>19, WriteIs DEF PromoteSwap, Swap
  <2>2. MayFind' = Register!Suspended
    BY <2>1 DEF MayFind, Register!Suspended
  <2>3. fs.dir /\ fs.tmp = want /\ want \in Content
    BY <1>19 DEF PromoteSwap, IInv, LiveInv, PromoteInv, PromotePCs
  <2>4. fs'.dir /\ fs'.config = want
    BY <1>t, <2>1, <2>3 DEF TypeOK, Tree
  <2>5. Recovered(fs)' = want
    BY <2>3, <2>4 DEF Recovered, Valid
  <2> QED
    BY <1>19, <2>2, <2>3, <2>5
    DEF PromoteSwap, Mode, EditPCs, GeneratePCs, PromotePCs, Register!Commit
<1>20. CASE PromoteSync
  <2>1. Synced
    BY <1>t, <1>20, SyncedIs DEF PromoteSync
  <2>2. MayFind' = {Recovered(fs)} /\ Recovered(fs)' = Recovered(fs)
    BY <1>a, <1>t, <2>1, KeptSynced DEF MayFind, Synced
  <2> QED
    BY <1>20, <2>2
    DEF PromoteSync, Mode, EditPCs, GeneratePCs, PromotePCs, Register!Persist,
        Register!Begin, Register!Stop, Register!MayPersist
<1>21. CASE PromoteVerify
  <2>1. UNCHANGED <<Recovered(fs), MayFind>>
    BY <1>21
    DEF PromoteVerify, IInv, TypeOK, files, Recovered, MayFind, Durable, Possible, Content,
        Valid
  <2> QED
    BY <1>21, <2>1
    DEF PromoteVerify, IInv, TypeOK, Mode, EditPCs, GeneratePCs, PromotePCs, Register!Begin,
        Register!Stop, Register!Run, Register!MayPersist
<1>22. CASE UndoRemove
  <2>1. fs' = [fs EXCEPT !.config = Absent, !.tmp = Absent] /\ Written /\ open' = TRUE
    BY <1>t, <1>22, WriteIs DEF UndoRemove, Swap
  <2>2. MayFind' = Register!Suspended
    BY <2>1 DEF MayFind, Register!Suspended
  <2>3. fs.dir /\ Valid(fs.bak)
    BY <1>22 DEF UndoRemove, IInv, LiveInv, BackupInv, PromotePCs
  <2>4. fs'.dir /\ fs'.config = Absent /\ fs'.bak = fs.bak
    BY <1>t, <2>1, <2>3 DEF TypeOK, Tree
  <2>5. Recovered(fs)' = fs.bak /\ fs.bak \in Content
    BY <1>c, <2>3, <2>4 DEF Recovered, Valid, File
  <2> QED
    BY <1>22, <2>2, <2>5 DEF UndoRemove, Mode, EditPCs, GeneratePCs, PromotePCs, Register!Commit
<1>23. CASE UndoRename
  <2>1. fs' = [fs EXCEPT !.config = fs.bak, !.bak = Absent] /\ Written /\ open' = TRUE
    BY <1>t, <1>23, WriteIs DEF UndoRename, Swap
  <2>2. MayFind' = Register!Suspended
    BY <2>1 DEF MayFind, Register!Suspended
  <2>3. Valid(fs.bak) /\ fs.dir
    BY <1>23 DEF UndoRename, IInv, BackupInv, LiveInv, PromotePCs
  <2>4. fs'.dir /\ fs'.config = fs.bak
    BY <1>t, <2>1, <2>3 DEF TypeOK, Tree
  <2>5. Recovered(fs)' = fs.bak /\ fs.bak \in Content
    BY <1>c, <2>3, <2>4 DEF Recovered, Valid, File
  <2> QED
    BY <1>23, <2>2, <2>5 DEF UndoRename, Mode, EditPCs, GeneratePCs, PromotePCs, Register!Commit
<1>24. CASE UndoSync
  <2>1. Synced
    BY <1>t, <1>24, SyncedIs DEF UndoSync
  <2>2. MayFind' = {Recovered(fs)} /\ Recovered(fs)' = Recovered(fs)
    BY <1>a, <1>t, <2>1, KeptSynced DEF MayFind, Synced
  <2> QED
    BY <1>24, <2>2
    DEF UndoSync, Mode, EditPCs, GeneratePCs, PromotePCs, Register!Persist, Register!Begin,
        Register!Stop, Register!MayPersist
<1>25. CASE \E rev \in Revisions : ApplyOfflinePauseSet(rev)
  <2>1. UNCHANGED <<Recovered(fs), MayFind>>
    BY <1>25
    DEF ApplyOfflinePauseSet, files, Recovered, MayFind, Durable, Possible, Content, Valid
  <2> QED
    BY <1>25, <2>1
    DEF ApplyOfflinePauseSet, Mode, EditPCs, GeneratePCs, PromotePCs, Register!Begin,
        Register!Stop, Register!Run, Register!MayPersist
<1>26. CASE \E rev \in Revisions : UpstreamSaves(rev)
  <2> PICK rev \in Revisions : UpstreamSaves(rev)
    BY <1>26
  <2> DEFINE new == [fs.config EXCEPT !.rev = rev]
  <2>1. pc = "running" /\ pc' = pc /\ fs.dir = TRUE /\ fs.config \in Content /\ Valid(fs.config)
    BY <1>c DEF UpstreamSaves, IInv, LiveInv, File, Valid
  <2>2. new \in Content
    BY <2>1 DEF Content
  <2>3. fs' = [fs EXCEPT !.config = new] /\ Written /\ open' = open
    BY <1>t, WriteIs DEF UpstreamSaves, Change
  <2> HIDE DEF new
  <2>4. fs'.dir = fs.dir /\ fs'.config = new
    BY <1>t, <2>1, <2>3 DEF TypeOK, Tree
  <2>5. Recovered(fs)' = new
    BY <2>1, <2>2, <2>4 DEF Recovered, Valid
  <2>6. MayFind' = MayFind \cup {new}
    <3>1. CASE open
      BY <2>2, <2>3, <3>1 DEF MayFind
    <3>2. CASE ~open
      <4>1. Settled
        BY <2>1, <3>2, SettledIs
      <4>2. /\ TRUE \in disk.dir /\ TRUE \in disk'.dir /\ disk'.dir = disk.dir
            /\ disk'.config = disk.config \cup {new}
        <5>1. disk'.dir = disk.dir \cup {fs'.dir} /\ disk'.config = disk.config \cup {fs'.config}
          BY <2>3 DEF Written
        <5>2. disk'.dir = disk.dir
          BY <1>d, <2>4, <5>1
        <5>3. TRUE \in disk.dir
          BY <1>d, <2>1
        <5> QED
          BY <2>4, <5>1, <5>2, <5>3
      <4>3. Kept' = Kept \cup {new}
        BY <2>2, <4>1, <4>2 DEF Kept, Settled, Valid
      <4> QED
        BY <1>a, <2>3, <3>2, <4>3 DEF MayFind
    <3> QED
      BY <3>1, <3>2
  <2> QED
    BY <2>1, <2>2, <2>5, <2>6 DEF Mode, EditPCs, GeneratePCs, PromotePCs, Register!Save
<1>27. CASE Spawn
  <2>1. UNCHANGED <<Recovered(fs), MayFind>>
    BY <1>27
    DEF Spawn, IInv, LiveInv, Valid, Recovered, files, Recovered, MayFind, Durable, Possible,
        Content, Valid
  <2> QED
    BY <1>27, <2>1
    DEF Spawn, IInv, LiveInv, Valid, Recovered, Mode, EditPCs, GeneratePCs, PromotePCs,
        Register!Begin, Register!Stop, Register!Run, Register!MayPersist
<1>28. CASE Stop
  <2>1. UNCHANGED <<Recovered(fs), MayFind>>
    BY <1>28 DEF Stop, files, Recovered, MayFind, Durable, Possible, Content, Valid
  <2> QED
    BY <1>28, <2>1
    DEF Stop, Mode, EditPCs, GeneratePCs, PromotePCs, Register!Begin, Register!Stop,
        Register!Run, Register!MayPersist
<1>29. CASE PowerLoss
  <2> PICK t \in Possible : fs' = AfterLoss(t)
    BY <1>29 DEF PowerLoss
  <2>1. t \in Tree
    BY <1>t DEF Possible, TypeOK, Disks, Tree
  <2>2. Recovered(fs)' = Recovered(t)
    BY <2>1 DEF AfterLoss, Recovered, Empty, Tree
  <2>3. Recovered(t) \in MayFind
    <3>1. CASE open
      <4>1. t.bak \in File \ {Torn} /\ t.config \in File
        BY <2>1 DEF Tree, Possible, IInv, DiskInv
      <4> QED
        BY <3>1, <4>1 DEF MayFind, Recovered, Valid, File
    <3> QED
      BY <3>1 DEF MayFind, Durable
  <2>4. MayFind' = {Recovered(t)}
    BY <1>a, <1>t, <1>29, <2>2 DEF PowerLoss, MayFind, Kept, Only, Recovered, TypeOK, Tree
  <2> QED
    BY <1>29, <2>2, <2>3, <2>4
    DEF PowerLoss, Mode, EditPCs, GeneratePCs, PromotePCs, Register!PowerLoss
<1>30. CASE Upgrade
  <2>1. UNCHANGED <<Recovered(fs), MayFind>>
    BY <1>30 DEF Upgrade, files, Recovered, MayFind, Durable, Possible, Content, Valid
  <2> QED
    BY <1>30, <2>1
    DEF Upgrade, Mode, EditPCs, GeneratePCs, PromotePCs, Register!Begin, Register!Stop,
        Register!Run, Register!MayPersist
<1>31. CASE UNCHANGED vars
  <2>1. UNCHANGED <<Recovered(fs), MayFind>>
    BY <1>31 DEF vars, files, Recovered, MayFind, Durable, Possible, Content, Valid
  <2> QED
    BY <1>31, <2>1
    DEF vars, Mode, EditPCs, GeneratePCs, PromotePCs, Register!Begin, Register!Stop,
        Register!Run, Register!MayPersist
<1>32. QED
    BY <1>1, <1>2, <1>3, <1>4, <1>5, <1>6, <1>7, <1>8, <1>9, <1>10, <1>11, <1>12, <1>13,
       <1>14, <1>15, <1>16, <1>17, <1>18, <1>19, <1>20, <1>21, <1>22, <1>23, <1>24, <1>25,
       <1>26, <1>27, <1>28, <1>29, <1>30, <1>31
    DEF Next, RecoverConfig, EnsureIdentity, generateIdentity, promoteConfig, restoreBackup

\* The three files and the staged generation implement one register: kills,
\* edits and recoveries neither lose the configuration nor bring back an older
\* one, and power losses do so only while the register is suspended.
THEOREM Refinement == Spec => ImplementsRegister
<1>1. Init => Register!Init
  <2> SUFFICES ASSUME Init PROVE Register!Init
    OBVIOUS
  <2>1. Durable = Kept
    BY InitInv, DurableIs DEF IInv
  <2>2. fs.dir = FALSE /\ disk.dir = {FALSE} /\ open = FALSE
    BY DEF Init, Empty, Only
  <2>3. MayFind = {Absent} /\ Recovered(fs) = Absent
    BY <2>1, <2>2 DEF MayFind, Kept, Recovered
  <2> QED
    BY <2>3 DEF Init, Register!Init, Mode, EditPCs, GeneratePCs, PromotePCs
<1>2. IInv /\ IInv' /\ [Next]_vars => [Register!Next]_(Register!vars)
    BY RefinesStep
<1>3. QED
    BY <1>1, <1>2, Invariance, PTL DEF Spec, Register!Spec, ImplementsRegister

-----------------------------------------------------------------------------
(* The process group.                                                       *)

\* A scan has every process of its list that is still alive among those it has
\* yet to read and those it found; what it was listed for decides whose census
\* it is: of the group in a clean-up, of the others before a start.
Counts(S) == scan.forked \/ S \subseteq scan.todo \cup scan.found
CensusInv ==
    /\ phase \in {"term", "kill"} \cup WaitPhases => Counts(members)
    /\ phase = "detect" => Counts(left)
    /\ phase = "spawn" => left = {} \/ blind

ProcessIInv == StopInv /\ CensusInv

\* The fields of a scan (listGroupMembers, readProcStat).
LEMMA ScanIs ==
    /\ scan \in Scan => /\ scan.todo \subseteq Pids /\ scan.found \subseteq Pids
                        /\ scan.forked \in BOOLEAN
    /\ NoScan \in Scan
    /\ \A S \in SUBSET Pids : List(S) \in Scan
BY DEF Scan, NoScan, List

LEMMA ProcessInitInv == ProcessInit => ProcessIInv
<1> SUFFICES ASSUME ProcessInit PROVE ProcessIInv
    OBVIOUS
<1> USE ProcessAssumption DEF ProcessInit
<1>1. scan \in Scan
    BY ScanIs
<1>2. phase \in Phases /\ attempt \in 0..ShutdownRequestAttempts /\ runs \in 0..MaxRuns
    BY DEF Phases
<1>3. left \subseteq Pids \ members /\ killed \subseteq members /\ members \subseteq Pids
    OBVIOUS
<1>4. done \in BOOLEAN /\ ~done /\ blind \in BOOLEAN
    OBVIOUS
<1>5. ProcessTypeOK
    BY <1>1, <1>2, <1>3, <1>4 DEF ProcessTypeOK
<1>6. VerifiedStopIsEmpty /\ CensusInv
    BY DEF VerifiedStopIsEmpty, CensusInv, Counts, WaitPhases
<1>7. QED
    BY <1>5, <1>6 DEF ProcessIInv, StopInv

\* What the processes do by themselves: a scan of theirs that is out of date
\* says so, and one that is not has lost nobody (Fork, Exit, the end in Wait).
LEMMA WorldInv ==
    ASSUME ProcessIInv,
           (\E p, q \in Pids : Fork(p, q)) \/ (\E p \in Pids : Exit(p)) \/ Reap
    PROVE  ProcessIInv'
<1> USE DEF ProcessIInv, StopInv, ProcessTypeOK, VerifiedStopIsEmpty, CensusInv, Counts
<1>1. CASE \E p, q \in Pids : Fork(p, q)
  <2>1. PICK p \in Pids, q \in Pids : Fork(p, q)
    BY <1>1
  <2>2. scan' \in Scan /\ scan'.forked
    BY <2>1 DEF Fork, Scan
  <2>3. ProcessTypeOK'
    BY <2>1, <2>2 DEF Fork, Alive
  <2>4. phase = "spawn" => left' = left \/ blind'
    BY <2>1 DEF Fork, Alive
  <2>5. QED
    BY <2>1, <2>2, <2>3, <2>4 DEF Fork, Alive
<1>2. CASE \E p \in Pids : Exit(p)
    BY <1>2 DEF Exit
<1>3. CASE Reap
    BY <1>3 DEF Reap
<1>4. QED
    BY <1>1, <1>2, <1>3

\* The controller ends, in whatever way, and leaves its processes to the next.
LEMMA LeaveInv ==
    ASSUME ProcessIInv, Leave
    PROVE  ProcessIInv'
<1> USE ProcessAssumption DEF Leave
<1>1. scan' \in Scan
    BY ScanIs
<1>2. phase' \in Phases /\ attempt' \in 0..ShutdownRequestAttempts /\ runs' \in 0..MaxRuns
    BY DEF Phases, ProcessIInv, StopInv, ProcessTypeOK
<1>3. /\ left' \subseteq Pids \ members' /\ killed' \subseteq members' /\ members' = {}
    BY DEF ProcessIInv, StopInv, ProcessTypeOK
<1>4. done' \in BOOLEAN /\ ~done' /\ blind' \in BOOLEAN
    BY DEF ProcessIInv, StopInv, ProcessTypeOK
<1>5. ProcessTypeOK'
    BY <1>1, <1>2, <1>3, <1>4 DEF ProcessTypeOK
<1>6. VerifiedStopIsEmpty' /\ CensusInv'
    BY DEF VerifiedStopIsEmpty, CensusInv, Counts, WaitPhases
<1>7. QED
    BY <1>5, <1>6 DEF ProcessIInv, StopInv

\* StartProcess, up to the upstream that answers or is cleaned up.
LEMMA StartInv ==
    ASSUME ProcessIInv,
           DetectForeignConflict \/ Detected \/ StartChild \/ StartFails \/ Ready \/ NotReady
    PROVE  ProcessIInv'
<1> USE ScanIs, ProcessAssumption
    DEF ProcessIInv, StopInv, ProcessTypeOK, VerifiedStopIsEmpty, CensusInv, Counts,
        Phases, StopPhases, WaitPhases
<1>1. CASE DetectForeignConflict
    BY <1>1 DEF DetectForeignConflict, List
<1>2. CASE Detected
    BY <1>2 DEF Detected, NobodyFound, Scanned
<1>3. CASE StartChild
    BY <1>3 DEF StartChild, Alive
<1>4. CASE StartFails
    BY <1>4, LeaveInv DEF StartFails
<1>5. CASE Ready
    BY <1>5 DEF Ready
<1>6. CASE NotReady
    BY <1>6 DEF NotReady, List
<1>7. QED
    BY <1>1, <1>2, <1>3, <1>4, <1>5, <1>6

\* The ways out of Run.
LEMMA WaysOutInv ==
    ASSUME ProcessIInv,
           Shutdown \/ ExitedUnexpectedly \/ LifecycleFails \/ ConflictEnds \/ Killed
    PROVE  ProcessIInv'
<1>1. CASE Shutdown
    BY <1>1, ProcessAssumption
       DEF Shutdown, ProcessIInv, StopInv, ProcessTypeOK, VerifiedStopIsEmpty, CensusInv,
           Phases, StopPhases, WaitPhases
<1>2. CASE ExitedUnexpectedly \/ LifecycleFails \/ ConflictEnds \/ Killed
    BY <1>2, LeaveInv DEF ExitedUnexpectedly, LifecycleFails, ConflictEnds, Killed
<1>3. QED
    BY <1>1, <1>2

\* A scan goes on: a process that is skipped is not alive (readProcStat).
LEMMA ReadInv ==
    ASSUME ProcessIInv, NEW p \in Pids, ReadStat(p)
    PROVE  ProcessIInv'
<1> USE DEF ProcessIInv, StopInv, ProcessTypeOK, VerifiedStopIsEmpty, CensusInv, Counts
<1>1. /\ scan.todo \subseteq Pids /\ scan.found \subseteq Pids
      /\ scan.forked \in BOOLEAN
    BY ScanIs
<1> DEFINE found == IF p \in Alive THEN scan.found \cup {p} ELSE scan.found
<1>2. found \subseteq Pids /\ scan.found \subseteq found /\ (p \in members \cup left => p \in found)
    BY <1>1 DEF Alive
<1>3. scan' = [scan EXCEPT !.todo = @ \ {p}, !.found = found]
    BY DEF ReadStat
<1> HIDE DEF found
<1>4. /\ scan' \in Scan /\ scan'.forked = scan.forked
      /\ scan'.todo = scan.todo \ {p} /\ scan'.found = found
    BY <1>1, <1>2, <1>3 DEF Scan
<1>5. UNCHANGED <<phase, attempt, main, done, members, killed, left, runs, blind>>
    BY DEF ReadStat
<1>6. CensusInv'
    BY <1>2, <1>4, <1>5
<1>7. QED
    BY <1>4, <1>5, <1>6

\* The ladder of Shutdown and TerminateAndVerify: each rung begins a scan of the
\* group anew, and the last word is a scan that found nobody.
LEMMA LadderInv ==
    ASSUME ProcessIInv, Ladder \/ WindowOver
    PROVE  ProcessIInv'
<1> USE ScanIs, ProcessAssumption
    DEF ProcessIInv, StopInv, ProcessTypeOK, VerifiedStopIsEmpty, CensusInv, Counts,
        Phases, StopPhases, WaitPhases
<1>1. CASE RetryRequest
    BY <1>1 DEF RetryRequest
<1>2. CASE EndRequest
    BY <1>2 DEF EndRequest
<1>3. CASE GracefulExit
    BY <1>3 DEF GracefulExit, List
<1>4. CASE GracefulOver
    BY <1>4 DEF GracefulOver, List
<1>5. CASE TermSent
    BY <1>5 DEF TermSent, List
<1>6. CASE KillSent
    BY <1>6 DEF KillSent, List
<1>7. CASE Verified
    BY <1>7 DEF Verified, NobodyFound, Scanned
<1>8. CASE LookAgain
    BY <1>8 DEF LookAgain, List
<1>9. CASE Return
    BY <1>9, LeaveInv DEF Return
<1>10. CASE WindowOver
    BY <1>10 DEF WindowOver, List
<1>11. QED
    BY <1>1, <1>2, <1>3, <1>4, <1>5, <1>6, <1>7, <1>8, <1>9, <1>10 DEF Ladder

LEMMA ProcessStepInv == ProcessIInv /\ [ProcessNext]_processVars => ProcessIInv'
<1> SUFFICES ASSUME ProcessIInv, [ProcessNext]_processVars PROVE ProcessIInv'
    OBVIOUS
<1>1. CASE UNCHANGED processVars
    BY <1>1 DEF processVars, ProcessIInv, StopInv, ProcessTypeOK, VerifiedStopIsEmpty,
                CensusInv, Counts
<1>2. CASE ProcessNext
    BY <1>2, WorldInv, StartInv, WaysOutInv, ReadInv, LadderInv DEF ProcessNext, Census
<1>3. QED
    BY <1>1, <1>2

LEMMA ProcessInductive == ProcessSpec => []ProcessIInv
<1>1. QED
    BY ProcessInitInv, ProcessStepInv, PTL DEF ProcessSpec

\* A stop reported as verified, by Shutdown or after a failed start, left no
\* process of the group alive, unless one forked while /proc was read: however
\* processes end, fork and ignore signals between the censuses.
THEOREM StopSafety == ProcessSpec => []StopInv
<1>1. ProcessIInv => StopInv
    BY DEF ProcessIInv
<1>2. QED
    BY <1>1, ProcessInductive, PTL

\* An upstream is started only by StartProcess and only where no other Syncthing
\* was left, unless one forked while they were counted (DetectForeignConflict):
\* whatever number of controllers ended or were killed before.
THEOREM OneUpstreamSafety == ProcessSpec => NoSecondUpstream
<1>1. ProcessIInv /\ [ProcessNext]_processVars
        => [main = None /\ main' # None => left = {} \/ blind]_processVars
  <2> SUFFICES ASSUME ProcessIInv, [ProcessNext]_processVars, main = None, main' # None
               PROVE  left = {} \/ blind
    OBVIOUS
  <2>1. StartChild
    BY DEF ProcessNext, processVars, Census, Ladder, Fork, Exit, Reap, DetectForeignConflict,
           Detected, StartFails, Leave, Ready, NotReady, Shutdown, ExitedUnexpectedly,
           LifecycleFails, ConflictEnds, Killed, ReadStat, RetryRequest, EndRequest,
           GracefulExit, GracefulOver, TermSent, KillSent, Verified, LookAgain, Return, WindowOver
  <2>2. QED
    BY <2>1 DEF StartChild, ProcessIInv, CensusInv
<1>2. QED
    BY <1>1, ProcessInductive, PTL DEF ProcessSpec, NoSecondUpstream
=============================================================================
