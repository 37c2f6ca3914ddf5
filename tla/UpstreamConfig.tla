--------------------------- MODULE UpstreamConfig ---------------------------
(***************************************************************************)
(* The upstream configuration directory over crashes (internal/syncthing:  *)
(* config_recovery.go, offline_pause.go, identity.go): RecoverConfig, the  *)
(* factory generation and the migration of EnsureIdentity, and the         *)
(* config.xml.tmp / config.xml.bak transaction of promoteConfig that the   *)
(* migration and ApplyOfflinePauseSet share.                               *)
(*                                                                         *)
(* The directory is modelled twice: as the processes see it (fs) and as a  *)
(* power loss may leave it (disk).  It lies on a FAT filesystem, which     *)
(* orders nothing: until syncfs returns, each name may hold on the disk    *)
(* any of the values it has had since the last one, whatever the others    *)
(* hold.                                                                   *)
(***************************************************************************)
EXTENDS Naturals

CONSTANTS
    Revisions,  \* contents of config.xml the controller and upstream write
    Initial,    \* the revision that generation writes
    MaxFormat,  \* config formats: upstream binary n writes format n
    Absent, Torn

ASSUME RevisionAssumption == Initial \in Revisions
ASSUME FormatAssumption == MaxFormat \in Nat \ {0}

VARIABLES
    pc,      \* where the start-up sequence is
    want,    \* contents that promoteConfig writes
    after,   \* where promoteConfig's caller goes on
    binary,  \* version of the pinned upstream binary
    fs,      \* state root: staged generation, config directory
    disk,    \* for each name in fs, the values it may have on the disk
    open,    \* history: config.xml left its name and syncfs has not returned
    lost     \* history: the power failed then, and no start-up recovered yet

files == <<fs, disk, open, lost>>
vars == <<pc, want, after, binary, files>>

-----------------------------------------------------------------------------
(* Values.                                                                  *)

Formats == 1..MaxFormat
Content == [fmt : Formats, rev : Revisions]
File == Content \cup {Absent, Torn}
ASSUME FileAssumption == Absent \notin Content /\ Torn \notin Content /\ Absent # Torn

\* One directory, under its staging name config.generate.tmp, its final name,
\* or both (a rename half on the disk), and its files; with the final name it
\* holds a certificate and a key.  marker: the upstream version of the
\* generation marker (0: no marker)
Tree == [staged : BOOLEAN, dir : BOOLEAN,
         config : File, tmp : File, bak : File, marker : 0..MaxFormat]
Empty == [staged |-> FALSE, dir |-> FALSE,
          config |-> Absent, tmp |-> Absent, bak |-> Absent, marker |-> 0]
Disks == [staged : SUBSET BOOLEAN, dir : SUBSET BOOLEAN, config : SUBSET File,
          tmp : SUBSET File, bak : SUBSET File, marker : SUBSET (0..MaxFormat)]

RecoverPCs == {"recover", "discard-sync", "restore-sync"}
GeneratePCs == {"generate", "gen-run", "gen-sync", "gen-promote", "gen-promoted"}
PromotePCs == {"promote", "promote-flush", "promote-retire", "promote-swap",
               "promote-sync", "promote-verify", "undo", "undo-rename", "undo-sync"}
EditPCs == {"identity", "marker", "marker-sync", "pause", "spawn"} \cup GeneratePCs \cup PromotePCs
PCs == {"down", "running"} \cup RecoverPCs \cup EditPCs

\* Every variable has its type; no file is left outside a config directory.
TypeOK ==
    /\ pc \in PCs /\ after \in {"marker", "spawn"}
    /\ want \in Content \cup {Absent} /\ binary \in Formats
    /\ fs \in Tree /\ disk \in Disks
    /\ ~fs.staged /\ ~fs.dir => fs = Empty
    /\ open \in BOOLEAN /\ lost \in BOOLEAN

\* inspectXML
Valid(file) == file \notin {Absent, Torn}

\* what a power loss may leave
Possible == [staged : disk.staged, dir : disk.dir, config : disk.config,
             tmp : disk.tmp, bak : disk.bak, marker : disk.marker]

\* what RecoverConfig makes of a tree
Recovered(t) ==
    IF ~t.dir THEN Absent
    ELSE IF Valid(t.config) THEN t.config ELSE t.bak

Durable == {Recovered(t) : t \in Possible}
\* anything may be found when config.xml had left its name
MayFind == IF open THEN Content \cup {Absent} ELSE Durable

-----------------------------------------------------------------------------
(* Building blocks.                                                         *)

Goto(next) == pc' = next /\ UNCHANGED <<want, after, binary>>
Only(t) == [staged |-> {t.staged}, dir |-> {t.dir}, config |-> {t.config},
            tmp |-> {t.tmp}, bak |-> {t.bak}, marker |-> {t.marker}]
\* syncfs
SyncFilesystem ==
    /\ UNCHANGED fs /\ disk' = Only(fs)
    /\ open' = FALSE /\ lost' = FALSE
\* a step that may or may not have reached the disk, name by name
Write(t) ==
    /\ fs' = t
    /\ disk' = [staged |-> disk.staged \cup {t.staged}, dir |-> disk.dir \cup {t.dir},
                config |-> disk.config \cup {t.config}, tmp |-> disk.tmp \cup {t.tmp},
                bak |-> disk.bak \cup {t.bak}, marker |-> disk.marker \cup {t.marker}]
    /\ UNCHANGED lost
Change(t) == Write(t) /\ UNCHANGED open
\* ... that takes config.xml from its name or puts another file there
Swap(t) == Write(t) /\ open' = TRUE

-----------------------------------------------------------------------------
(* RecoverConfig.                                                           *)

BootStart ==
    /\ pc = "down"
    /\ Goto(IF fs.dir THEN "recover" ELSE "generate")
    /\ UNCHANGED files

\* the steady config is valid: the temporary and an unusable backup go
RecoverDiscard ==
    /\ pc = "recover" /\ Valid(fs.config) /\ (fs.tmp # Absent \/ fs.bak = Torn)
    /\ Change([fs EXCEPT !.tmp = Absent, !.bak = IF @ = Torn THEN Absent ELSE @])
    /\ Goto("discard-sync")

\* nothing to discard: nothing is flushed either
RecoverReady ==
    /\ \/ pc = "recover" /\ Valid(fs.config) /\ fs.tmp = Absent /\ fs.bak # Torn
          /\ lost' = FALSE /\ UNCHANGED <<fs, disk, open>>
       \/ pc \in {"discard-sync", "restore-sync"} /\ SyncFilesystem
    /\ Goto("identity")

\* no usable config, a known-good backup: drop the other two files, rename
RestoreDiscard ==
    /\ pc = "recover" /\ ~Valid(fs.config) /\ Valid(fs.bak)
    /\ fs.config # Absent \/ fs.tmp # Absent
    /\ Change([fs EXCEPT !.config = Absent, !.tmp = Absent])
    /\ Goto("recover")

\* mutant: the backup is restored whenever there is one
RestoreRenameAlways ==
    /\ pc = "recover" /\ Valid(fs.bak) /\ fs.tmp = Absent
    /\ Swap([fs EXCEPT !.config = fs.bak, !.bak = Absent])
    /\ Goto("restore-sync")

RestoreRename ==
    /\ pc = "recover" /\ Valid(fs.bak) /\ fs.config = Absent /\ fs.tmp = Absent
    /\ Swap([fs EXCEPT !.config = fs.bak, !.bak = Absent])
    /\ Goto("restore-sync")

RecoverConfig == RecoverDiscard \/ RecoverReady \/ RestoreDiscard \/ RestoreRename

-----------------------------------------------------------------------------
(* generateIdentity: everything is made in config.generate.tmp, flushed and *)
(* renamed whole.                                                           *)

\* what an interrupted generation left is removed first
GenerateStage ==
    /\ pc = "generate"
    /\ Change([Empty EXCEPT !.staged = TRUE])
    /\ Goto("gen-run")

\* the pinned binary, ApplyInitialProfile, inspection, generation marker
GenerateRun ==
    /\ pc = "gen-run"
    /\ Change([fs EXCEPT !.marker = binary, !.config = [fmt |-> binary, rev |-> Initial]])
    /\ Goto("gen-sync")

\* mutant: no flush before the rename
GenerateSyncSkipped == pc = "gen-sync" /\ Goto("gen-promote") /\ UNCHANGED files

GenerateSync == pc = "gen-sync" /\ SyncFilesystem /\ Goto("gen-promote")

\* mutant: the staging directory goes, the config directory does not come
GeneratePromoteFiles ==
    /\ pc = "gen-promote"
    /\ Change([fs EXCEPT !.staged = FALSE])
    /\ Goto("gen-promoted")

GeneratePromote ==
    /\ pc = "gen-promote"
    /\ Change([fs EXCEPT !.staged = FALSE, !.dir = TRUE])
    /\ Goto("gen-promoted")

GenerateDone == pc = "gen-promoted" /\ SyncFilesystem /\ Goto("pause")

\* an error on the way removes the staging directory
GenerateFails ==
    /\ pc \in GeneratePCs
    /\ Change(IF fs.dir THEN fs ELSE Empty)
    /\ Goto("down")

generateIdentity ==
    \/ GenerateStage \/ GenerateRun \/ GenerateSync
    \/ GeneratePromote \/ GenerateDone \/ GenerateFails

-----------------------------------------------------------------------------
(* validateOrMigrateIdentity.                                               *)

MarkerCurrent == fs.marker = binary /\ fs.config.fmt = fs.marker

IdentityCurrent ==
    /\ pc = "identity" /\ MarkerCurrent
    /\ Goto("pause")
    /\ UNCHANGED files

\* migrateIdentity: the pinned binary migrates a disposable copy, the result is
\* promoted, the marker is replaced last
MigrateIdentity ==
    /\ pc = "identity" /\ ~MarkerCurrent
    /\ want' = [fmt |-> binary, rev |-> fs.config.rev]
    /\ after' = "marker" /\ pc' = "promote"
    /\ UNCHANGED <<binary, files>>

\* replaceGenerationMarker
MarkerReplace ==
    /\ pc = "marker"
    /\ Change([fs EXCEPT !.marker = binary])
    /\ Goto("marker-sync")

MarkerSync == pc = "marker-sync" /\ SyncFilesystem /\ Goto("pause")

-----------------------------------------------------------------------------
(* promoteConfig and restoreBackup.                                         *)

\* readSafeConfig, replaceXMLScalars, replaceManagedFolderPauses: an edit that
\* changes nothing writes nothing
ApplyOfflinePauseSet(rev) ==
    /\ pc = "pause"
    /\ IF rev = fs.config.rev THEN Goto("spawn")
       ELSE /\ want' = [fs.config EXCEPT !.rev = rev] /\ after' = "spawn"
            /\ pc' = "promote" /\ UNCHANGED binary
    /\ UNCHANGED files

PromoteCreate ==
    /\ pc = "promote" /\ fs.tmp = Absent
    /\ Change([fs EXCEPT !.tmp = Torn])
    /\ Goto("promote-flush")

\* write, fsync, verify
PromoteFlush ==
    /\ pc = "promote-flush"
    /\ Change([fs EXCEPT !.tmp = want])
    /\ Goto("promote-retire")

\* the previous backup goes first, then the known-good config takes its place
PromoteRetire ==
    /\ pc = "promote-retire"
    /\ \/ fs.bak # Absent /\ Change([fs EXCEPT !.bak = Absent]) /\ Goto("promote-retire")
       \/ fs.bak = Absent /\ Swap([fs EXCEPT !.bak = fs.config, !.config = Absent])
            /\ Goto("promote-swap")

PromoteSwap ==
    /\ pc = "promote-swap"
    /\ Swap([fs EXCEPT !.config = fs.tmp, !.tmp = Absent])
    /\ Goto("promote-sync")

PromoteSync == pc = "promote-sync" /\ SyncFilesystem /\ Goto("promote-verify")

\* mutant: the migration ends without its marker
PromoteVerifySkipsMarker ==
    /\ pc = "promote-verify"
    /\ Goto("spawn")
    /\ UNCHANGED files

\* the promoted file is read again; when it does not verify it is taken back
PromoteVerify ==
    /\ pc = "promote-verify"
    /\ Goto(after) \/ Goto("undo")
    /\ UNCHANGED files

UndoRemove ==
    /\ pc = "undo"
    /\ Swap([fs EXCEPT !.config = Absent, !.tmp = Absent])
    /\ Goto("undo-rename")

UndoRename ==
    /\ pc = "undo-rename"
    /\ Swap([fs EXCEPT !.config = fs.bak, !.bak = Absent])
    /\ Goto("undo-sync")

\* restoreBackup always returns an error: the start-up ends
UndoSync == pc = "undo-sync" /\ SyncFilesystem /\ Goto("down")

restoreBackup == UndoRemove \/ UndoRename \/ UndoSync

promoteConfig ==
    \/ PromoteCreate \/ PromoteFlush \/ PromoteRetire
    \/ PromoteSwap \/ PromoteSync \/ PromoteVerify
    \/ restoreBackup

-----------------------------------------------------------------------------
(* Upstream and the environment.                                            *)

Spawn == pc = "spawn" /\ Goto("running") /\ UNCHANGED files

\* Syncthing saves its configuration by an atomic replacement (external)
UpstreamSaves(rev) ==
    /\ pc = "running"
    /\ Change([fs EXCEPT !.config.rev = rev])
    /\ UNCHANGED <<pc, want, after, binary>>

\* any error, stop or kill; what was written stays
Stop == pc # "down" /\ Goto("down") /\ UNCHANGED files

\* a directory that has not got its final name is removed by the next start
AfterLoss(t) == IF t.dir THEN t ELSE [Empty EXCEPT !.staged = t.staged]

PowerLoss ==
    /\ \E t \in Possible : fs' = AfterLoss(t)
    /\ disk' = Only(fs')
    /\ open' = FALSE /\ lost' = (open \/ lost)
    /\ Goto("down")

\* the pak is replaced by a newer one
Upgrade ==
    /\ pc = "down" /\ binary < MaxFormat
    /\ binary' = binary + 1
    /\ UNCHANGED <<pc, want, after, files>>

Init ==
    /\ pc = "down" /\ want = Absent /\ after = "spawn" /\ binary = 1
    /\ fs = Empty /\ disk = Only(Empty) /\ open = FALSE /\ lost = FALSE

EnsureIdentity ==
    generateIdentity \/ IdentityCurrent \/ MigrateIdentity \/ MarkerReplace \/ MarkerSync

Next ==
    \/ BootStart
    \/ RecoverConfig
    \/ EnsureIdentity
    \/ promoteConfig
    \/ \E rev \in Revisions : ApplyOfflinePauseSet(rev) \/ UpstreamSaves(rev)
    \/ Spawn
    \/ Stop
    \/ PowerLoss
    \/ Upgrade

Spec == Init /\ [][Next]_vars

-----------------------------------------------------------------------------
(* Properties.                                                              *)

\* RecoverConfig's ErrNoKnownGoodConfig: however often the controller is killed,
\* at whichever step of generation, migration, edit or recovery, a configuration
\* directory holds a valid config.xml or config.xml.bak; and so it does after a
\* power loss, unless config.xml had left its name and syncfs had not returned.
KnownGood(t) == t.dir => Valid(t.config) \/ Valid(t.bak)
KnownGoodSurvives ==
    /\ ~lost => KnownGood(fs)
    /\ ~lost /\ ~open => \A t \in Possible : KnownGood(t)

\* The same without an exception: what the backup is kept for, of which RecoverConfig's
\* comment says that the steady config or it may survive.  The code does not keep it:
\* promoteConfig flushes once, after its renames, and FAT may have kept no name.
KnownGoodAlways == KnownGood(fs)

\* EnsureIdentity: upstream runs only on a config of its own format, under a
\* marker that says so.
RunsMigrated == pc = "running" => fs.marker = binary /\ fs.config.fmt = binary

\* The directory implements one register: kills, interrupted edits and
\* recoveries neither lose the configuration nor bring back an older one, and a
\* power loss leaves a value written since the last flush; only while
\* config.xml has left its name unflushed is everything possible.
Mode == IF pc = "running" THEN "run" ELSE IF pc \in EditPCs THEN "edit" ELSE "off"
Register == INSTANCE ConfigRegister
    WITH Values <- Content, NoValue <- Absent, mode <- Mode, cur <- Recovered(fs), durable <- MayFind
ImplementsRegister == Register!Spec

=============================================================================
