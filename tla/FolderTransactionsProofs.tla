---------------------- MODULE FolderTransactionsProofs ----------------------
(***************************************************************************)
(* Proofs about FolderTransactions, for every set of folders, directories  *)
(* and peers and any number of faults: the document can be loaded, no      *)
(* active folder is lost, no directory is run by two folders, and what the *)
(* controller shows of a folder's peers is what upstream has.              *)
(*                                                                         *)
(* A document is Good for an upstream configuration if these two could be  *)
(* all that a start-up finds.  The document in memory and the one on disk  *)
(* are both Good at every moment, although they differ after a write that  *)
(* failed.  SessInv ties the session to memory and upstream, and PlaceInv  *)
(* says what each handler has established at its next step.                *)
(***************************************************************************)
EXTENDS FolderTransactions, TLAPS

Good(doc, c) ==
    /\ doc \in Document /\ LoadableRecords(doc.rec)
    /\ \A f \in Folders :
         /\ doc.rec[f].st = "active" /\ ~doc.rec[f].stop => c[f].on
         /\ c[f].on /\ ~c[f].paused => doc.rec[f].st # "none"

DocInv == Good(mem, conf) /\ Good(disk, conf)

\* the controller shows its folders
ServingPCs == {"idle", "removal"} \cup HandlerPCs \cup RemovePCs

\* the folder that is being stopped has gone upstream before the session knows
Going(f) == pc \in {"stop-marker", "stop-forget"} /\ f = opFolder

SessInv ==
    pc # "down" =>
        \A f \in Folders : sess[f].on =>
            /\ mem.rec[f].st # "none"
            /\ Going(f) \/ /\ conf[f].on
                           /\ mem.rec[f].intent = "none" => sess[f].devs = conf[f].devs
            /\ pc \in ServingPCs => ~mem.rec[f].stop

AddPCs == {"add-post", "add-rollback", "add-activate"}
SharePCs == {"share-patch", "share-complete", "share-unpause"}

AddInv ==
    pc \in AddPCs =>
        /\ ~sess[opFolder].on /\ mem.rec[opFolder].st = "adding" /\ opDevs \subseteq peers
        /\ conf[opFolder].on => conf[opFolder].paused
        /\ pc = "add-activate" => conf[opFolder].on /\ conf[opFolder].devs = opDevs

ShareInv ==
    /\ pc \in SharePCs => sess[opFolder].on
    /\ pc = "share-patch" => mem.rec[opFolder].intent # "none"
    /\ pc = "share-complete" => sess[opFolder].devs = conf[opFolder].devs

LeaveInv ==
    /\ pc \in StopPCs \ {"stops"} => mem.rec[opFolder].stop
    /\ pc \in {"stop-marker", "stop-forget"} => ~conf[opFolder].on

PlaceInv ==
    /\ pc \in HandlerPCs \cup (StopPCs \ {"stops"}) => opFolder \in Folders
    /\ pc \in BootPCs \cup StopPCs \cup {"share-unpause"} => mem = disk
    /\ pc = "reconcile" => \A f \in Folders : mem.rec[f].st # "none" /\ conf[f].on => sess[f].on
    /\ pc = "remove-peer" => \A f \in Folders : sess[f].on => mem.removal \notin sess[f].devs

IInv == TypeOK /\ DocInv /\ SessInv /\ AddInv /\ ShareInv /\ LeaveInv /\ PlaceInv

-----------------------------------------------------------------------------
(* Values.                                                                  *)

LEMMA RecordIs ==
    ASSUME NEW r \in FolderRecord
    PROVE  /\ r.st \in {"none", "adding", "active"} /\ r.manual \in BOOLEAN /\ r.firstSync \in BOOLEAN
           /\ r.intent \in {"none", "share", "unshare"} /\ r.peer \in Peers \cup {NoPeer}
           /\ r.stop \in BOOLEAN
BY DEF FolderRecord

LEMMA NoRecordIs ==
    /\ NoRecord \in FolderRecord
    /\ NoRecord.st = "none" /\ NoRecord.intent = "none" /\ NoRecord.peer = NoPeer /\ ~NoRecord.stop
BY DEF NoRecord, FolderRecord

LEMMA DocumentIs ==
    ASSUME NEW doc \in Document
    PROVE  /\ doc.rec \in [Folders -> FolderRecord] /\ doc.removal \in Peers \cup {NoPeer}
           /\ \A f \in Folders : doc.rec[f] \in FolderRecord
BY DEF Document

LEMMA WithIs ==
    ASSUME mem \in Document, NEW f \in Folders, NEW r \in FolderRecord
    PROVE  /\ WithRecord(f, r) \in Document
           /\ WithRecord(f, r).rec[f] = r
           /\ \A g \in Folders : g # f => WithRecord(f, r).rec[g] = mem.rec[g]
           /\ WithRecord(f, r).removal = mem.removal
<1>1. mem.rec \in [Folders -> FolderRecord] /\ mem.removal \in Peers \cup {NoPeer}
    BY DocumentIs
<1>2. WithRecord(f, r) = [mem EXCEPT !.rec = [mem.rec EXCEPT ![f] = r]]
    BY DEF WithRecord
<1>3. [mem.rec EXCEPT ![f] = r] \in [Folders -> FolderRecord]
    BY <1>1
<1>4. /\ WithRecord(f, r) \in Document
      /\ WithRecord(f, r).rec = [mem.rec EXCEPT ![f] = r]
      /\ WithRecord(f, r).removal = mem.removal
    BY <1>1, <1>2, <1>3 DEF Document
<1>5. QED
    BY <1>1, <1>4

LEMMA ConfigIs ==
    ASSUME NEW k \in FolderConfig
    PROVE  /\ k.on \in BOOLEAN /\ k.paused \in BOOLEAN /\ k.devs \in SUBSET Peers
           /\ \A b \in BOOLEAN :
                LET n == [k EXCEPT !.paused = b]
                IN  n \in FolderConfig /\ n.on = k.on /\ n.paused = b /\ n.devs = k.devs
           /\ \A s \in SUBSET Peers :
                LET n == [k EXCEPT !.devs = s]
                IN  n \in FolderConfig /\ n.on = k.on /\ n.paused = k.paused /\ n.devs = s
           /\ \A s \in SUBSET Peers :
                LET n == [k EXCEPT !.paused = TRUE, !.devs = s]
                IN  n \in FolderConfig /\ n.on = k.on /\ n.paused = TRUE /\ n.devs = s
BY DEF FolderConfig

\* A folder without a reason to be paused has a record.
LEMMA ReasonsAre ==
    ASSUME NEW r \in FolderRecord, NEW f \in Folders
    PROVE  /\ PauseReasons(r, f) \in SUBSET Reasons
           /\ (PauseReasons(r, f) # {}) \in BOOLEAN
           /\ PauseReasons(r, f) = {} => r.st # "none"
BY DEF PauseReasons, Reasons

LEMMA RowsAre ==
    ASSUME NEW s, NEW doc \in Document
    PROVE  Rows(s, doc) \in [Folders -> (SUBSET Reasons) \cup {NoRow}]
BY DocumentIs, ReasonsAre DEF Rows

-----------------------------------------------------------------------------
(* Documents that can be loaded, and configurations that go with them.      *)

\* what a record must be to be written beside the others
Fits(r) ==
    /\ r.st = "adding" => r.intent = "none" /\ ~r.stop
    /\ r.stop => r.intent = "none"
    /\ (r.intent = "none") <=> (r.peer = NoPeer)

LEMMA GoodRecord ==
    ASSUME NEW c, Good(mem, c), NEW f \in Folders, NEW r \in FolderRecord, Fits(r),
           r.st # "none" => \/ mem.rec[f].st # "none"
                            \/ \A g \in Folders : g # f /\ mem.rec[g].st # "none" => Slot[g] # Slot[f],
           r.st = "active" /\ ~r.stop => c[f].on,
           c[f].on /\ ~c[f].paused => r.st # "none"
    PROVE  Good(WithRecord(f, r), c)
<1> DEFINE d == WithRecord(f, r)
<1>1. /\ d \in Document /\ d.rec[f] = r /\ \A g \in Folders : g # f => d.rec[g] = mem.rec[g]
    BY WithIs DEF Good
<1> HIDE DEF d
<1>2. LoadableRecords(d.rec)
  <2>1. ASSUME NEW g \in Folders
        PROVE  /\ d.rec[g].st = "adding" => d.rec[g].intent = "none" /\ ~d.rec[g].stop
               /\ d.rec[g].stop => d.rec[g].intent = "none"
               /\ (d.rec[g].intent = "none") <=> (d.rec[g].peer = NoPeer)
    <3>1. CASE g = f
      BY <1>1, <3>1 DEF Fits
    <3>2. CASE g # f
      BY <1>1, <3>2 DEF Good, LoadableRecords
    <3>3. QED
      BY <3>1, <3>2
  <2>2. ASSUME NEW g \in Folders, NEW h \in Folders,
               d.rec[g].st # "none", d.rec[h].st # "none", Slot[g] = Slot[h]
        PROVE  g = h
    BY <1>1, <2>2 DEF Good, LoadableRecords
  <2>3. QED
    BY <2>1, <2>2 DEF LoadableRecords
<1>3. QED
    BY <1>1, <1>2 DEF Good, d

\* no folder goes, and none is unpaused that has no record
LEMMA GoodConf ==
    ASSUME NEW c, NEW d, NEW doc, Good(doc, c),
           \A f \in Folders :
             /\ c[f].on => d[f].on \/ doc.rec[f].st # "active" \/ doc.rec[f].stop
             /\ d[f].on /\ ~d[f].paused => doc.rec[f].st # "none" \/ (c[f].on /\ ~c[f].paused)
    PROVE  Good(doc, d)
BY DEF Good

\* a document is written, or not
LEMMA WrittenIs ==
    ASSUME DocInv, NEW doc, Good(doc, conf), conf' = conf,
           Persisted(doc) \/ PersistRolledBack(doc) \/ PersistKept(doc)
    PROVE  DocInv' /\ mem' \in Document /\ disk' \in Document
<1>1. mem' \in {mem, doc} /\ disk' \in {disk, doc}
    BY DEF Persisted, PersistRolledBack, PersistKept
<1>2. Good(mem', conf) /\ Good(disk', conf)
    BY <1>1 DEF DocInv
<1>3. QED
    BY <1>2 DEF DocInv, Good

LEMMA FaultIs == TypeOK /\ (Fine \/ Fault) => faults' \in 0..MaxFaults
BY FaultAssumption DEF TypeOK, Fine, Fault

LEMMA PausedIs ==
    ASSUME TypeOK, NEW f \in Folders, NEW b \in BOOLEAN,
           conf' = conf \/ conf' = [conf EXCEPT ![f] = [conf[f] EXCEPT !.paused = b]]
    PROVE  /\ conf' \in [Folders -> FolderConfig]
           /\ \A g \in Folders : /\ conf'[g].on = conf[g].on /\ conf'[g].devs = conf[g].devs
                                 /\ conf'[g].paused = conf[g].paused \/ (g = f /\ conf'[g].paused = b)
<1>1. conf \in [Folders -> FolderConfig]
    BY DEF TypeOK
<1>2. CASE conf' = conf
    BY <1>1, <1>2
<1>3. CASE conf' = [conf EXCEPT ![f] = [conf[f] EXCEPT !.paused = b]]
  <2> DEFINE n == [conf[f] EXCEPT !.paused = b]
  <2>1. n \in FolderConfig /\ n.on = conf[f].on /\ n.paused = b /\ n.devs = conf[f].devs
    <3>1. conf[f] \in FolderConfig
      BY <1>1
    <3>2. QED
      BY <3>1 DEF FolderConfig
  <2>2. conf' = [conf EXCEPT ![f] = n]
    BY <1>3
  <2> HIDE DEF n
  <2>3. conf' \in [Folders -> FolderConfig] /\ conf'[f] = n /\ \A g \in Folders \ {f} : conf'[g] = conf[g]
    BY <1>1, <2>1, <2>2
  <2>4. ASSUME NEW g \in Folders
        PROVE  /\ conf'[g].on = conf[g].on /\ conf'[g].devs = conf[g].devs
               /\ conf'[g].paused = conf[g].paused \/ (g = f /\ conf'[g].paused = b)
    <3>1. CASE g = f
      BY <2>1, <2>3, <3>1
    <3>2. CASE g # f
      BY <2>3, <3>2
    <3>3. QED
      BY <3>1, <3>2
  <2>5. QED
    BY <2>3, <2>4
<1>4. QED
    BY <1>2, <1>3

-----------------------------------------------------------------------------
(* Where a handler ends.                                                    *)

PCs == {"down", "idle"} \cup BootPCs \cup HandlerPCs \cup StopPCs \cup RemovePCs

OpsOK ==
    /\ pc \in PCs /\ booting \in BOOLEAN /\ opFolder \in Folders \cup {NoFolder}
    /\ opDevs \in SUBSET Peers /\ recovered \in SUBSET Folders

LEMMA TypeIs ==
    TypeOK <=> /\ OpsOK /\ mem \in Document /\ disk \in Document
               /\ conf \in [Folders -> FolderConfig] /\ peers \in SUBSET Peers
               /\ sess \in [Folders -> [on : BOOLEAN, devs : SUBSET Peers]]
               /\ row \in [Folders -> (SUBSET Reasons) \cup {NoRow}]
               /\ marker \in SUBSET {Slot[f] : f \in Folders} /\ card \in BOOLEAN
               /\ faults \in 0..MaxFaults
BY DEF TypeOK, OpsOK, PCs

LEMMA TypeNext ==
    ASSUME OpsOK', mem' \in Document, disk' \in Document,
           conf' \in [Folders -> FolderConfig], peers' \in SUBSET Peers,
           sess' \in [Folders -> [on : BOOLEAN, devs : SUBSET Peers]],
           row' \in [Folders -> (SUBSET Reasons) \cup {NoRow}],
           marker' \in SUBSET {Slot[f] : f \in Folders}, card' \in BOOLEAN,
           faults' \in 0..MaxFaults
    PROVE  TypeOK'
BY DEF TypeOK, OpsOK, PCs

\* nothing is under way
LEMMA RestIs ==
    ASSUME Return \/ Exit
    PROVE  OpsOK' /\ AddInv' /\ ShareInv' /\ LeaveInv' /\ PlaceInv' /\ pc' \in {"idle", "down"}
BY DEF Return, Exit, AddInv, ShareInv, LeaveInv, PlaceInv, BootPCs, HandlerPCs, StopPCs,
       RemovePCs, AddPCs, SharePCs, OpsOK, PCs

LEMMA IdleIs ==
    ASSUME TypeOK, pc = "idle", UNCHANGED opVars
    PROVE  OpsOK' /\ AddInv' /\ ShareInv' /\ LeaveInv' /\ PlaceInv' /\ pc' = "idle"
BY TypeIs DEF opVars, AddInv, ShareInv, LeaveInv, PlaceInv, BootPCs, HandlerPCs, StopPCs,
       RemovePCs, AddPCs, SharePCs, OpsOK, PCs

LEMMA GotoIs ==
    ASSUME TypeOK, NEW next \in PCs, Goto(next)
    PROVE  /\ OpsOK' /\ pc' = next /\ opFolder' = opFolder /\ opDevs' = opDevs
           /\ recovered' = recovered /\ booting' = booting
           /\ next \in {"stops"} \cup BootPCs \cup RemovePCs => AddInv' /\ ShareInv' /\ LeaveInv'
BY TypeIs DEF Goto, AddInv, ShareInv, LeaveInv, BootPCs, HandlerPCs, StopPCs,
       RemovePCs, AddPCs, SharePCs, OpsOK

\* The session keeps what it shows, of folders that keep what they have.
LEMMA SessKept ==
    ASSUME IInv, sess' = sess, pc \notin {"down", "stop-marker", "stop-forget"},
           \A f \in Folders : sess[f].on =>
             /\ mem'.rec[f].st # "none"
             /\ mem'.rec[f].intent = "none" => mem.rec[f].intent = "none"
             /\ mem'.rec[f].stop = mem.rec[f].stop
             /\ conf'[f].on = conf[f].on
             /\ conf'[f].devs = conf[f].devs \/ mem'.rec[f].intent # "none",
           pc' \in ServingPCs => \/ pc \in ServingPCs
                                 \/ \A f \in Folders : sess[f].on => ~mem.rec[f].stop
    PROVE  SessInv'
<1>1. SessInv
    BY DEF IInv
<1>2. \A f \in Folders : ~Going(f)
    BY DEF Going
<1>3. QED
    BY <1>1, <1>2 DEF SessInv

\* nothing is shown after a stop that failed, or while the controller is down
LEMMA SessEmpty ==
    ASSUME pc' = "down" \/ sess' = EmptySession
    PROVE  SessInv'
BY DEF SessInv, EmptySession, NoSession

\* The controller serves, and what it shows is not touched.
LEMMA StayIs ==
    ASSUME IInv, pc = "idle", UNCHANGED opVars, DocInv', mem' = mem, disk' \in Document,
           conf' = conf, sess' = sess, card' \in BOOLEAN, peers' \in SUBSET Peers,
           row' \in [Folders -> (SUBSET Reasons) \cup {NoRow}],
           marker' \in SUBSET {Slot[f] : f \in Folders}, faults' \in 0..MaxFaults
    PROVE  IInv'
<1>1. TypeOK /\ SessInv
    BY DEF IInv
<1>2. OpsOK' /\ AddInv' /\ ShareInv' /\ LeaveInv' /\ PlaceInv' /\ pc' = "idle"
    BY <1>1, IdleIs
<1>3. TypeOK'
    BY <1>1, <1>2, TypeIs, TypeNext
<1>4. SessInv'
    BY <1>1, <1>2 DEF SessInv, Going
<1>5. QED
    BY <1>2, <1>3, <1>4 DEF IInv

LEMMA ConfSet ==
    ASSUME TypeOK, NEW f \in Folders, NEW k \in FolderConfig, conf' = [conf EXCEPT ![f] = k]
    PROVE  /\ conf' \in [Folders -> FolderConfig] /\ conf'[f] = k
           /\ \A g \in Folders : g # f => conf'[g] = conf[g]
BY DEF TypeOK

\* the documents stay, and upstream loses and unpauses no folder
LEMMA DocKept ==
    ASSUME DocInv, mem' = mem, disk' = disk,
           \A f \in Folders : /\ conf[f].on => conf'[f].on
                              /\ conf'[f].on /\ ~conf'[f].paused => conf[f].on /\ ~conf[f].paused
    PROVE  DocInv'
BY DEF DocInv, Good

-----------------------------------------------------------------------------
(* The first state.                                                         *)

LEMMA InitInv == Init => IInv
<1> SUFFICES ASSUME Init PROVE IInv
    OBVIOUS
<1>1. /\ mem \in Document /\ disk = mem /\ \A f \in Folders : mem.rec[f] = NoRecord
      /\ conf \in [Folders -> FolderConfig] /\ \A f \in Folders : conf[f] = NoConfig
    BY NoRecordIs DEF Init, Document, FolderConfig, NoConfig
<1>2. LoadableRecords(mem.rec)
    BY <1>1, NoRecordIs DEF LoadableRecords
<1>3. Good(mem, conf) /\ DocInv
    BY <1>1, <1>2, NoRecordIs DEF Good, DocInv, NoConfig
<1>4. TypeOK
  <2>1. OpsOK /\ peers \in SUBSET Peers /\ marker \in SUBSET {Slot[f] : f \in Folders}
        /\ card \in BOOLEAN
    BY DEF Init, OpsOK, PCs
  <2>2. sess \in [Folders -> [on : BOOLEAN, devs : SUBSET Peers]]
    BY DEF Init, EmptySession, NoSession
  <2>3. row \in [Folders -> (SUBSET Reasons) \cup {NoRow}]
    BY DEF Init
  <2>4. faults \in 0..MaxFaults
    BY FaultAssumption DEF Init
  <2>5. QED
    BY <1>1, <2>1, <2>2, <2>3, <2>4, TypeIs
<1>5. SessInv /\ AddInv /\ ShareInv /\ LeaveInv /\ PlaceInv
    BY DEF Init, SessInv, AddInv, ShareInv, LeaveInv, PlaceInv, BootPCs, HandlerPCs, StopPCs,
           AddPCs, SharePCs
<1>6. QED
    BY <1>3, <1>4, <1>5 DEF IInv

-----------------------------------------------------------------------------
(* Creating a folder.                                                       *)

LEMMA CreateBeginInv ==
    ASSUME IInv, NEW f \in Folders, NEW devs \in SUBSET Peers, CreateBegin(f, devs)
    PROVE  IInv'
<1> DEFINE r == [NoRecord EXCEPT !.st = "adding", !.firstSync = TRUE]
           added == WithRecord(f, r)
           refused == \E g \in Folders : mem.rec[g].st # "none" /\ (g = f \/ Slot[g] = Slot[f])
<1>1. /\ TypeOK /\ DocInv /\ SessInv /\ mem \in Document /\ disk \in Document
      /\ Good(mem, conf)
    BY DEF IInv, TypeOK, DocInv
<1>2. /\ pc = "idle" /\ devs \subseteq peers /\ marker' = marker \cup {Slot[f]}
      /\ conf' = conf /\ peers' = peers /\ sess' = sess /\ row' = row /\ card' = card
    BY DEF CreateBegin, Serving, upVars, viewVars
<1>3. r \in FolderRecord /\ r.st = "adding" /\ r.intent = "none" /\ r.peer = NoPeer /\ ~r.stop
    BY DEF NoRecord, FolderRecord
<1>4. \/ /\ ~refused /\ Persisted(added) /\ Fine
         /\ pc' = "add-post" /\ opFolder' = f /\ opDevs' = devs
         /\ UNCHANGED <<booting, recovered>>
      \/ ~refused /\ PersistRolledBack(added) /\ Fault /\ UNCHANGED opVars
      \/ refused /\ UNCHANGED <<opVars, docVars, faults>>
    BY DEF CreateBegin
<1> HIDE DEF r
<1>5. ASSUME ~refused
      PROVE  /\ Good(added, conf) /\ added \in Document /\ added.rec[f] = r
             /\ \A g \in Folders : g # f => added.rec[g] = mem.rec[g]
             /\ mem.rec[f].st = "none" /\ ~sess[f].on
  <2>1. mem.rec[f].st = "none" /\ ~sess[f].on
    BY <1>1, <1>2, <1>5 DEF SessInv
  <2>2. Good(added, conf)
    BY <1>1, <1>3, <1>5, GoodRecord DEF Fits
  <2>3. QED
    BY <1>1, <1>3, <2>1, <2>2, WithIs
<1>6. /\ marker' \in SUBSET {Slot[g] : g \in Folders} /\ card' \in BOOLEAN
      /\ peers' \in SUBSET Peers /\ row' \in [Folders -> (SUBSET Reasons) \cup {NoRow}]
    BY <1>1, <1>2, TypeIs
<1>0. faults' \in 0..MaxFaults
    BY <1>1, <1>4, FaultAssumption DEF TypeOK, Fine, Fault
<1>7. CASE /\ ~refused /\ Persisted(added)
           /\ pc' = "add-post" /\ opFolder' = f /\ opDevs' = devs
           /\ UNCHANGED <<booting, recovered>>
  <2>1. DocInv' /\ mem' \in Document /\ disk' \in Document
    BY <1>1, <1>2, <1>5, <1>7, WrittenIs
  <2> HIDE DEF refused, added
  <2>2. OpsOK'
    BY <1>1, <1>7, TypeIs DEF OpsOK, PCs, HandlerPCs
  <2>3. TypeOK'
    BY <1>1, <1>2, <1>0, <1>6, <2>1, <2>2, TypeIs, TypeNext
  <2>4. \A g \in Folders : sess[g].on => mem'.rec[g] = mem.rec[g] /\ mem.rec[g].st # "none"
    BY <1>1, <1>2, <1>5, <1>7 DEF SessInv, Persisted
  <2>5. SessInv'
    BY <1>2, <2>4, SessKept DEF ServingPCs
  <2>6. AddInv'
    BY <1>1, <1>2, <1>3, <1>5, <1>7 DEF AddInv, Good, Persisted
  <2>7. ShareInv' /\ LeaveInv' /\ PlaceInv'
    BY <1>7 DEF ShareInv, LeaveInv, PlaceInv, SharePCs, StopPCs, HandlerPCs, BootPCs
  <2>8. QED
    BY <2>1, <2>3, <2>5, <2>6, <2>7 DEF IInv
<1>8. CASE ~refused /\ PersistRolledBack(added) /\ UNCHANGED opVars
  <2>1. DocInv' /\ mem' \in Document /\ disk' \in Document /\ mem' = mem
    BY <1>1, <1>2, <1>5, <1>8, WrittenIs DEF PersistRolledBack
  <2> HIDE DEF refused, added
  <2>2. QED
    BY <1>1, <1>2, <1>0, <1>6, <1>8, <2>1, StayIs
<1>9. CASE UNCHANGED opVars /\ UNCHANGED docVars
  <2>1. DocInv' /\ mem' \in Document /\ disk' \in Document /\ mem' = mem
    BY <1>1, <1>2, <1>9 DEF docVars, DocInv
  <2> HIDE DEF refused, added
  <2>2. QED
    BY <1>1, <1>2, <1>0, <1>6, <1>9, <2>1, StayIs
<1>10. QED
    BY <1>4, <1>7, <1>8, <1>9

LEMMA CreatePostInv == IInv /\ CreatePost => IInv'
<1> SUFFICES ASSUME IInv, CreatePost PROVE IInv'
    OBVIOUS
<1> DEFINE k == [on |-> TRUE, paused |-> TRUE, devs |-> Accepted(opDevs)]
<1>1. /\ TypeOK /\ DocInv /\ SessInv /\ AddInv /\ pc = "add-post" /\ opFolder \in Folders
      /\ peers' = peers /\ mem' = mem /\ disk' = disk /\ sess' = sess /\ row' = row
      /\ marker' = marker /\ card' = card
    BY DEF IInv, PlaceInv, HandlerPCs, CreatePost, docVars, viewVars
<1>2. /\ ~sess[opFolder].on /\ mem.rec[opFolder].st = "adding" /\ opDevs \subseteq peers
      /\ conf[opFolder].on => conf[opFolder].paused
    BY <1>1 DEF AddInv, AddPCs
<1>3. k \in FolderConfig /\ k.on /\ k.paused /\ k.devs = opDevs
    BY <1>1, <1>2 DEF Accepted, FolderConfig, TypeOK
<1>4. \/ conf' = [conf EXCEPT ![opFolder] = k] /\ Goto("add-activate")
      \/ (conf' = [conf EXCEPT ![opFolder] = k] \/ conf' = conf) /\ Goto("add-rollback")
    BY DEF CreatePost, Rest, SetConf
<1>0. faults' \in 0..MaxFaults
    BY <1>1, FaultIs DEF CreatePost, Rest
<1>5. CASE conf' = [conf EXCEPT ![opFolder] = k] /\ Goto("add-activate")
  <2> HIDE DEF k
  <2>1. /\ conf' \in [Folders -> FolderConfig] /\ conf'[opFolder] = k
        /\ \A g \in Folders : g # opFolder => conf'[g] = conf[g]
    BY <1>1, <1>3, <1>5, ConfSet
  <2>2. OpsOK' /\ pc' = "add-activate" /\ opFolder' = opFolder /\ opDevs' = opDevs
    BY <1>1, <1>5, GotoIs DEF PCs, HandlerPCs
  <2>3. TypeOK'
    BY <1>0, <1>1, <2>1, <2>2, TypeIs, TypeNext
  <2>4. DocInv'
    BY <1>1, <1>3, <2>1, DocKept
  <2>5. SessInv'
    BY <1>1, <1>2, <2>1, <2>2, SessKept DEF ServingPCs, HandlerPCs, SessInv
  <2>6. AddInv'
    BY <1>1, <1>2, <1>3, <2>1, <2>2 DEF AddInv
  <2>7. ShareInv' /\ LeaveInv' /\ PlaceInv'
    BY <1>1, <2>2 DEF ShareInv, LeaveInv, PlaceInv, SharePCs, StopPCs, HandlerPCs, BootPCs
  <2>8. QED
    BY <2>3, <2>4, <2>5, <2>6, <2>7 DEF IInv
<1>6. CASE (conf' = [conf EXCEPT ![opFolder] = k] \/ conf' = conf) /\ Goto("add-rollback")
  <2> HIDE DEF k
  <2>1. /\ conf' \in [Folders -> FolderConfig]
        /\ conf'[opFolder] \in {k, conf[opFolder]}
        /\ \A g \in Folders : g # opFolder => conf'[g] = conf[g]
    <3>1. CASE conf' = conf
      BY <1>1, <3>1, TypeIs
    <3>2. CASE conf' # conf
      BY <1>1, <1>3, <1>6, <3>2, ConfSet
    <3>3. QED
      BY <3>1, <3>2
  <2>2. OpsOK' /\ pc' = "add-rollback" /\ opFolder' = opFolder /\ opDevs' = opDevs
    BY <1>1, <1>6, GotoIs DEF PCs, HandlerPCs
  <2>3. TypeOK'
    BY <1>0, <1>1, <2>1, <2>2, TypeIs, TypeNext
  <2>4. DocInv'
    <3>1. \A f \in Folders : /\ conf[f].on => conf'[f].on
                             /\ conf'[f].on /\ ~conf'[f].paused => conf[f].on /\ ~conf[f].paused
      BY <1>1, <1>3, <2>1
    <3>2. QED
      BY <1>1, <3>1, DocKept
  <2>5. SessInv'
    BY <1>1, <1>2, <2>1, <2>2, SessKept DEF ServingPCs, HandlerPCs, SessInv
  <2>6. AddInv'
    BY <1>1, <1>2, <1>3, <2>1, <2>2 DEF AddInv
  <2>7. ShareInv' /\ LeaveInv' /\ PlaceInv'
    BY <1>1, <2>2 DEF ShareInv, LeaveInv, PlaceInv, SharePCs, StopPCs, HandlerPCs, BootPCs
  <2>8. QED
    BY <2>3, <2>4, <2>5, <2>6, <2>7 DEF IInv
<1>7. QED
    BY <1>4, <1>5, <1>6

LEMMA CreateRollbackInv == IInv /\ CreateRollback => IInv'
<1> SUFFICES ASSUME IInv, CreateRollback PROVE IInv'
    OBVIOUS
<1> DEFINE gone == WithRecord(opFolder, NoRecord)
<1>1. /\ TypeOK /\ DocInv /\ SessInv /\ AddInv /\ pc = "add-rollback" /\ opFolder \in Folders
      /\ mem \in Document /\ Good(mem, conf)
      /\ conf' = conf /\ peers' = peers /\ sess' = sess /\ row' = row
      /\ marker' = marker /\ card' = card
    BY DEF IInv, PlaceInv, HandlerPCs, CreateRollback, upVars, viewVars, TypeOK, DocInv
<1>2. ~sess[opFolder].on /\ (conf[opFolder].on => conf[opFolder].paused)
    BY <1>1 DEF AddInv, AddPCs
<1>3. (Persisted(gone) \/ PersistRolledBack(gone)) /\ Return
    BY DEF CreateRollback
<1>4. faults' \in 0..MaxFaults
    BY <1>1, FaultIs DEF CreateRollback
<1>5. OpsOK' /\ AddInv' /\ ShareInv' /\ LeaveInv' /\ PlaceInv' /\ pc' = "idle"
    BY <1>3, RestIs DEF Return
<1>6. Good(gone, conf)
    BY <1>1, <1>2, NoRecordIs, GoodRecord DEF Fits
<1>7. \A g \in Folders : g # opFolder => gone.rec[g] = mem.rec[g]
    BY <1>1, NoRecordIs, WithIs
<1> HIDE DEF gone
<1>8. DocInv' /\ mem' \in Document /\ disk' \in Document
    BY <1>1, <1>3, <1>6, WrittenIs
<1>9. TypeOK'
    BY <1>1, <1>4, <1>5, <1>8, TypeIs, TypeNext
<1>10. \A g \in Folders : sess[g].on => mem'.rec[g] = mem.rec[g] /\ mem.rec[g].st # "none"
    BY <1>1, <1>2, <1>3, <1>7 DEF SessInv, Persisted, PersistRolledBack
<1>11. SessInv'
    BY <1>1, <1>10, <1>5, SessKept DEF ServingPCs, HandlerPCs
<1>12. QED
    BY <1>5, <1>8, <1>9, <1>11 DEF IInv

LEMMA CreateActivateInv == IInv /\ CreateActivate => IInv'
<1> SUFFICES ASSUME IInv, CreateActivate PROVE IInv'
    OBVIOUS
<1> DEFINE r == [mem.rec[opFolder] EXCEPT !.st = "active"]
           active == WithRecord(opFolder, r)
           shown == [on |-> TRUE, devs |-> opDevs]
<1>1. /\ TypeOK /\ DocInv /\ SessInv /\ AddInv /\ pc = "add-activate" /\ opFolder \in Folders
      /\ mem \in Document /\ Good(mem, conf) /\ opDevs \in SUBSET Peers
      /\ conf' = conf /\ peers' = peers
      /\ marker' = marker /\ card' = card
    BY DEF IInv, PlaceInv, HandlerPCs, CreateActivate, upVars, TypeOK, DocInv
<1>2. /\ ~sess[opFolder].on /\ mem.rec[opFolder].st = "adding"
      /\ conf[opFolder].on /\ conf[opFolder].devs = opDevs
    BY <1>1 DEF AddInv, AddPCs
<1>3. mem.rec[opFolder] \in FolderRecord /\ Fits(mem.rec[opFolder])
    BY <1>1, DocumentIs DEF Good, LoadableRecords, Fits
<1>4. /\ r \in FolderRecord /\ r.st = "active" /\ ~r.stop /\ Fits(r)
    BY <1>2, <1>3 DEF Fits, FolderRecord
<1>5. /\ \/ /\ Persisted(active) /\ sess' = [sess EXCEPT ![opFolder] = shown]
            /\ row' = Rows(sess', active)
         \/ PersistRolledBack(active) /\ sess' = sess /\ row' = row
      /\ Return
    BY DEF CreateActivate, viewVars
<1>6. faults' \in 0..MaxFaults
    BY <1>1, FaultIs DEF CreateActivate
<1>7. OpsOK' /\ AddInv' /\ ShareInv' /\ LeaveInv' /\ PlaceInv' /\ pc' = "idle"
    BY <1>5, RestIs DEF Return
<1> HIDE DEF r
<1>8. Good(active, conf)
    BY <1>1, <1>2, <1>4, GoodRecord
<1>9. /\ active.rec[opFolder] = r /\ active \in Document
      /\ \A g \in Folders : g # opFolder => active.rec[g] = mem.rec[g]
    BY <1>1, <1>4, WithIs
<1> HIDE DEF active
<1>10. DocInv' /\ mem' \in Document /\ disk' \in Document
    BY <1>1, <1>5, <1>8, WrittenIs
<1>11. CASE /\ Persisted(active) /\ sess' = [sess EXCEPT ![opFolder] = shown]
            /\ row' = Rows(sess', active)
  <2>1. /\ sess' \in [Folders -> [on : BOOLEAN, devs : SUBSET Peers]]
        /\ sess'[opFolder] = shown /\ shown.devs = opDevs
        /\ \A g \in Folders : g # opFolder => sess'[g] = sess[g]
    BY <1>1, <1>11 DEF TypeOK
  <2>2. row' \in [Folders -> (SUBSET Reasons) \cup {NoRow}]
    BY <1>9, <1>11, RowsAre
  <2>3. TypeOK'
    BY <1>1, <1>6, <1>7, <1>10, <2>1, <2>2, TypeIs, TypeNext
  <2>4. mem' = active
    BY <1>11 DEF Persisted
  <2> HIDE DEF shown
  <2>5. ASSUME NEW f \in Folders, sess'[f].on
        PROVE  /\ mem'.rec[f].st # "none" /\ ~mem'.rec[f].stop /\ conf'[f].on
               /\ mem'.rec[f].intent = "none" => sess'[f].devs = conf'[f].devs
    <3>1. CASE f = opFolder
      BY <1>1, <1>2, <1>4, <1>9, <2>1, <2>4, <3>1
    <3>2. CASE f # opFolder
      BY <1>1, <1>9, <2>1, <2>4, <2>5, <3>2 DEF SessInv, ServingPCs, HandlerPCs, Going
    <3>3. QED
      BY <3>1, <3>2
  <2>6. SessInv'
    BY <2>5 DEF SessInv
  <2>7. QED
    BY <1>7, <1>10, <2>3, <2>6 DEF IInv
<1>12. CASE PersistRolledBack(active) /\ sess' = sess /\ row' = row
  <2>1. TypeOK' /\ mem' = mem
    BY <1>1, <1>6, <1>7, <1>10, <1>12, TypeIs, TypeNext DEF PersistRolledBack
  <2>2. SessInv'
    BY <1>1, <1>7, <1>12, <2>1, SessKept DEF ServingPCs, HandlerPCs, SessInv
  <2>3. QED
    BY <1>7, <1>10, <2>1, <2>2 DEF IInv
<1>13. QED
    BY <1>5, <1>11, <1>12

-----------------------------------------------------------------------------
(* Sharing a folder with a peer, and no longer sharing it.                  *)

LEMMA MembershipBeginInv ==
    ASSUME IInv, NEW f \in Folders, NEW p \in Peers, NEW intent \in {"share", "unshare"},
           MembershipBegin(f, p, intent)
    PROVE  IInv'
<1> DEFINE record == mem.rec[f]
           r == [record EXCEPT !.intent = intent, !.peer = p]
           same == record.intent = intent /\ record.peer = p
           begun == WithRecord(f, r)
<1>1. /\ TypeOK /\ DocInv /\ SessInv /\ mem \in Document /\ disk \in Document /\ Good(mem, conf)
      /\ pc = "idle" /\ sess[f].on /\ record.st = "active"
      /\ conf' = conf /\ peers' = peers /\ sess' = sess /\ marker' = marker /\ card' = card
    BY DEF IInv, TypeOK, DocInv, MembershipBegin, Serving, upVars
<1>2. \/ /\ IF same THEN UNCHANGED docVars ELSE Persisted(begun)
         /\ pc' = "share-patch" /\ opFolder' = f /\ row' = Rows(sess, mem')
         /\ UNCHANGED <<booting, opDevs, recovered>>
      \/ PersistRolledBack(begun) /\ UNCHANGED opVars /\ row' = row
    BY DEF MembershipBegin
<1>3. faults' \in 0..MaxFaults
    BY <1>1, FaultIs DEF MembershipBegin
<1>4. ~record.stop /\ conf[f].on
    BY <1>1 DEF SessInv, ServingPCs, Going
<1>5. /\ r \in FolderRecord /\ r.st = "active" /\ ~r.stop /\ r.intent = intent /\ r.peer = p
  <2>1. record \in FolderRecord
    BY <1>1, DocumentIs
  <2>2. record.st = "active" /\ ~record.stop
    BY <1>1, <1>4
  <2> HIDE DEF record
  <2>3. QED
    BY <2>1, <2>2 DEF FolderRecord
<1>6. Fits(r)
    BY <1>5, NoneAssumption DEF Fits
<1> HIDE DEF r
<1>7. Good(begun, conf)
    BY <1>1, <1>4, <1>5, <1>6, GoodRecord
<1>8. /\ begun.rec[f] = r /\ begun \in Document
      /\ \A g \in Folders : g # f => begun.rec[g] = mem.rec[g]
    BY <1>1, <1>5, WithIs
<1> HIDE DEF begun
<1>9. CASE /\ IF same THEN UNCHANGED docVars ELSE Persisted(begun)
           /\ pc' = "share-patch" /\ opFolder' = f /\ row' = Rows(sess, mem')
           /\ UNCHANGED <<booting, opDevs, recovered>>
  <2>1. DocInv' /\ mem' \in Document /\ disk' \in Document
    <3>1. CASE same
      BY <1>1, <1>9, <3>1 DEF docVars, DocInv
    <3>2. CASE ~same
      BY <1>1, <1>7, <1>9, <3>2, WrittenIs
    <3>3. QED
      BY <3>1, <3>2
  <2>2. /\ mem'.rec[f].st # "none" /\ mem'.rec[f].intent = intent /\ ~mem'.rec[f].stop
        /\ \A g \in Folders : g # f => mem'.rec[g] = mem.rec[g]
    <3>1. CASE same
      BY <1>1, <1>4, <1>9, <3>1 DEF docVars
    <3>2. CASE ~same
      BY <1>5, <1>8, <1>9, <3>2 DEF Persisted
    <3>3. QED
      BY <3>1, <3>2
  <2>3. row' \in [Folders -> (SUBSET Reasons) \cup {NoRow}]
    BY <1>9, <2>1, RowsAre
  <2>4. OpsOK'
    BY <1>1, <1>9, TypeIs DEF OpsOK, PCs, HandlerPCs
  <2>5. TypeOK'
    BY <1>1, <1>3, <2>1, <2>3, <2>4, <1>9, TypeIs, TypeNext
  <2>6. SessInv'
    BY <1>1, <1>4, <1>9, <2>2 DEF SessInv, ServingPCs, HandlerPCs, Going
  <2>7. ShareInv'
    BY <1>1, <1>9, <2>2 DEF ShareInv
  <2>8. AddInv' /\ LeaveInv' /\ PlaceInv'
    BY <1>9 DEF AddInv, LeaveInv, PlaceInv, AddPCs, StopPCs, HandlerPCs, BootPCs
  <2>9. QED
    BY <2>1, <2>5, <2>6, <2>7, <2>8 DEF IInv
<1>10. CASE PersistRolledBack(begun) /\ UNCHANGED opVars /\ row' = row
  <2>1. DocInv' /\ mem' \in Document /\ disk' \in Document /\ mem' = mem
    BY <1>1, <1>7, <1>10, WrittenIs DEF PersistRolledBack
  <2>2. /\ marker' \in SUBSET {Slot[g] : g \in Folders} /\ card' \in BOOLEAN
        /\ peers' \in SUBSET Peers /\ row' \in [Folders -> (SUBSET Reasons) \cup {NoRow}]
    BY <1>1, <1>10, TypeIs
  <2>3. QED
    BY <1>1, <1>3, <1>10, <2>1, <2>2, StayIs
<1>11. QED
    BY <1>2, <1>9, <1>10

\* the peers that the recorded intent asks for
LEMMA TargetIs ==
    ASSUME TypeOK, DocInv, NEW f \in Folders, mem.rec[f].intent # "none"
    PROVE  MembershipTarget(f) \in SUBSET Peers
<1>1. mem.rec[f] \in FolderRecord /\ mem.rec[f].peer # NoPeer
    BY DocumentIs DEF DocInv, Good, LoadableRecords
<1>2. mem.rec[f].peer \in Peers
    BY <1>1, RecordIs
<1>3. sess[f].devs \in SUBSET Peers
    BY DEF TypeOK
<1>4. QED
    BY <1>2, <1>3 DEF MembershipTarget, folderWithMembership

\* a patched folder: paused, with the devices that upstream knows
LEMMA PatchedIs ==
    ASSUME TypeOK, DocInv, NEW f \in Folders, mem.rec[f].intent # "none",
           \/ conf' = conf
           \/ conf' = [conf EXCEPT ![f] = [conf[f] EXCEPT !.paused = TRUE,
                                                          !.devs = Accepted(MembershipTarget(f))]]
    PROVE  /\ conf' \in [Folders -> FolderConfig]
           /\ \A g \in Folders : conf'[g].on = conf[g].on /\ (conf'[g].paused = conf[g].paused \/ conf'[g].paused)
           /\ \A g \in Folders : g # f => conf'[g] = conf[g]
           /\ conf' # conf => conf'[f].devs = Accepted(MembershipTarget(f))
<1> DEFINE k == [conf[f] EXCEPT !.paused = TRUE, !.devs = Accepted(MembershipTarget(f))]
<1>1. conf[f] \in FolderConfig /\ Accepted(MembershipTarget(f)) \in SUBSET Peers
    BY TargetIs DEF TypeOK, Accepted
<1>2. /\ k \in FolderConfig /\ k.on = conf[f].on /\ k.paused = TRUE
      /\ k.devs = Accepted(MembershipTarget(f))
    BY <1>1 DEF FolderConfig
<1>3. CASE conf' = conf
    BY <1>3, TypeIs
<1>4. CASE conf' = [conf EXCEPT ![f] = k]
  <2> HIDE DEF k
  <2>1. /\ conf' \in [Folders -> FolderConfig] /\ conf'[f] = k
        /\ \A g \in Folders : g # f => conf'[g] = conf[g]
    BY <1>2, <1>4, ConfSet
  <2>2. ASSUME NEW g \in Folders
        PROVE  conf'[g].on = conf[g].on /\ (conf'[g].paused = conf[g].paused \/ conf'[g].paused)
    BY <1>2, <2>1
  <2>3. QED
    BY <1>2, <2>1, <2>2
<1>5. QED
    BY <1>3, <1>4

LEMMA MembershipPatchInv == IInv /\ MembershipPatch => IInv'
<1> SUFFICES ASSUME IInv, MembershipPatch PROVE IInv'
    OBVIOUS
<1> DEFINE target == MembershipTarget(opFolder)
           k == [conf[opFolder] EXCEPT !.paused = TRUE, !.devs = Accepted(target)]
<1>1. /\ TypeOK /\ DocInv /\ SessInv /\ pc = "share-patch" /\ opFolder \in Folders
      /\ sess[opFolder].on /\ mem.rec[opFolder].intent # "none"
      /\ peers' = peers /\ mem' = mem /\ disk' = disk /\ row' = row
      /\ marker' = marker /\ card' = card
    BY DEF IInv, ShareInv, SharePCs, PlaceInv, HandlerPCs, MembershipPatch, docVars
<1>2. \/ /\ Accepted(target) = target /\ conf' = [conf EXCEPT ![opFolder] = k]
         /\ Goto("share-complete") /\ sess' = [sess EXCEPT ![opFolder].devs = target]
      \/ /\ conf' = [conf EXCEPT ![opFolder] = k] \/ conf' = conf
         /\ Return /\ sess' = sess
    BY DEF MembershipPatch, SetManagedFolderDevices, Rest, SetConf, JoinSession
<1>3. faults' \in 0..MaxFaults
    BY <1>1, FaultIs DEF MembershipPatch, SetManagedFolderDevices, Rest
<1>4. /\ conf' \in [Folders -> FolderConfig]
      /\ \A g \in Folders : conf'[g].on = conf[g].on /\ (conf'[g].paused = conf[g].paused \/ conf'[g].paused)
      /\ \A g \in Folders : g # opFolder => conf'[g] = conf[g]
      /\ conf' # conf => conf'[opFolder].devs = Accepted(target)
    BY <1>1, <1>2, PatchedIs
<1>5. DocInv'
    BY <1>1, <1>4, DocKept
<1>6. CASE /\ Accepted(target) = target /\ conf' = [conf EXCEPT ![opFolder] = k]
           /\ Goto("share-complete") /\ sess' = [sess EXCEPT ![opFolder].devs = target]
  <2>1. /\ OpsOK' /\ pc' = "share-complete" /\ opFolder' = opFolder
    BY <1>1, <1>6, GotoIs DEF PCs, HandlerPCs
  <2>2. target \in SUBSET Peers
    BY <1>1, TargetIs
  <2>3. conf'[opFolder].devs = target
    <3>1. conf[opFolder] \in FolderConfig
      BY <1>1, TypeIs
    <3>2. k.devs = Accepted(target) /\ k \in FolderConfig
      BY <2>2, <3>1 DEF FolderConfig, Accepted
    <3> HIDE DEF k
    <3>3. QED
      BY <1>1, <1>6, <3>2, ConfSet
  <2> HIDE DEF k, target
  <2>4. /\ sess' \in [Folders -> [on : BOOLEAN, devs : SUBSET Peers]]
        /\ sess'[opFolder].on = sess[opFolder].on /\ sess'[opFolder].devs = target
        /\ \A g \in Folders : g # opFolder => sess'[g] = sess[g]
    BY <1>1, <1>6, <2>2 DEF TypeOK
  <2>5. TypeOK'
    BY <1>1, <1>3, <1>4, <2>1, <2>4, TypeIs, TypeNext
  <2>6. ASSUME NEW f \in Folders, sess'[f].on
        PROVE  /\ mem'.rec[f].st # "none" /\ ~mem'.rec[f].stop /\ conf'[f].on
               /\ mem'.rec[f].intent = "none" => sess'[f].devs = conf'[f].devs
    <3>1. CASE f = opFolder
      BY <1>1, <1>4, <2>3, <2>4, <3>1 DEF SessInv, ServingPCs, HandlerPCs, Going
    <3>2. CASE f # opFolder
      BY <1>1, <1>4, <2>4, <2>6, <3>2 DEF SessInv, ServingPCs, HandlerPCs, Going
    <3>3. QED
      BY <3>1, <3>2
  <2>7. SessInv'
    BY <2>6 DEF SessInv
  <2>8. ShareInv'
    BY <1>1, <2>1, <2>3, <2>4 DEF ShareInv
  <2>9. AddInv' /\ LeaveInv' /\ PlaceInv'
    BY <1>1, <2>1 DEF AddInv, LeaveInv, PlaceInv, AddPCs, StopPCs, HandlerPCs, BootPCs
  <2>10. QED
    BY <1>5, <2>5, <2>7, <2>8, <2>9 DEF IInv
<1>7. CASE Return /\ sess' = sess
  <2>1. OpsOK' /\ AddInv' /\ ShareInv' /\ LeaveInv' /\ PlaceInv' /\ pc' = "idle"
    BY <1>7, RestIs DEF Return
  <2> HIDE DEF k, target
  <2>2. TypeOK'
    BY <1>1, <1>3, <1>4, <1>7, <2>1, TypeIs, TypeNext
  <2>3. \A f \in Folders : sess[f].on => conf'[f].devs = conf[f].devs \/ mem'.rec[f].intent # "none"
    BY <1>1, <1>4
  <2>4. SessInv'
    BY <1>1, <1>4, <1>7, <2>1, <2>3, SessKept DEF ServingPCs, HandlerPCs, SessInv
  <2>5. QED
    BY <1>5, <2>1, <2>2, <2>4 DEF IInv
<1>8. QED
    BY <1>2, <1>6, <1>7

LEMMA WithoutIs ==
    ASSUME TypeOK, NEW f \in Folders, Good(mem, conf), mem.rec[f].st # "none"
    PROVE  /\ Good(WithoutIntent(f), conf) /\ WithoutIntent(f) \in Document
           /\ WithoutIntent(f).rec[f].st = mem.rec[f].st
           /\ WithoutIntent(f).rec[f].stop = mem.rec[f].stop
           /\ WithoutIntent(f).removal = mem.removal
           /\ \A g \in Folders : g # f => WithoutIntent(f).rec[g] = mem.rec[g]
<1> DEFINE r == [mem.rec[f] EXCEPT !.intent = "none", !.peer = NoPeer]
<1>1. mem.rec[f] \in FolderRecord /\ mem \in Document
    BY DocumentIs, TypeIs
<1>2. /\ r \in FolderRecord /\ r.st = mem.rec[f].st /\ r.stop = mem.rec[f].stop
      /\ r.intent = "none" /\ r.peer = NoPeer
    BY <1>1 DEF FolderRecord
<1>3. WithoutIntent(f) = WithRecord(f, r)
    BY DEF WithoutIntent
<1> HIDE DEF r
<1>4. Fits(r)
    BY <1>2 DEF Fits, Good, LoadableRecords
<1>5. Good(WithRecord(f, r), conf)
    BY <1>2, <1>4, GoodRecord DEF Good
<1>6. QED
    BY <1>1, <1>2, <1>3, <1>5, WithIs

LEMMA MembershipCompleteInv == IInv /\ MembershipComplete => IInv'
<1> SUFFICES ASSUME IInv, MembershipComplete PROVE IInv'
    OBVIOUS
<1> DEFINE done == WithoutIntent(opFolder)
<1>1. /\ TypeOK /\ DocInv /\ SessInv /\ ShareInv /\ pc = "share-complete" /\ opFolder \in Folders
      /\ Good(mem, conf) /\ conf' = conf /\ peers' = peers /\ sess' = sess /\ row' = row
      /\ marker' = marker /\ card' = card
    BY DEF IInv, DocInv, PlaceInv, HandlerPCs, MembershipComplete, upVars, viewVars
<1>2. sess[opFolder].on /\ sess[opFolder].devs = conf[opFolder].devs
    BY <1>1 DEF ShareInv, SharePCs
<1>3. \A f \in Folders : sess[f].on =>
         /\ mem.rec[f].st # "none" /\ ~mem.rec[f].stop /\ conf[f].on
         /\ mem.rec[f].intent = "none" => sess[f].devs = conf[f].devs
    BY <1>1 DEF SessInv, ServingPCs, HandlerPCs, Going
<1>4. /\ Good(done, conf) /\ done.rec[opFolder].st = mem.rec[opFolder].st
      /\ done.rec[opFolder].stop = mem.rec[opFolder].stop
      /\ \A g \in Folders : g # opFolder => done.rec[g] = mem.rec[g]
    BY <1>1, <1>2, <1>3, WithoutIs
<1>5. \/ Persisted(done) /\ Goto("share-unpause")
      \/ PersistRolledBack(done) /\ Return
    BY DEF MembershipComplete
<1>6. faults' \in 0..MaxFaults
    BY <1>1, FaultIs DEF MembershipComplete
<1> HIDE DEF done
<1>7. DocInv' /\ mem' \in Document /\ disk' \in Document
    BY <1>1, <1>4, <1>5, WrittenIs
<1>8. SessInv'
    BY <1>1, <1>2, <1>3, <1>4, <1>5 DEF SessInv, Persisted, PersistRolledBack
<1>9. CASE Persisted(done) /\ Goto("share-unpause")
  <2>1. OpsOK' /\ pc' = "share-unpause" /\ opFolder' = opFolder
    BY <1>1, <1>9, GotoIs DEF PCs, HandlerPCs
  <2>2. TypeOK'
    BY <1>1, <1>6, <1>7, <2>1, TypeIs, TypeNext
  <2>3. mem' = disk'
    BY <1>9 DEF Persisted
  <2>4. AddInv' /\ ShareInv' /\ LeaveInv' /\ PlaceInv'
    BY <1>1, <1>2, <2>1, <2>3 DEF AddInv, ShareInv, LeaveInv, PlaceInv, AddPCs, SharePCs, StopPCs,
                                   HandlerPCs, BootPCs
  <2>5. QED
    BY <1>7, <1>8, <2>2, <2>4 DEF IInv
<1>10. CASE Return
  <2>1. OpsOK' /\ AddInv' /\ ShareInv' /\ LeaveInv' /\ PlaceInv'
    BY <1>10, RestIs
  <2>2. TypeOK'
    BY <1>1, <1>6, <1>7, <2>1, TypeIs, TypeNext
  <2>3. QED
    BY <1>7, <1>8, <2>1, <2>2 DEF IInv
<1>11. QED
    BY <1>5, <1>9, <1>10

\* A folder is unpaused when the document on disk gives no reason against it.
LEMMA UnpauseKept ==
    ASSUME TypeOK, DocInv, mem = disk, mem' = mem, disk' = disk, NEW f \in Folders, NEW b \in BOOLEAN,
           conf' = conf \/ conf' = [conf EXCEPT ![f] = [conf[f] EXCEPT !.paused = b]],
           ~b => PauseReasons(mem.rec[f], f) = {}
    PROVE  /\ DocInv' /\ conf' \in [Folders -> FolderConfig]
           /\ \A g \in Folders : conf'[g].on = conf[g].on /\ conf'[g].devs = conf[g].devs
<1>1. /\ conf' \in [Folders -> FolderConfig]
      /\ \A g \in Folders : /\ conf'[g].on = conf[g].on /\ conf'[g].devs = conf[g].devs
                            /\ conf'[g].paused = conf[g].paused \/ (g = f /\ conf'[g].paused = b)
    BY PausedIs
<1>2. ~b => mem.rec[f].st # "none"
    BY ReasonsAre, DocumentIs DEF TypeOK
<1>3. Good(mem, conf')
    BY <1>1, <1>2 DEF DocInv, Good
<1>4. QED
    BY <1>1, <1>3 DEF DocInv

LEMMA MembershipUnpauseInv == IInv /\ MembershipUnpause => IInv'
<1> SUFFICES ASSUME IInv, MembershipUnpause PROVE IInv'
    OBVIOUS
<1>1. /\ TypeOK /\ DocInv /\ SessInv /\ pc = "share-unpause" /\ opFolder \in Folders /\ mem = disk
      /\ peers' = peers /\ sess' = sess /\ mem' = mem /\ disk' = disk
      /\ marker' = marker /\ card' = card /\ Return
    BY DEF IInv, PlaceInv, HandlerPCs, MembershipUnpause, docVars
<1>2. /\ \/ conf' = conf
         \/ /\ conf' = [conf EXCEPT ![opFolder] = [conf[opFolder] EXCEPT !.paused = FALSE]]
            /\ PauseReasons(mem.rec[opFolder], opFolder) = {}
      /\ row' = row \/ row' = Rows(sess, mem)
    BY DEF MembershipUnpause, SetFolderPaused, Rest, SetConf
<1>3. faults' \in 0..MaxFaults
    BY <1>1, FaultIs DEF MembershipUnpause, SetFolderPaused, Rest
<1>4. /\ DocInv' /\ conf' \in [Folders -> FolderConfig]
      /\ \A g \in Folders : conf'[g].on = conf[g].on /\ conf'[g].devs = conf[g].devs
  <2>1. CASE conf' = conf
    BY <1>1, <2>1, TypeIs DEF DocInv
  <2>2. CASE conf' # conf
    BY <1>1, <1>2, <2>2, UnpauseKept
  <2>3. QED
    BY <2>1, <2>2
<1>5. row' \in [Folders -> (SUBSET Reasons) \cup {NoRow}]
    BY <1>1, <1>2, RowsAre, TypeIs
<1>6. OpsOK' /\ AddInv' /\ ShareInv' /\ LeaveInv' /\ PlaceInv' /\ pc' = "idle"
    BY <1>1, RestIs DEF Return
<1>7. TypeOK'
    BY <1>1, <1>3, <1>4, <1>5, <1>6, TypeIs, TypeNext
<1>8. SessInv'
    BY <1>1, <1>4, <1>6, SessKept DEF ServingPCs, HandlerPCs, SessInv
<1>9. QED
    BY <1>4, <1>6, <1>7, <1>8 DEF IInv

-----------------------------------------------------------------------------
(* Stopping a folder.                                                       *)

LEMMA StopBeginInv ==
    ASSUME IInv, NEW f \in Folders, StopBegin(f) PROVE IInv'
<1> DEFINE r == [mem.rec[f] EXCEPT !.stop = TRUE]
           stopping == WithRecord(f, r)
<1>1. /\ TypeOK /\ DocInv /\ SessInv /\ mem \in Document /\ Good(mem, conf)
      /\ pc = "idle" /\ mem.rec[f].st = "active" /\ mem.rec[f].intent = "none"
      /\ conf' = conf /\ peers' = peers /\ sess' = sess /\ row' = row
      /\ marker' = marker /\ card' = card
    BY DEF IInv, TypeOK, DocInv, StopBegin, Serving, upVars, viewVars
<1>2. \/ Persisted(stopping) /\ Goto("stops")
      \/ PersistRolledBack(stopping) /\ UNCHANGED opVars
    BY DEF StopBegin
<1>3. faults' \in 0..MaxFaults
    BY <1>1, FaultIs DEF StopBegin
<1>4. mem.rec[f] \in FolderRecord
    BY <1>1, DocumentIs
<1>5. r \in FolderRecord /\ r.st = "active" /\ r.stop /\ r.intent = "none" /\ r.peer = mem.rec[f].peer
    BY <1>1, <1>4 DEF FolderRecord
<1> HIDE DEF r
<1>6. Fits(r)
    BY <1>1, <1>5 DEF Fits, Good, LoadableRecords
<1>7. Good(stopping, conf)
    BY <1>1, <1>5, <1>6, GoodRecord
<1>8. stopping.rec[f] = r /\ \A g \in Folders : g # f => stopping.rec[g] = mem.rec[g]
    BY <1>1, <1>5, WithIs
<1> HIDE DEF stopping
<1>9. DocInv' /\ mem' \in Document /\ disk' \in Document
    BY <1>1, <1>2, <1>7, WrittenIs
<1>10. CASE Persisted(stopping) /\ Goto("stops")
  <2>1. OpsOK' /\ AddInv' /\ ShareInv' /\ LeaveInv' /\ pc' = "stops"
    BY <1>10, <1>1, GotoIs DEF PCs, StopPCs
  <2>2. TypeOK'
    BY <1>1, <1>3, <1>9, <2>1, TypeIs, TypeNext
  <2>3. mem' = stopping /\ disk' = mem'
    BY <1>10 DEF Persisted
  <2>4. ASSUME NEW g \in Folders, sess'[g].on
        PROVE  /\ mem'.rec[g].st # "none" /\ conf'[g].on
               /\ mem'.rec[g].intent = "none" => sess'[g].devs = conf'[g].devs
    <3>1. CASE g = f
      BY <1>1, <1>5, <1>8, <2>3, <2>4, <3>1 DEF SessInv, Going
    <3>2. CASE g # f
      BY <1>1, <1>8, <2>3, <2>4, <3>2 DEF SessInv, Going
    <3>3. QED
      BY <3>1, <3>2
  <2>5. SessInv'
    BY <2>1, <2>4 DEF SessInv, ServingPCs, HandlerPCs, RemovePCs
  <2>6. PlaceInv'
    BY <2>1, <2>3 DEF PlaceInv, StopPCs, HandlerPCs
  <2>7. QED
    BY <1>9, <2>1, <2>2, <2>5, <2>6 DEF IInv
<1>11. CASE PersistRolledBack(stopping) /\ UNCHANGED opVars
  <2>1. mem' = mem
    BY <1>11 DEF PersistRolledBack
  <2>2. /\ marker' \in SUBSET {Slot[g] : g \in Folders} /\ card' \in BOOLEAN
        /\ peers' \in SUBSET Peers /\ row' \in [Folders -> (SUBSET Reasons) \cup {NoRow}]
    BY <1>1, TypeIs
  <2>3. QED
    BY <1>1, <1>3, <1>9, <1>11, <2>1, <2>2, StayIs
<1>12. QED
    BY <1>2, <1>10, <1>11

\* a stop that failed leaves the controller without folders, or down
LEMMA StopErrorIs ==
    ASSUME TypeOK, StopError
    PROVE  /\ OpsOK' /\ AddInv' /\ ShareInv' /\ LeaveInv' /\ PlaceInv' /\ SessInv'
           /\ sess' \in [Folders -> [on : BOOLEAN, devs : SUBSET Peers]]
<1>1. CASE Exit /\ UNCHANGED sess
  <2>1. pc' = "down"
    BY <1>1 DEF Exit
  <2>2. QED
    BY <1>1, <2>1, RestIs, SessEmpty, TypeIs
<1>2. CASE Return /\ sess' = EmptySession
  <2>1. sess' \in [Folders -> [on : BOOLEAN, devs : SUBSET Peers]]
    BY <1>2 DEF EmptySession, NoSession
  <2>2. QED
    BY <1>2, <2>1, RestIs, SessEmpty
<1>3. QED
    BY <1>1, <1>2 DEF StopError

\* the documents are not touched, and the stop fails
LEMMA StopFails ==
    ASSUME TypeOK, StopError, DocInv', mem' \in Document, disk' \in Document,
           conf' \in [Folders -> FolderConfig], peers' = peers, row' = row, card' = card,
           marker' \in SUBSET marker, faults' \in 0..MaxFaults
    PROVE  IInv'
<1>1. /\ OpsOK' /\ AddInv' /\ ShareInv' /\ LeaveInv' /\ PlaceInv' /\ SessInv'
      /\ sess' \in [Folders -> [on : BOOLEAN, devs : SUBSET Peers]]
    BY StopErrorIs
<1>2. /\ peers' \in SUBSET Peers /\ row' \in [Folders -> (SUBSET Reasons) \cup {NoRow}]
      /\ card' \in BOOLEAN /\ marker' \in SUBSET {Slot[f] : f \in Folders}
    BY TypeIs
<1>3. TypeOK'
    BY <1>1, <1>2, TypeNext
<1>4. QED
    BY <1>1, <1>3 DEF IInv

LEMMA StopCheckInv ==
    ASSUME IInv, NEW f \in Folders, StopCheck(f) PROVE IInv'
<1>1. /\ TypeOK /\ DocInv /\ SessInv /\ pc = "stops" /\ mem = disk /\ mem.rec[f].stop
      /\ mem' = mem /\ disk' = disk /\ conf' = conf /\ peers' = peers /\ row' = row
      /\ marker' = marker /\ card' = card /\ faults' = faults
    BY DEF IInv, PlaceInv, BootPCs, StopPCs, StopCheck, PendingStops, docVars, upVars
<1>2. DocInv' /\ mem' \in Document /\ disk' \in Document
    BY <1>1, TypeIs DEF DocInv
<1>3. CASE /\ pc' = IF sess[f].on THEN "stop-pause" ELSE "stop-remove"
           /\ opFolder' = f /\ UNCHANGED <<booting, opDevs, recovered, sess>>
  <2>1. OpsOK' /\ pc' \in {"stop-pause", "stop-remove"}
    BY <1>1, <1>3, TypeIs DEF OpsOK, PCs, StopPCs
  <2>2. TypeOK'
    BY <1>1, <1>2, <1>3, <2>1, TypeIs, TypeNext
  <2>3. SessInv'
    BY <1>1, <1>3, <2>1 DEF SessInv, Going, ServingPCs, HandlerPCs, RemovePCs
  <2>4. AddInv' /\ ShareInv'
    BY <2>1 DEF AddInv, ShareInv, AddPCs, SharePCs
  <2>5. LeaveInv' /\ PlaceInv'
    BY <1>1, <1>3, <2>1 DEF LeaveInv, PlaceInv, BootPCs, HandlerPCs
  <2>6. QED
    BY <1>2, <2>2, <2>3, <2>4, <2>5 DEF IInv
<1>4. CASE StopError
  <2>1. marker' \in SUBSET marker /\ faults' \in 0..MaxFaults /\ conf' \in [Folders -> FolderConfig]
    BY <1>1, TypeIs
  <2>2. QED
    BY <1>1, <1>2, <1>4, <2>1, StopFails
<1>5. QED
    BY <1>3, <1>4 DEF StopCheck

LEMMA StopPauseInv == IInv /\ StopPause => IInv'
<1> SUFFICES ASSUME IInv, StopPause PROVE IInv'
    OBVIOUS
<1>1. /\ TypeOK /\ DocInv /\ SessInv /\ LeaveInv /\ pc = "stop-pause" /\ opFolder \in Folders /\ mem = disk
      /\ mem' = mem /\ disk' = disk /\ peers' = peers /\ row' = row /\ marker' = marker /\ card' = card
    BY DEF IInv, PlaceInv, BootPCs, StopPCs, StopPause, docVars
<1>2. /\ \/ conf' = conf
         \/ conf' = [conf EXCEPT ![opFolder] = [conf[opFolder] EXCEPT !.paused = TRUE]]
      /\ (Goto("stop-remove") /\ sess' = sess) \/ StopError
    BY DEF StopPause, SetFolderPaused, Rest, SetConf
<1>3. faults' \in 0..MaxFaults
    BY <1>1, FaultIs DEF StopPause, SetFolderPaused, Rest
<1>4. /\ DocInv' /\ conf' \in [Folders -> FolderConfig]
      /\ \A g \in Folders : conf'[g].on = conf[g].on /\ conf'[g].devs = conf[g].devs
    BY <1>1, <1>2, UnpauseKept
<1>5. mem' \in Document /\ disk' \in Document
    BY <1>1, TypeIs
<1>6. CASE Goto("stop-remove") /\ sess' = sess
  <2>1. OpsOK' /\ pc' = "stop-remove" /\ opFolder' = opFolder
    BY <1>1, <1>6, GotoIs DEF PCs, StopPCs
  <2>2. TypeOK'
    BY <1>1, <1>3, <1>4, <1>5, <1>6, <2>1, TypeIs, TypeNext
  <2>3. SessInv'
    BY <1>1, <1>4, <1>6, <2>1, SessKept DEF SessInv, ServingPCs, HandlerPCs, RemovePCs
  <2>4. AddInv' /\ ShareInv'
    BY <2>1 DEF AddInv, ShareInv, AddPCs, SharePCs
  <2>5. LeaveInv' /\ PlaceInv'
    BY <1>1, <2>1 DEF LeaveInv, PlaceInv, BootPCs, HandlerPCs, StopPCs
  <2>6. QED
    BY <1>4, <2>2, <2>3, <2>4, <2>5 DEF IInv
<1>7. CASE StopError
  <2>1. marker' \in SUBSET marker
    BY <1>1
  <2>2. QED
    BY <1>1, <1>3, <1>4, <1>5, <1>7, <2>1, StopFails
<1>8. QED
    BY <1>2, <1>6, <1>7

LEMMA StopRemoveInv == IInv /\ StopRemove => IInv'
<1> SUFFICES ASSUME IInv, StopRemove PROVE IInv'
    OBVIOUS
<1>1. /\ TypeOK /\ DocInv /\ SessInv /\ pc = "stop-remove" /\ opFolder \in Folders /\ mem = disk
      /\ mem.rec[opFolder].stop
      /\ mem' = mem /\ disk' = disk /\ peers' = peers /\ row' = row /\ marker' = marker /\ card' = card
    BY DEF IInv, LeaveInv, PlaceInv, BootPCs, StopPCs, StopRemove, docVars
<1>2. \/ conf' = [conf EXCEPT ![opFolder] = NoConfig] /\ Goto("stop-marker") /\ sess' = sess
      \/ (conf' = [conf EXCEPT ![opFolder] = NoConfig] \/ conf' = conf) /\ StopError
    BY DEF StopRemove, Rest, SetConf
<1>3. faults' \in 0..MaxFaults
    BY <1>1, FaultIs DEF StopRemove, Rest
<1>4. NoConfig \in FolderConfig /\ ~NoConfig.on
    BY DEF NoConfig, FolderConfig
<1>5. /\ conf' \in [Folders -> FolderConfig] /\ conf'[opFolder] \in {NoConfig, conf[opFolder]}
      /\ \A g \in Folders : g # opFolder => conf'[g] = conf[g]
  <2>1. CASE conf' = conf
    BY <1>1, <2>1, TypeIs
  <2>2. CASE conf' = [conf EXCEPT ![opFolder] = NoConfig]
    BY <1>1, <1>4, <2>2, ConfSet
  <2>3. QED
    BY <1>2, <2>1, <2>2
<1>6. Good(mem, conf') /\ Good(disk, conf')
    BY <1>1, <1>4, <1>5 DEF DocInv, Good
<1>7. DocInv' /\ mem' \in Document /\ disk' \in Document
    BY <1>1, <1>6, TypeIs DEF DocInv
<1>8. CASE conf' = [conf EXCEPT ![opFolder] = NoConfig] /\ Goto("stop-marker") /\ sess' = sess
  <2>1. OpsOK' /\ pc' = "stop-marker" /\ opFolder' = opFolder
    BY <1>1, <1>8, GotoIs DEF PCs, StopPCs
  <2>2. TypeOK'
    BY <1>1, <1>3, <1>5, <1>7, <1>8, <2>1, TypeIs, TypeNext
  <2>3. SessInv'
    BY <1>1, <1>5, <1>8, <2>1 DEF SessInv, Going, ServingPCs, HandlerPCs, RemovePCs
  <2>4. ~conf'[opFolder].on
    BY <1>1, <1>4, <1>8, ConfSet
  <2>5. AddInv' /\ ShareInv'
    BY <2>1 DEF AddInv, ShareInv, AddPCs, SharePCs
  <2>6. LeaveInv' /\ PlaceInv'
    BY <1>1, <2>1, <2>4 DEF LeaveInv, PlaceInv, BootPCs, HandlerPCs, StopPCs
  <2>7. QED
    BY <1>7, <2>2, <2>3, <2>5, <2>6 DEF IInv
<1>9. CASE StopError
  <2>1. marker' \in SUBSET marker
    BY <1>1
  <2>2. QED
    BY <1>1, <1>3, <1>5, <1>7, <1>9, <2>1, StopFails
<1>10. QED
    BY <1>2, <1>8, <1>9

LEMMA StopMarkerInv == IInv /\ StopMarker => IInv'
<1> SUFFICES ASSUME IInv, StopMarker PROVE IInv'
    OBVIOUS
<1>1. /\ TypeOK /\ DocInv /\ SessInv /\ pc = "stop-marker" /\ opFolder \in Folders /\ mem = disk
      /\ mem.rec[opFolder].stop /\ ~conf[opFolder].on
      /\ mem' = mem /\ disk' = disk /\ conf' = conf /\ peers' = peers /\ row' = row /\ card' = card
      /\ marker' \in SUBSET marker
    BY DEF IInv, LeaveInv, PlaceInv, BootPCs, StopPCs, StopMarker, docVars, upVars
<1>2. (Goto("stop-forget") /\ sess' = sess) \/ StopError
    BY DEF StopMarker
<1>3. faults' \in 0..MaxFaults
    BY <1>1, FaultIs DEF StopMarker, Fine
<1>4. DocInv' /\ mem' \in Document /\ disk' \in Document
    BY <1>1, TypeIs DEF DocInv
<1>5. CASE Goto("stop-forget") /\ sess' = sess
  <2>1. OpsOK' /\ pc' = "stop-forget" /\ opFolder' = opFolder
    BY <1>1, <1>5, GotoIs DEF PCs, StopPCs
  <2>2. marker' \in SUBSET {Slot[g] : g \in Folders}
    BY <1>1, TypeIs
  <2>3. TypeOK'
    BY <1>1, <1>3, <1>4, <1>5, <2>1, <2>2, TypeIs, TypeNext
  <2>4. SessInv'
    BY <1>1, <1>5, <2>1 DEF SessInv, Going, ServingPCs, HandlerPCs, RemovePCs
  <2>5. AddInv' /\ ShareInv'
    BY <2>1 DEF AddInv, ShareInv, AddPCs, SharePCs
  <2>6. LeaveInv' /\ PlaceInv'
    BY <1>1, <2>1 DEF LeaveInv, PlaceInv, BootPCs, HandlerPCs, StopPCs
  <2>7. QED
    BY <1>4, <2>3, <2>4, <2>5, <2>6 DEF IInv
<1>6. CASE StopError
  <2>1. conf' \in [Folders -> FolderConfig]
    BY <1>1, TypeIs
  <2>2. QED
    BY <1>1, <1>3, <1>4, <1>6, <2>1, StopFails
<1>7. QED
    BY <1>2, <1>5, <1>6

LEMMA StopForgetInv == IInv /\ StopForget => IInv'
<1> SUFFICES ASSUME IInv, StopForget PROVE IInv'
    OBVIOUS
<1> DEFINE forgotten == WithRecord(opFolder, NoRecord)
<1>1. /\ TypeOK /\ DocInv /\ SessInv /\ pc = "stop-forget" /\ opFolder \in Folders /\ mem = disk
      /\ mem \in Document /\ Good(mem, conf) /\ ~conf[opFolder].on
      /\ conf' = conf /\ peers' = peers /\ row' = row /\ card' = card /\ marker' = marker
    BY DEF IInv, LeaveInv, PlaceInv, BootPCs, StopPCs, StopForget, upVars, TypeOK, DocInv
<1>2. \/ /\ Persisted(forgotten) /\ sess' = [sess EXCEPT ![opFolder] = NoSession]
         /\ pc' = "stops" /\ opFolder' = NoFolder /\ UNCHANGED <<booting, opDevs, recovered>>
      \/ PersistRolledBack(forgotten) /\ StopError
    BY DEF StopForget
<1>3. faults' \in 0..MaxFaults
    BY <1>1, FaultIs DEF StopForget
<1>4. Good(forgotten, conf)
    BY <1>1, NoRecordIs, GoodRecord DEF Fits
<1>5. \A g \in Folders : g # opFolder => forgotten.rec[g] = mem.rec[g]
    BY <1>1, NoRecordIs, WithIs
<1> HIDE DEF forgotten
<1>6. DocInv' /\ mem' \in Document /\ disk' \in Document
    BY <1>1, <1>2, <1>4, WrittenIs
<1>7. CASE /\ Persisted(forgotten) /\ sess' = [sess EXCEPT ![opFolder] = NoSession]
           /\ pc' = "stops" /\ opFolder' = NoFolder /\ UNCHANGED <<booting, opDevs, recovered>>
  <2>1. OpsOK'
    BY <1>1, <1>7, TypeIs DEF OpsOK, PCs, StopPCs
  <2>2. /\ sess' \in [Folders -> [on : BOOLEAN, devs : SUBSET Peers]]
        /\ ~sess'[opFolder].on /\ \A g \in Folders : g # opFolder => sess'[g] = sess[g]
    BY <1>1, <1>7 DEF TypeOK, NoSession
  <2>3. TypeOK'
    BY <1>1, <1>3, <1>6, <2>1, <2>2, TypeIs, TypeNext
  <2>4. mem' = forgotten /\ disk' = mem'
    BY <1>7 DEF Persisted
  <2>5. SessInv'
    BY <1>1, <1>5, <1>7, <2>2, <2>4 DEF SessInv, Going, ServingPCs, HandlerPCs, RemovePCs
  <2>6. AddInv' /\ ShareInv' /\ LeaveInv'
    BY <1>7 DEF AddInv, ShareInv, LeaveInv, AddPCs, SharePCs, StopPCs
  <2>7. PlaceInv'
    BY <1>7, <2>4 DEF PlaceInv, BootPCs, HandlerPCs, StopPCs
  <2>8. QED
    BY <1>6, <2>3, <2>5, <2>6, <2>7 DEF IInv
<1>8. CASE StopError
  <2>1. marker' \in SUBSET marker /\ conf' \in [Folders -> FolderConfig]
    BY <1>1, TypeIs
  <2>2. QED
    BY <1>1, <1>3, <1>6, <1>8, <2>1, StopFails
<1>9. QED
    BY <1>2, <1>7, <1>8

LEMMA StopsDoneInv == IInv /\ StopsDone => IInv'
<1> SUFFICES ASSUME IInv, StopsDone PROVE IInv'
    OBVIOUS
<1>1. /\ TypeOK /\ DocInv /\ SessInv /\ pc = "stops" /\ mem = disk
      /\ mem' = mem /\ disk' = disk /\ conf' = conf /\ peers' = peers /\ sess' = sess
      /\ marker' = marker /\ card' = card /\ faults' = faults
    BY DEF IInv, PlaceInv, BootPCs, StopPCs, StopsDone, docVars, upVars
<1>2. \A f \in Folders : mem.rec[f].st # "none" => ~mem.rec[f].stop
    BY DEF StopsDone, PendingStops
<1>3. DocInv'
    BY <1>1 DEF DocInv
<1>4. \A f \in Folders : sess[f].on => ~mem.rec[f].stop
    BY <1>1, <1>2 DEF SessInv
<1>5. CASE Goto("removal") /\ row' = row
  <2>1. OpsOK' /\ AddInv' /\ ShareInv' /\ LeaveInv' /\ pc' = "removal"
    BY <1>1, <1>5, GotoIs DEF PCs, BootPCs
  <2>2. TypeOK'
    BY <1>1, <1>5, <2>1, TypeIs, TypeNext
  <2>3. SessInv'
    BY <1>1, <1>4, <2>1 DEF SessInv, Going
  <2>4. PlaceInv'
    BY <1>1, <2>1 DEF PlaceInv, HandlerPCs, StopPCs
  <2>5. QED
    BY <1>3, <2>1, <2>2, <2>3, <2>4 DEF IInv
<1>6. CASE Return /\ row' = Rows(sess, mem)
  <2>1. OpsOK' /\ AddInv' /\ ShareInv' /\ LeaveInv' /\ PlaceInv' /\ pc' = "idle"
    BY <1>6, RestIs DEF Return
  <2>2. row' \in [Folders -> (SUBSET Reasons) \cup {NoRow}]
    BY <1>1, <1>6, RowsAre, TypeIs
  <2>3. TypeOK'
    BY <1>1, <2>1, <2>2, TypeIs, TypeNext
  <2>4. SessInv'
    BY <1>1, <1>4, <2>1 DEF SessInv, Going
  <2>5. QED
    BY <1>3, <2>1, <2>3, <2>4 DEF IInv
<1>7. QED
    BY <1>5, <1>6 DEF StopsDone

-----------------------------------------------------------------------------
(* Adding and forgetting a peer.                                            *)

LEMMA DeviceAddInv ==
    ASSUME IInv, NEW p \in Peers, DeviceAdd(p) PROVE IInv'
<1>1. /\ TypeOK /\ DocInv /\ pc = "idle" /\ UNCHANGED opVars /\ peers' = peers \cup {p}
      /\ mem' = mem /\ disk' = disk /\ conf' = conf /\ sess' = sess /\ row' = row
      /\ marker' = marker /\ card' = card /\ faults' = faults
    BY DEF IInv, DeviceAdd, Serving, docVars, viewVars
<1>2. DocInv' /\ disk' \in Document
    BY <1>1, TypeIs DEF DocInv
<1>3. /\ marker' \in SUBSET {Slot[g] : g \in Folders} /\ card' \in BOOLEAN
      /\ peers' \in SUBSET Peers /\ row' \in [Folders -> (SUBSET Reasons) \cup {NoRow}]
      /\ faults' \in 0..MaxFaults
    BY <1>1, TypeIs
<1>4. QED
    BY <1>1, <1>2, <1>3, StayIs

LEMMA RemovalIs ==
    ASSUME NEW c, Good(mem, c), NEW p \in Peers \cup {NoPeer}
    PROVE  LET d == [mem EXCEPT !.removal = p]
           IN  Good(d, c) /\ d \in Document /\ d.rec = mem.rec /\ d.removal = p
<1> DEFINE d == [mem EXCEPT !.removal = p]
<1>1. d \in Document /\ d.rec = mem.rec /\ d.removal = p
    BY DEF Good, Document
<1> HIDE DEF d
<1>2. Good(d, c)
    BY <1>1 DEF Good
<1>3. QED
    BY <1>1, <1>2 DEF d

LEMMA DeviceRemoveBeginInv ==
    ASSUME IInv, NEW p \in Peers, DeviceRemoveBegin(p) PROVE IInv'
<1> DEFINE begun == [mem EXCEPT !.removal = p]
<1>1. /\ TypeOK /\ DocInv /\ SessInv /\ Good(mem, conf) /\ pc = "idle"
      /\ deviceFolderMemberships(p) = {}
      /\ conf' = conf /\ peers' = peers /\ sess' = sess /\ row' = row
      /\ marker' = marker /\ card' = card
    BY DEF IInv, DocInv, DeviceRemoveBegin, Serving, upVars, viewVars
<1>2. \/ (IF mem.removal = p THEN UNCHANGED docVars ELSE Persisted(begun)) /\ Goto("remove-peer")
      \/ PersistRolledBack(begun) /\ UNCHANGED opVars
    BY DEF DeviceRemoveBegin
<1>3. faults' \in 0..MaxFaults
    BY <1>1, FaultIs DEF DeviceRemoveBegin
<1>4. Good(begun, conf) /\ begun.rec = mem.rec /\ begun.removal = p
    BY <1>1, RemovalIs
<1> HIDE DEF begun
<1>5. CASE (IF mem.removal = p THEN UNCHANGED docVars ELSE Persisted(begun)) /\ Goto("remove-peer")
  <2>1. /\ DocInv' /\ mem' \in Document /\ disk' \in Document
        /\ mem'.rec = mem.rec /\ mem'.removal = p
    <3>1. CASE mem.removal = p
      BY <1>1, <1>5, <3>1, TypeIs DEF docVars, DocInv
    <3>2. CASE mem.removal # p
      BY <1>1, <1>4, <1>5, <3>2, WrittenIs DEF Persisted
    <3>3. QED
      BY <3>1, <3>2
  <2>2. OpsOK' /\ AddInv' /\ ShareInv' /\ LeaveInv' /\ pc' = "remove-peer"
    BY <1>1, <1>5, GotoIs DEF PCs, RemovePCs
  <2>3. TypeOK'
    BY <1>1, <1>3, <2>1, <2>2, TypeIs, TypeNext
  <2>4. SessInv'
    BY <1>1, <2>1, <2>2 DEF SessInv, Going, ServingPCs
  <2>5. \A f \in Folders : sess[f].on => p \notin sess[f].devs
    BY <1>1 DEF deviceFolderMemberships
  <2>6. PlaceInv'
    BY <1>1, <2>1, <2>2, <2>5 DEF PlaceInv, HandlerPCs, StopPCs, BootPCs
  <2>7. QED
    BY <2>1, <2>2, <2>3, <2>4, <2>6 DEF IInv
<1>6. CASE PersistRolledBack(begun) /\ UNCHANGED opVars
  <2>1. DocInv' /\ mem' = mem /\ disk' \in Document
    BY <1>1, <1>4, <1>6, WrittenIs DEF PersistRolledBack
  <2>2. /\ marker' \in SUBSET {Slot[g] : g \in Folders} /\ card' \in BOOLEAN
        /\ peers' \in SUBSET Peers /\ row' \in [Folders -> (SUBSET Reasons) \cup {NoRow}]
    BY <1>1, TypeIs
  <2>3. QED
    BY <1>1, <1>3, <1>6, <2>1, <2>2, StayIs
<1>7. QED
    BY <1>2, <1>5, <1>6

LEMMA RemovePeerInv == IInv /\ RemovePeer => IInv'
<1> SUFFICES ASSUME IInv, RemovePeer PROVE IInv'
    OBVIOUS
<1> DEFINE p == mem.removal
<1>1. /\ TypeOK /\ DocInv /\ SessInv /\ pc = "remove-peer"
      /\ \A f \in Folders : sess[f].on => p \notin sess[f].devs
      /\ mem' = mem /\ disk' = disk /\ sess' = sess /\ row' = row
      /\ marker' = marker /\ card' = card
    BY DEF IInv, PlaceInv, RemovePeer, docVars, viewVars
<1>2. /\ \/ peers' = peers \ {p} /\ conf' = [f \in Folders |-> [conf[f] EXCEPT !.devs = @ \ {p}]]
         \/ peers' = peers /\ conf' = conf
      /\ Goto("remove-complete") \/ Return \/ Exit
    BY DEF RemovePeer, Rest, DropDevice, upVars, RemovalError
<1>3. faults' \in 0..MaxFaults
    BY <1>1, FaultIs DEF RemovePeer, Rest
<1>4. /\ conf' \in [Folders -> FolderConfig]
      /\ \A f \in Folders : /\ conf'[f].on = conf[f].on /\ conf'[f].paused = conf[f].paused
                            /\ conf'[f].devs \in {conf[f].devs, conf[f].devs \ {p}}
  <2>1. CASE conf' = conf
    BY <1>1, <2>1, TypeIs
  <2>2. CASE conf' = [f \in Folders |-> [conf[f] EXCEPT !.devs = @ \ {p}]]
    <3>1. ASSUME NEW f \in Folders
          PROVE  LET k == [conf[f] EXCEPT !.devs = @ \ {p}]
                 IN  /\ k \in FolderConfig /\ k.on = conf[f].on /\ k.paused = conf[f].paused
                     /\ k.devs = conf[f].devs \ {p}
      <4>1. conf[f] \in FolderConfig
        BY <1>1, TypeIs
      <4>2. QED
        BY <4>1 DEF FolderConfig
    <3>2. QED
      BY <2>2, <3>1
  <2>3. QED
    BY <1>2, <2>1, <2>2
<1>5. DocInv'
    BY <1>1, <1>4, DocKept
<1>6. \A f \in Folders : sess[f].on /\ mem.rec[f].intent = "none" => conf'[f].devs = conf[f].devs
  <2>1. SUFFICES ASSUME NEW f \in Folders, sess[f].on, mem.rec[f].intent = "none"
                 PROVE  conf'[f].devs = conf[f].devs
    OBVIOUS
  <2>2. p \notin conf[f].devs
    BY <1>1, <2>1 DEF SessInv, Going
  <2>3. conf[f].devs \ {p} = conf[f].devs
    BY <2>2
  <2>4. QED
    BY <1>4, <2>3
<1>7. peers' \in SUBSET Peers
    BY <1>1, <1>2, TypeIs
<1>8. /\ OpsOK' /\ AddInv' /\ ShareInv' /\ LeaveInv' /\ PlaceInv'
      /\ pc' \in {"remove-complete", "idle", "down"}
  <2>1. CASE Goto("remove-complete")
    <3>1. OpsOK' /\ AddInv' /\ ShareInv' /\ LeaveInv' /\ pc' = "remove-complete"
      BY <1>1, <2>1, GotoIs DEF PCs, RemovePCs
    <3>2. PlaceInv'
      BY <3>1 DEF PlaceInv, HandlerPCs, StopPCs, BootPCs
    <3>3. QED
      BY <3>1, <3>2
  <2>2. CASE Return \/ Exit
    BY <2>2, RestIs
  <2>3. QED
    BY <1>2, <2>1, <2>2
<1> HIDE DEF p
<1>9. TypeOK'
    BY <1>1, <1>3, <1>4, <1>7, <1>8, TypeIs, TypeNext
<1>10. SessInv'
    BY <1>1, <1>4, <1>6, <1>8 DEF SessInv, Going, ServingPCs, RemovePCs
<1>11. QED
    BY <1>5, <1>8, <1>9, <1>10 DEF IInv

LEMMA RemoveCompleteInv == IInv /\ RemoveComplete => IInv'
<1> SUFFICES ASSUME IInv, RemoveComplete PROVE IInv'
    OBVIOUS
<1> DEFINE done == [mem EXCEPT !.removal = NoPeer]
<1>1. /\ TypeOK /\ DocInv /\ SessInv /\ Good(mem, conf) /\ pc = "remove-complete"
      /\ conf' = conf /\ peers' = peers /\ sess' = sess /\ row' \in {row, Rows(sess, mem)}
      /\ marker' = marker /\ card' = card
    BY DEF IInv, DocInv, RemoveComplete, upVars
<1>2. (Persisted(done) \/ PersistRolledBack(done)) /\ (Return \/ Exit)
    BY DEF RemoveComplete, RemovalError
<1>3. faults' \in 0..MaxFaults
    BY <1>1, FaultIs DEF RemoveComplete
<1>4. Good(done, conf) /\ done.rec = mem.rec
    BY <1>1, RemovalIs
<1> HIDE DEF done
<1>5. DocInv' /\ mem' \in Document /\ disk' \in Document /\ mem'.rec = mem.rec
    BY <1>1, <1>2, <1>4, WrittenIs DEF Persisted, PersistRolledBack
<1>6. /\ OpsOK' /\ AddInv' /\ ShareInv' /\ LeaveInv' /\ PlaceInv' /\ pc' \in {"idle", "down"}
    BY <1>2, RestIs
<1>7. row' \in [Folders -> (SUBSET Reasons) \cup {NoRow}]
    BY <1>1, RowsAre, TypeIs
<1>8. TypeOK'
    BY <1>1, <1>3, <1>5, <1>6, <1>7, TypeIs, TypeNext
<1>9. SessInv'
    BY <1>1, <1>5, <1>6 DEF SessInv, Going, ServingPCs, RemovePCs
<1>10. QED
    BY <1>5, <1>6, <1>8, <1>9 DEF IInv

-----------------------------------------------------------------------------
(* The handlers that change a pause reason.                                 *)

\* The record keeps all but its pause reasons, and the folder is unpaused only
\* after the record has been written.
LEMMA ReasonInv ==
    ASSUME IInv, pc = "idle", UNCHANGED opVars, NEW f \in Folders, NEW r \in FolderRecord,
           r.st = mem.rec[f].st, r.intent = mem.rec[f].intent, r.peer = mem.rec[f].peer,
           r.stop = mem.rec[f].stop, mem.rec[f].st # "none", NEW b \in BOOLEAN,
           \/ PersistKept(WithRecord(f, r)) /\ conf' = conf
           \/ /\ Persisted(WithRecord(f, r))
              /\ \/ conf' = conf
                 \/ conf' = [conf EXCEPT ![f] = [conf[f] EXCEPT !.paused = b]],
           peers' = peers, sess' = sess, marker' = marker, card' = card,
           row' \in [Folders -> (SUBSET Reasons) \cup {NoRow}], faults' \in 0..MaxFaults
    PROVE  IInv'
<1> DEFINE doc == WithRecord(f, r)
<1>1. TypeOK /\ DocInv /\ SessInv /\ Good(mem, conf) /\ Good(disk, conf)
    BY DEF IInv, DocInv
<1>2. Fits(r)
    BY <1>1 DEF Fits, Good, LoadableRecords
<1>3. Good(doc, conf)
    BY <1>1, <1>2, GoodRecord DEF Good
<1>4. /\ doc \in Document /\ doc.rec[f] = r
      /\ \A g \in Folders : g # f => doc.rec[g] = mem.rec[g]
    BY <1>1, WithIs DEF Good
<1> HIDE DEF doc
<1>5. /\ conf' \in [Folders -> FolderConfig]
      /\ \A g \in Folders : /\ conf'[g].on = conf[g].on /\ conf'[g].devs = conf[g].devs
                            /\ conf'[g].paused = conf[g].paused \/ (g = f /\ conf'[g].paused = b)
    BY <1>1, PausedIs DEF doc
<1>6. Good(doc, conf')
    BY <1>3, <1>4, <1>5 DEF Good
<1>7. mem' = doc /\ disk' \in {disk, doc} /\ (disk' = doc \/ conf' = conf)
    BY DEF PersistKept, Persisted, doc
<1>8. Good(mem', conf') /\ Good(disk', conf')
    BY <1>1, <1>6, <1>7
<1>9. DocInv' /\ mem' \in Document /\ disk' \in Document
    BY <1>8 DEF DocInv, Good
<1>10. OpsOK' /\ AddInv' /\ ShareInv' /\ LeaveInv' /\ PlaceInv' /\ pc' = "idle"
    BY <1>1, IdleIs
<1>11. TypeOK'
    BY <1>1, <1>5, <1>9, <1>10, TypeIs, TypeNext
<1>12. \A g \in Folders : /\ mem'.rec[g].st = mem.rec[g].st /\ mem'.rec[g].intent = mem.rec[g].intent
                          /\ mem'.rec[g].stop = mem.rec[g].stop
    BY <1>4, <1>7
<1>13. SessInv'
    BY <1>1, <1>5, <1>10, <1>12 DEF SessInv, Going, ServingPCs
<1>14. QED
    BY <1>9, <1>10, <1>11, <1>13 DEF IInv

LEMMA FolderPauseInv ==
    ASSUME IInv, NEW f \in Folders, FolderPause(f) PROVE IInv'
<1> DEFINE r == [mem.rec[f] EXCEPT !.manual = TRUE]
<1>1. /\ TypeOK /\ pc = "idle" /\ UNCHANGED opVars /\ mem.rec[f].st # "none" /\ row[f] # NoRow
      /\ peers' = peers /\ sess' = sess /\ marker' = marker /\ card' = card
    BY DEF IInv, FolderPause, Serving, RowSafe
<1>2. /\ \/ PersistKept(WithRecord(f, r)) /\ conf' = conf
         \/ /\ Persisted(WithRecord(f, r))
            /\ \/ conf' = conf
               \/ conf' = [conf EXCEPT ![f] = [conf[f] EXCEPT !.paused = TRUE]]
      /\ row' = row \/ row' = [row EXCEPT ![f] = row[f] \cup {"manual"}]
    BY DEF FolderPause, SetFolderPaused, Rest, SetConf
<1>3. faults' \in 0..MaxFaults
    BY <1>1, FaultIs DEF FolderPause, SetFolderPaused, Rest
<1>4. row' \in [Folders -> (SUBSET Reasons) \cup {NoRow}]
  <2>1. row \in [Folders -> (SUBSET Reasons) \cup {NoRow}] /\ row[f] \in SUBSET Reasons
    BY <1>1 DEF TypeOK
  <2>2. row[f] \cup {"manual"} \in SUBSET Reasons
    BY <2>1 DEF Reasons
  <2>3. QED
    BY <1>2, <2>1, <2>2
<1>5. mem.rec[f] \in FolderRecord
    BY <1>1, DocumentIs, TypeIs
<1>6. /\ r \in FolderRecord /\ r.st = mem.rec[f].st /\ r.intent = mem.rec[f].intent
      /\ r.peer = mem.rec[f].peer /\ r.stop = mem.rec[f].stop
    BY <1>5 DEF FolderRecord
<1> HIDE DEF r
<1>7. QED
    BY <1>1, <1>2, <1>3, <1>4, <1>6, ReasonInv

LEMMA FolderResumeInv ==
    ASSUME IInv, NEW f \in Folders, FolderResume(f) PROVE IInv'
<1> DEFINE r == [mem.rec[f] EXCEPT !.manual = FALSE]
<1>1. /\ TypeOK /\ pc = "idle" /\ UNCHANGED opVars /\ mem.rec[f].st # "none"
      /\ peers' = peers /\ sess' = sess /\ marker' = marker /\ card' = card
    BY DEF IInv, FolderResume, Serving
<1>2. /\ \/ PersistKept(WithRecord(f, r)) /\ conf' = conf
         \/ /\ Persisted(WithRecord(f, r))
            /\ \/ conf' = conf
               \/ conf' = [conf EXCEPT ![f] = [conf[f] EXCEPT !.paused = FALSE]]
      /\ row' = row \/ row' = [row EXCEPT ![f] = {}]
    BY DEF FolderResume, SetFolderPaused, Rest, SetConf
<1>3. faults' \in 0..MaxFaults
    BY <1>1, FaultIs DEF FolderResume, SetFolderPaused, Rest
<1>4. row' \in [Folders -> (SUBSET Reasons) \cup {NoRow}]
    BY <1>1, <1>2, TypeIs
<1>5. mem.rec[f] \in FolderRecord
    BY <1>1, DocumentIs, TypeIs
<1>6. /\ r \in FolderRecord /\ r.st = mem.rec[f].st /\ r.intent = mem.rec[f].intent
      /\ r.peer = mem.rec[f].peer /\ r.stop = mem.rec[f].stop
    BY <1>5 DEF FolderRecord
<1> HIDE DEF r
<1>7. QED
    BY <1>1, <1>2, <1>3, <1>4, <1>6, ReasonInv

LEMMA StartFirstSyncInv ==
    ASSUME IInv, NEW f \in Folders, StartFirstSync(f) PROVE IInv'
<1> DEFINE r == [mem.rec[f] EXCEPT !.firstSync = FALSE]
           cleared == WithRecord(f, r)
<1>1. /\ TypeOK /\ SessInv /\ pc = "idle" /\ UNCHANGED opVars /\ sess[f].on
      /\ peers' = peers /\ sess' = sess /\ marker' = marker /\ card' = card
    BY DEF IInv, StartFirstSync, Serving
<1>2. /\ \/ PersistKept(cleared) /\ conf' = conf
         \/ /\ Persisted(cleared)
            /\ \/ conf' = conf
               \/ conf' = [conf EXCEPT ![f] = [conf[f] EXCEPT !.paused = FALSE]]
      /\ row' = row \/ row' = Rows(sess, cleared)
    BY DEF StartFirstSync, SetFolderPaused, Rest, SetConf
<1>3. faults' \in 0..MaxFaults
    BY <1>1, FaultIs DEF StartFirstSync, SetFolderPaused, Rest
<1>4. mem.rec[f] \in FolderRecord /\ mem.rec[f].st # "none"
    BY <1>1, DocumentIs, TypeIs DEF SessInv
<1>5. /\ r \in FolderRecord /\ r.st = mem.rec[f].st /\ r.intent = mem.rec[f].intent
      /\ r.peer = mem.rec[f].peer /\ r.stop = mem.rec[f].stop
    BY <1>4 DEF FolderRecord
<1> HIDE DEF r
<1>6. cleared \in Document
    BY <1>1, <1>5, WithIs, TypeIs
<1>7. row' \in [Folders -> (SUBSET Reasons) \cup {NoRow}]
  <2> HIDE DEF cleared
  <2>1. QED
    BY <1>1, <1>2, <1>6, RowsAre, TypeIs
<1>8. QED
    BY <1>1, <1>2, <1>3, <1>4, <1>5, <1>7, ReasonInv

LEMMA RefreshStatusInv == IInv /\ RefreshStatus => IInv'
<1> SUFFICES ASSUME IInv, RefreshStatus PROVE IInv'
    OBVIOUS
<1>1. /\ TypeOK /\ DocInv /\ pc = "idle" /\ UNCHANGED opVars /\ peers' = peers
      /\ mem' = mem /\ disk' = disk /\ conf' = conf /\ sess' = sess /\ row' = Rows(sess, mem)
      /\ marker' = marker /\ card' = card /\ faults' = faults
    BY DEF IInv, RefreshStatus, Serving, docVars, upVars
<1>2. DocInv' /\ disk' \in Document
    BY <1>1, TypeIs DEF DocInv
<1>3. /\ marker' \in SUBSET {Slot[g] : g \in Folders} /\ card' \in BOOLEAN
      /\ peers' \in SUBSET Peers /\ faults' \in 0..MaxFaults
    BY <1>1, TypeIs
<1>4. row' \in [Folders -> (SUBSET Reasons) \cup {NoRow}]
    BY <1>1, RowsAre, TypeIs
<1>5. QED
    BY <1>1, <1>2, <1>3, <1>4, StayIs

-----------------------------------------------------------------------------
(* Start-up.                                                                *)

\* an error ends the process
LEMMA DownIs ==
    ASSUME Exit, DocInv', mem' \in Document, disk' \in Document,
           conf' \in [Folders -> FolderConfig], peers' \in SUBSET Peers,
           sess' \in [Folders -> [on : BOOLEAN, devs : SUBSET Peers]],
           row' \in [Folders -> (SUBSET Reasons) \cup {NoRow}],
           marker' \in SUBSET {Slot[f] : f \in Folders}, card' \in BOOLEAN,
           faults' \in 0..MaxFaults
    PROVE  IInv'
<1>1. OpsOK' /\ AddInv' /\ ShareInv' /\ LeaveInv' /\ PlaceInv' /\ pc' = "down"
    BY RestIs DEF Exit
<1>2. TypeOK'
    BY <1>1, TypeNext
<1>3. SessInv'
    BY <1>1 DEF SessInv
<1>4. QED
    BY <1>1, <1>2, <1>3 DEF IInv

\* a step of the start-up that only moves on
LEMMA MoveOn ==
    ASSUME IInv, pc \in BootPCs, NEW next \in {"gate", "members", "unpause", "stops"}, Goto(next),
           UNCHANGED <<docVars, upVars, viewVars, marker, card, faults>>
    PROVE  IInv'
<1>1. /\ TypeOK /\ DocInv /\ SessInv /\ mem = disk
      /\ mem' = mem /\ disk' = disk /\ conf' = conf /\ peers' = peers /\ sess' = sess /\ row' = row
      /\ marker' = marker /\ card' = card /\ faults' = faults
    BY DEF IInv, PlaceInv, docVars, upVars, viewVars
<1>2. OpsOK' /\ AddInv' /\ ShareInv' /\ LeaveInv' /\ pc' = next
    BY <1>1, GotoIs DEF PCs, BootPCs, StopPCs
<1>3. TypeOK'
    BY <1>1, <1>2, TypeIs, TypeNext
<1>4. DocInv'
    BY <1>1 DEF DocInv
<1>5. SessInv'
    BY <1>1, <1>2 DEF SessInv, Going, BootPCs, ServingPCs, HandlerPCs, RemovePCs
<1>6. PlaceInv'
    BY <1>1, <1>2 DEF PlaceInv, HandlerPCs, StopPCs
<1>7. QED
    BY <1>2, <1>3, <1>4, <1>5, <1>6 DEF IInv

\* the start-up fails before it has touched anything
LEMMA FailsClean ==
    ASSUME IInv, Exit, UNCHANGED <<docVars, upVars, viewVars, marker, card, faults>>
    PROVE  IInv'
<1>1. /\ TypeOK /\ DocInv
      /\ mem' = mem /\ disk' = disk /\ conf' = conf /\ peers' = peers /\ sess' = sess /\ row' = row
      /\ marker' = marker /\ card' = card /\ faults' = faults
    BY DEF IInv, docVars, upVars, viewVars
<1>2. DocInv'
    BY <1>1 DEF DocInv
<1>3. QED
    BY <1>1, <1>2, TypeIs, DownIs

LEMMA BootLoadInv == IInv /\ BootLoad => IInv'
<1> SUFFICES ASSUME IInv, BootLoad PROVE IInv'
    OBVIOUS
<1>1. /\ TypeOK /\ DocInv /\ mem' = disk /\ disk' = disk /\ conf' = conf /\ peers' = peers
      /\ row' = row /\ marker' = marker /\ card' = card /\ faults' = faults
      /\ pc' = "reconcile" /\ booting' = TRUE /\ UNCHANGED <<opFolder, opDevs, recovered>>
      /\ sess' = [f \in Folders |-> IF disk.rec[f].st # "none" /\ conf[f].on
                                    THEN [on |-> TRUE, devs |-> conf[f].devs] ELSE NoSession]
    BY DEF IInv, BootLoad, upVars
<1>2. DocInv'
    BY <1>1 DEF DocInv
<1>3. OpsOK'
    BY <1>1, TypeIs DEF OpsOK, PCs, BootPCs
<1>4. \A f \in Folders : conf[f] \in FolderConfig /\ conf[f].devs \in SUBSET Peers
    BY <1>1, TypeIs DEF FolderConfig
<1>5. /\ sess' \in [Folders -> [on : BOOLEAN, devs : SUBSET Peers]]
      /\ \A f \in Folders :
           /\ disk.rec[f].st # "none" /\ conf[f].on => sess'[f].on
           /\ sess'[f].on => /\ disk.rec[f].st # "none" /\ conf[f].on
                             /\ sess'[f].devs = conf[f].devs
  <2>1. [on |-> FALSE, devs |-> {}] \in [on : BOOLEAN, devs : SUBSET Peers]
    OBVIOUS
  <2>2. QED
    BY <1>1, <1>4, <2>1 DEF NoSession
<1>6. TypeOK'
    BY <1>1, <1>3, <1>5, TypeIs, TypeNext
<1>7. SessInv'
    BY <1>1, <1>5 DEF SessInv, ServingPCs, HandlerPCs, RemovePCs
<1>8. PlaceInv'
    BY <1>1, <1>5 DEF PlaceInv, HandlerPCs, StopPCs
<1>9. AddInv' /\ ShareInv' /\ LeaveInv'
    BY <1>1 DEF AddInv, ShareInv, LeaveInv, AddPCs, SharePCs, StopPCs
<1>10. QED
    BY <1>2, <1>6, <1>7, <1>8, <1>9 DEF IInv

LEMMA BootReconcileInv ==
    ASSUME IInv, NEW f \in Folders, BootReconcile(f) PROVE IInv'
<1> DEFINE a == [mem.rec[f] EXCEPT !.st = "active"]
           r == IF sess[f].on THEN a ELSE NoRecord
           settled == WithRecord(f, r)
<1>1. /\ TypeOK /\ DocInv /\ SessInv /\ PlaceInv /\ mem \in Document /\ Good(mem, conf)
      /\ pc = "reconcile" /\ mem.rec[f].st = "adding"
      /\ conf' = conf /\ peers' = peers /\ sess' = sess /\ row' = row
      /\ marker' = marker /\ card' = card
    BY DEF IInv, TypeOK, DocInv, BootReconcile, upVars, viewVars
<1>2. \/ Persisted(settled) /\ UNCHANGED opVars
      \/ PersistRolledBack(settled) /\ Exit
    BY DEF BootReconcile
<1>3. faults' \in 0..MaxFaults
    BY <1>1, FaultIs DEF BootReconcile
<1>4. /\ mem.rec[f] \in FolderRecord /\ mem.rec[f].intent = "none" /\ mem.rec[f].peer = NoPeer
      /\ ~mem.rec[f].stop
    BY <1>1, DocumentIs DEF Good, LoadableRecords
<1>5. /\ a \in FolderRecord /\ a.st = "active" /\ a.intent = "none" /\ a.peer = NoPeer /\ ~a.stop
    BY <1>4 DEF FolderRecord
<1> HIDE DEF a
<1>6. /\ r \in FolderRecord /\ r.intent = "none" /\ r.peer = NoPeer /\ ~r.stop
      /\ r.st = (IF sess[f].on THEN "active" ELSE "none")
    BY <1>5, NoRecordIs
<1> HIDE DEF r
<1>7. /\ sess[f].on => conf[f].on
      /\ \A g \in Folders : mem.rec[g].st # "none" /\ conf[g].on => sess[g].on
    BY <1>1 DEF SessInv, Going, PlaceInv
<1>8. Good(settled, conf)
  <2>1. Fits(r)
    BY <1>6 DEF Fits
  <2>2. conf[f].on => r.st = "active"
    BY <1>1, <1>6, <1>7
  <2>3. QED
    BY <1>1, <1>6, <1>7, <2>1, <2>2, GoodRecord
<1>9. settled.rec[f] = r /\ \A g \in Folders : g # f => settled.rec[g] = mem.rec[g]
    BY <1>1, <1>6, WithIs
<1> HIDE DEF settled
<1>10. DocInv' /\ mem' \in Document /\ disk' \in Document
    BY <1>1, <1>2, <1>8, WrittenIs
<1>11. CASE Persisted(settled) /\ UNCHANGED opVars
  <2>1. mem' = settled /\ disk' = mem' /\ pc' = "reconcile"
    BY <1>1, <1>11 DEF Persisted, opVars
  <2>2. OpsOK'
    BY <1>1, <1>11, TypeIs DEF OpsOK, opVars
  <2>3. TypeOK'
    BY <1>1, <1>3, <1>10, <2>2, TypeIs, TypeNext
  <2>4. ASSUME NEW g \in Folders, sess'[g].on
        PROVE  /\ mem'.rec[g].st # "none" /\ conf'[g].on
               /\ mem'.rec[g].intent = "none" => sess'[g].devs = conf'[g].devs
    <3>1. CASE g = f
      BY <1>1, <1>4, <1>6, <1>7, <1>9, <2>1, <2>4, <3>1 DEF SessInv, Going
    <3>2. CASE g # f
      BY <1>1, <1>9, <2>1, <2>4, <3>2 DEF SessInv, Going
    <3>3. QED
      BY <3>1, <3>2
  <2>5. SessInv'
    BY <2>1, <2>4 DEF SessInv, ServingPCs, HandlerPCs, RemovePCs
  <2>6. PlaceInv'
    BY <1>1, <1>6, <1>7, <1>9, <2>1 DEF PlaceInv, HandlerPCs, StopPCs
  <2>7. AddInv' /\ ShareInv' /\ LeaveInv'
    BY <2>1 DEF AddInv, ShareInv, LeaveInv, AddPCs, SharePCs, StopPCs
  <2>8. QED
    BY <1>10, <2>3, <2>5, <2>6, <2>7 DEF IInv
<1>12. CASE Exit
    BY <1>1, <1>3, <1>10, <1>12, TypeIs, DownIs
<1>13. QED
    BY <1>2, <1>11, <1>12

LEMMA BootReconciledInv == IInv /\ BootReconciled => IInv'
<1> SUFFICES ASSUME IInv, BootReconciled PROVE IInv'
    OBVIOUS
<1>1. pc \in BootPCs /\ UNCHANGED <<docVars, upVars, viewVars, marker, card, faults>>
    BY DEF BootReconciled, BootPCs
<1>2. CASE Exit
    BY <1>1, <1>2, FailsClean
<1>3. CASE Goto("gate")
    BY <1>1, <1>3, MoveOn
<1>4. QED
    BY <1>2, <1>3 DEF BootReconciled

LEMMA BootGateInv == IInv /\ BootGate => IInv'
<1> SUFFICES ASSUME IInv, BootGate PROVE IInv'
    OBVIOUS
<1> DEFINE recs(pending) == [f \in Folders |-> IF sess[f].on
                               THEN [mem.rec[f] EXCEPT !.firstSync = f \in pending]
                               ELSE mem.rec[f]]
           decided(pending) == [mem EXCEPT !.rec = recs(pending)]
<1>1. /\ TypeOK /\ DocInv /\ SessInv /\ Good(mem, conf) /\ mem \in Document /\ pc = "gate"
      /\ peers' = peers /\ sess' = sess /\ row' = row
      /\ marker' = marker /\ card' = card /\ faults' = faults /\ Goto("members")
    BY DEF IInv, TypeOK, DocInv, BootGate, viewVars
<1>2. PICK pending \in SUBSET Folders :
        /\ Persisted(decided(pending))
        /\ conf' = [f \in Folders |->
                      IF sess[f].on
                      THEN [conf[f] EXCEPT !.paused = PauseReasons(decided(pending).rec[f], f) # {}]
                      ELSE conf[f]]
    BY DEF BootGate
<1> DEFINE doc == decided(pending)
<1>3. \A f \in Folders : mem.rec[f] \in FolderRecord
    BY <1>1, DocumentIs
<1>4. /\ recs(pending) \in [Folders -> FolderRecord]
      /\ \A f \in Folders : /\ recs(pending)[f].st = mem.rec[f].st
                            /\ recs(pending)[f].intent = mem.rec[f].intent
                            /\ recs(pending)[f].peer = mem.rec[f].peer
                            /\ recs(pending)[f].stop = mem.rec[f].stop
  <2>1. ASSUME NEW f \in Folders
        PROVE  LET n == [mem.rec[f] EXCEPT !.firstSync = f \in pending]
               IN  /\ n \in FolderRecord /\ n.st = mem.rec[f].st /\ n.intent = mem.rec[f].intent
                   /\ n.peer = mem.rec[f].peer /\ n.stop = mem.rec[f].stop
    <3> DEFINE b == f \in pending
    <3>1. b \in BOOLEAN /\ mem.rec[f] \in FolderRecord
      BY <1>3
    <3> HIDE DEF b
    <3>2. LET n == [mem.rec[f] EXCEPT !.firstSync = b]
          IN  /\ n \in FolderRecord /\ n.st = mem.rec[f].st /\ n.intent = mem.rec[f].intent
              /\ n.peer = mem.rec[f].peer /\ n.stop = mem.rec[f].stop
      BY <3>1 DEF FolderRecord
    <3>3. QED
      BY <3>2 DEF b
  <2>2. QED
    BY <1>3, <2>1
<1> HIDE DEF recs
<1>5. doc \in Document /\ doc.rec = recs(pending)
    BY <1>1, <1>4 DEF Document
<1> HIDE DEF decided
<1>6. Good(doc, conf)
  <2>1. LoadableRecords(doc.rec)
    BY <1>1, <1>4, <1>5 DEF Good, LoadableRecords
  <2>2. QED
    BY <1>1, <1>4, <1>5, <2>1 DEF Good
<1>7. /\ conf' \in [Folders -> FolderConfig]
      /\ \A f \in Folders : /\ conf'[f].on = conf[f].on /\ conf'[f].devs = conf[f].devs
                            /\ conf'[f].paused \/ conf'[f].paused = conf[f].paused
                                               \/ doc.rec[f].st # "none"
  <2>1. ASSUME NEW f \in Folders
        PROVE  LET b == PauseReasons(doc.rec[f], f) # {}
                   n == [conf[f] EXCEPT !.paused = b]
               IN  /\ n \in FolderConfig /\ n.on = conf[f].on /\ n.devs = conf[f].devs
                   /\ n.paused \/ doc.rec[f].st # "none"
    <3> DEFINE b == PauseReasons(doc.rec[f], f) # {}
    <3>1. b \in BOOLEAN /\ (b \/ doc.rec[f].st # "none")
      BY <1>4, <1>5, ReasonsAre
    <3>2. conf[f] \in FolderConfig
      BY <1>1, TypeIs
    <3> HIDE DEF b
    <3>3. LET n == [conf[f] EXCEPT !.paused = b]
          IN  n \in FolderConfig /\ n.on = conf[f].on /\ n.devs = conf[f].devs /\ n.paused = b
      BY <3>1, <3>2 DEF FolderConfig
    <3>4. QED
      BY <3>1, <3>3 DEF b
  <2>2. conf \in [Folders -> FolderConfig]
    BY <1>1, TypeIs
  <2>3. QED
    BY <1>2, <2>1, <2>2
<1>8. mem' = doc /\ disk' = doc
    BY <1>2 DEF Persisted
<1>9. Good(doc, conf')
    BY <1>6, <1>7 DEF Good
<1>10. DocInv' /\ mem' \in Document /\ disk' \in Document
    BY <1>5, <1>8, <1>9 DEF DocInv
<1>11. OpsOK' /\ AddInv' /\ ShareInv' /\ LeaveInv' /\ pc' = "members"
    BY <1>1, GotoIs DEF PCs, BootPCs
<1>12. TypeOK'
    BY <1>1, <1>7, <1>10, <1>11, TypeIs, TypeNext
<1>13. SessInv'
    BY <1>1, <1>4, <1>5, <1>7, <1>8, <1>11 DEF SessInv, Going, ServingPCs, HandlerPCs, RemovePCs
<1>14. PlaceInv'
    BY <1>8, <1>11 DEF PlaceInv, HandlerPCs, StopPCs
<1>15. QED
    BY <1>10, <1>11, <1>12, <1>13, <1>14 DEF IInv

LEMMA BootMemberInv ==
    ASSUME IInv, NEW f \in Folders, BootMember(f) PROVE IInv'
<1> DEFINE target == MembershipTarget(f)
           k == [conf[f] EXCEPT !.paused = TRUE, !.devs = Accepted(target)]
           done == WithoutIntent(f)
<1>1. /\ TypeOK /\ DocInv /\ SessInv /\ Good(mem, conf) /\ pc = "members" /\ mem = disk
      /\ mem.rec[f].st # "none" /\ mem.rec[f].intent # "none"
      /\ peers' = peers /\ row' = row /\ marker' = marker /\ card' = card
    BY DEF IInv, PlaceInv, BootPCs, DocInv, BootMember
<1>2. \/ /\ Accepted(target) = target /\ conf' = [conf EXCEPT ![f] = k]
         /\ sess' = [sess EXCEPT ![f].devs = target] /\ Persisted(done)
         /\ recovered' = recovered \cup {f} /\ UNCHANGED <<pc, booting, opFolder, opDevs>>
      \/ /\ conf' = [conf EXCEPT ![f] = k] \/ conf' = conf
         /\ Exit /\ mem' = mem /\ disk' = disk /\ sess' = sess
    BY DEF BootMember, SetManagedFolderDevices, Rest, SetConf, JoinSession, docVars
<1>3. faults' \in 0..MaxFaults
    BY <1>1, FaultIs DEF BootMember, SetManagedFolderDevices, Rest, Fine
<1>4. /\ conf' \in [Folders -> FolderConfig]
      /\ \A g \in Folders : conf'[g].on = conf[g].on /\ (conf'[g].paused = conf[g].paused \/ conf'[g].paused)
      /\ \A g \in Folders : g # f => conf'[g] = conf[g]
    BY <1>1, <1>2, PatchedIs
<1>5. CASE /\ Accepted(target) = target /\ conf' = [conf EXCEPT ![f] = k]
           /\ sess' = [sess EXCEPT ![f].devs = target] /\ Persisted(done)
           /\ recovered' = recovered \cup {f} /\ UNCHANGED <<pc, booting, opFolder, opDevs>>
  <2>1. OpsOK' /\ pc' = "members"
    BY <1>1, <1>5, TypeIs DEF OpsOK
  <2>2. target \in SUBSET Peers
    BY <1>1, TargetIs
  <2>3. conf'[f].devs = target
    <3>1. conf[f] \in FolderConfig
      BY <1>1, TypeIs
    <3>2. k.devs = Accepted(target) /\ k \in FolderConfig
      BY <2>2, <3>1 DEF FolderConfig, Accepted
    <3> HIDE DEF k
    <3>3. QED
      BY <1>1, <1>5, <3>2, ConfSet
  <2>4. /\ Good(done, conf) /\ done \in Document
        /\ done.rec[f].st = mem.rec[f].st /\ done.rec[f].stop = mem.rec[f].stop
        /\ \A g \in Folders : g # f => done.rec[g] = mem.rec[g]
    BY <1>1, WithoutIs
  <2>5. mem' = done /\ disk' = done
    BY <1>5 DEF Persisted
  <2> HIDE DEF k, target, done
  <2>6. Good(done, conf')
    BY <1>4, <2>4 DEF Good
  <2>7. DocInv'
    BY <2>5, <2>6 DEF DocInv
  <2>8. /\ sess' \in [Folders -> [on : BOOLEAN, devs : SUBSET Peers]]
        /\ sess'[f].on = sess[f].on /\ sess'[f].devs = target
        /\ \A g \in Folders : g # f => sess'[g] = sess[g]
    BY <1>1, <1>5, <2>2 DEF TypeOK
  <2>9. TypeOK'
    BY <1>1, <1>3, <1>4, <2>1, <2>4, <2>5, <2>8, TypeIs, TypeNext
  <2>10. ASSUME NEW g \in Folders, sess'[g].on
         PROVE  /\ mem'.rec[g].st # "none" /\ conf'[g].on
                /\ mem'.rec[g].intent = "none" => sess'[g].devs = conf'[g].devs
    <3>1. CASE g = f
      BY <1>1, <1>4, <2>3, <2>4, <2>5, <2>8, <2>10, <3>1 DEF SessInv, Going
    <3>2. CASE g # f
      BY <1>1, <1>4, <2>4, <2>5, <2>8, <2>10, <3>2 DEF SessInv, Going
    <3>3. QED
      BY <3>1, <3>2
  <2>11. SessInv'
    BY <2>1, <2>10 DEF SessInv, ServingPCs, HandlerPCs, RemovePCs
  <2>12. AddInv' /\ ShareInv' /\ LeaveInv' /\ PlaceInv'
    BY <2>1, <2>5 DEF AddInv, ShareInv, LeaveInv, PlaceInv, AddPCs, SharePCs, StopPCs, HandlerPCs
  <2>13. QED
    BY <2>7, <2>9, <2>11, <2>12 DEF IInv
<1>6. CASE Exit /\ mem' = mem /\ disk' = disk /\ sess' = sess
  <2>1. DocInv'
    BY <1>1, <1>4, <1>6, DocKept
  <2>2. QED
    BY <1>1, <1>3, <1>4, <1>6, <2>1, TypeIs, DownIs
<1>7. QED
    BY <1>2, <1>5, <1>6

LEMMA BootUnpauseInv ==
    ASSUME IInv, NEW f \in Folders, BootUnpause(f) PROVE IInv'
<1> DEFINE b == PauseReasons(mem.rec[f], f) # {}
<1>1. /\ TypeOK /\ DocInv /\ SessInv /\ pc = "unpause" /\ mem = disk
      /\ mem' = mem /\ disk' = disk /\ peers' = peers /\ sess' = sess /\ row' = row
      /\ marker' = marker /\ card' = card
    BY DEF IInv, PlaceInv, BootPCs, BootUnpause, docVars, viewVars
<1>2. /\ conf' = conf \/ conf' = [conf EXCEPT ![f] = [conf[f] EXCEPT !.paused = b]]
      /\ \/ recovered' = recovered \ {f} /\ UNCHANGED <<pc, booting, opFolder, opDevs>>
         \/ Exit
    BY DEF BootUnpause, SetFolderPaused, Rest, SetConf
<1>3. faults' \in 0..MaxFaults
    BY <1>1, FaultIs DEF BootUnpause, SetFolderPaused, Rest
<1>4. b \in BOOLEAN /\ (~b => PauseReasons(mem.rec[f], f) = {})
    BY <1>1, DocumentIs, ReasonsAre, TypeIs
<1> HIDE DEF b
<1>5. /\ DocInv' /\ conf' \in [Folders -> FolderConfig]
      /\ \A g \in Folders : conf'[g].on = conf[g].on /\ conf'[g].devs = conf[g].devs
    BY <1>1, <1>2, <1>4, UnpauseKept
<1>6. CASE recovered' = recovered \ {f} /\ UNCHANGED <<pc, booting, opFolder, opDevs>>
  <2>1. OpsOK' /\ pc' = "unpause"
    BY <1>1, <1>6, TypeIs DEF OpsOK
  <2>2. TypeOK'
    BY <1>1, <1>3, <1>5, <2>1, TypeIs, TypeNext
  <2>3. SessInv'
    BY <1>1, <1>5, <2>1 DEF SessInv, Going, ServingPCs, HandlerPCs, RemovePCs
  <2>4. AddInv' /\ ShareInv' /\ LeaveInv' /\ PlaceInv'
    BY <1>1, <2>1 DEF AddInv, ShareInv, LeaveInv, PlaceInv, AddPCs, SharePCs, StopPCs, HandlerPCs
  <2>5. QED
    BY <1>5, <2>2, <2>3, <2>4 DEF IInv
<1>7. CASE Exit
    BY <1>1, <1>3, <1>5, <1>7, TypeIs, DownIs
<1>8. QED
    BY <1>2, <1>6, <1>7

LEMMA BootRemovalInv == IInv /\ BootRemoval => IInv'
<1> SUFFICES ASSUME IInv, BootRemoval PROVE IInv'
    OBVIOUS
<1>1. /\ TypeOK /\ DocInv /\ SessInv /\ pc = "removal"
      /\ mem' = mem /\ disk' = disk /\ conf' = conf /\ peers' = peers /\ sess' = sess
      /\ marker' = marker /\ card' = card /\ faults' = faults
    BY DEF IInv, BootRemoval, docVars, upVars
<1>2. DocInv'
    BY <1>1 DEF DocInv
<1>3. CASE Return /\ row' = Rows(sess, mem)
  <2>1. OpsOK' /\ AddInv' /\ ShareInv' /\ LeaveInv' /\ PlaceInv' /\ pc' = "idle"
    BY <1>3, RestIs DEF Return
  <2>2. row' \in [Folders -> (SUBSET Reasons) \cup {NoRow}]
    BY <1>1, <1>3, RowsAre, TypeIs
  <2>3. TypeOK'
    BY <1>1, <2>1, <2>2, TypeIs, TypeNext
  <2>4. SessInv'
    BY <1>1, <2>1 DEF SessInv, Going, ServingPCs
  <2>5. QED
    BY <1>2, <2>1, <2>3, <2>4 DEF IInv
<1>4. CASE row' = row /\ deviceFolderMemberships(mem.removal) = {} /\ Goto("remove-peer")
  <2>1. OpsOK' /\ AddInv' /\ ShareInv' /\ LeaveInv' /\ pc' = "remove-peer"
    BY <1>1, <1>4, GotoIs DEF PCs, RemovePCs
  <2>2. TypeOK'
    BY <1>1, <1>4, <2>1, TypeIs, TypeNext
  <2>3. SessInv'
    BY <1>1, <2>1 DEF SessInv, Going, ServingPCs
  <2>4. \A f \in Folders : sess[f].on => mem.removal \notin sess[f].devs
    BY <1>4 DEF deviceFolderMemberships
  <2>5. PlaceInv'
    BY <1>1, <2>1, <2>4 DEF PlaceInv, HandlerPCs, StopPCs, BootPCs
  <2>6. QED
    BY <1>2, <2>1, <2>2, <2>3, <2>5 DEF IInv
<1>5. CASE row' = row /\ Exit
    BY <1>1, <1>2, <1>5, TypeIs, DownIs
<1>6. QED
    BY <1>3, <1>4, <1>5 DEF BootRemoval

-----------------------------------------------------------------------------
(* The environment.                                                         *)

LEMMA GoDownInv ==
    ASSUME IInv, GoDown, faults' \in 0..MaxFaults PROVE IInv'
<1>1. /\ TypeOK /\ DocInv /\ mem' = disk /\ disk' = disk /\ conf' = conf /\ peers' = peers
      /\ marker' = marker /\ card' = card /\ Exit
    BY DEF IInv, GoDown, upVars
<1>2. /\ sess' \in [Folders -> [on : BOOLEAN, devs : SUBSET Peers]]
      /\ row' \in [Folders -> (SUBSET Reasons) \cup {NoRow}]
  <2>1. sess' \in [Folders -> [on : BOOLEAN, devs : SUBSET Peers]]
    BY DEF GoDown, EmptySession, NoSession
  <2>2. row' \in [Folders -> (SUBSET Reasons) \cup {NoRow}]
    BY DEF GoDown
  <2>3. QED
    BY <2>1, <2>2
<1>3. DocInv'
    BY <1>1 DEF DocInv
<1>4. QED
    BY <1>1, <1>2, <1>3, TypeIs, DownIs

\* nothing but the card
LEMMA CardKept ==
    ASSUME IInv, UNCHANGED <<opVars, docVars, upVars, viewVars, marker>>, card' \in BOOLEAN,
           faults' \in 0..MaxFaults
    PROVE  IInv'
<1>1. /\ pc' = pc /\ booting' = booting /\ opFolder' = opFolder /\ opDevs' = opDevs
      /\ recovered' = recovered /\ mem' = mem /\ disk' = disk /\ conf' = conf /\ peers' = peers
      /\ sess' = sess /\ row' = row /\ marker' = marker
    BY DEF opVars, docVars, upVars, viewVars
<1>2. TypeOK /\ OpsOK
    BY TypeIs DEF IInv
<1>3. OpsOK'
    BY <1>1, <1>2 DEF OpsOK
<1>4. TypeOK'
    BY <1>1, <1>2, <1>3, TypeIs, TypeNext
<1>5. DocInv' /\ SessInv'
    BY <1>1 DEF IInv, DocInv, SessInv, Going
<1>6. AddInv' /\ ShareInv' /\ LeaveInv' /\ PlaceInv'
    BY <1>1 DEF IInv, AddInv, ShareInv, LeaveInv, PlaceInv
<1>7. QED
    BY <1>4, <1>5, <1>6 DEF IInv

-----------------------------------------------------------------------------
(* The invariant.                                                           *)

LEMMA StepInv == IInv /\ [Next]_vars => IInv'
<1> SUFFICES ASSUME IInv, [Next]_vars PROVE IInv'
    OBVIOUS
<1>1. CASE CreateFolder
    BY <1>1, CreateBeginInv, CreatePostInv, CreateRollbackInv, CreateActivateInv DEF CreateFolder
<1>2. CASE FolderMembership
    BY <1>2, MembershipBeginInv, MembershipPatchInv, MembershipCompleteInv, MembershipUnpauseInv
       DEF FolderMembership
<1>3. CASE FolderStop
    BY <1>3, StopBeginInv, StopCheckInv, StopPauseInv, StopRemoveInv, StopMarkerInv,
       StopForgetInv, StopsDoneInv DEF FolderStop
<1>4. CASE Bootstrap
  <2>1. CASE BootMembersDone
    <3>1. /\ pc \in BootPCs /\ Goto("unpause")
          /\ UNCHANGED <<docVars, upVars, viewVars, marker, card, faults>>
      BY <2>1 DEF BootMembersDone, BootPCs
    <3>2. QED
      BY <3>1, MoveOn
  <2>2. CASE BootUnpaused
    <3>1. /\ pc \in BootPCs /\ Goto("stops")
          /\ UNCHANGED <<docVars, upVars, viewVars, marker, card, faults>>
      BY <2>2 DEF BootUnpaused, BootPCs
    <3>2. QED
      BY <3>1, MoveOn
  <2>3. QED
    BY <1>4, <2>1, <2>2, BootLoadInv, BootReconciledInv, BootGateInv, BootRemovalInv,
       BootReconcileInv, BootMemberInv, BootUnpauseInv DEF Bootstrap
<1>5. CASE RefreshStatus
    BY <1>5, RefreshStatusInv
<1>6. CASE \E f \in Folders : FolderPause(f) \/ FolderResume(f) \/ StartFirstSync(f)
    BY <1>6, FolderPauseInv, FolderResumeInv, StartFirstSyncInv
<1>7. CASE \E p \in Peers : DeviceAdd(p)
    BY <1>7, DeviceAddInv
<1>8. CASE Restart \/ Crash
  <2>1. TypeOK /\ GoDown /\ (Fine \/ Fault)
    BY <1>8 DEF Restart, Crash, IInv
  <2>2. QED
    BY <2>1, FaultIs, GoDownInv
<1>9. CASE CardRemoved \/ CardInserted
  <2>1. TypeOK /\ (Fine \/ Fault) /\ card' \in BOOLEAN
        /\ UNCHANGED <<opVars, docVars, upVars, viewVars, marker>>
    BY <1>9 DEF CardRemoved, CardInserted, IInv, Fine
  <2>2. QED
    BY <2>1, FaultIs, CardKept
<1>10. CASE DeviceRemoval
    BY <1>10, DeviceRemoveBeginInv, RemovePeerInv, RemoveCompleteInv DEF DeviceRemoval
<1>11. CASE UNCHANGED vars
  <2>1. /\ UNCHANGED <<opVars, docVars, upVars, viewVars, marker>> /\ card' = card
        /\ faults' = faults
    BY <1>11 DEF vars
  <2>2. card' \in BOOLEAN /\ faults' \in 0..MaxFaults
    BY <2>1, TypeIs DEF IInv
  <2>3. QED
    BY <2>1, <2>2, CardKept
<1>12. QED
    BY <1>1, <1>2, <1>3, <1>4, <1>5, <1>6, <1>7, <1>8, <1>9, <1>10, <1>11 DEF Next, FolderNext

\* What the documents, the session and the handler under way agree on with
\* upstream, at every moment.
THEOREM Inductive == Spec => []IInv
BY InitInv, StepInv, PTL DEF Spec

-----------------------------------------------------------------------------
(* What follows.                                                            *)

\* validateFolderControlRecords: whatever is interrupted, and whichever writes
\* fail, the next start-up accepts the document that it finds.
THEOREM DocumentSafety == Spec => []DocumentInv
<1>1. IInv => DocumentInv
    BY DEF IInv, DocInv, Good, DocumentInv, RecordsLoadable
<1>2. QED
    BY <1>1, Inductive, PTL

\* bootstrap.go: an active folder that is not being stopped is configured
\* upstream, so no start-up ends for a folder that is missing there.
THEOREM FolderSafety == Spec => []NoFolderLost
<1>1. IInv => NoFolderLost
    BY DEF IInv, DocInv, Good, NoFolderLost
<1>2. QED
    BY <1>1, Inductive, PTL

\* onboarding.go and folder_state.go: a folder that no record names, left by a
\* request whose answer was lost, stays paused.
THEOREM OrphanSafety == Spec => []OrphanStaysPaused
<1>1. IInv => OrphanStaysPaused
    BY DEF IInv, DocInv, Good, OrphanStaysPaused
<1>2. QED
    BY <1>1, Inductive, PTL

\* BeginAdd and recoverPendingFolderStops: upstream never runs two folders on
\* one card directory, however many folders it has there.
THEOREM TreeSafety == Spec => []OneRunningFolderPerTree
<1>1. IInv => OneRunningFolderPerTree
  <2>1. SUFFICES ASSUME IInv, NEW f \in Folders, NEW g \in Folders, Slot[f] = Slot[g],
                        conf[f].on, conf[g].on, ~conf[f].paused, ~conf[g].paused
                 PROVE  f = g
    BY DEF OneRunningFolderPerTree
  <2>2. Good(disk, conf)
    BY <2>1 DEF IInv, DocInv
  <2>3. disk.rec[f].st # "none" /\ disk.rec[g].st # "none"
    BY <2>1, <2>2 DEF Good
  <2>4. QED
    BY <2>1, <2>2, <2>3 DEF Good, LoadableRecords
<1>2. QED
    BY <1>1, Inductive, PTL

\* membership.go: while the controller serves, the peers that it shows for a
\* folder without a pending change are those that upstream shares it with.
THEOREM SessionSafety == Spec => []SessionMatchesUpstream
<1>1. IInv => SessionMatchesUpstream
    BY DEF IInv, SessInv, Going, SessionMatchesUpstream
<1>2. QED
    BY <1>1, Inductive, PTL

=============================================================================
