---------------------------- MODULE ResetProofs -----------------------------
(***************************************************************************)
(* Proofs about Reset, for every set of cards and every number of resets   *)
(* and faults, on filesystems that keep no order: nothing starts during a  *)
(* reset, an intent never declares an identity, state or history made      *)
(* after it, what leaves the disk was announced there, and a reset that is *)
(* cleared has left nothing on any disk.                                   *)
(*                                                                         *)
(* The service that waits for a card recovers without the lock: it never   *)
(* does so beside the helper (PlaceInv).  The other parts of the invariant *)
(* say what the carrier of a document knows to be gone (WorkInv), what may *)
(* still be on a disk (FlushInv), and that nothing runs while the disk may *)
(* have an intent the processes do not see (StaleInv).                     *)
(***************************************************************************)
EXTENDS Reset, TLAPS

\* who may be where, with the lock or without; one process at most carries a reset out
Carries(p) == pc[p] \in {"verify"} \cup RemovePCs
PlaceInv ==
    /\ pc["doctor"] = "off" /\ pc["service"] # "checked"
    /\ pc["helper"] \in {"off", "checked", "verify"} \cup RemovePCs
    /\ Carries("helper") => lock = "helper" /\ pc["service"] \in {"off", "start"}
    /\ pc["service"] \in ResetPCs \cup {"waiting"} => lock = "service" \/ plan = None
    /\ pc["service"] \in StartPCs => lock = "service"
    /\ \A p \in Procs : Carries(p) <=> doc[p] # None

\* there is one reset at a time, and none once a plan can be sealed
NoReset == fs.intent = None /\ \A p \in Procs : doc[p] = None
AgreeInv ==
    /\ \A p \in Procs : doc[p] # None /\ fs.intent # None => doc[p] = fs.intent
    /\ plan # None \/ pc["service"] \in StartPCs => NoReset

\* the disk may have what the processes see
DiskInv ==
    /\ fs.intent \in disk.intent
    /\ \A r \in Places : fs.root[r] \in disk.root[r]

\* a reset of more than the index takes the configuration, the index and the state
TakesAll(d) == d.action # "index-only" => Primary \subseteq d.roots
\* what it declares is not newer than it is, whatever a power loss leaves
OldRoots(d) == d.action # "index-only" =>
                   \A r \in d.roots : \A epoch \in disk.root[r] : epoch <= d.id
EpochInv ==
    /\ \A r \in Places : \A epoch \in disk.root[r] : epoch <= Now
    /\ plan # None => TakesAll(plan)
    /\ \A p \in Procs : doc[p] # None => TakesAll(doc[p]) /\ OldRoots(doc[p])
    /\ \A d \in disk.intent \ {None} : TakesAll(d) /\ OldRoots(d)

\* what a process has done of its document
Removed(r) == fs.root[r] = 0
Durable(r) == disk.root[r] = {0}
WorkOf(p) ==
    /\ pc[p] \in RemovePCs => doc[p].roots \cap Cards \subseteq present
    /\ pc[p] \in RemovePCs \ {"intent", "clear-sync"} => fs.intent = doc[p]
    /\ pc[p] = "clear-sync" => fs.intent = None
    /\ pc[p] = "remove" => /\ todo[p] \subseteq doc[p].roots
                           /\ \A r \in doc[p].roots \ todo[p] : Removed(r)
    /\ pc[p] \in {"sync", "absent", "clear", "clear-sync"} =>
         \A r \in doc[p].roots : Removed(r)
    /\ pc[p] \in {"absent", "clear", "clear-sync"} => \A r \in doc[p].roots : Durable(r)
WorkInv == \A p \in Procs : WorkOf(p)

\* what is gone, but not yet for good, is named by the intent, and that is on the disk
\* but for an interrupted flush
Pending(r) == Removed(r) /\ ~Durable(r)
FlushInv ==
    /\ \A r \in Places : Pending(r) => fs.intent # None /\ r \in fs.intent.roots
    /\ \A p \in Procs : pc[p] = "intent-sync" => \A r \in Places : ~Pending(r)
    /\ fs.intent # None /\ ~unflushed /\ (\A p \in Procs : pc[p] # "intent-sync") =>
         disk.intent = {fs.intent}

\* while the disk may have an intent for more than the index that the processes do not
\* see, no configuration is there to run with
StaleInv ==
    \A d \in disk.intent \ {None, fs.intent} : d.action # "index-only" =>
        fs.root["config"] = 0 /\ pc["service"] \notin {"generate", "running"}

IInv ==
    /\ TypeOK /\ PlaceInv /\ AgreeInv /\ DiskInv
    /\ EpochInv /\ WorkInv /\ FlushInv /\ StaleInv

-----------------------------------------------------------------------------
(* What the steps write.                                                    *)

\* An intent is written or removed.
LEMMA SetIntentIs ==
    ASSUME TypeOK, NEW i \in Document \cup {None}, SetIntent(i)
    PROVE  /\ fs' \in Tree /\ disk' \in Disk
           /\ fs'.intent = i /\ disk'.intent = disk.intent \cup {i}
           /\ fs'.root = fs.root /\ disk'.root = disk.root
BY DEF SetIntent, TypeOK, Tree, Disk

\* The contents of a root are written or removed.
LEMMA SetRootIs ==
    ASSUME TypeOK, NEW r \in Places, NEW e \in Epochs, SetRoot(r, e)
    PROVE  /\ fs' \in Tree /\ disk' \in Disk
           /\ fs'.intent = fs.intent /\ disk'.intent = disk.intent
           /\ \A s \in Places :
                /\ fs'.root[s] = IF s = r THEN e ELSE fs.root[s]
                /\ disk'.root[s] = IF s = r THEN disk.root[s] \cup {e} ELSE disk.root[s]
<1>1. /\ [fs.root EXCEPT ![r] = e] \in [Places -> Epochs]
      /\ [disk.root EXCEPT ![r] = @ \cup {e}] \in [Places -> SUBSET Epochs]
    BY DEF TypeOK, Tree, Disk
<1>2. /\ fs' = [fs EXCEPT !.root = [fs.root EXCEPT ![r] = e]]
      /\ disk' = [disk EXCEPT !.root = [disk.root EXCEPT ![r] = @ \cup {e}]]
    BY DEF SetRoot, TypeOK, Tree, Disk
<1>3. /\ fs'.intent = fs.intent /\ disk'.intent = disk.intent
      /\ fs'.root = [fs.root EXCEPT ![r] = e]
      /\ disk'.root = [disk.root EXCEPT ![r] = @ \cup {e}]
    BY <1>2 DEF TypeOK, Tree, Disk
<1>4. fs' \in Tree /\ disk' \in Disk
    BY <1>1, <1>2 DEF TypeOK, Tree, Disk
<1>5. QED
    BY <1>3, <1>4 DEF TypeOK, Tree, Disk

\* Filesystems are flushed.
LEMMA SyncIs ==
    ASSUME TypeOK, NEW roots \in SUBSET Places, Sync(roots)
    PROVE  /\ disk' \in Disk /\ unflushed' \in BOOLEAN
           /\ disk'.intent = IF roots \cap Primary # {} THEN {fs.intent} ELSE disk.intent
           /\ unflushed' = (unflushed /\ roots \cap Primary = {})
           /\ \A s \in Places :
                disk'.root[s] = IF \/ s \in Primary /\ roots \cap Primary # {}
                                   \/ s \notin Primary /\ s \in roots
                                THEN {fs.root[s]} ELSE disk.root[s]
<1>1. /\ \A s \in Places : fs.root[s] \in Epochs /\ disk.root[s] \in SUBSET Epochs
      /\ fs.intent \in Document \cup {None} /\ disk.intent \in SUBSET (Document \cup {None})
      /\ unflushed \in BOOLEAN
    BY DEF TypeOK, Tree, Disk
<1>2. QED
    BY <1>1 DEF Sync, Disk

\* The primary filesystem is flushed.
LEMMA SyncPrimaryIs ==
    ASSUME TypeOK, SyncPrimary
    PROVE  /\ disk' \in Disk /\ unflushed' = FALSE
           /\ disk'.intent = {fs.intent}
           /\ \A s \in Places : disk'.root[s] = IF s \in Primary THEN {fs.root[s]} ELSE disk.root[s]
<1>1. Primary \in SUBSET Places /\ Primary \cap Primary # {}
    BY DEF Places, Primary
<1>2. Sync(Primary)
    BY DEF SyncPrimary
<1>3. QED
    BY <1>1, <1>2, SyncIs, ValueAssumption DEF Places

\* The documents that are there.
LEMMA DocumentsAre ==
    ASSUME TypeOK
    PROVE  /\ \A p \in Procs : doc[p] # None => doc[p] \in Document
           /\ fs.intent # None => fs.intent \in Document
           /\ \A d \in disk.intent \ {None} : d \in Document
           /\ \A d \in Document : d.roots \subseteq Places /\ d.id \in Nat
           /\ \A r \in Places : fs.root[r] \in Nat /\ disk.root[r] \subseteq Nat
           /\ Primary \subseteq Places /\ Cards \subseteq Places
BY DEF TypeOK, Tree, Disk, Document, Epochs, Places

\* buildResetDocument declares known roots, and all of the primary ones with a
\* configuration.
LEMMA RootsAre ==
    ASSUME TypeOK, NEW action \in Actions
    PROVE  /\ Roots(action) \in SUBSET Places
           /\ action # "index-only" => Primary \subseteq Roots(action)
<1>1. CASE action = "index-only"
    BY <1>1 DEF Roots, Primary, Places
<1>2. CASE action = "full"
    BY <1>2 DEF Roots, Places
<1>3. CASE action = "available-only"
    BY <1>3 DEF Roots, TypeOK, Places
<1>4. QED
    BY <1>1, <1>2, <1>3 DEF Actions

LEMMA InitInv == Init => IInv
<1> SUFFICES ASSUME Init PROVE IInv
    OBVIOUS
<1> USE ResetAssumption, ValueAssumption
    DEF Init, Carries, NoReset, Procs, PCs, ResetPCs, RemovePCs, StartPCs
<1>1. /\ fs.intent = None /\ disk.intent = {None} /\ unflushed = FALSE
      /\ \A r \in Places : fs.root[r] = 0 /\ disk.root[r] = {0}
    OBVIOUS
<1>2. TypeOK
  <2>1. fs \in Tree /\ disk \in Disk
    BY DEF Tree, Disk, Epochs
  <2>2. /\ pc \in [Procs -> PCs] /\ doc \in [Procs -> Document \cup {None}]
        /\ todo \in [Procs -> SUBSET Places]
    OBVIOUS
  <2>3. resets \in 0..MaxResets /\ faults \in 0..MaxFaults
    OBVIOUS
  <2>4. QED
    BY <1>1, <2>1, <2>2, <2>3 DEF TypeOK
<1>3. PlaceInv /\ AgreeInv /\ WorkInv /\ DiskInv
    BY <1>1 DEF PlaceInv, AgreeInv, WorkInv, WorkOf, DiskInv
<1>4. EpochInv /\ FlushInv /\ StaleInv
    BY <1>1 DEF EpochInv, FlushInv, StaleInv, Now, Pending, Removed, Durable
<1>5. QED
    BY <1>2, <1>3, <1>4 DEF IInv

\* Steps that leave the disks alone: what is known of them stays.
LEMMA SameDisk ==
    ASSUME IInv, UNCHANGED <<diskVars, resets>>,
           plan' # None => TakesAll(plan'),
           \A p \in Procs : doc'[p] # None => TakesAll(doc'[p]) /\ OldRoots(doc'[p]),
           \A p \in Procs : pc'[p] = "intent-sync" => pc[p] = "intent-sync",
           \A p \in Procs : pc[p] = "intent-sync" => pc'[p] = "intent-sync" \/ unflushed',
           pc'["service"] \in {"generate", "running"} =>
               pc["service"] \in {"generate", "running"} \/ fs.root["config"] # 0
    PROVE  DiskInv' /\ EpochInv' /\ FlushInv' /\ StaleInv'
BY DEF IInv, DiskInv, EpochInv, FlushInv, StaleInv, TakesAll, OldRoots, Pending, Removed,
   Durable,
       Now, diskVars

\* Whoever carries a reset out does so alone.
LEMMA Alone ==
    ASSUME IInv, NEW p \in Procs, pc[p] \in {"read", "verify"} \cup RemovePCs
    PROVE  \A q \in Procs : q # p => doc[q] = None /\ pc[q] \notin {"verify"} \cup RemovePCs
BY DEF IInv, PlaceInv, Carries, Procs, RemovePCs

\* Steps that write nothing new: what is old stays old.
LEMMA EpochKeeps ==
    ASSUME IInv, resets' = resets, plan' \in {plan, None},
           \A p \in Procs : doc'[p] \in {doc[p], None},
           \A r \in Places : disk'.root[r] \subseteq disk.root[r] \cup {0},
           disk'.intent \subseteq disk.intent \cup {None} \cup {doc[p] : p \in Procs}
    PROVE  EpochInv'
<1> USE DEF IInv
<1>1. \A d \in Document : OldRoots(d) => OldRoots(d)'
    BY DocumentsAre DEF OldRoots
<1>2. \A d : TakesAll(d) => TakesAll(d)'
    BY DEF TakesAll
<1>3. \A r \in Places : \A epoch \in disk'.root[r] : epoch <= Now'
    BY DEF EpochInv, Now, TypeOK
<1>4. \A p \in Procs : doc'[p] # None => TakesAll(doc[p]) /\ OldRoots(doc[p])' /\ doc'[p] = doc[p]
    BY <1>1, <1>2, DocumentsAre DEF EpochInv
<1>5. \A d \in disk'.intent \ {None} : TakesAll(d)' /\ OldRoots(d)'
    BY <1>1, <1>2, DocumentsAre DEF EpochInv
<1>6. plan' # None => TakesAll(plan)'
    BY <1>2 DEF EpochInv
<1>7. QED
    BY <1>3, <1>4, <1>5, <1>6 DEF EpochInv, TakesAll, OldRoots

\* A process carries out an intent, with the lock or without it.
LEMMA RecoverStep ==
    ASSUME IInv, NEW p \in Procs, RecoverReset(p)
    PROVE  IInv'
<1> USE ResetAssumption, ValueAssumption
    DEF Carries, NoReset, Goto, Leave, Exit, Done, StartRemoval, Faulty,
        Procs, PCs, ResetPCs, RemovePCs, StartPCs, procVars, envVars
<1>1. CASE ReadIntent(p)
  <2>1. TypeOK'
    BY <1>1, DocumentsAre DEF ReadIntent, IInv, TypeOK, PlaceInv, diskVars
  <2>2. PlaceInv' /\ AgreeInv'
    BY <1>1 DEF ReadIntent, IInv, PlaceInv, AgreeInv, TypeOK, diskVars
  <2>3. DiskInv' /\ EpochInv' /\ FlushInv' /\ StaleInv'
    BY <1>1, SameDisk
    DEF ReadIntent, IInv, PlaceInv, AgreeInv, DiskInv, EpochInv, TypeOK, diskVars
  <2>4. WorkInv'
    BY <1>1, Alone
    DEF ReadIntent, IInv, PlaceInv, AgreeInv, WorkInv, WorkOf, TypeOK, Removed, Durable,
        diskVars
  <2>5. QED
    BY <2>1, <2>2, <2>3, <2>4 DEF IInv
<1>2. CASE VerifyCards(p)
  <2>1. TypeOK'
    BY <1>2, DocumentsAre DEF VerifyCards, IInv, TypeOK, PlaceInv, diskVars
  <2>2. PlaceInv' /\ AgreeInv'
    BY <1>2 DEF VerifyCards, IInv, PlaceInv, AgreeInv, TypeOK, diskVars
  <2>3. DiskInv' /\ EpochInv' /\ FlushInv' /\ StaleInv'
    BY <1>2, SameDisk
    DEF VerifyCards, IInv, PlaceInv, AgreeInv, DiskInv, EpochInv, TypeOK, diskVars
  <2>4. WorkInv'
    BY <1>2, Alone
    DEF VerifyCards, IInv, PlaceInv, AgreeInv, WorkInv, WorkOf, TypeOK, Removed, Durable,
        diskVars
  <2>5. QED
    BY <2>1, <2>2, <2>3, <2>4 DEF IInv
<1>3. CASE WriteIntent(p) /\ fs.intent # None
  <2>1. TypeOK'
    BY <1>3, DocumentsAre DEF WriteIntent, IInv, TypeOK, PlaceInv, diskVars
  <2>2. PlaceInv' /\ AgreeInv'
    BY <1>3 DEF WriteIntent, IInv, PlaceInv, AgreeInv, TypeOK, diskVars
  <2>3. DiskInv' /\ EpochInv' /\ FlushInv' /\ StaleInv'
    BY <1>3, SameDisk
    DEF WriteIntent, IInv, PlaceInv, AgreeInv, DiskInv, EpochInv, TypeOK, diskVars
  <2>4. WorkInv'
    BY <1>3, Alone
    DEF WriteIntent, IInv, PlaceInv, AgreeInv, WorkInv, WorkOf, TypeOK, Removed, Durable,
        diskVars
  <2>5. QED
    BY <2>1, <2>2, <2>3, <2>4 DEF IInv
<1>4. CASE WriteIntent(p) /\ fs.intent = None
  <2>a. /\ doc[p] \in Document /\ SetIntent(doc[p])
        /\ fs' \in Tree /\ disk' \in Disk
        /\ fs'.intent = doc[p] /\ disk'.intent = disk.intent \cup {doc[p]}
        /\ fs'.root = fs.root /\ disk'.root = disk.root
    <3>1. doc[p] \in Document /\ SetIntent(doc[p])
      BY <1>4, DocumentsAre DEF WriteIntent, IInv, PlaceInv
    <3>2. QED
      BY <3>1, SetIntentIs DEF IInv
  <2>1. TypeOK'
    BY <1>4, <2>a, DocumentsAre, Alone DEF WriteIntent, IInv, TypeOK
  <2>2. PlaceInv' /\ AgreeInv'
    BY <1>4, <2>a, DocumentsAre, Alone DEF WriteIntent, IInv, PlaceInv, AgreeInv, TypeOK
  <2>3. DiskInv'
    BY <1>4, <2>a, DocumentsAre, Alone DEF WriteIntent, IInv, DiskInv, PlaceInv, TypeOK
  <2>4. EpochInv'
    BY <1>4, <2>a, EpochKeeps, DocumentsAre DEF WriteIntent, IInv, DiskInv, PlaceInv, TypeOK
  <2>5. WorkInv'
    BY <1>4, <2>a, DocumentsAre, Alone
    DEF WriteIntent, IInv, WorkInv, WorkOf, PlaceInv, AgreeInv, DiskInv, Removed, Durable,
        TypeOK
  <2>6. FlushInv'
    BY <1>4, <2>a, DocumentsAre, Alone
    DEF WriteIntent, IInv, FlushInv, Pending, Removed, Durable, WorkInv, WorkOf, PlaceInv,
        AgreeInv, DiskInv, TypeOK
  <2>7. StaleInv'
    BY <1>4, <2>a, DocumentsAre, Alone
    DEF WriteIntent, IInv, StaleInv, PlaceInv, AgreeInv, WorkInv, WorkOf, Removed, EpochInv,
        TakesAll, TypeOK
  <2>8. QED
    BY <2>1, <2>2, <2>3, <2>4, <2>5, <2>6, <2>7 DEF IInv
<1>5. CASE SyncIntent(p)
  <2>a. /\ disk' \in Disk /\ unflushed' = FALSE
        /\ disk'.intent = {fs.intent}
        /\ \A s \in Places : disk'.root[s] = IF s \in Primary THEN {fs.root[s]} ELSE disk.root[s]
    BY <1>5, SyncPrimaryIs DEF SyncIntent, IInv
  <2>1. TypeOK'
    <3>1. doc[p].roots \in SUBSET Places
      BY <1>5, DocumentsAre DEF SyncIntent, IInv, PlaceInv
    <3>2. todo' \in [Procs -> SUBSET Places] /\ pc' \in [Procs -> PCs]
      BY <1>5, <3>1 DEF SyncIntent, IInv, TypeOK
    <3>3. QED
      BY <1>5, <2>a, <3>2 DEF SyncIntent, IInv, TypeOK
  <2>2. PlaceInv' /\ AgreeInv'
    BY <1>5, <2>a, DocumentsAre, Alone DEF SyncIntent, IInv, PlaceInv, AgreeInv, TypeOK
  <2>3. DiskInv'
    BY <1>5, <2>a, DocumentsAre, Alone DEF SyncIntent, IInv, DiskInv, PlaceInv, TypeOK
  <2>4. EpochInv'
    <3>1. /\ UNCHANGED <<resets, plan>>
          /\ \A q \in Procs : doc'[q] \in {doc[q], None}
      BY <1>5 DEF SyncIntent, IInv, TypeOK
    <3>2. \A r \in Places : disk'.root[r] \subseteq disk.root[r] \cup {0}
      BY <2>a DEF IInv, DiskInv
    <3>3. disk'.intent \subseteq disk.intent \cup {None} \cup {doc[q] : q \in Procs}
      BY <2>a DEF IInv, DiskInv
    <3>4. QED
      BY <3>1, <3>2, <3>3, EpochKeeps
  <2>5. WorkInv'
    BY <1>5, <2>a, DocumentsAre, Alone
    DEF SyncIntent, IInv, WorkInv, WorkOf, PlaceInv, AgreeInv, DiskInv, Removed, Durable,
        TypeOK
  <2>6. FlushInv'
    BY <1>5, <2>a, DocumentsAre, Alone
    DEF SyncIntent, IInv, FlushInv, Pending, Removed, Durable, WorkInv, WorkOf, PlaceInv,
        AgreeInv, DiskInv, TypeOK
  <2>7. StaleInv'
    BY <1>5, <2>a, DocumentsAre, Alone
    DEF SyncIntent, IInv, StaleInv, PlaceInv, AgreeInv, WorkInv, WorkOf, Removed, EpochInv,
        TakesAll, TypeOK
  <2>8. QED
    BY <2>1, <2>2, <2>3, <2>4, <2>5, <2>6, <2>7 DEF IInv
<1>6. ASSUME NEW r \in Places, RemoveRoot(p, r), ~Visible(r)
      PROVE  IInv'
  <2>1. TypeOK'
    BY <1>6, DocumentsAre DEF RemoveRoot, Visible, IInv, TypeOK, PlaceInv, diskVars
  <2>2. PlaceInv' /\ AgreeInv'
    BY <1>6 DEF RemoveRoot, Visible, IInv, PlaceInv, AgreeInv, TypeOK, diskVars
  <2>3. DiskInv' /\ EpochInv' /\ FlushInv' /\ StaleInv'
    BY <1>6, SameDisk
    DEF RemoveRoot, Visible, IInv, PlaceInv, AgreeInv, DiskInv, EpochInv, TypeOK, diskVars
  <2>4. WorkInv'
    <3>1. pc[p] = "remove" /\ r \in doc[p].roots /\ doc[p].roots \subseteq Places
      BY <1>6, DocumentsAre DEF RemoveRoot, IInv, PlaceInv, WorkInv, WorkOf
    <3>2. \A q \in Procs \ {p} : pc'[q] = pc[q] /\ pc[q] \notin RemovePCs
      BY <1>6, <3>1, Alone DEF RemoveRoot
    <3>3. WorkOf(p)'
      BY <1>6, <3>1
      DEF RemoveRoot, Visible, Places, IInv, WorkInv, WorkOf, Removed, Durable, TypeOK,
          diskVars
    <3>4. QED
      BY <3>2, <3>3 DEF WorkInv, WorkOf
  <2>5. QED
    BY <2>1, <2>2, <2>3, <2>4 DEF IInv
<1>7. ASSUME NEW r \in Places, RemoveRoot(p, r), Visible(r)
      PROVE  IInv'
  <2>a. /\ fs' \in Tree /\ disk' \in Disk
        /\ fs'.intent = fs.intent /\ disk'.intent = disk.intent
        /\ \A s \in Places :
             /\ fs'.root[s] = IF s = r THEN 0 ELSE fs.root[s]
             /\ disk'.root[s] = IF s = r THEN disk.root[s] \cup {0} ELSE disk.root[s]
    BY <1>7, SetRootIs DEF RemoveRoot, Epochs, IInv
  <2>1. TypeOK'
    BY <1>7, <2>a, DocumentsAre, Alone DEF RemoveRoot, IInv, TypeOK
  <2>2. PlaceInv' /\ AgreeInv'
    BY <1>7, <2>a, DocumentsAre, Alone DEF RemoveRoot, IInv, PlaceInv, AgreeInv, TypeOK
  <2>3. DiskInv'
    BY <1>7, <2>a, DocumentsAre, Alone DEF RemoveRoot, IInv, DiskInv, PlaceInv, TypeOK
  <2>4. EpochInv'
    BY <1>7, <2>a, EpochKeeps, DocumentsAre DEF RemoveRoot, IInv, DiskInv, PlaceInv, TypeOK
  <2>5. WorkInv'
    <3>1. pc[p] = "remove" /\ r \in doc[p].roots /\ doc[p].roots \subseteq Places
      BY <1>7, DocumentsAre DEF RemoveRoot, IInv, PlaceInv, WorkInv, WorkOf
    <3>2. \A q \in Procs \ {p} : pc'[q] = pc[q] /\ pc[q] \notin RemovePCs
      BY <1>7, <3>1, Alone DEF RemoveRoot
    <3>3. WorkOf(p)'
      BY <1>7, <2>a, <3>1
      DEF RemoveRoot, IInv, WorkInv, WorkOf, Removed, Durable, TypeOK, diskVars
    <3>4. QED
      BY <3>2, <3>3 DEF WorkInv, WorkOf
  <2>6. FlushInv'
    BY <1>7, <2>a, DocumentsAre, Alone
    DEF RemoveRoot, IInv, FlushInv, Pending, Removed, Durable, WorkInv, WorkOf, PlaceInv,
        AgreeInv, DiskInv, TypeOK
  <2>7. StaleInv'
    <3>1. /\ UNCHANGED pc /\ "config" \in Places
          /\ fs.root["config"] = 0 => fs'.root["config"] = 0
      BY <1>7, <2>a DEF RemoveRoot, Places, Primary
    <3>2. QED
      BY <2>a, <3>1 DEF IInv, StaleInv
  <2>8. QED
    BY <2>1, <2>2, <2>3, <2>4, <2>5, <2>6, <2>7 DEF IInv
<1>8. CASE AllRemoved(p)
  <2>1. TypeOK'
    BY <1>8, DocumentsAre DEF AllRemoved, IInv, TypeOK, PlaceInv, diskVars
  <2>2. PlaceInv' /\ AgreeInv'
    BY <1>8 DEF AllRemoved, IInv, PlaceInv, AgreeInv, TypeOK, diskVars
  <2>3. DiskInv' /\ EpochInv' /\ FlushInv' /\ StaleInv'
    BY <1>8, SameDisk
    DEF AllRemoved, IInv, PlaceInv, AgreeInv, DiskInv, EpochInv, TypeOK, diskVars
  <2>4. WorkInv'
    BY <1>8, Alone
    DEF AllRemoved, IInv, PlaceInv, AgreeInv, WorkInv, WorkOf, TypeOK, Removed, Durable,
        diskVars
  <2>5. QED
    BY <2>1, <2>2, <2>3, <2>4 DEF IInv
<1>9. CASE SyncRoots(p)
  <2> DEFINE roots == doc[p].roots \cap (Primary \cup present)
  <2>a. /\ disk' \in Disk /\ unflushed' \in BOOLEAN
        /\ disk'.intent = IF roots \cap Primary # {} THEN {fs.intent} ELSE disk.intent
        /\ unflushed' = (unflushed /\ roots \cap Primary = {})
        /\ \A s \in Places :
             disk'.root[s] = IF \/ s \in Primary /\ roots \cap Primary # {}
                                \/ s \notin Primary /\ s \in roots
                             THEN {fs.root[s]} ELSE disk.root[s]
    <3>1. roots \in SUBSET Places /\ Sync(roots)
      BY <1>9, DocumentsAre DEF SyncRoots, IInv, PlaceInv
    <3>2. QED
      BY <3>1, SyncIs DEF IInv
  <2>1. TypeOK'
    BY <1>9, <2>a, DocumentsAre, Alone DEF SyncRoots, IInv, TypeOK
  <2>2. PlaceInv' /\ AgreeInv'
    BY <1>9, <2>a, DocumentsAre, Alone DEF SyncRoots, IInv, PlaceInv, AgreeInv, TypeOK
  <2>3. DiskInv'
    <3>1. UNCHANGED fs
      BY <1>9 DEF SyncRoots
    <3>2. QED
      BY <2>a, <3>1 DEF IInv, DiskInv
  <2>4. EpochInv'
    <3>1. /\ UNCHANGED <<resets, plan>>
          /\ \A q \in Procs : doc'[q] \in {doc[q], None}
      BY <1>9 DEF SyncRoots, IInv, TypeOK
    <3>2. \A r \in Places : disk'.root[r] \subseteq disk.root[r] \cup {0}
      BY <2>a DEF IInv, DiskInv
    <3>3. disk'.intent \subseteq disk.intent \cup {None} \cup {doc[q] : q \in Procs}
      BY <2>a DEF IInv, DiskInv
    <3>4. QED
      BY <3>1, <3>2, <3>3, EpochKeeps
  <2>5. WorkInv'
    <3>1. /\ pc[p] = "sync" /\ doc[p].roots \subseteq Places
          /\ doc[p].roots \cap Cards \subseteq present
          /\ UNCHANGED <<fs, doc, todo, present>>
          /\ pc' = [pc EXCEPT ![p] = "absent"]
      BY <1>9, DocumentsAre DEF SyncRoots, IInv, PlaceInv, WorkInv, WorkOf
    <3>2. \A q \in Procs \ {p} : pc'[q] = pc[q] /\ pc[q] \notin RemovePCs
      BY <3>1, Alone
    <3>3. \A r \in doc[p].roots : Removed(r) /\ Durable(r)'
      BY <2>a, <3>1 DEF IInv, WorkInv, WorkOf, Removed, Durable, Places
    <3>4. WorkOf(p)'
      BY <3>1, <3>3 DEF IInv, WorkInv, WorkOf, Removed, TypeOK
    <3>5. QED
      BY <3>2, <3>4 DEF WorkInv, WorkOf
  <2>6. FlushInv'
    BY <1>9, <2>a, DocumentsAre, Alone
    DEF SyncRoots, IInv, FlushInv, Pending, Removed, Durable, WorkInv, WorkOf, PlaceInv,
        AgreeInv, DiskInv, TypeOK
  <2>7. StaleInv'
    BY <1>9, <2>a, DocumentsAre, Alone
    DEF SyncRoots, IInv, StaleInv, PlaceInv, AgreeInv, WorkInv, WorkOf, Removed, EpochInv,
        TakesAll, TypeOK
  <2>8. QED
    BY <2>1, <2>2, <2>3, <2>4, <2>5, <2>6, <2>7 DEF IInv
<1>10. CASE VerifyAbsent(p)
  <2>1. TypeOK'
    <3>1. CASE pc' = [pc EXCEPT ![p] = "clear"] /\ UNCHANGED <<doc, todo, lock, term>>
      BY <1>10, <3>1 DEF VerifyAbsent, IInv, TypeOK, diskVars
    <3>2. CASE Exit(p)
      BY <1>10, <3>2 DEF VerifyAbsent, IInv, TypeOK, diskVars
    <3>3. QED
      BY <1>10, <3>1, <3>2 DEF VerifyAbsent
  <2>2. PlaceInv' /\ AgreeInv'
    BY <1>10 DEF VerifyAbsent, IInv, PlaceInv, AgreeInv, TypeOK, diskVars
  <2>3. DiskInv' /\ EpochInv' /\ FlushInv' /\ StaleInv'
    BY <1>10, SameDisk
    DEF VerifyAbsent, IInv, PlaceInv, AgreeInv, DiskInv, EpochInv, TypeOK, diskVars
  <2>4. WorkInv'
    BY <1>10, Alone
    DEF VerifyAbsent, IInv, PlaceInv, AgreeInv, WorkInv, WorkOf, TypeOK, Removed, Durable,
        diskVars
  <2>5. QED
    BY <2>1, <2>2, <2>3, <2>4 DEF IInv
<1>11. CASE ClearIntent(p)
  <2>a. /\ fs' \in Tree /\ disk' \in Disk
        /\ fs'.intent = None /\ disk'.intent = disk.intent \cup {None}
        /\ fs'.root = fs.root /\ disk'.root = disk.root
        /\ fs.intent = doc[p] /\ fs.intent # None
    <3>1. fs.intent = doc[p] /\ fs.intent # None
      BY <1>11 DEF ClearIntent, IInv, WorkInv, WorkOf, PlaceInv
    <3>2. SetIntent(None)
      BY <1>11, <3>1 DEF ClearIntent
    <3>3. QED
      BY <3>1, <3>2, SetIntentIs DEF IInv
  <2>1. TypeOK'
    BY <1>11, <2>a, DocumentsAre, Alone DEF ClearIntent, IInv, TypeOK
  <2>2. PlaceInv' /\ AgreeInv'
    BY <1>11, <2>a, DocumentsAre, Alone DEF ClearIntent, IInv, PlaceInv, AgreeInv, TypeOK
  <2>3. DiskInv'
    BY <1>11, <2>a, DocumentsAre, Alone DEF ClearIntent, IInv, DiskInv, PlaceInv, TypeOK
  <2>4. EpochInv'
    BY <1>11, <2>a, EpochKeeps, DocumentsAre DEF ClearIntent, IInv, DiskInv, PlaceInv, TypeOK
  <2>5. WorkInv'
    BY <1>11, <2>a, DocumentsAre, Alone
    DEF ClearIntent, IInv, WorkInv, WorkOf, PlaceInv, AgreeInv, DiskInv, Removed, Durable,
        TypeOK
  <2>6. FlushInv'
    BY <1>11, <2>a, DocumentsAre, Alone
    DEF ClearIntent, IInv, FlushInv, Pending, Removed, Durable, WorkInv, WorkOf, PlaceInv,
        AgreeInv, DiskInv, TypeOK
  <2>7. StaleInv'
    <3>1. doc[p].action # "index-only" => fs.root["config"] = 0
      BY <1>11, <2>a, DocumentsAre
         DEF ClearIntent, IInv, WorkInv, WorkOf, Removed, EpochInv, TakesAll, Primary
    <3>2. /\ pc'["service"] \in {"generate", "running"} => pc'["service"] = pc["service"]
          /\ pc[p] = "clear"
      BY <1>11 DEF ClearIntent, IInv, TypeOK
    <3>3. pc["service"] \notin StartPCs
      BY <2>a DEF IInv, AgreeInv
    <3>4. QED
      BY <2>a, <3>1, <3>2, <3>3 DEF IInv, StaleInv
  <2>8. QED
    BY <2>1, <2>2, <2>3, <2>4, <2>5, <2>6, <2>7 DEF IInv
<1>12. CASE SyncClear(p)
  <2>a. /\ disk' \in Disk /\ unflushed' = FALSE
        /\ disk'.intent = {fs.intent}
        /\ \A s \in Places : disk'.root[s] = IF s \in Primary THEN {fs.root[s]} ELSE disk.root[s]
    BY <1>12, SyncPrimaryIs DEF SyncClear, IInv
  <2>1. TypeOK'
    <3>1. pc' \in [Procs -> PCs] /\ doc' \in [Procs -> Document \cup {None}]
      BY <1>12 DEF SyncClear, IInv, TypeOK
    <3>2. todo' \in [Procs -> SUBSET Places] /\ lock' \in Procs \cup {None} /\ term' \in BOOLEAN
      BY <1>12 DEF SyncClear, IInv, TypeOK
    <3>3. QED
      BY <1>12, <2>a, <3>1, <3>2 DEF SyncClear, IInv, TypeOK
  <2>2. PlaceInv' /\ AgreeInv'
    <3>1. /\ fs.intent = None /\ UNCHANGED <<fs, plan>> /\ pc[p] = "clear-sync" /\ Done(p)
          /\ \A q \in Procs \ {p} : doc[q] = None
          /\ pc \in [Procs -> PCs] /\ doc \in [Procs -> Document \cup {None}]
      BY <1>12, Alone DEF SyncClear, IInv, WorkInv, WorkOf, TypeOK
    <3>2. PlaceInv'
      BY <3>1 DEF IInv, PlaceInv
    <3>3. AgreeInv'
      BY <3>1 DEF IInv, AgreeInv
    <3>4. QED
      BY <3>2, <3>3
  <2>3. DiskInv'
    BY <1>12, <2>a, DocumentsAre, Alone DEF SyncClear, IInv, DiskInv, PlaceInv, TypeOK
  <2>4. EpochInv'
    <3>1. /\ UNCHANGED <<resets, plan>>
          /\ \A q \in Procs : doc'[q] \in {doc[q], None}
      BY <1>12 DEF SyncClear, IInv, TypeOK
    <3>2. \A r \in Places : disk'.root[r] \subseteq disk.root[r] \cup {0}
      BY <2>a DEF IInv, DiskInv
    <3>3. disk'.intent \subseteq disk.intent \cup {None} \cup {doc[q] : q \in Procs}
      BY <2>a DEF IInv, DiskInv
    <3>4. QED
      BY <3>1, <3>2, <3>3, EpochKeeps
  <2>5. WorkInv'
    BY <1>12, <2>a, DocumentsAre, Alone
    DEF SyncClear, IInv, WorkInv, WorkOf, PlaceInv, AgreeInv, DiskInv, Removed, Durable,
        TypeOK
  <2>6. FlushInv'
    BY <1>12, <2>a, DocumentsAre, Alone
    DEF SyncClear, IInv, FlushInv, Pending, Removed, Durable, WorkInv, WorkOf, PlaceInv,
        AgreeInv, DiskInv, TypeOK
  <2>7. StaleInv'
    BY <1>12, <2>a, DocumentsAre, Alone
    DEF SyncClear, IInv, StaleInv, PlaceInv, AgreeInv, WorkInv, WorkOf, Removed, EpochInv,
        TakesAll, TypeOK
  <2>8. QED
    BY <2>1, <2>2, <2>3, <2>4, <2>5, <2>6, <2>7 DEF IInv
<1>13. QED
    BY <1>1, <1>2, <1>3, <1>4, <1>5, <1>6, <1>7, <1>8, <1>9, <1>10, <1>11, <1>12
       DEF RecoverReset, runResetIntent, WriteIntent

\* The service boots, runs, is stopped and waits for a card.
LEMMA ServiceStep ==
    ASSUME IInv, Bootstrap \/ BootCancelled \/ BootExisting \/ GenerateSync \/ GeneratePromote
                   \/ StopRunning \/ WaitTick \/ WaitCancelled \/ RequestStop
                   \/ (\E r \in Places : WriteState(r))
                   \/ (\E action \in Actions : PrepareReset(action))
    PROVE  IInv'
<1> USE ResetAssumption, ValueAssumption
    DEF Carries, NoReset, Goto, Leave, Exit, Done, StartRemoval, Faulty,
        Procs, PCs, ResetPCs, RemovePCs, StartPCs, procVars, envVars
<1>1. CASE Bootstrap
  <2>1. TypeOK'
    BY <1>1, DocumentsAre DEF Bootstrap, IInv, TypeOK, PlaceInv, diskVars
  <2>2. PlaceInv' /\ AgreeInv'
    BY <1>1 DEF Bootstrap, IInv, PlaceInv, AgreeInv, TypeOK, diskVars
  <2>3. DiskInv' /\ EpochInv' /\ FlushInv' /\ StaleInv'
    BY <1>1, SameDisk
    DEF Bootstrap, IInv, PlaceInv, AgreeInv, DiskInv, EpochInv, TypeOK, diskVars
  <2>4. WorkInv'
    BY <1>1, Alone
    DEF Bootstrap, IInv, PlaceInv, AgreeInv, WorkInv, WorkOf, TypeOK, Removed, Durable,
        diskVars
  <2>5. QED
    BY <2>1, <2>2, <2>3, <2>4 DEF IInv
<1>2. CASE BootCancelled
  <2>1. TypeOK'
    BY <1>2, DocumentsAre DEF BootCancelled, IInv, TypeOK, PlaceInv, diskVars
  <2>2. PlaceInv' /\ AgreeInv'
    BY <1>2 DEF BootCancelled, IInv, PlaceInv, AgreeInv, TypeOK, diskVars
  <2>3. DiskInv' /\ EpochInv' /\ FlushInv' /\ StaleInv'
    BY <1>2, SameDisk
    DEF BootCancelled, IInv, PlaceInv, AgreeInv, DiskInv, EpochInv, TypeOK, diskVars
  <2>4. WorkInv'
    BY <1>2, Alone
    DEF BootCancelled, IInv, PlaceInv, AgreeInv, WorkInv, WorkOf, TypeOK, Removed, Durable,
        diskVars
  <2>5. QED
    BY <2>1, <2>2, <2>3, <2>4 DEF IInv
<1>3. CASE BootExisting
  <2>1. TypeOK'
    BY <1>3, DocumentsAre DEF BootExisting, IInv, TypeOK, PlaceInv, diskVars
  <2>2. PlaceInv' /\ AgreeInv'
    BY <1>3 DEF BootExisting, IInv, PlaceInv, AgreeInv, TypeOK, diskVars
  <2>3. DiskInv' /\ EpochInv' /\ FlushInv' /\ StaleInv'
    BY <1>3, SameDisk
    DEF BootExisting, IInv, PlaceInv, AgreeInv, DiskInv, EpochInv, TypeOK, diskVars
  <2>4. WorkInv'
    BY <1>3, Alone
    DEF BootExisting, IInv, PlaceInv, AgreeInv, WorkInv, WorkOf, TypeOK, Removed, Durable,
        diskVars
  <2>5. QED
    BY <2>1, <2>2, <2>3, <2>4 DEF IInv
<1>4. CASE StopRunning
  <2>1. TypeOK'
    BY <1>4, DocumentsAre DEF StopRunning, IInv, TypeOK, PlaceInv, diskVars
  <2>2. PlaceInv' /\ AgreeInv'
    BY <1>4 DEF StopRunning, IInv, PlaceInv, AgreeInv, TypeOK, diskVars
  <2>3. DiskInv' /\ EpochInv' /\ FlushInv' /\ StaleInv'
    BY <1>4, SameDisk
    DEF StopRunning, IInv, PlaceInv, AgreeInv, DiskInv, EpochInv, TypeOK, diskVars
  <2>4. WorkInv'
    BY <1>4, Alone
    DEF StopRunning, IInv, PlaceInv, AgreeInv, WorkInv, WorkOf, TypeOK, Removed, Durable,
        diskVars
  <2>5. QED
    BY <2>1, <2>2, <2>3, <2>4 DEF IInv
<1>5. CASE WaitTick
  <2>1. TypeOK'
    BY <1>5, DocumentsAre DEF WaitTick, IInv, TypeOK, PlaceInv, diskVars
  <2>2. PlaceInv' /\ AgreeInv'
    BY <1>5 DEF WaitTick, IInv, PlaceInv, AgreeInv, TypeOK, diskVars
  <2>3. DiskInv' /\ EpochInv' /\ FlushInv' /\ StaleInv'
    BY <1>5, SameDisk
    DEF WaitTick, IInv, PlaceInv, AgreeInv, DiskInv, EpochInv, TypeOK, diskVars
  <2>4. WorkInv'
    BY <1>5, Alone
    DEF WaitTick, IInv, PlaceInv, AgreeInv, WorkInv, WorkOf, TypeOK, Removed, Durable,
        diskVars
  <2>5. QED
    BY <2>1, <2>2, <2>3, <2>4 DEF IInv
<1>6. CASE WaitCancelled
  <2>1. TypeOK'
    BY <1>6, DocumentsAre DEF WaitCancelled, IInv, TypeOK, PlaceInv, diskVars
  <2>2. PlaceInv' /\ AgreeInv'
    BY <1>6 DEF WaitCancelled, IInv, PlaceInv, AgreeInv, TypeOK, diskVars
  <2>3. DiskInv' /\ EpochInv' /\ FlushInv' /\ StaleInv'
    BY <1>6, SameDisk
    DEF WaitCancelled, IInv, PlaceInv, AgreeInv, DiskInv, EpochInv, TypeOK, diskVars
  <2>4. WorkInv'
    BY <1>6, Alone
    DEF WaitCancelled, IInv, PlaceInv, AgreeInv, WorkInv, WorkOf, TypeOK, Removed, Durable,
        diskVars
  <2>5. QED
    BY <2>1, <2>2, <2>3, <2>4 DEF IInv
<1>7. CASE RequestStop
  <2>1. TypeOK'
    BY <1>7, DocumentsAre DEF RequestStop, IInv, TypeOK, PlaceInv, diskVars
  <2>2. PlaceInv' /\ AgreeInv'
    BY <1>7 DEF RequestStop, IInv, PlaceInv, AgreeInv, TypeOK, diskVars
  <2>3. DiskInv' /\ EpochInv' /\ FlushInv' /\ StaleInv'
    BY <1>7, SameDisk
    DEF RequestStop, IInv, PlaceInv, AgreeInv, DiskInv, EpochInv, TypeOK, diskVars
  <2>4. WorkInv'
    BY <1>7, Alone
    DEF RequestStop, IInv, PlaceInv, AgreeInv, WorkInv, WorkOf, TypeOK, Removed, Durable,
        diskVars
  <2>5. QED
    BY <2>1, <2>2, <2>3, <2>4 DEF IInv
<1>8. CASE GenerateSync
  <2>a. /\ disk' \in Disk /\ unflushed' = FALSE
        /\ disk'.intent = {fs.intent}
        /\ \A s \in Places : disk'.root[s] = IF s \in Primary THEN {fs.root[s]} ELSE disk.root[s]
    BY <1>8, SyncPrimaryIs DEF GenerateSync, IInv
  <2>1. TypeOK'
    BY <1>8, <2>a, DocumentsAre, Alone DEF GenerateSync, IInv, TypeOK
  <2>2. PlaceInv' /\ AgreeInv'
    BY <1>8, <2>a, DocumentsAre, Alone DEF GenerateSync, IInv, PlaceInv, AgreeInv, TypeOK
  <2>3. DiskInv'
    BY <1>8, <2>a, DocumentsAre, Alone DEF GenerateSync, IInv, DiskInv, PlaceInv, TypeOK
  <2>4. EpochInv'
    <3>1. /\ UNCHANGED <<resets, plan>>
          /\ \A q \in Procs : doc'[q] \in {doc[q], None}
      BY <1>8 DEF GenerateSync
    <3>2. \A r \in Places : disk'.root[r] \subseteq disk.root[r] \cup {0}
      BY <2>a DEF IInv, DiskInv
    <3>3. disk'.intent \subseteq disk.intent \cup {None} \cup {doc[q] : q \in Procs}
      BY <2>a DEF IInv, DiskInv
    <3>4. QED
      BY <3>1, <3>2, <3>3, EpochKeeps
  <2>5. WorkInv'
    BY <1>8, <2>a, DocumentsAre, Alone
    DEF GenerateSync, IInv, WorkInv, WorkOf, PlaceInv, AgreeInv, DiskInv, Removed, Durable,
        TypeOK
  <2>6. FlushInv'
    BY <1>8, <2>a, DocumentsAre, Alone
    DEF GenerateSync, IInv, FlushInv, Pending, Removed, Durable, WorkInv, WorkOf, PlaceInv,
        AgreeInv, DiskInv, TypeOK
  <2>7. StaleInv'
    BY <1>8, <2>a, DocumentsAre, Alone
    DEF GenerateSync, IInv, StaleInv, PlaceInv, AgreeInv, WorkInv, WorkOf, Removed, EpochInv,
        TakesAll, TypeOK
  <2>8. QED
    BY <2>1, <2>2, <2>3, <2>4, <2>5, <2>6, <2>7 DEF IInv
<1>9. CASE GeneratePromote
  <2>a. /\ fs' \in Tree /\ disk' \in Disk
        /\ fs'.intent = fs.intent /\ disk'.intent = disk.intent
        /\ \A s \in Places :
             /\ fs'.root[s] = IF s = "config" THEN Now ELSE fs.root[s]
             /\ disk'.root[s] = IF s = "config" THEN disk.root[s] \cup {Now} ELSE disk.root[s]
    <3>1. Now \in Epochs /\ "config" \in Places /\ SetRoot("config", Now)
      BY <1>9 DEF GeneratePromote, IInv, TypeOK, Epochs, Now, Places, Primary
    <3>2. QED
      BY <3>1, SetRootIs DEF IInv
  <2>1. TypeOK'
    BY <1>9, <2>a, DocumentsAre, Alone DEF GeneratePromote, IInv, TypeOK
  <2>2. PlaceInv' /\ AgreeInv'
    BY <1>9, <2>a, DocumentsAre, Alone DEF GeneratePromote, IInv, PlaceInv, AgreeInv, TypeOK
  <2>3. DiskInv'
    BY <1>9, <2>a, DocumentsAre, Alone DEF GeneratePromote, IInv, DiskInv, PlaceInv, TypeOK
  <2>4. EpochInv'
    <3>1. /\ fs.intent = None /\ \A q \in Procs : doc[q] = None
          /\ \A d \in disk.intent \ {None} : d.action = "index-only"
          /\ UNCHANGED <<doc, plan, resets>>
      BY <1>9 DEF GeneratePromote, IInv, AgreeInv, StaleInv
    <3>2. \A s \in Places : \A epoch \in disk'.root[s] : epoch <= Now'
      <4>1. Now' = Now /\ Now <= Now
        BY <3>1 DEF IInv, TypeOK, Now
      <4>2. \A s \in Places : \A epoch \in disk.root[s] \cup {Now} : epoch <= Now'
        BY <4>1 DEF IInv, EpochInv
      <4>3. QED
        BY <2>a, <4>2
    <3>3. QED
      BY <2>a, <3>1, <3>2 DEF IInv, EpochInv, TakesAll, OldRoots
  <2>5. WorkInv'
    BY <1>9, <2>a, DocumentsAre, Alone
    DEF GeneratePromote, IInv, WorkInv, WorkOf, PlaceInv, AgreeInv, DiskInv, Removed,
        Durable, TypeOK
  <2>6. FlushInv'
    <3>1. /\ fs.intent = None /\ \A q \in Procs : doc[q] = None
          /\ Now # 0 /\ UNCHANGED unflushed
          /\ \A q \in Procs : pc'[q] # "intent-sync"
      BY <1>9 DEF GeneratePromote, IInv, AgreeInv, PlaceInv, Now, TypeOK
    <3>2. \A s \in Places : Pending(s)' => Pending(s)
      BY <2>a, <3>1 DEF Pending, Removed, Durable
    <3>3. QED
      BY <2>a, <3>1, <3>2 DEF IInv, FlushInv
  <2>7. StaleInv'
    BY <1>9, <2>a, DocumentsAre, Alone
    DEF GeneratePromote, IInv, StaleInv, PlaceInv, AgreeInv, WorkInv, WorkOf, Removed,
        EpochInv, TakesAll, TypeOK
  <2>8. QED
    BY <2>1, <2>2, <2>3, <2>4, <2>5, <2>6, <2>7 DEF IInv
<1>10. ASSUME NEW r \in Places, WriteState(r)
      PROVE  IInv'
  <2>a. /\ fs' \in Tree /\ disk' \in Disk
        /\ fs'.intent = fs.intent /\ disk'.intent = disk.intent
        /\ \A s \in Places :
             /\ fs'.root[s] = IF s = r THEN Now ELSE fs.root[s]
             /\ disk'.root[s] = IF s = r THEN disk.root[s] \cup {Now} ELSE disk.root[s]
    <3>1. Now \in Epochs /\ r \in Places /\ SetRoot(r, Now)
      BY <1>10 DEF WriteState, IInv, TypeOK, Epochs, Now, Places, Primary
    <3>2. QED
      BY <3>1, SetRootIs DEF IInv
  <2>1. TypeOK'
    BY <1>10, <2>a, DocumentsAre, Alone DEF WriteState, IInv, TypeOK
  <2>2. PlaceInv' /\ AgreeInv'
    BY <1>10, <2>a, DocumentsAre, Alone DEF WriteState, IInv, PlaceInv, AgreeInv, TypeOK
  <2>3. DiskInv'
    BY <1>10, <2>a, DocumentsAre, Alone DEF WriteState, IInv, DiskInv, PlaceInv, TypeOK
  <2>4. EpochInv'
    <3>1. /\ fs.intent = None /\ \A q \in Procs : doc[q] = None
          /\ \A d \in disk.intent \ {None} : d.action = "index-only"
          /\ UNCHANGED <<doc, plan, resets>>
      BY <1>10 DEF WriteState, IInv, AgreeInv, StaleInv
    <3>2. \A s \in Places : \A epoch \in disk'.root[s] : epoch <= Now'
      <4>1. Now' = Now /\ Now <= Now
        BY <3>1 DEF IInv, TypeOK, Now
      <4>2. \A s \in Places : \A epoch \in disk.root[s] \cup {Now} : epoch <= Now'
        BY <4>1 DEF IInv, EpochInv
      <4>3. QED
        BY <2>a, <4>2
    <3>3. QED
      BY <2>a, <3>1, <3>2 DEF IInv, EpochInv, TakesAll, OldRoots
  <2>5. WorkInv'
    BY <1>10, <2>a, DocumentsAre, Alone
    DEF WriteState, IInv, WorkInv, WorkOf, PlaceInv, AgreeInv, DiskInv, Removed, Durable,
        TypeOK
  <2>6. FlushInv'
    <3>1. /\ fs.intent = None /\ \A q \in Procs : doc[q] = None
          /\ Now # 0 /\ UNCHANGED unflushed
          /\ \A q \in Procs : pc'[q] # "intent-sync"
      BY <1>10 DEF WriteState, IInv, AgreeInv, PlaceInv, Now, TypeOK
    <3>2. \A s \in Places : Pending(s)' => Pending(s)
      BY <2>a, <3>1 DEF Pending, Removed, Durable
    <3>3. QED
      BY <2>a, <3>1, <3>2 DEF IInv, FlushInv
  <2>7. StaleInv'
    BY <1>10, <2>a, DocumentsAre, Alone
    DEF WriteState, IInv, StaleInv, PlaceInv, AgreeInv, WorkInv, WorkOf, Removed, EpochInv,
        TakesAll, TypeOK
  <2>8. QED
    BY <2>1, <2>2, <2>3, <2>4, <2>5, <2>6, <2>7 DEF IInv
<1>11. ASSUME NEW action \in Actions, PrepareReset(action)
      PROVE  IInv'
  <2>1. TypeOK'
    <3>1. Roots(action) \in SUBSET Places
      BY RootsAre DEF IInv
    <3>2. plan' \in [action : Actions, roots : SUBSET Places]
      BY <1>11, <3>1 DEF PrepareReset
    <3>3. QED
      BY <1>11, <3>2 DEF PrepareReset, IInv, TypeOK, diskVars
  <2>2. PlaceInv' /\ AgreeInv'
    BY <1>11 DEF PrepareReset, IInv, PlaceInv, AgreeInv, TypeOK, diskVars
  <2>3. DiskInv' /\ EpochInv' /\ FlushInv' /\ StaleInv'
    <3>1. plan' # None => TakesAll(plan')
      BY <1>11, RootsAre DEF PrepareReset, TakesAll, IInv
    <3>2. UNCHANGED <<pc, doc, diskVars, resets>>
      BY <1>11 DEF PrepareReset
    <3>3. QED
      BY <3>1, <3>2, SameDisk DEF IInv, EpochInv
  <2>4. WorkInv'
    BY <1>11, Alone
    DEF PrepareReset, IInv, PlaceInv, AgreeInv, WorkInv, WorkOf, TypeOK, Removed, Durable,
        diskVars
  <2>5. QED
    BY <2>1, <2>2, <2>3, <2>4 DEF IInv
<1>12. QED
    BY <1>1, <1>2, <1>3, <1>4, <1>5, <1>6, <1>7, <1>8, <1>9, <1>10, <1>11

\* The helper checks the service and seals a reset.
LEMMA HelperStep ==
    ASSUME IInv, HelperCheck \/ ExecuteResetPlan
    PROVE  IInv'
<1> USE ResetAssumption, ValueAssumption
    DEF Carries, NoReset, Goto, Leave, Exit, Done, StartRemoval, Faulty,
        Procs, PCs, ResetPCs, RemovePCs, StartPCs, procVars, envVars
<1>1. CASE HelperCheck
  <2>1. TypeOK'
    BY <1>1, DocumentsAre DEF HelperCheck, IInv, TypeOK, PlaceInv, diskVars
  <2>2. PlaceInv' /\ AgreeInv'
    BY <1>1 DEF HelperCheck, IInv, PlaceInv, AgreeInv, TypeOK, diskVars
  <2>3. DiskInv' /\ EpochInv' /\ FlushInv' /\ StaleInv'
    BY <1>1, SameDisk
    DEF HelperCheck, IInv, PlaceInv, AgreeInv, DiskInv, EpochInv, TypeOK, diskVars
  <2>4. WorkInv'
    BY <1>1, Alone
    DEF HelperCheck, IInv, PlaceInv, AgreeInv, WorkInv, WorkOf, TypeOK, Removed, Durable,
        diskVars
  <2>5. QED
    BY <2>1, <2>2, <2>3, <2>4 DEF IInv
<1>2. CASE ExecuteResetPlan
  <2> DEFINE sealed == lock = None /\ plan # None /\ resets < MaxResets
                       /\ (plan.action = "full" => present = Cards)
                       /\ plan.roots = Roots(plan.action)
             document == [id |-> resets + 1, action |-> plan.action, roots |-> plan.roots]
  <2>a. /\ pc["helper"] = "checked" /\ plan' = None
        /\ sealed => /\ lock' = "helper" /\ resets' = resets + 1
                     /\ pc' = [pc EXCEPT !["helper"] = "verify"]
                     /\ doc' = [doc EXCEPT !["helper"] = document]
                     /\ UNCHANGED <<todo, term>>
                     /\ document \in Document /\ document # None
                     /\ lock = None /\ plan # None /\ resets < MaxResets
        /\ ~sealed => Exit("helper") /\ UNCHANGED resets
        /\ UNCHANGED <<fs, disk, unflushed, present, faults>>
    BY <1>2 DEF ExecuteResetPlan, Document, IInv, TypeOK, diskVars
  <2>b. document.id = resets + 1 /\ document.action = plan.action /\ document.roots = plan.roots
    OBVIOUS
  <2> HIDE DEF sealed, document
  <2>1. CASE ~sealed
    <3>1. TypeOK'
      BY <2>a, <2>1 DEF IInv, TypeOK
    <3>2. PlaceInv' /\ AgreeInv'
      BY <2>a, <2>1 DEF IInv, PlaceInv, AgreeInv, TypeOK
    <3>3. DiskInv' /\ EpochInv' /\ FlushInv' /\ StaleInv'
      BY <2>a, <2>1, SameDisk DEF IInv, PlaceInv, EpochInv, TypeOK, diskVars
    <3>4. WorkInv'
      BY <2>a, <2>1 DEF IInv, PlaceInv, WorkInv, WorkOf, TypeOK, Removed, Durable
    <3>5. QED
      BY <3>1, <3>2, <3>3, <3>4 DEF IInv
  <2>2. CASE sealed
    <3>1. TypeOK'
      BY <2>a, <2>2 DEF IInv, TypeOK
    <3>2. pc["service"] \in {"off", "start"} /\ \A q \in Procs : doc[q] = None
      BY <2>a, <2>2 DEF IInv, PlaceInv, AgreeInv, TypeOK
    <3>3. PlaceInv' /\ AgreeInv'
      BY <2>a, <2>2, <3>2 DEF IInv, PlaceInv, AgreeInv, TypeOK
    <3>4. EpochInv'
      <4>1. \A r \in Places : \A epoch \in disk.root[r] : epoch <= document.id /\ epoch <= Now'
        BY <2>a, <2>b, <2>2, DocumentsAre DEF IInv, EpochInv, Now, TypeOK
      <4>2. TakesAll(document) /\ OldRoots(document)
        BY <2>a, <2>b, <2>2, <4>1, DocumentsAre DEF IInv, EpochInv, TakesAll, OldRoots
      <4>3. \A q \in Procs : doc'[q] # None => doc'[q] = document
        BY <2>a, <2>2, <3>2 DEF IInv, TypeOK
      <4>4. QED
        BY <2>a, <4>1, <4>2, <4>3 DEF IInv, EpochInv, TakesAll, OldRoots
    <3>5. DiskInv' /\ StaleInv'
      BY <2>a, <2>2 DEF IInv, DiskInv, StaleInv, TypeOK
    <3>6. FlushInv'
      BY <2>a, <2>2 DEF IInv, FlushInv, TypeOK, Pending, Removed, Durable
    <3>7. WorkInv'
      BY <2>a, <2>2, <3>2 DEF IInv, PlaceInv, WorkInv, WorkOf, TypeOK, Removed, Durable
    <3>8. QED
      BY <3>1, <3>3, <3>4, <3>5, <3>6, <3>7 DEF IInv
  <2>3. QED
    BY <2>1, <2>2
<1>3. QED
    BY <1>1, <1>2

\* A process ends, the power is lost, the cards change.
LEMMA EnvironmentStep ==
    ASSUME IInv, (\E p \in Procs : Abort(p)) \/ PowerLoss
                   \/ (\E c \in Cards : CardOut(c) \/ CardIn(c))
    PROVE  IInv'
<1> USE ResetAssumption, ValueAssumption
    DEF Carries, NoReset, Goto, Leave, Exit, Done, StartRemoval, Faulty,
        Procs, PCs, ResetPCs, RemovePCs, StartPCs, procVars, envVars
<1>1. ASSUME NEW p \in Procs, Abort(p)
      PROVE  IInv'
  <2>1. TypeOK'
    BY <1>1 DEF Abort, IInv, TypeOK
  <2>2. PlaceInv' /\ AgreeInv'
    BY <1>1 DEF Abort, IInv, PlaceInv, AgreeInv, TypeOK
  <2>3. DiskInv'
    BY <1>1 DEF Abort, IInv, DiskInv
  <2>4. EpochInv'
    BY <1>1, EpochKeeps DEF Abort, IInv, TypeOK
  <2>5. FlushInv'
    BY <1>1 DEF Abort, IInv, FlushInv, Pending, Removed, Durable, TypeOK
  <2>6. StaleInv'
    BY <1>1 DEF Abort, IInv, StaleInv, TypeOK
  <2>7. WorkInv'
    BY <1>1 DEF Abort, IInv, PlaceInv, WorkInv, WorkOf, TypeOK, Removed, Durable
  <2>8. QED
    BY <2>1, <2>2, <2>3, <2>4, <2>5, <2>6, <2>7 DEF IInv
<1>2. CASE PowerLoss
  <2>a. /\ fs' \in Tree /\ disk' \in Disk
        /\ fs'.intent \in disk.intent /\ disk'.intent = {fs'.intent}
        /\ \A r \in Places : fs'.root[r] \in disk.root[r] /\ disk'.root[r] = {fs'.root[r]}
    <3>1. PICK intent \in disk.intent, root \in [Places -> UNION {disk.root[r] : r \in Places}] :
            /\ \A r \in Places : root[r] \in disk.root[r]
            /\ fs' = [intent |-> intent, root |-> root]
            /\ disk' = [intent |-> {intent}, root |-> [r \in Places |-> {root[r]}]]
      BY <1>2 DEF PowerLoss
    <3>2. \A r \in Places : root[r] \in Epochs
      BY <3>1 DEF IInv, TypeOK, Disk
    <3>3. intent \in Document \cup {None} /\ root \in [Places -> Epochs]
      BY <3>1, <3>2 DEF IInv, TypeOK, Disk
    <3>4. QED
      BY <3>1, <3>3 DEF Tree, Disk
  <2>1. TypeOK'
    <3>1. /\ pc' \in [Procs -> PCs] /\ doc' \in [Procs -> Document \cup {None}]
          /\ todo' \in [Procs -> SUBSET Places] /\ unflushed' \in BOOLEAN
          /\ lock' = None /\ plan' = None /\ term' = FALSE
          /\ UNCHANGED <<present, resets>>
      BY <1>2 DEF PowerLoss
    <3>a. faults' \in 0..MaxFaults
      BY <1>2 DEF PowerLoss, IInv, TypeOK
    <3>2. QED
      BY <2>a, <3>1, <3>a DEF IInv, TypeOK
  <2>2. PlaceInv' /\ AgreeInv' /\ WorkInv'
    BY <1>2 DEF PowerLoss, PlaceInv, AgreeInv, WorkInv, WorkOf
  <2>3. DiskInv' /\ StaleInv'
    BY <2>a DEF DiskInv, StaleInv
  <2>4. EpochInv'
    <3>1. UNCHANGED resets /\ plan' = None /\ \A q \in Procs : doc'[q] = None
      BY <1>2 DEF PowerLoss
    <3>2. QED
      BY <2>a, <3>1, EpochKeeps
  <2>5. FlushInv'
    BY <1>2, <2>a DEF PowerLoss, FlushInv, Pending, Removed, Durable
  <2>6. QED
    BY <2>1, <2>2, <2>3, <2>4, <2>5 DEF IInv
<1>3. ASSUME NEW c \in Cards, CardOut(c)
      PROVE  IInv'
  <2>a. /\ fs' \in Tree /\ disk' \in Disk
        /\ fs'.intent = fs.intent /\ disk'.intent = disk.intent
        /\ \A r \in Places \ {c} : fs'.root[r] = fs.root[r] /\ disk'.root[r] = disk.root[r]
        /\ fs'.root[c] \in disk.root[c] /\ disk'.root[c] = {fs'.root[c]}
        /\ c \in Places /\ c \notin Primary
    <3>1. PICK epoch \in disk.root[c] : /\ fs' = [fs EXCEPT !.root[c] = epoch]
                                        /\ disk' = [disk EXCEPT !.root[c] = {epoch}]
      BY <1>3 DEF CardOut, Unplug
    <3>2. /\ [fs.root EXCEPT ![c] = epoch] \in [Places -> Epochs]
          /\ [disk.root EXCEPT ![c] = {epoch}] \in [Places -> SUBSET Epochs]
          /\ c \in Places /\ c \notin Primary
      BY <3>1 DEF IInv, TypeOK, Tree, Disk, Places
    <3>3. /\ fs' = [fs EXCEPT !.root = [fs.root EXCEPT ![c] = epoch]]
          /\ disk' = [disk EXCEPT !.root = [disk.root EXCEPT ![c] = {epoch}]]
      BY <3>1 DEF IInv, TypeOK, Tree, Disk
    <3>4. fs' \in Tree /\ disk' \in Disk
      BY <3>2, <3>3 DEF IInv, TypeOK, Tree, Disk
    <3>5. /\ fs'.intent = fs.intent /\ disk'.intent = disk.intent
          /\ fs'.root = [fs.root EXCEPT ![c] = epoch]
          /\ disk'.root = [disk.root EXCEPT ![c] = {epoch}]
      BY <3>3 DEF IInv, TypeOK, Tree, Disk
    <3>6. QED
      BY <3>1, <3>2, <3>4, <3>5 DEF IInv, TypeOK, Tree, Disk
  <2>b. /\ UNCHANGED <<pc, doc, todo, lock, unflushed, resets, plan, term>>
        /\ present' = present \ {c} /\ Settled(c) /\ faults' \in 0..MaxFaults
    BY <1>3 DEF CardOut, Unplug, IInv, TypeOK
  <2>1. TypeOK' /\ PlaceInv' /\ AgreeInv'
    BY <2>a, <2>b DEF IInv, TypeOK, PlaceInv, AgreeInv
  <2>2. DiskInv' /\ StaleInv'
    <3>1. "config" \in Primary /\ \A r \in Primary : r \in Places /\ r # c
      BY <2>a DEF Primary, Places
    <3>2. fs'.root["config"] = fs.root["config"]
      BY <2>a, <3>1
    <3>3. QED
      BY <2>a, <2>b, <3>2 DEF IInv, DiskInv, StaleInv
  <2>3. EpochInv'
    <3>1. \A q \in Procs : doc'[q] \in {doc[q], None}
      BY <2>b
    <3>2. \A r \in Places : disk'.root[r] \subseteq disk.root[r] \cup {0}
      BY <2>a
    <3>3. QED
      BY <2>a, <2>b, <3>1, <3>2, EpochKeeps
  <2>4. FlushInv'
    BY <2>a, <2>b DEF IInv, FlushInv, Pending, Removed, Durable
  <2>5. WorkInv'
    <3>1. SUFFICES ASSUME NEW q \in Procs PROVE WorkOf(q)'
      BY DEF WorkInv
    <3>2. pc[q] \in RemovePCs => c \notin doc[q].roots /\ doc[q].roots \subseteq Places
      BY <2>b, DocumentsAre DEF Settled, IInv, PlaceInv
    <3>3. QED
      BY <2>a, <2>b, <3>2 DEF IInv, WorkInv, WorkOf, Removed, Durable
  <2>6. QED
    BY <2>1, <2>2, <2>3, <2>4, <2>5 DEF IInv
<1>4. ASSUME NEW c \in Cards, CardIn(c)
      PROVE  IInv'
  <2>1. TypeOK'
    BY <1>4, DocumentsAre DEF CardIn, IInv, TypeOK, PlaceInv, diskVars
  <2>2. PlaceInv' /\ AgreeInv'
    BY <1>4 DEF CardIn, IInv, PlaceInv, AgreeInv, TypeOK, diskVars
  <2>3. DiskInv' /\ EpochInv' /\ FlushInv' /\ StaleInv'
    BY <1>4, SameDisk DEF CardIn, IInv, PlaceInv, AgreeInv, DiskInv, EpochInv, TypeOK, diskVars
  <2>4. WorkInv'
    BY <1>4, Alone
    DEF CardIn, IInv, PlaceInv, AgreeInv, WorkInv, WorkOf, TypeOK, Removed, Durable, diskVars
  <2>5. QED
    BY <2>1, <2>2, <2>3, <2>4 DEF IInv
<1>5. QED
    BY <1>1, <1>2, <1>3, <1>4

LEMMA StepInv == IInv /\ [Next]_vars => IInv'
<1> SUFFICES ASSUME IInv, [Next]_vars PROVE IInv'
    OBVIOUS
<1>1. CASE UNCHANGED vars
    BY <1>1 DEF vars, procVars, diskVars, envVars, IInv, TypeOK, PlaceInv, AgreeInv, DiskInv,
       EpochInv, WorkInv, WorkOf, FlushInv, StaleInv, TakesAll, OldRoots, Pending, Removed,
       Durable, Carries, NoReset, Now
<1>2. QED
    BY <1>1, RecoverStep, ServiceStep, HelperStep, EnvironmentStep
       DEF Next, Service, RecoverReset, Procs

LEMMA Inductive == Spec => []IInv
BY InitInv, StepInv, PTL DEF Spec

-----------------------------------------------------------------------------
(* Theorems.                                                                *)

\* While the service boots or runs there is no intent and no process carries one
\* out, although the service that waits for a card recovers without the lock
\* (Bootstrap, waitForResetRecovery, RecoverReset).
THEOREM StartSafety == Spec => []NothingStartsDuringReset
<1>1. IInv => NothingStartsDuringReset
    BY DEF IInv, PlaceInv, AgreeInv, NothingStartsDuringReset, NoReset, Carries,
       RemovePCs, StartPCs, Procs
<1>2. QED
    BY <1>1, Inductive, PTL

\* No intent for more than the index that the disk may have declares contents made
\* after it, in whatever order the filesystems wrote: what a power loss makes a
\* start-up recover twice destroys no newer identity, state or history.
THEOREM IntentSafety == Spec => []IntentInv
<1>1. IInv => IntentInv
    BY DEF IInv, EpochInv, OldRoots, IntentInv, IntentNamesOldState
<1>2. QED
    BY <1>1, Inductive, PTL

\* A removal that a power loss may leave is named by an intent that it leaves too,
\* unless the process that wrote the intent ended before its flush
\* (writeResetDocument, runResetIntent).
THEOREM AnnouncementSafety == Spec => []RemovalIsAnnounced
<1>1. IInv => RemovalIsAnnounced
  <2> SUFFICES ASSUME IInv, ~unflushed, NEW r \in Places, fs.root[r] = 0, disk.root[r] # {0}
               PROVE  fs.intent # None /\ disk.intent = {fs.intent} /\ r \in fs.intent.roots
    BY DEF RemovalIsAnnounced, Announced
  <2>1. Pending(r)
    BY DEF Pending, Removed, Durable
  <2>2. QED
    BY <2>1 DEF IInv, FlushInv
<1>2. QED
    BY <1>1, Inductive, PTL

\* An intent that was there is gone after a step of two kinds only.
LEMMA IntentGone ==
    ASSUME IInv, Next, fs.intent # None, fs.intent' = None
    PROVE  (\E p \in Procs : pc[p] = "clear") \/ None \in disk.intent
<1>1. CASE \E p \in Procs : ClearIntent(p)
    BY <1>1 DEF ClearIntent
<1>2. CASE PowerLoss
    BY <1>2 DEF PowerLoss
<1>3. CASE \E p \in Procs : WriteIntent(p)
    BY <1>3 DEF WriteIntent
<1>4. CASE GeneratePromote \/ \E r \in Places : WriteState(r)
    BY <1>4 DEF GeneratePromote, WriteState, SetRoot, IInv, TypeOK, Tree
<1>5. CASE \E p \in Procs, r \in Places : RemoveRoot(p, r)
    BY <1>5 DEF RemoveRoot, SetRoot, IInv, TypeOK, Tree
<1>6. CASE \E c \in Cards : CardOut(c)
    BY <1>6 DEF CardOut, Unplug, IInv, TypeOK, Tree
<1>7. CASE UNCHANGED fs
    BY <1>7
<1>8. QED
    BY <1>1, <1>2, <1>3, <1>4, <1>5, <1>6, <1>7
       DEF Next, Service, RecoverReset, runResetIntent, ReadIntent, VerifyCards,
           SyncIntent, AllRemoved, SyncRoots, VerifyAbsent, SyncClear,
           Bootstrap, BootCancelled, BootExisting, GenerateSync, StopRunning,
           WaitTick, WaitCancelled, RequestStop, CardIn, PrepareReset, HelperCheck,
           ExecuteResetPlan, Abort, Procs, diskVars

\* When a durable intent is cleared no root it declares is left on any disk: the
\* process that clears it removed and flushed them, and the cards it verified are
\* still there (runResetIntent).
THEOREM CompletionSafety == Spec => ClearedResetIsComplete
<1> DEFINE Complete == fs.intent # None /\ disk.intent = {fs.intent} /\ fs.intent' = None =>
         \A r \in fs.intent.roots : disk.root[r] = {0}
<1>1. IInv /\ [Next]_vars => [Complete]_vars
  <2> SUFFICES ASSUME IInv, Next, fs.intent # None, disk.intent = {fs.intent}, fs.intent' = None,
                      NEW r \in fs.intent.roots
               PROVE  disk.root[r] = {0}
    OBVIOUS
  <2>1. PICK p \in Procs : pc[p] = "clear"
    BY IntentGone
  <2>2. doc[p] = fs.intent
    BY <2>1 DEF IInv, WorkInv, WorkOf, RemovePCs
  <2>3. QED
    BY <2>1, <2>2 DEF IInv, WorkInv, WorkOf, Durable
<1>2. Spec => [][Complete]_vars
    BY <1>1, Inductive, PTL DEF Spec
<1>3. QED
    BY <1>2 DEF ClearedResetIsComplete

\* One reset at a time: one process at most carries one out, with the lock or without
\* it, and it is the one that the intent on the primary filesystem declares.
OneReset ==
    /\ \A p, q \in Procs : doc[p] # None /\ doc[q] # None => p = q
    /\ \A p \in Procs : doc[p] # None /\ fs.intent # None => doc[p] = fs.intent

\* The service that waits for a card recovers without the lock, but never beside the
\* helper: a plan is sealed only when no reset is under way (PrepareReset,
\* ExecuteResetPlan, waitForResetRecovery).
THEOREM OneResetSafety == Spec => []OneReset
<1>1. IInv => OneReset
    BY DEF IInv, PlaceInv, AgreeInv, OneReset, Carries, Procs, RemovePCs
<1>2. QED
    BY <1>1, Inductive, PTL

\* A root is removed only if the document declares it, and never, but for an index
\* that can be derived again, with contents that were made after the document.
RemovesOldOnly ==
    \A p \in Procs, r \in Places :
        RemoveRoot(p, r) =>
            r \in doc[p].roots /\ (doc[p].action # "index-only" => fs.root[r] <= doc[p].id)

\* Whichever process removes a root, also one that recovers an intent which a power
\* loss brought back after it was cleared (removeDeclaredPath, runResetIntent).
THEOREM RemovalSafety == Spec => [][RemovesOldOnly]_vars
<1>1. IInv => RemovesOldOnly
  <2> SUFFICES ASSUME IInv, NEW p \in Procs, NEW r \in Places, RemoveRoot(p, r)
               PROVE  r \in doc[p].roots /\ (doc[p].action # "index-only" => fs.root[r] <= doc[p].id)
    BY DEF RemovesOldOnly
  <2>1. pc[p] = "remove" /\ r \in todo[p]
    BY DEF RemoveRoot
  <2>2. r \in doc[p].roots /\ doc[p] # None
    BY <2>1 DEF IInv, WorkInv, WorkOf, PlaceInv, Carries, RemovePCs
  <2>3. OldRoots(doc[p]) /\ fs.root[r] \in disk.root[r]
    BY <2>2 DEF IInv, EpochInv, DiskInv
  <2>4. QED
    BY <2>2, <2>3 DEF OldRoots
<1>2. QED
    BY <1>1, Inductive, PTL
=============================================================================
