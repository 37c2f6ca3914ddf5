------------------------------- MODULE Cards -------------------------------
(***************************************************************************)
(* Physical-card identities and the registry that remembers them           *)
(* (internal/cards/cards.go, registry.go), as loadCards and card.enroll    *)
(* use them: InspectSources followed by ReconcileRegistry, from the one UI *)
(* handler that runs at a time and from the run loop on game.check, with   *)
(* no lock between the two.                                                *)
(*                                                                         *)
(* The cards and the primary filesystem, which has the registry, are FAT   *)
(* filesystems and give no order: until the next syncfs a name may stand   *)
(* on the medium for whatever it stood for since the last one,             *)
(* independently of the other names.  A file's contents reach the medium   *)
(* with its fsync.                                                         *)
(***************************************************************************)
EXTENDS Naturals, Sequences, FiniteSets, TLC

CONSTANTS
    Cards,      \* physical cards
    Slots,      \* bound: cards mounted at once
    Actors,     \* the UI handler and the run loop
    UI,         \* the one that enrolls
    Nobody,
    MaxCards,   \* maxRegistryCards
    MaxIDs,     \* bound: identities drawn
    MaxFaults   \* bound: failures, cards pulled out, power losses, overlaps

ASSUME CardsAssumption ==
    /\ UI \in Actors /\ Nobody \notin Actors \cup Cards /\ IsFiniteSet(Actors)
    /\ {Slots, MaxCards, MaxIDs, MaxFaults} \subseteq Nat

IDs == 1..MaxIDs
NoID == 0

VARIABLES
    mounted,
    ident,      \* card -> card-id, NoID when there is none
    identTmp,   \* cards with a card-id.tmp
    identDisk,  \* card -> the card-ids a power cut could leave
    drawn,      \* identities drawn so far
    reg,        \* cards-v1.json, .tmp and .bak
    regDisk,    \* for each of the three, the files a power cut could leave
    actor,
    reported,   \* history: card -> the identity the program reported
    strayed,    \* history: card -> identities reported of it after a syncfs that missed it
    known,      \* history: identities a successful reconciliation recorded
    spoiled,    \* history: reconciliations overlapped, or power was lost amid a write
    faults

cardVars == <<mounted, ident, identTmp, identDisk, drawn>>
regVars == <<reg, regDisk>>
history == <<reported, strayed, known, spoiled>>
vars == <<cardVars, regVars, actor, history, faults>>

(***************************************************************************)
(* The registry's files.  A file that is not yet written keeps the actor   *)
(* that created it, who writes to it under whatever name it has by then.   *)
(***************************************************************************)
Names == {"path", "tmp", "bak"}
File == [is : {"absent", "torn", "whole"}, ids : SUBSET IDs, by : Actors \cup {Nobody}]
Absent == [is |-> "absent", ids |-> {}, by |-> Nobody]
Torn(a) == [is |-> "torn", ids |-> {}, by |-> a]
Whole(ids) == [is |-> "whole", ids |-> ids, by |-> Nobody]

Exists(f) == f.is # "absent"
\* readRegistry without an error, on a file that exists
Good(f) == f.is = "whole" /\ Cardinality(f.ids) <= MaxCards

\* the change and what the medium may hold afterwards
Change(r) == reg' = r /\ regDisk' = [n \in Names |-> regDisk[n] \cup {r[n]}]
Renamed(from, to) == [reg EXCEPT ![to] = reg[from], ![from] = Absent]
SyncRegistry == regDisk' = [n \in Names |-> {reg[n]}] /\ UNCHANGED reg
\* f takes the place of the unwritten files of the actors A, under every name
Filled(old, A, f) == IF old.is = "torn" /\ old.by \in A THEN f ELSE old
Rewrite(A, f) ==
    /\ reg' = [n \in Names |-> Filled(reg[n], A, f)]
    /\ regDisk' = [n \in Names |-> {Filled(old, A, f) : old \in regDisk[n]}]

\* what a power cut could leave of the three
Possible ==
    {r \in [Names -> UNION {regDisk[n] : n \in Names}] : \A n \in Names : r[n] \in regDisk[n]}

(***************************************************************************)
(* recoverRegistry: what the three files, as read, are taken for, the ones *)
(* it removes and the cards it starts from.                                *)
(***************************************************************************)
Verdict(r) ==
    CASE Good(r["path"])                                                        -> "current"
      [] ~Good(r["path"]) /\ Good(r["bak"])                                     -> "backup"
      [] ~Exists(r["path"]) /\ ~Exists(r["bak"]) /\ Exists(r["tmp"])            -> "initial"
      [] \A n \in Names : ~Exists(r[n])                                         -> "empty"
      [] OTHER                                                                  -> "lost"

Discards(r) ==
    LET discard(n, unwanted) == IF Exists(r[n]) /\ unwanted THEN <<n>> ELSE <<>>
    IN  discard("path", Verdict(r) = "backup") \o discard("tmp", TRUE)
          \o discard("bak", Verdict(r) = "current" /\ ~Good(r["bak"]))

Recovered(r) ==
    CASE Verdict(r) = "current" -> r["path"].ids
      [] Verdict(r) = "backup"  -> r["bak"].ids
      [] OTHER                  -> {}

(***************************************************************************)
(* The actors.                                                             *)
(***************************************************************************)
PCs == {"idle", "inspect", "believe", "path", "tmp", "bak", "clean", "confirm", "merge",
        "fill", "dropBak", "backUp", "promote", "flush", "validate",
        "enrollTmp", "enrollPromote", "enrollSync"}
\* todo: cards to inspect; card, id, gone: the card at hand, the identity read or made,
\* and whether it was pulled out since; live: identities seen mounted; seen: the files as
\* read; discard, restore: what recovery has left to do; recs: the cards to record;
\* write: may they differ
ActorState == [pc : PCs, todo : SUBSET Cards, card : Cards \cup {Nobody}, id : IDs \cup {NoID},
               gone : BOOLEAN, live : SUBSET IDs, seen : [Names -> File],
               discard : Seq(Names), restore : BOOLEAN, recs : SUBSET IDs, write : SUBSET BOOLEAN]
NoFiles == [n \in Names |-> Absent]
Idle == [pc |-> "idle", todo |-> {}, card |-> Nobody, id |-> NoID, gone |-> FALSE,
         live |-> {}, seen |-> NoFiles,
         discard |-> <<>>, restore |-> FALSE, recs |-> {}, write |-> {}]

At(a, pc) == actor[a].pc = pc
Goes(a, pc) == actor' = [actor EXCEPT ![a].pc = pc]
Returns(a) == actor' = [actor EXCEPT ![a] = Idle]
Reconciling(a) == actor[a].pc \in {"tmp", "bak", "clean", "confirm", "merge", "fill",
                                   "dropBak", "backUp", "promote", "flush", "validate"}

\* what the bound counts
Faulty == faults < MaxFaults /\ faults' = faults + 1

Init ==
    /\ mounted = {}
    /\ ident = [c \in Cards |-> NoID] /\ identTmp = {}
    /\ identDisk = [c \in Cards |-> {NoID}] /\ drawn = 0
    /\ reg = NoFiles /\ regDisk = [n \in Names |-> {Absent}]
    /\ actor = [a \in Actors |-> Idle]
    /\ reported = [c \in Cards |-> NoID]
    /\ strayed = [c \in Cards |-> {}] /\ known = {} /\ spoiled = FALSE /\ faults = 0

(***************************************************************************)
(* InspectSources: the mount table is read once, then the cards are        *)
(* inspected one after the other; inspectSource.                           *)
(***************************************************************************)
InspectSources(a) ==
    /\ At(a, "idle")
    /\ actor' = [actor EXCEPT ![a].pc = "inspect", ![a].todo = mounted]
    /\ UNCHANGED <<cardVars, regVars, history>>

\* discardTemporary, which flushes if it finds one
DiscardTemporary(c) ==
    /\ identTmp' = identTmp \ {c}
    /\ identDisk' = IF c \in identTmp THEN [identDisk EXCEPT ![c] = {ident[c]}] ELSE identDisk

\* readIdentity; a card that is no longer there has none
ReadIdentity(a, c) ==
    /\ At(a, "inspect") /\ c \in actor[a].todo
    /\ IF c \in mounted THEN DiscardTemporary(c) ELSE UNCHANGED <<identTmp, identDisk>>
    /\ actor' = IF c \in mounted /\ ident[c] # NoID
                THEN [actor EXCEPT ![a].pc = "believe", ![a].todo = @ \ {c},
                                   ![a].card = c, ![a].id = ident[c]]
                ELSE [actor EXCEPT ![a].todo = @ \ {c}]
    /\ UNCHANGED <<mounted, ident, drawn, regVars, history>>

\* the identity at hand is reported after a syncfs, which misses the card when that was
\* pulled out: the mount point can still be opened
Flushed(a) ==
    LET c == actor[a].card
        id == actor[a].id
    IN  /\ identDisk' = IF c \in mounted THEN [identDisk EXCEPT ![c] = {ident[c]}] ELSE identDisk
        /\ reported' = [reported EXCEPT ![c] = id]
        /\ strayed' = [strayed EXCEPT ![c] = IF actor[a].gone THEN @ \cup {id} ELSE @ \ {id}]

\* mutant: an identity is believed before it is flushed
BelieveUnflushed(a) ==
    /\ At(a, "believe")
    /\ reported' = [reported EXCEPT ![actor[a].card] = actor[a].id]
    /\ actor' = [actor EXCEPT ![a].pc = "inspect", ![a].live = @ \cup {actor[a].id},
                              ![a].card = Nobody, ![a].id = NoID, ![a].gone = FALSE]
    /\ UNCHANGED <<cardVars, regVars, strayed, known, spoiled>>

Believe(a) ==
    /\ At(a, "believe")
    /\ Flushed(a)
    /\ actor' = [actor EXCEPT ![a].pc = "inspect", ![a].live = @ \cup {actor[a].id},
                              ![a].card = Nobody, ![a].id = NoID, ![a].gone = FALSE]
    /\ UNCHANGED <<mounted, ident, identTmp, drawn, regVars, known, spoiled>>

Inspected(a) ==
    /\ At(a, "inspect") /\ actor[a].todo = {}
    /\ Goes(a, "path")
    /\ UNCHANGED <<cardVars, regVars, history>>

Inspect(a) ==
    InspectSources(a) \/ (\E c \in Cards : ReadIdentity(a, c)) \/ Believe(a) \/ Inspected(a)

(***************************************************************************)
(* ReconcileRegistry.                                                      *)
(***************************************************************************)
Read(a, n, pc) ==
    /\ actor' = [actor EXCEPT ![a].pc = pc, ![a].seen[n] = reg[n]]
    /\ UNCHANGED <<cardVars, regVars, reported, strayed, known>>

ReadPath(a) ==
    /\ At(a, "path") /\ Read(a, "path", "tmp")
    /\ IF \E b \in Actors : Reconciling(b) THEN spoiled' = TRUE /\ Faulty
       ELSE UNCHANGED <<spoiled, faults>>
ReadTmp(a) == At(a, "tmp") /\ Read(a, "tmp", "bak") /\ UNCHANGED <<spoiled, faults>>

\* A card not yet recorded makes a difference to write down; for one that is, its
\* slot or its retained size may.
Writes(live, recs) ==
    IF live = {} THEN {FALSE} ELSE IF live \subseteq recs THEN BOOLEAN ELSE {TRUE}

ReadBak(a) ==
    /\ At(a, "bak")
    /\ LET r == [actor[a].seen EXCEPT !["bak"] = reg["bak"]]
       IN  actor' = [actor EXCEPT ![a] =
              IF Verdict(r) = "lost" THEN Idle
              ELSE [Idle EXCEPT !.pc = IF Verdict(r) = "empty" THEN "merge" ELSE "clean",
                                !.discard = Discards(r), !.restore = (Verdict(r) = "backup"),
                                !.recs = Recovered(r) \cup actor[a].live,
                                !.write = Writes(actor[a].live, Recovered(r))]]
    /\ UNCHANGED <<cardVars, regVars, history>>

\* removeRegular: an error when the file has gone since it was read
Discard(a) ==
    /\ At(a, "clean") /\ actor[a].discard # <<>>
    /\ LET n == Head(actor[a].discard)
       IN  IF Exists(reg[n])
           THEN /\ Change([reg EXCEPT ![n] = Absent])
                /\ actor' = [actor EXCEPT ![a].discard = Tail(@)]
           ELSE Returns(a) /\ UNCHANGED <<reg, regDisk>>
    /\ UNCHANGED <<cardVars, history>>

\* a usable backup takes the place of the registry
Restore(a) ==
    /\ At(a, "clean") /\ actor[a].discard = <<>>
    /\ IF ~actor[a].restore THEN Goes(a, "confirm") /\ UNCHANGED <<reg, regDisk>>
       ELSE IF Exists(reg["bak"]) THEN Goes(a, "confirm") /\ Change(Renamed("bak", "path"))
       ELSE Returns(a) /\ UNCHANGED <<reg, regDisk>>
    /\ UNCHANGED <<cardVars, history>>

Confirm(a) ==
    /\ At(a, "confirm")
    /\ SyncRegistry
    /\ actor' = [actor EXCEPT ![a].pc = "merge", ![a].restore = FALSE]
    /\ UNCHANGED <<cardVars, history>>

Unchanged(a) ==
    /\ At(a, "merge") /\ FALSE \in actor[a].write
    /\ known' = known \cup actor[a].recs
    /\ Returns(a)
    /\ UNCHANGED <<cardVars, regVars, reported, strayed, spoiled>>

\* writeRegistry, of the remembered cards and the ones now seen
Create(a) ==
    /\ At(a, "merge") /\ TRUE \in actor[a].write
    /\ IF Exists(reg["tmp"]) THEN Returns(a) /\ UNCHANGED <<reg, regDisk>>
       ELSE Goes(a, "fill") /\ Change([reg EXCEPT !["tmp"] = Torn(a)])
    /\ UNCHANGED <<cardVars, history>>

\* io.Copy and Sync, to the file this actor opened, wherever it is by now
Fill(a) ==
    /\ At(a, "fill")
    /\ Rewrite({a}, Whole(actor[a].recs))
    /\ Goes(a, "dropBak")
    /\ UNCHANGED <<cardVars, history>>

DropBackup(a) ==
    /\ At(a, "dropBak")
    /\ Change([reg EXCEPT !["bak"] = Absent])
    /\ Goes(a, "backUp")
    /\ UNCHANGED <<cardVars, history>>

\* mutant: the old registry is removed to make room for the new one
BackUpRemoves(a) ==
    /\ At(a, "backUp")
    /\ IF Exists(reg["path"]) /\ ~Good(reg["path"]) THEN Returns(a) /\ UNCHANGED <<reg, regDisk>>
       ELSE Goes(a, "promote") /\ Change([reg EXCEPT !["path"] = Absent])
    /\ UNCHANGED <<cardVars, history>>

BackUp(a) ==
    /\ At(a, "backUp")
    /\ CASE ~Exists(reg["path"]) -> Goes(a, "promote") /\ UNCHANGED <<reg, regDisk>>
         [] Good(reg["path"])    -> Goes(a, "promote") /\ Change(Renamed("path", "bak"))
         [] OTHER                -> Returns(a) /\ UNCHANGED <<reg, regDisk>>
    /\ UNCHANGED <<cardVars, history>>

Promote(a) ==
    /\ At(a, "promote")
    /\ IF Exists(reg["tmp"]) THEN Goes(a, "flush") /\ Change(Renamed("tmp", "path"))
       ELSE Returns(a) /\ UNCHANGED <<reg, regDisk>>
    /\ UNCHANGED <<cardVars, history>>

Flush(a) ==
    /\ At(a, "flush")
    /\ SyncRegistry /\ Goes(a, "validate")
    /\ UNCHANGED <<cardVars, history>>

Validate(a) ==
    /\ At(a, "validate")
    /\ known' = IF Good(reg["path"]) THEN known \cup actor[a].recs ELSE known
    /\ Returns(a)
    /\ UNCHANGED <<cardVars, regVars, reported, strayed, spoiled>>

Reconcile(a) ==
    \/ ReadPath(a) \/ ReadTmp(a)
    \/ /\ \/ ReadBak(a) \/ Discard(a) \/ Restore(a) \/ Confirm(a) \/ Unchanged(a)
          \/ Create(a) \/ Fill(a) \/ DropBackup(a) \/ BackUp(a)
          \/ Promote(a) \/ Flush(a) \/ Validate(a)
       /\ UNCHANGED faults

(***************************************************************************)
(* Enroll.                                                                 *)
(***************************************************************************)
Enrolling(c, pc) == At(UI, pc) /\ actor[UI].card = c

\* an identity that exists is confirmed and returned; an abandoned temporary goes
EnrollStart(c) ==
    /\ At(UI, "idle") /\ c \in mounted
    /\ DiscardTemporary(c)
    /\ actor' = [actor EXCEPT ![UI].pc = IF ident[c] # NoID THEN "enrollSync" ELSE "enrollTmp",
                              ![UI].card = c, ![UI].id = ident[c]]
    /\ UNCHANGED <<mounted, ident, drawn, regVars, history>>

EnrollTemporary(c) ==
    /\ Enrolling(c, "enrollTmp") /\ c \in mounted
    /\ drawn < MaxIDs
    /\ identTmp' = identTmp \cup {c} /\ drawn' = drawn + 1
    /\ actor' = [actor EXCEPT ![UI].pc = "enrollPromote", ![UI].id = drawn + 1]
    /\ UNCHANGED <<mounted, ident, identDisk, regVars, history>>

\* the recheck and the rename, which fails when the other actor has discarded the
\* temporary
EnrollPromote(c) ==
    /\ Enrolling(c, "enrollPromote") /\ c \in mounted
    /\ IF ident[c] = NoID /\ c \in identTmp
       THEN /\ ident' = [ident EXCEPT ![c] = actor[UI].id] /\ identTmp' = identTmp \ {c}
            /\ identDisk' = [identDisk EXCEPT ![c] = @ \cup {actor[UI].id}]
            /\ actor' = [actor EXCEPT ![UI].pc = "enrollSync", ![UI].gone = FALSE]
       ELSE Returns(UI) /\ UNCHANGED <<ident, identTmp, identDisk>>
    /\ UNCHANGED <<mounted, drawn, regVars, history>>

\* mutant: the identity is returned without the flush
EnrollSyncSkipped(c) ==
    /\ Enrolling(c, "enrollSync")
    /\ reported' = [reported EXCEPT ![c] = actor[UI].id]
    /\ Returns(UI)
    /\ UNCHANGED <<cardVars, regVars, strayed, known, spoiled>>

EnrollSync(c) ==
    /\ Enrolling(c, "enrollSync")
    /\ Flushed(UI)
    /\ Returns(UI)
    /\ UNCHANGED <<mounted, ident, identTmp, drawn, regVars, known, spoiled>>

Enroll(c) == EnrollStart(c) \/ EnrollTemporary(c) \/ EnrollPromote(c) \/ EnrollSync(c)

(***************************************************************************)
(* Faults.                                                                 *)
(***************************************************************************)
\* a file operation fails, or the process dies: the call leaves the rest undone
Fails(a) ==
    /\ ~At(a, "idle") /\ Faulty
    /\ Returns(a)
    /\ Rewrite({a}, Torn(Nobody))
    /\ UNCHANGED <<cardVars, history>>

Insert(c) ==
    /\ c \notin mounted /\ Cardinality(mounted) < Slots
    /\ mounted' = mounted \cup {c}
    /\ UNCHANGED <<ident, identTmp, identDisk, drawn, regVars, actor, history>>

\* a card is pulled out: what was not flushed may be gone
PullOut(c) ==
    /\ c \in mounted /\ Faulty
    /\ mounted' = mounted \ {c}
    /\ \E id \in identDisk[c] :
         ident' = [ident EXCEPT ![c] = id] /\ identDisk' = [identDisk EXCEPT ![c] = {id}]
    /\ actor' = [a \in Actors |-> IF actor[a].card = c THEN [actor[a] EXCEPT !.gone = TRUE]
                                  ELSE actor[a]]
    /\ UNCHANGED <<identTmp, drawn, regVars, history>>

PowerLoss ==
    /\ Faulty
    /\ \E r \in Possible :
         /\ reg' = [n \in Names |-> Filled(r[n], Actors, Torn(Nobody))]
         /\ regDisk' = [n \in Names |-> {reg'[n]}]
    /\ \E i \in [Cards -> IDs \cup {NoID}] :
         /\ \A c \in Cards : i[c] \in identDisk[c]
         /\ ident' = i /\ identDisk' = [c \in Cards |-> {i[c]}]
    /\ actor' = [a \in Actors |-> Idle]
    /\ spoiled' = (spoiled \/ regDisk["path"] # {reg["path"]})
    /\ UNCHANGED <<mounted, identTmp, drawn, reported, strayed, known>>

Next ==
    \/ \E a \in Actors : Reconcile(a) \/ (Inspect(a) /\ UNCHANGED faults)
    \/ \E c \in Cards : (Enroll(c) \/ Insert(c)) /\ UNCHANGED faults
    \/ (\E a \in Actors : Fails(a)) \/ (\E c \in Cards : PullOut(c)) \/ PowerLoss

Spec == Init /\ [][Next]_vars

Symmetry == Permutations(Cards)

(***************************************************************************)
(* Properties.                                                             *)
(***************************************************************************)
\* Every variable has its type, and the current files are one of the states the
\* medium may hold.
TypeOK ==
    /\ mounted \subseteq Cards /\ identTmp \subseteq Cards
    /\ ident \in [Cards -> IDs \cup {NoID}] /\ drawn \in 0..MaxIDs
    /\ identDisk \in [Cards -> SUBSET (IDs \cup {NoID})]
    /\ \A c \in Cards : ident[c] \in identDisk[c]
    /\ reg \in [Names -> File] /\ regDisk \in [Names -> SUBSET File]
    /\ \A n \in Names : reg[n] \in regDisk[n]
    /\ actor \in [Actors -> ActorState]
    /\ \A a \in Actors : actor[a].pc = "idle" => actor[a] = Idle
    /\ reported \in [Cards -> IDs \cup {NoID}]
    /\ strayed \in [Cards -> SUBSET IDs] /\ known \subseteq IDs /\ spoiled \in BOOLEAN
    /\ faults \in 0..MaxFaults

\* the identity is for good on the card, or was reported without its having been flushed
Certain(c, id) == identDisk[c] = {id} \/ id \in strayed[c]

\* An identity that Enroll returned or an inventory showed stays the card's only
\* identity, whatever is cut off or pulled out: it is on the medium before anybody
\* learns of it, and no enrollment replaces it.  It is not there when the card was
\* pulled out just before the syncfs, which then went elsewhere.
IdentityDurable == \A c \in Cards : reported[c] # NoID => Certain(c, reported[c])

\* Identities as seen, on the medium and as reported agree (Enroll, InspectSources).
IdentityInv == TypeOK /\ IdentityDurable

\* Enroll "renames it, then requires card syncfs", as it stands.
IdentityAlwaysDurable ==
    \A c \in Cards : reported[c] # NoID => identDisk[c] = {reported[c]}

\* The registry never remembers a card that does not exist: each identity in one of
\* its files, or in one that a power cut could leave, is for good on a card, whoever
\* reconciles beside whom and whichever filesystem loses what (InspectSources,
\* writeRegistry).
NoPhantomCards ==
    \A n \in Names : \A f \in regDisk[n] : \A id \in f.ids : \E c \in Cards : Certain(c, id)

\* A card that a reconciliation recorded is in the registry that recoverRegistry finds
\* after a kill or a failed operation at any step, at the limit of the registry, and
\* after a power cut that does not come between the renames of cards-v1.json and their
\* flush (ReconcileRegistry, writeRegistry).  Two reconciliations that overlap, which
\* nothing excludes, may lose it, and so may such a power cut.
RegistryRemembers ==
    ~spoiled =>
        /\ known \subseteq Recovered(reg)
        /\ regDisk["path"] = {reg["path"]} => \A r \in Possible : known \subseteq Recovered(r)

\* "an absent card remains visible", as it stands.
RegistryAlwaysRemembers == \A r \in Possible : known \subseteq Recovered(r)
=============================================================================
