----------------------------- MODULE CardsProofs -----------------------------
(***************************************************************************)
(* Proofs about Cards, for every set of cards, actors and identities and   *)
(* every limit of the registry: an identity the program has reported stays *)
(* the card's only one, and no registry that a kill or a power cut could   *)
(* leave remembers a card that does not exist.                             *)
(*                                                                         *)
(* Both rest on what an actor has at hand between reading an identity and  *)
(* reporting it (HandInv): unless the card was pulled out since, it is     *)
(* there and has that identity, so that the flush in between is a flush of *)
(* it.  From then on the identity is certain, which no step takes back     *)
(* (Stays), and an actor has none but certain identities to record         *)
(* (HaveInv), wherever it read them.  None of this depends on one          *)
(* reconciliation running at a time, nor on the order in which the names   *)
(* of the registry reach the medium.                                       *)
(***************************************************************************)
EXTENDS Cards, FiniteSetTheorems, TLAPS

\* what an actor has at hand is on the card, unless that was pulled out
HandInv(a) ==
    /\ actor[a].pc \in {"believe", "enrollPromote", "enrollSync"} => actor[a].id \in IDs
    /\ actor[a].pc \in {"believe", "enrollSync"} =>
         /\ actor[a].card \in Cards
         /\ ~actor[a].gone => actor[a].card \in mounted /\ ident[actor[a].card] = actor[a].id

\* each of the identities is a card's
Sure(S) == \A id \in S : \E c \in Cards : Certain(c, id)
HaveInv(a) ==
    /\ Sure(actor[a].live) /\ Sure(actor[a].recs)
    /\ \A n \in Names : Sure(actor[a].seen[n].ids)

CardInv ==
    /\ IdentityInv /\ NoPhantomCards
    /\ \A a \in Actors : HandInv(a) /\ HaveInv(a)

-----------------------------------------------------------------------------
(* What the helpers return.                                                 *)

\* Files, and the fields of the constant ones.
LEMMA FileIs ==
    /\ Absent \in File /\ Absent.is = "absent" /\ ~Exists(Absent) /\ ~Good(Absent)
    /\ \A a \in Actors \cup {Nobody} :
         Torn(a) \in File /\ Torn(a).is = "torn" /\ Torn(a).by = a
    /\ \A S \in SUBSET IDs :
         Whole(S) \in File /\ Whole(S).is = "whole" /\ Whole(S).ids = S
    /\ NoFiles \in [Names -> File]
    /\ \A f \in File : f.ids \subseteq IDs
BY DEF Absent, Torn, Whole, File, NoFiles, Exists, Good

\* The fields of an actor that does nothing.
LEMMA IdleIs ==
    /\ Idle \in ActorState /\ Idle.pc = "idle"
    /\ Idle.live = {} /\ Idle.recs = {} /\ \A n \in Names : Idle.seen[n].ids = {}
<1>1. "idle" \in PCs /\ FALSE \in BOOLEAN /\ <<>> \in Seq(Names) /\ NoFiles \in [Names -> File]
    BY FileIs DEF PCs
<1>2. \A n \in Names : NoFiles[n].ids = {}
    BY DEF NoFiles, Absent
<1>3. QED
    BY <1>1, <1>2 DEF Idle, ActorState, NoID

\* recoverRegistry's cards, without its verdicts.
LEMMA RecoveredIs ==
    ASSUME NEW r
    PROVE  Recovered(r) = IF Good(r["path"]) THEN r["path"].ids
                          ELSE IF Good(r["bak"]) THEN r["bak"].ids ELSE {}
<1>1. CASE Good(r["path"])
  <2>1. Verdict(r) = "current"
    BY <1>1 DEF Verdict, Exists, Good, Names
  <2>2. QED
    BY <1>1, <2>1 DEF Recovered
<1>2. CASE ~Good(r["path"]) /\ Good(r["bak"])
  <2>1. Verdict(r) = "backup"
    BY <1>2 DEF Verdict, Exists, Good, Names
  <2>2. QED
    BY <1>2, <2>1 DEF Recovered
<1>3. CASE ~Good(r["path"]) /\ ~Good(r["bak"])
  <2>1. Verdict(r) \in {"initial", "empty", "lost"}
    BY <1>3 DEF Verdict
  <2>2. QED
    BY <1>3, <2>1 DEF Recovered
<1>4. QED
    BY <1>1, <1>2, <1>3

\* They are identities of the two files.
LEMMA RecoveredOf ==
    ASSUME NEW r \in [Names -> File]
    PROVE  Recovered(r) \in SUBSET IDs /\ Recovered(r) \subseteq r["path"].ids \cup r["bak"].ids
<1>1. r["path"].ids \subseteq IDs /\ r["bak"].ids \subseteq IDs
    BY FileIs DEF Names
<1>2. QED
    BY <1>1, RecoveredIs

\* What recoverRegistry removes: never a file that it starts from.
LEMMA DiscardsAre ==
    ASSUME NEW r \in [Names -> File]
    PROVE  /\ Discards(r) \in Seq(Names)
           /\ \A i \in DOMAIN Discards(r) :
                /\ Discards(r)[i] = "path" => Verdict(r) = "backup"
                /\ Discards(r)[i] = "bak" => ~Good(r["bak"])
<1> DEFINE Spared(n) == /\ n = "path" => Verdict(r) = "backup"
                        /\ n = "bak" => ~Good(r["bak"])
           List == {s \in Seq(Names) : \A i \in 1..Len(s) : Spared(s[i])}
           path == IF Exists(r["path"]) /\ Verdict(r) = "backup" THEN <<"path">> ELSE <<>>
           tmp == IF Exists(r["tmp"]) /\ TRUE THEN <<"tmp">> ELSE <<>>
           bak == IF Exists(r["bak"]) /\ Verdict(r) = "current" /\ ~Good(r["bak"])
                  THEN <<"bak">> ELSE <<>>
<1>1. <<>> \in List /\ \A n \in Names : Spared(n) => <<n>> \in List
    OBVIOUS
<1>2. path \in List
  <2>1. CASE Exists(r["path"]) /\ Verdict(r) = "backup"
    BY <1>1, <2>1 DEF Names
  <2>2. CASE ~(Exists(r["path"]) /\ Verdict(r) = "backup")
    BY <1>1, <2>2
  <2>3. QED
    BY <2>1, <2>2
<1>3. tmp \in List
    BY <1>1 DEF Names
<1>4. bak \in List
  <2>1. CASE Exists(r["bak"]) /\ Verdict(r) = "current" /\ ~Good(r["bak"])
    BY <1>1, <2>1 DEF Names
  <2>2. CASE ~(Exists(r["bak"]) /\ Verdict(r) = "current" /\ ~Good(r["bak"]))
    BY <1>1, <2>2
  <2>3. QED
    BY <2>1, <2>2
<1>5. \A s, t \in List : s \o t \in List
  <2> SUFFICES ASSUME NEW s \in List, NEW t \in List PROVE s \o t \in List
    OBVIOUS
  <2> HIDE DEF Spared
  <2>1. s \in Seq(Names) /\ t \in Seq(Names) /\ s \o t \in Seq(Names)
    OBVIOUS
  <2>2. ASSUME NEW i \in 1..Len(s \o t) PROVE Spared((s \o t)[i])
    <3>1. CASE i <= Len(s)
      BY <2>1, <3>1
    <3>2. CASE i > Len(s)
      <4>1. i - Len(s) \in 1..Len(t) /\ (s \o t)[i] = t[i - Len(s)]
        BY <2>1, <3>2
      <4>2. QED
        BY <4>1
    <3>3. QED
      BY <2>1, <3>1, <3>2
  <2>3. QED
    BY <2>1, <2>2
<1>6. Discards(r) = path \o tmp \o bak
    BY DEF Discards
<1> HIDE DEF List, path, tmp, bak
<1>7. ASSUME NEW p \in List, NEW t \in List, NEW b \in List PROVE p \o t \o b \in List
    BY <1>5
<1>8. Discards(r) \in List
    BY <1>2, <1>3, <1>4, <1>6, <1>7
<1>9. QED
    BY <1>8 DEF List

\* A step of one actor to another place of its procedure.
LEMMA GoesIs ==
    ASSUME actor \in [Actors -> ActorState], NEW a \in Actors, NEW p \in PCs, Goes(a, p)
    PROVE  /\ actor' \in [Actors -> ActorState]
           /\ actor'[a] \in ActorState /\ actor'[a].pc = p
           /\ actor'[a].todo = actor[a].todo /\ actor'[a].live = actor[a].live
           /\ actor'[a].card = actor[a].card /\ actor'[a].id = actor[a].id
           /\ actor'[a].gone = actor[a].gone
           /\ actor'[a].seen = actor[a].seen /\ actor'[a].discard = actor[a].discard
           /\ actor'[a].restore = actor[a].restore /\ actor'[a].recs = actor[a].recs
           /\ actor'[a].write = actor[a].write
           /\ \A b \in Actors \ {a} : actor'[b] = actor[b]
<1>1. actor[a] \in ActorState
    OBVIOUS
<1>2. /\ [actor[a] EXCEPT !.pc = p] \in ActorState
      /\ [actor[a] EXCEPT !.pc = p].pc = p
    BY <1>1 DEF ActorState
<1>3. actor' = [actor EXCEPT ![a] = [actor[a] EXCEPT !.pc = p]]
    BY DEF Goes
<1>4. QED
    BY <1>1, <1>2, <1>3 DEF ActorState

\* The end of a call.
LEMMA ReturnsIs ==
    ASSUME actor \in [Actors -> ActorState], NEW a \in Actors, Returns(a)
    PROVE  /\ actor' \in [Actors -> ActorState]
           /\ actor'[a] = Idle /\ actor'[a].pc = "idle"
           /\ \A b \in Actors \ {a} : actor'[b] = actor[b]
BY IdleIs DEF Returns

\* A rename within the registry's directory.
LEMMA RenamedIs ==
    ASSUME reg \in [Names -> File], NEW from \in Names, NEW to \in Names, from # to
    PROVE  /\ Renamed(from, to) \in [Names -> File]
           /\ Renamed(from, to)[to] = reg[from] /\ Renamed(from, to)[from] = Absent
           /\ \A n \in Names \ {from, to} : Renamed(from, to)[n] = reg[n]
BY FileIs DEF Renamed

\* What becomes of unwritten files.
LEMMA FilledIs ==
    ASSUME NEW old \in File, NEW A, NEW f \in File
    PROVE  Filled(old, A, f) \in File /\ Filled(old, A, f) \in {old, f}
BY DEF Filled

-----------------------------------------------------------------------------
(* Types.                                                                   *)

ActorsOK ==
    /\ actor \in [Actors -> ActorState]
    /\ \A a \in Actors : actor[a].pc = "idle" => actor[a] = Idle
FilesOK ==
    /\ reg \in [Names -> File] /\ regDisk \in [Names -> SUBSET File]
    /\ \A n \in Names : reg[n] \in regDisk[n]
CardsOK ==
    /\ mounted \subseteq Cards /\ identTmp \subseteq Cards
    /\ ident \in [Cards -> IDs \cup {NoID}] /\ drawn \in 0..MaxIDs
    /\ identDisk \in [Cards -> SUBSET (IDs \cup {NoID})]
    /\ \A c \in Cards : ident[c] \in identDisk[c]
    /\ reported \in [Cards -> IDs \cup {NoID}]
    /\ strayed \in [Cards -> SUBSET IDs]
HistoryOK == known \subseteq IDs /\ spoiled \in BOOLEAN
FaultsOK == faults \in 0..MaxFaults

LEMMA TypeIs ==
    /\ TypeOK <=> ActorsOK /\ FilesOK /\ CardsOK /\ HistoryOK /\ FaultsOK
    /\ TypeOK' <=> ActorsOK' /\ FilesOK' /\ CardsOK' /\ HistoryOK' /\ FaultsOK'
BY DEF TypeOK, ActorsOK, FilesOK, CardsOK, HistoryOK, FaultsOK

LEMMA Counted == FaultsOK /\ (Faulty \/ UNCHANGED faults) => FaultsOK'
BY CardsAssumption DEF FaultsOK, Faulty

LEMMA ActorsReturn ==
    ASSUME ActorsOK, NEW a \in Actors, Returns(a)
    PROVE  ActorsOK'
BY ReturnsIs DEF ActorsOK

\* One actor changes more of its state than its place.
LEMMA ActorsStep ==
    ASSUME ActorsOK, NEW a \in Actors, NEW s \in ActorState, s.pc # "idle",
           actor' = [actor EXCEPT ![a] = s]
    PROVE  ActorsOK' /\ actor'[a] = s /\ \A b \in Actors \ {a} : actor'[b] = actor[b]
BY DEF ActorsOK

-----------------------------------------------------------------------------
(* What is certain stays so.                                                *)

Stays == \A c \in Cards, id \in IDs : Certain(c, id) => Certain(c, id)'

LEMMA SureStays == ASSUME Stays, NEW S \in SUBSET IDs, Sure(S)
                   PROVE  \A id \in S : \E c \in Cards : Certain(c, id)'
BY DEF Stays, Sure

\* An actor that does nothing, while no card it relies on goes.
LEMMA Bystander ==
    ASSUME ActorsOK, Stays, NEW b \in Actors, actor'[b] = actor[b], HandInv(b), HaveInv(b),
           \A c \in mounted : ident[c] # NoID => c \in mounted' /\ ident'[c] = ident[c]
    PROVE  HandInv(b)' /\ HaveInv(b)'
<1>1. actor[b] \in ActorState
    BY DEF ActorsOK
<1>2. /\ actor[b].live \in SUBSET IDs /\ actor[b].recs \in SUBSET IDs
      /\ \A n \in Names : actor[b].seen[n].ids \in SUBSET IDs
    BY <1>1, FileIs DEF ActorState
<1>3. \A id \in IDs : id # NoID
    BY DEF IDs, NoID
<1>4. HandInv(b)'
    BY <1>3 DEF HandInv
<1>5. HaveInv(b)'
    BY <1>2, SureStays DEF HaveInv, Sure
<1>6. QED
    BY <1>4, <1>5

\* The registry's files, while they are left alone.
LEMMA FilesStay ==
    ASSUME FilesOK, Stays, NoPhantomCards, UNCHANGED regDisk
    PROVE  NoPhantomCards'
<1>1. \A n \in Names : \A f \in regDisk[n] : f.ids \subseteq IDs
    BY FileIs DEF FilesOK
<1>2. QED
    BY <1>1 DEF NoPhantomCards, Stays

\* What there is to show of a step that leaves the registry alone: of the one actor that
\* moves, and of what becomes certain.
LEMMA CardStep ==
    ASSUME CardInv, NEW a \in Actors, ActorsOK', CardsOK', UNCHANGED <<regVars, known, spoiled>>,
           UNCHANGED faults, Stays, \A b \in Actors \ {a} : actor'[b] = actor[b],
           \A c \in mounted : ident[c] # NoID => c \in mounted' /\ ident'[c] = ident[c],
           HandInv(a)', HaveInv(a)', IdentityDurable'
    PROVE  CardInv'
<1>1. ActorsOK /\ FilesOK /\ HistoryOK /\ FaultsOK
    BY TypeIs DEF CardInv, IdentityInv
<1>2. FilesOK' /\ HistoryOK' /\ FaultsOK'
    BY <1>1 DEF FilesOK, HistoryOK, FaultsOK, regVars
<1>3. NoPhantomCards'
    BY <1>1, FilesStay DEF CardInv, regVars
<1>4. \A b \in Actors : HandInv(b)' /\ HaveInv(b)'
    BY <1>1, Bystander DEF CardInv
<1>5. QED
    BY <1>2, <1>3, <1>4, TypeIs DEF CardInv, IdentityInv

\* The same where the identities on the cards, as reported and as flushed, do not change.
LEMMA StaysSame == UNCHANGED <<identDisk, strayed>> => Stays
BY DEF Stays, Certain

LEMMA DurableStays ==
    ASSUME CardsOK, Stays, IdentityDurable, UNCHANGED reported
    PROVE  IdentityDurable'
<1>1. \A c \in Cards : reported[c] # NoID => reported[c] \in IDs
    BY DEF CardsOK
<1>2. QED
    BY <1>1 DEF IdentityDurable, Stays

-----------------------------------------------------------------------------
(* Inspection.                                                              *)

\* The temporary of a card is discarded; a flush of the card only leaves what is there.
LEMMA Discarded ==
    ASSUME CardsOK, NEW c \in Cards, DiscardTemporary(c),
           UNCHANGED <<mounted, ident, drawn, reported, strayed>>
    PROVE  CardsOK' /\ Stays
<1>1. /\ identTmp' \subseteq Cards
      /\ identDisk' \in [Cards -> SUBSET (IDs \cup {NoID})]
      /\ \A d \in Cards : ident[d] \in identDisk'[d]
    BY DEF CardsOK, DiscardTemporary
<1>2. CardsOK'
    BY <1>1 DEF CardsOK
<1>3. \A d \in Cards, id \in IDs : identDisk[d] = {id} => identDisk'[d] = {id}
    BY DEF CardsOK, DiscardTemporary
<1>4. Stays
    BY <1>3 DEF Stays, Certain
<1>5. QED
    BY <1>2, <1>4

\* What is reported is certain, and what was certain stays so.
LEMMA FlushedIs ==
    ASSUME CardsOK, IdentityDurable, NEW a \in Actors, Flushed(a), HandInv(a),
           actor[a].pc \in {"believe", "enrollSync"}, UNCHANGED <<mounted, ident, identTmp, drawn>>
    PROVE  /\ CardsOK' /\ Stays /\ IdentityDurable'
           /\ \E c \in Cards : identDisk'[c] = {actor[a].id} \/ actor[a].id \in strayed'[c]
<1> DEFINE c == actor[a].card
           id == actor[a].id
<1>1. id \in IDs /\ c \in Cards /\ (~actor[a].gone => c \in mounted /\ ident[c] = id)
    BY DEF HandInv
<1>2. /\ identDisk' = IF c \in mounted THEN [identDisk EXCEPT ![c] = {ident[c]}] ELSE identDisk
      /\ reported' = [reported EXCEPT ![c] = id]
      /\ strayed' = [strayed EXCEPT ![c] = IF actor[a].gone THEN @ \cup {id} ELSE @ \ {id}]
    BY DEF Flushed
<1> HIDE DEF c, id
<1>3. /\ identDisk' \in [Cards -> SUBSET (IDs \cup {NoID})]
      /\ \A d \in Cards : ident[d] \in identDisk'[d]
      /\ reported' \in [Cards -> IDs \cup {NoID}]
      /\ strayed' \in [Cards -> SUBSET IDs]
    BY <1>1, <1>2 DEF CardsOK
<1>4. CardsOK'
    BY <1>3 DEF CardsOK
<1>5. \A d \in Cards, i \in IDs : identDisk[d] = {i} => identDisk'[d] = {i}
    BY <1>2 DEF CardsOK
<1>6. \A d \in Cards, i \in IDs :
        i \in strayed[d] => i \in strayed'[d] \/ (d = c /\ i = id /\ ~actor[a].gone)
    BY <1>1, <1>2 DEF CardsOK
<1>7. ~actor[a].gone => identDisk'[c] = {id}
    BY <1>1, <1>2 DEF CardsOK
<1>8. Stays
    BY <1>5, <1>6, <1>7 DEF Stays, Certain
<1>9. actor[a].gone => id \in strayed'[c]
    BY <1>1, <1>2 DEF CardsOK
<1>11. IdentityDurable'
  <2> SUFFICES ASSUME NEW d \in Cards, reported'[d] # NoID
               PROVE  identDisk'[d] = {reported'[d]} \/ reported'[d] \in strayed'[d]
    BY DEF IdentityDurable, Certain
  <2>1. CASE d = c
    <3>1. reported'[d] = id
      BY <1>1, <1>2, <2>1 DEF CardsOK
    <3>2. QED
      BY <1>7, <1>9, <2>1, <3>1
  <2>2. CASE d # c
    <3>1. reported'[d] = reported[d] /\ reported[d] \in IDs
      BY <1>1, <1>2, <2>2 DEF CardsOK
    <3>2. Certain(d, reported[d])
      BY <3>1 DEF IdentityDurable, IDs, NoID
    <3>3. QED
      BY <1>8, <3>1, <3>2 DEF Stays, Certain
  <2>3. QED
    BY <2>1, <2>2
<1>12. identDisk'[c] = {id} \/ id \in strayed'[c]
    BY <1>7, <1>9
<1>13. QED
    BY <1>1, <1>4, <1>8, <1>11, <1>12 DEF id, c

LEMMA InspectStep ==
    ASSUME CardInv, NEW a \in Actors, Inspect(a), UNCHANGED faults
    PROVE  CardInv'
<1>1. /\ ActorsOK /\ CardsOK /\ IdentityDurable /\ HandInv(a) /\ HaveInv(a)
      /\ actor[a] \in ActorState
    BY TypeIs DEF CardInv, IdentityInv, ActorsOK
<1>2. ident \in [Cards -> IDs \cup {NoID}] /\ mounted \subseteq Cards
    BY <1>1 DEF CardsOK
<1>3. /\ actor[a].live \in SUBSET IDs /\ actor[a].recs \in SUBSET IDs
      /\ \A n \in Names : actor[a].seen[n].ids \in SUBSET IDs
    BY <1>1, FileIs DEF ActorState
<1>4. ASSUME Stays, actor'[a].recs = actor[a].recs, actor'[a].seen = actor[a].seen,
             actor'[a].live = actor[a].live
      PROVE  HaveInv(a)'
    BY <1>1, <1>3, <1>4, SureStays DEF HaveInv, Sure
<1>5. CASE InspectSources(a)
  <2> DEFINE s == [actor[a] EXCEPT !.pc = "inspect", !.todo = mounted]
  <2>1. s \in ActorState /\ s.pc = "inspect"
    BY <1>1, <1>2 DEF ActorState, PCs
  <2>2. actor' = [actor EXCEPT ![a] = s] /\ UNCHANGED <<cardVars, regVars, history>>
    BY <1>1, <1>5 DEF InspectSources, ActorsOK
  <2>3. ActorsOK' /\ actor'[a] = s /\ \A b \in Actors \ {a} : actor'[b] = actor[b]
    BY <1>1, <2>1, <2>2, ActorsStep
  <2>4. s.live = actor[a].live /\ s.recs = actor[a].recs /\ s.seen = actor[a].seen
    BY <1>1 DEF ActorState
  <2>5. CardsOK' /\ Stays /\ IdentityDurable'
    BY <1>1, <2>2, StaysSame, DurableStays DEF CardsOK, cardVars, history
  <2>6. HaveInv(a)' /\ HandInv(a)'
    BY <1>4, <2>1, <2>3, <2>4, <2>5 DEF HandInv
  <2>7. QED
    BY <2>2, <2>3, <2>5, <2>6, CardStep DEF cardVars, history
<1>6. ASSUME NEW c \in Cards, ReadIdentity(a, c) PROVE CardInv'
  <2>1. UNCHANGED <<mounted, ident, drawn, regVars, history>>
    BY <1>6 DEF ReadIdentity
  <2>2. CardsOK' /\ Stays
    <3>1. CASE c \in mounted
      BY <1>1, <1>6, <2>1, <3>1, Discarded DEF ReadIdentity, history
    <3>2. CASE c \notin mounted
      BY <1>1, <1>6, <2>1, <3>2, StaysSame DEF ReadIdentity, history, CardsOK
    <3>3. QED
      BY <3>1, <3>2
  <2>3. IdentityDurable'
    BY <1>1, <2>1, <2>2, DurableStays DEF history
  <2>4. \E s \in ActorState : /\ actor' = [actor EXCEPT ![a] = s]
                              /\ s.live = actor[a].live /\ s.recs = actor[a].recs
                              /\ s.seen = actor[a].seen
                              /\ \/ s.pc = "inspect"
                                 \/ /\ s.pc = "believe" /\ s.card = c /\ s.id = ident[c]
                                    /\ c \in mounted /\ ident[c] \in IDs
    <3>1. CASE c \in mounted /\ ident[c] # NoID
      <4> DEFINE s == [actor[a] EXCEPT !.pc = "believe", !.todo = @ \ {c},
                                       !.card = c, !.id = ident[c]]
      <4>1. ident[c] \in IDs
        BY <1>2, <3>1
      <4>2. /\ s \in ActorState /\ s.pc = "believe" /\ s.card = c /\ s.id = ident[c]
            /\ s.live = actor[a].live /\ s.recs = actor[a].recs /\ s.seen = actor[a].seen
        BY <1>1, <4>1 DEF ActorState, PCs
      <4>3. actor' = [actor EXCEPT ![a] = s]
        BY <1>1, <1>6, <3>1 DEF ReadIdentity, ActorsOK
      <4>4. QED
        BY <3>1, <4>1, <4>2, <4>3
    <3>2. CASE ~(c \in mounted /\ ident[c] # NoID)
      <4> DEFINE s == [actor[a] EXCEPT !.todo = @ \ {c}]
      <4>1. /\ s \in ActorState /\ s.pc = "inspect"
            /\ s.live = actor[a].live /\ s.recs = actor[a].recs /\ s.seen = actor[a].seen
        BY <1>1, <1>6 DEF ActorState, ReadIdentity, At
      <4>2. actor' = [actor EXCEPT ![a] = s]
        BY <1>1, <1>6, <3>2 DEF ReadIdentity, ActorsOK
      <4>3. QED
        BY <4>1, <4>2
    <3>3. QED
      BY <3>1, <3>2
  <2>5. PICK s \in ActorState : /\ actor' = [actor EXCEPT ![a] = s]
                                /\ s.live = actor[a].live /\ s.recs = actor[a].recs
                                /\ s.seen = actor[a].seen
                                /\ \/ s.pc = "inspect"
                                   \/ /\ s.pc = "believe" /\ s.card = c /\ s.id = ident[c]
                                      /\ c \in mounted /\ ident[c] \in IDs
    BY <2>4
  <2>6. ActorsOK' /\ actor'[a] = s /\ \A b \in Actors \ {a} : actor'[b] = actor[b]
    BY <1>1, <2>5, ActorsStep
  <2>7. HaveInv(a)'
    BY <1>4, <2>2, <2>5, <2>6
  <2>8. HandInv(a)'
    BY <2>1, <2>5, <2>6 DEF HandInv
  <2>9. QED
    BY <2>1, <2>2, <2>3, <2>6, <2>7, <2>8, CardStep DEF history
<1>7. CASE Believe(a)
  <2> DEFINE s == [actor[a] EXCEPT !.pc = "inspect", !.live = @ \cup {actor[a].id},
                                   !.card = Nobody, !.id = NoID, !.gone = FALSE]
  <2>1. /\ UNCHANGED <<mounted, ident, identTmp, drawn, regVars, known, spoiled>>
        /\ Flushed(a) /\ actor[a].pc = "believe" /\ actor[a].id \in IDs
    BY <1>1, <1>7 DEF Believe, At, HandInv
  <2>2. /\ CardsOK' /\ Stays /\ IdentityDurable'
        /\ \E c \in Cards : identDisk'[c] = {actor[a].id} \/ actor[a].id \in strayed'[c]
    <3>1. actor[a].pc \in {"believe", "enrollSync"}
      BY <2>1
    <3>2. QED
      BY <1>1, <2>1, <3>1, FlushedIs
  <2>3. /\ s \in ActorState /\ s.pc = "inspect" /\ s.live = actor[a].live \cup {actor[a].id}
        /\ s.recs = actor[a].recs /\ s.seen = actor[a].seen
    BY <1>1, <2>1 DEF ActorState, PCs
  <2>4. actor' = [actor EXCEPT ![a] = s]
    BY <1>1, <1>7 DEF Believe, ActorsOK
  <2>5. ActorsOK' /\ actor'[a] = s /\ \A b \in Actors \ {a} : actor'[b] = actor[b]
    BY <1>1, <2>3, <2>4, ActorsStep
  <2> HIDE DEF s
  <2>6. HaveInv(a)'
    <3> DEFINE held == actor[a].live \cup {actor[a].id}
    <3>1. \A id \in actor[a].live : \E c \in Cards : Certain(c, id)'
      BY <1>1, <1>3, <2>2, SureStays DEF HaveInv
    <3>2. \A id \in held : \E c \in Cards : identDisk'[c] = {id} \/ id \in strayed'[c]
      BY <2>2, <3>1 DEF Certain
    <3>3. actor'[a].live = held
      BY <2>3, <2>5
    <3> HIDE DEF held
    <3>4. Sure(actor[a].live)'
      BY <3>2, <3>3 DEF Sure, Certain
    <3>5. \A id \in actor[a].recs : \E c \in Cards : Certain(c, id)'
      BY <1>1, <1>3, <2>2, SureStays DEF HaveInv
    <3>6. \A n \in Names : \A id \in actor[a].seen[n].ids : \E c \in Cards : Certain(c, id)'
      BY <1>1, <1>3, <2>2, SureStays DEF HaveInv
    <3>7. QED
      BY <2>3, <2>5, <3>4, <3>5, <3>6 DEF HaveInv, Sure
  <2>7. HandInv(a)'
    BY <2>3, <2>5 DEF HandInv
  <2>8. QED
    BY <2>1, <2>2, <2>5, <2>6, <2>7, CardStep
<1>8. CASE Inspected(a)
  <2>1. Goes(a, "path") /\ UNCHANGED <<cardVars, regVars, history>> /\ "path" \in PCs
    BY <1>8 DEF Inspected, PCs
  <2>2. /\ actor' \in [Actors -> ActorState] /\ actor'[a].pc = "path"
        /\ actor'[a].live = actor[a].live /\ actor'[a].recs = actor[a].recs
        /\ actor'[a].seen = actor[a].seen /\ \A b \in Actors \ {a} : actor'[b] = actor[b]
    BY <1>1, <2>1, GoesIs DEF ActorsOK
  <2>3. ActorsOK'
    BY <1>1, <2>2 DEF ActorsOK
  <2>4. CardsOK' /\ Stays /\ IdentityDurable'
    BY <1>1, <2>1, StaysSame, DurableStays DEF CardsOK, cardVars, history
  <2>5. HaveInv(a)' /\ HandInv(a)'
    BY <1>4, <2>2, <2>4 DEF HandInv
  <2>6. QED
    BY <2>1, <2>2, <2>3, <2>4, <2>5, CardStep DEF cardVars, history
<1>9. QED
    BY <1>5, <1>6, <1>7, <1>8 DEF Inspect

-----------------------------------------------------------------------------
(* Enrollment.                                                              *)

\* An actor at a new place, with what it knew of the registry.
LEMMA HaveSame ==
    ASSUME ActorsOK, Stays, NEW a \in Actors, HaveInv(a), actor'[a].recs = actor[a].recs,
           actor'[a].seen = actor[a].seen, actor'[a].live = actor[a].live
    PROVE  HaveInv(a)'
<1>1. actor[a] \in ActorState
    BY DEF ActorsOK
<1>2. /\ actor[a].live \in SUBSET IDs /\ actor[a].recs \in SUBSET IDs
      /\ \A n \in Names : actor[a].seen[n].ids \in SUBSET IDs
    BY <1>1, FileIs DEF ActorState
<1>3. QED
    BY <1>2, SureStays DEF HaveInv, Sure

LEMMA ReturnedIs ==
    ASSUME ActorsOK, NEW a \in Actors, Returns(a)
    PROVE  HandInv(a)' /\ HaveInv(a)' /\ ActorsOK' /\ \A b \in Actors \ {a} : actor'[b] = actor[b]
<1>1. /\ actor'[a] = Idle /\ actor'[a].pc = "idle" /\ ActorsOK'
      /\ \A b \in Actors \ {a} : actor'[b] = actor[b]
    BY ReturnsIs, ActorsReturn DEF ActorsOK
<1>2. QED
    BY <1>1, IdleIs DEF HandInv, HaveInv, Sure

\* Enrollment gives an identity only to a card that has none, so to one of which
\* none was reported; what it reports was flushed before.
LEMMA EnrollStep ==
    ASSUME CardInv, NEW c \in Cards, Enroll(c), UNCHANGED faults
    PROVE  CardInv'
<1>1. /\ ActorsOK /\ CardsOK /\ IdentityDurable /\ UI \in Actors
      /\ HandInv(UI) /\ HaveInv(UI) /\ actor[UI] \in ActorState
    BY CardsAssumption, TypeIs DEF CardInv, IdentityInv, ActorsOK
<1>2. ident \in [Cards -> IDs \cup {NoID}] /\ mounted \subseteq Cards /\ drawn \in 0..MaxIDs
    BY <1>1 DEF CardsOK
<1>3. CASE EnrollStart(c)
  <2> DEFINE s == [actor[UI] EXCEPT !.pc = IF ident[c] # NoID THEN "enrollSync" ELSE "enrollTmp",
                                    !.card = c, !.id = ident[c]]
  <2>1. /\ UNCHANGED <<mounted, ident, drawn, regVars, history>> /\ c \in mounted
        /\ DiscardTemporary(c)
    BY <1>3 DEF EnrollStart
  <2>2. CardsOK' /\ Stays
    BY <1>1, <2>1, Discarded DEF history
  <2>3. IdentityDurable'
    BY <1>1, <2>1, <2>2, DurableStays DEF history
  <2>4. /\ s \in ActorState /\ s.card = c /\ s.id = ident[c]
        /\ s.pc = IF ident[c] # NoID THEN "enrollSync" ELSE "enrollTmp"
        /\ s.live = actor[UI].live /\ s.recs = actor[UI].recs /\ s.seen = actor[UI].seen
    BY <1>1, <1>2 DEF ActorState, PCs
  <2>5. actor' = [actor EXCEPT ![UI] = s]
    BY <1>1, <1>3 DEF EnrollStart, ActorsOK
  <2> HIDE DEF s
  <2>6. ActorsOK' /\ actor'[UI] = s /\ \A b \in Actors \ {UI} : actor'[b] = actor[b]
    BY <1>1, <2>4, <2>5, ActorsStep
  <2>7. HaveInv(UI)'
    BY <1>1, <2>2, <2>4, <2>6, HaveSame
  <2>8. HandInv(UI)'
    BY <1>2, <2>1, <2>4, <2>6 DEF HandInv
  <2>9. QED
    BY <1>1, <2>1, <2>2, <2>3, <2>6, <2>7, <2>8, CardStep DEF history
<1>4. CASE EnrollTemporary(c)
  <2> DEFINE s == [actor[UI] EXCEPT !.pc = "enrollPromote", !.id = drawn + 1]
  <2>1. /\ UNCHANGED <<mounted, ident, identDisk, regVars, history>>
        /\ drawn + 1 \in IDs /\ drawn' = drawn + 1 /\ drawn < MaxIDs
        /\ identTmp' = identTmp \cup {c}
    BY <1>2, <1>4, CardsAssumption DEF EnrollTemporary, IDs
  <2>2. drawn' \in 0..MaxIDs /\ identTmp' \subseteq Cards
    BY <1>1, <1>2, <2>1, CardsAssumption DEF CardsOK
  <2>3. CardsOK' /\ Stays
    BY <1>1, <2>1, <2>2, StaysSame DEF CardsOK, history
  <2>4. IdentityDurable'
    BY <1>1, <2>1, <2>3, DurableStays DEF history
  <2>5. /\ s \in ActorState /\ s.pc = "enrollPromote" /\ s.id = drawn + 1
        /\ s.live = actor[UI].live /\ s.recs = actor[UI].recs /\ s.seen = actor[UI].seen
    BY <1>1, <2>1 DEF ActorState, PCs
  <2>6. actor' = [actor EXCEPT ![UI] = s]
    BY <1>1, <1>4 DEF EnrollTemporary, ActorsOK
  <2> HIDE DEF s
  <2>7. ActorsOK' /\ actor'[UI] = s /\ \A b \in Actors \ {UI} : actor'[b] = actor[b]
    BY <1>1, <2>5, <2>6, ActorsStep
  <2>8. HaveInv(UI)' /\ HandInv(UI)'
    BY <1>1, <2>1, <2>3, <2>5, <2>7, HaveSame DEF HandInv
  <2>9. QED
    BY <1>1, <2>1, <2>3, <2>4, <2>7, <2>8, CardStep DEF history
<1>5. CASE EnrollPromote(c)
  <2>1. /\ UNCHANGED <<mounted, drawn, regVars, history>> /\ c \in mounted
        /\ actor[UI].pc = "enrollPromote" /\ actor[UI].card = c /\ actor[UI].id \in IDs
    BY <1>1, <1>5 DEF EnrollPromote, Enrolling, At, HandInv
  <2>2. CASE ident[c] = NoID /\ c \in identTmp
    <3> DEFINE id == actor[UI].id
               s == [actor[UI] EXCEPT !.pc = "enrollSync", !.gone = FALSE]
    <3>1. /\ ident' = [ident EXCEPT ![c] = id] /\ identTmp' = identTmp \ {c}
          /\ identDisk' = [identDisk EXCEPT ![c] = @ \cup {id}]
          /\ id \in IDs
      BY <1>5, <2>1, <2>2 DEF EnrollPromote
    <3>2. actor' = [actor EXCEPT ![UI] = s]
      BY <1>1, <1>5, <2>2 DEF EnrollPromote, ActorsOK
    <3>3. /\ s \in ActorState /\ s.pc = "enrollSync" /\ s.card = c /\ s.id = id
          /\ s.live = actor[UI].live /\ s.recs = actor[UI].recs /\ s.seen = actor[UI].seen
      BY <1>1, <2>1 DEF ActorState, PCs
    <3> HIDE DEF s, id
    <3>4. CardsOK'
      BY <1>1, <2>1, <3>1 DEF CardsOK, history
    <3>5. \A d \in Cards, i \in IDs : identDisk[d] = {i} => identDisk'[d] = {i}
      <4>1. \A i \in IDs : i # NoID
        BY DEF IDs, NoID
      <4>2. NoID \in identDisk[c]
        BY <1>1, <2>2 DEF CardsOK
      <4>3. QED
        BY <1>1, <3>1, <4>1, <4>2 DEF CardsOK
    <3>6. Stays
      BY <2>1, <3>5 DEF Stays, Certain, history
    <3>7. IdentityDurable'
      BY <1>1, <2>1, <3>6, DurableStays DEF history
    <3>8. ActorsOK' /\ actor'[UI] = s /\ \A b \in Actors \ {UI} : actor'[b] = actor[b]
      BY <1>1, <3>2, <3>3, ActorsStep
    <3>9. HaveInv(UI)'
      BY <1>1, <3>3, <3>6, <3>8, HaveSame
    <3>10. HandInv(UI)'
      BY <1>2, <2>1, <3>1, <3>3, <3>8 DEF HandInv
    <3>11. \A d \in mounted : ident[d] # NoID => d \in mounted' /\ ident'[d] = ident[d]
      BY <1>2, <2>1, <2>2, <3>1
    <3>12. QED
      BY <1>1, <2>1, <3>4, <3>6, <3>7, <3>8, <3>9, <3>10, <3>11, CardStep DEF history
  <2>3. CASE ~(ident[c] = NoID /\ c \in identTmp)
    <3>1. Returns(UI) /\ UNCHANGED <<ident, identTmp, identDisk>>
      BY <1>5, <2>3 DEF EnrollPromote
    <3>2. CardsOK' /\ Stays
      BY <1>1, <2>1, <3>1, StaysSame DEF CardsOK, history
    <3>3. IdentityDurable'
      BY <1>1, <2>1, <3>2, DurableStays DEF history
    <3>4. QED
      BY <1>1, <2>1, <3>1, <3>2, <3>3, ReturnedIs, CardStep DEF history
  <2>4. QED
    BY <2>2, <2>3
<1>6. CASE EnrollSync(c)
  <2>1. /\ UNCHANGED <<mounted, ident, identTmp, drawn, regVars, known, spoiled>>
        /\ Flushed(UI) /\ Returns(UI) /\ actor[UI].pc \in {"believe", "enrollSync"}
    BY <1>6 DEF EnrollSync, Enrolling, At
  <2>2. CardsOK' /\ Stays /\ IdentityDurable'
    BY <1>1, <2>1, FlushedIs
  <2>3. QED
    BY <1>1, <2>1, <2>2, ReturnedIs, CardStep
<1>7. QED
    BY <1>3, <1>4, <1>5, <1>6 DEF Enroll

-----------------------------------------------------------------------------
(* Faults choose among what the medium may hold, and it holds what is certain. *)

LEMMA InsertStep ==
    ASSUME CardInv, NEW c \in Cards, Insert(c), UNCHANGED faults
    PROVE  CardInv'
<1>1. /\ ActorsOK /\ CardsOK /\ IdentityDurable /\ UI \in Actors /\ HandInv(UI) /\ HaveInv(UI)
    BY CardsAssumption, TypeIs DEF CardInv, IdentityInv
<1>2. /\ mounted' = mounted \cup {c}
      /\ UNCHANGED <<ident, identTmp, identDisk, drawn, regVars, actor, history>>
    BY DEF Insert
<1>3. CardsOK' /\ Stays /\ ActorsOK'
    BY <1>1, <1>2, StaysSame DEF CardsOK, ActorsOK, history
<1>4. IdentityDurable'
    BY <1>1, <1>2, <1>3, DurableStays DEF history
<1>5. HandInv(UI)' /\ HaveInv(UI)'
    BY <1>1, <1>2, <1>3, Bystander
<1>6. QED
    BY <1>1, <1>2, <1>3, <1>4, <1>5, CardStep DEF history

LEMMA PullOutStep ==
    ASSUME CardInv, NEW c \in Cards, PullOut(c)
    PROVE  CardInv'
<1>1. /\ ActorsOK /\ CardsOK /\ FilesOK /\ HistoryOK /\ FaultsOK /\ IdentityDurable
      /\ NoPhantomCards
    BY TypeIs DEF CardInv, IdentityInv
<1>2. PICK id \in identDisk[c] :
        ident' = [ident EXCEPT ![c] = id] /\ identDisk' = [identDisk EXCEPT ![c] = {id}]
    BY DEF PullOut
<1>3. /\ mounted' = mounted \ {c} /\ Faulty
      /\ actor' = [a \in Actors |-> IF actor[a].card = c THEN [actor[a] EXCEPT !.gone = TRUE]
                                    ELSE actor[a]]
      /\ UNCHANGED <<identTmp, drawn, regVars, history>>
    BY DEF PullOut
<1>4. id \in IDs \cup {NoID}
    BY <1>1 DEF CardsOK
<1>5. CardsOK'
    BY <1>1, <1>2, <1>3, <1>4 DEF CardsOK, history
<1>6. \A d \in Cards, i \in IDs : identDisk[d] = {i} => identDisk'[d] = {i}
    BY <1>1, <1>2 DEF CardsOK
<1>7. Stays
    BY <1>3, <1>6 DEF Stays, Certain, history
<1>8. IdentityDurable'
    BY <1>1, <1>3, <1>7, DurableStays DEF history
<1>9. ASSUME NEW a \in Actors
      PROVE  /\ actor'[a] \in ActorState /\ actor'[a].pc = actor[a].pc
             /\ actor'[a].card = actor[a].card /\ actor'[a].id = actor[a].id
             /\ actor[a].card = c => actor'[a].gone
             /\ actor[a].card # c => actor'[a] = actor[a]
             /\ actor'[a].recs = actor[a].recs /\ actor'[a].seen = actor[a].seen
             /\ actor'[a].live = actor[a].live
    BY <1>1, <1>3 DEF ActorsOK, ActorState
<1>10. \A a \in Actors : actor[a].pc = "idle" => actor'[a] = Idle
  <2>1. \A a \in Actors : actor[a].pc = "idle" => actor[a].card = Nobody
    BY <1>1 DEF ActorsOK, Idle
  <2>2. Nobody # c
    BY CardsAssumption
  <2>3. QED
    BY <1>1, <1>9, <2>1, <2>2 DEF ActorsOK
<1>11. ActorsOK'
  <2>1. actor' \in [Actors -> ActorState]
    BY <1>3, <1>9
  <2>2. QED
    BY <1>9, <1>10, <2>1 DEF ActorsOK
<1>12. ASSUME NEW a \in Actors PROVE HandInv(a)' /\ HaveInv(a)'
  <2>1. HandInv(a) /\ HaveInv(a)
    BY DEF CardInv
  <2>2. HaveInv(a)'
    BY <1>1, <1>7, <1>9, <2>1, HaveSame
  <2>3. ~actor'[a].gone /\ actor[a].card \in Cards =>
          /\ actor[a].card # c /\ actor'[a] = actor[a]
          /\ ident'[actor[a].card] = ident[actor[a].card]
          /\ actor[a].card \in mounted => actor[a].card \in mounted'
    BY <1>1, <1>2, <1>3, <1>9 DEF CardsOK
  <2>4. HandInv(a)'
    BY <1>9, <2>1, <2>3 DEF HandInv
  <2>5. QED
    BY <2>2, <2>4
<1>13. FilesOK' /\ HistoryOK' /\ FaultsOK' /\ NoPhantomCards'
    BY <1>1, <1>3, <1>7, Counted, FilesStay DEF FilesOK, HistoryOK, regVars, history
<1>14. QED
    BY <1>5, <1>8, <1>11, <1>12, <1>13, TypeIs DEF CardInv, IdentityInv

\* A registry as a power cut may leave it.
LEMMA PossibleIs == ASSUME FilesOK, NEW r \in Possible
                    PROVE  r \in [Names -> File] /\ \A n \in Names : r[n] \in regDisk[n]
<1>1. \A n \in Names : r[n] \in regDisk[n]
    BY DEF Possible
<1>2. \A n \in Names : r[n] \in File
    BY <1>1 DEF FilesOK
<1>3. QED
    BY <1>1, <1>2 DEF Possible

LEMMA PowerLossStep == CardInv /\ PowerLoss => CardInv'
<1> SUFFICES ASSUME CardInv, PowerLoss PROVE CardInv'
    OBVIOUS
<1>1. /\ ActorsOK /\ CardsOK /\ FilesOK /\ HistoryOK /\ FaultsOK /\ IdentityDurable
      /\ NoPhantomCards
    BY TypeIs DEF CardInv, IdentityInv
<1>2. /\ Faulty /\ UNCHANGED <<mounted, identTmp, drawn, reported, strayed, known>>
      /\ actor' = [a \in Actors |-> Idle] /\ spoiled' \in BOOLEAN
    BY <1>1 DEF PowerLoss, HistoryOK
<1>3. PICK i \in [Cards -> IDs \cup {NoID}] :
        /\ \A c \in Cards : i[c] \in identDisk[c]
        /\ ident' = i /\ identDisk' = [c \in Cards |-> {i[c]}]
    BY DEF PowerLoss
<1>4. PICK r \in Possible :
        /\ reg' = [n \in Names |-> Filled(r[n], Actors, Torn(Nobody))]
        /\ regDisk' = [n \in Names |-> {reg'[n]}]
    BY DEF PowerLoss
<1>5. CardsOK'
    BY <1>1, <1>2, <1>3 DEF CardsOK
<1>6. \A d \in Cards, id \in IDs : identDisk[d] = {id} => identDisk'[d] = {id}
    BY <1>3
<1>7. Stays
    BY <1>2, <1>6 DEF Stays, Certain
<1>8. IdentityDurable'
    BY <1>1, <1>2, <1>7, DurableStays
<1>9. /\ Torn(Nobody) \in File /\ Torn(Nobody).ids = {}
      /\ \A n \in Names : r[n] \in regDisk[n] /\ r[n] \in File
    BY <1>1, FileIs, PossibleIs DEF Torn
<1>10. \A n \in Names : reg'[n] \in File /\ (reg'[n] = r[n] \/ reg'[n].ids = {})
    BY <1>4, <1>9, FilledIs
<1>11. FilesOK'
    BY <1>4, <1>10 DEF FilesOK
<1>12. NoPhantomCards'
  <2> SUFFICES ASSUME NEW n \in Names, NEW id \in reg'[n].ids
               PROVE  \E c \in Cards : identDisk'[c] = {id} \/ id \in strayed'[c]
    BY <1>4 DEF NoPhantomCards, Certain
  <2>1. id \in r[n].ids /\ id \in IDs
    BY <1>9, <1>10, FileIs
  <2>2. \E c \in Cards : Certain(c, id)
    BY <1>1, <1>9, <2>1 DEF NoPhantomCards
  <2>3. QED
    BY <1>7, <2>1, <2>2 DEF Stays, Certain
<1>13. ActorsOK' /\ \A a \in Actors : HandInv(a)' /\ HaveInv(a)'
    BY <1>2, IdleIs DEF ActorsOK, HandInv, HaveInv, Sure
<1>14. HistoryOK' /\ FaultsOK'
    BY <1>1, <1>2, Counted DEF HistoryOK
<1>15. QED
    BY <1>5, <1>8, <1>11, <1>12, <1>13, <1>14, TypeIs DEF CardInv, IdentityInv

-----------------------------------------------------------------------------
(* Reconciliation.                                                          *)

LEMMA RegistryStep ==
    ASSUME CardInv, NEW a \in Actors, UNCHANGED <<cardVars, reported, strayed>>,
           ActorsOK', FilesOK', HistoryOK', FaultsOK', NoPhantomCards', HandInv(a)', HaveInv(a)',
           \A b \in Actors \ {a} : actor'[b] = actor[b]
    PROVE  CardInv'
<1>1. ActorsOK /\ CardsOK /\ IdentityDurable
    BY TypeIs DEF CardInv, IdentityInv
<1>2. CardsOK' /\ Stays
    BY <1>1, StaysSame DEF CardsOK, cardVars
<1>3. IdentityDurable'
    BY <1>1, <1>2, DurableStays
<1>4. \A b \in Actors : HandInv(b)' /\ HaveInv(b)'
    BY <1>1, <1>2, Bystander DEF CardInv, cardVars
<1>5. QED
    BY <1>2, <1>3, <1>4, TypeIs DEF CardInv, IdentityInv

\* A change of names brings in no new contents.
LEMMA ChangeIs ==
    ASSUME FilesOK, NoPhantomCards, UNCHANGED <<identDisk, strayed>>,
           NEW r \in [Names -> File], Change(r),
           \A n \in Names : r[n].ids = {} \/ \E m \in Names : r[n] = reg[m]
    PROVE  FilesOK' /\ NoPhantomCards'
<1>1. FilesOK'
    BY DEF FilesOK, Change
<1>2. ASSUME NEW n \in Names, NEW f \in regDisk'[n], NEW id \in f.ids
      PROVE  \E c \in Cards : Certain(c, id)
    BY <1>2 DEF FilesOK, NoPhantomCards, Change
<1>3. NoPhantomCards'
    BY <1>2 DEF NoPhantomCards, Certain
<1>4. QED
    BY <1>1, <1>3

LEMMA SyncIs ==
    ASSUME FilesOK, NoPhantomCards, UNCHANGED <<identDisk, strayed>>, SyncRegistry
    PROVE  FilesOK' /\ NoPhantomCards'
BY DEF FilesOK, NoPhantomCards, SyncRegistry, Certain

LEMMA SameIs ==
    ASSUME FilesOK, NoPhantomCards, UNCHANGED <<identDisk, strayed, reg, regDisk>>
    PROVE  FilesOK' /\ NoPhantomCards'
BY DEF FilesOK, NoPhantomCards, Certain

\* A file is written with nothing but certain identities.
LEMMA RewriteIs ==
    ASSUME FilesOK, NoPhantomCards, UNCHANGED <<identDisk, strayed>>,
           NEW A, NEW f \in File, Sure(f.ids), Rewrite(A, f)
    PROVE  FilesOK' /\ NoPhantomCards'
<1>1. \A n \in Names : \A old \in regDisk[n] :
        Filled(old, A, f) \in File /\ Filled(old, A, f) \in {old, f}
  <2>1. \A n \in Names : \A old \in regDisk[n] : old \in File
    BY DEF FilesOK
  <2>2. QED
    BY <2>1, FilledIs
<1>2. FilesOK'
    BY <1>1 DEF FilesOK, Rewrite
<1>3. ASSUME NEW n \in Names, NEW g \in regDisk'[n], NEW id \in g.ids
      PROVE  \E c \in Cards : Certain(c, id)
    BY <1>1, <1>3 DEF Rewrite, NoPhantomCards, Sure
<1>4. NoPhantomCards'
    BY <1>3 DEF NoPhantomCards, Certain
<1>5. QED
    BY <1>2, <1>4

\* A call fails, or the process dies.
LEMMA FailsStep ==
    ASSUME CardInv, NEW a \in Actors, Fails(a)
    PROVE  CardInv'
<1>1. ActorsOK /\ FilesOK /\ HistoryOK /\ FaultsOK /\ NoPhantomCards
    BY TypeIs DEF CardInv, IdentityInv
<1>2. /\ Returns(a) /\ Rewrite({a}, Torn(Nobody)) /\ Faulty
      /\ UNCHANGED <<cardVars, history>>
    BY DEF Fails
<1>3. Torn(Nobody) \in File /\ Sure(Torn(Nobody).ids)
    BY FileIs DEF Torn, Sure
<1>4. FilesOK' /\ NoPhantomCards'
    BY <1>1, <1>2, <1>3, RewriteIs DEF cardVars, history
<1>5. HistoryOK' /\ FaultsOK'
    BY <1>1, <1>2, Counted DEF HistoryOK, history
<1>6. QED
    BY <1>1, <1>2, <1>4, <1>5, ReturnedIs, RegistryStep DEF history

\* What an actor makes of the three files (ReadBak): identities of theirs and of cards
\* it saw.
Seen(a) == [actor[a].seen EXCEPT !["bak"] = reg["bak"]]
Decided(a) ==
    IF Verdict(Seen(a)) = "lost" THEN Idle
    ELSE [Idle EXCEPT !.pc = IF Verdict(Seen(a)) = "empty" THEN "merge" ELSE "clean",
                      !.discard = Discards(Seen(a)), !.restore = (Verdict(Seen(a)) = "backup"),
                      !.recs = Recovered(Seen(a)) \cup actor[a].live,
                      !.write = Writes(actor[a].live, Recovered(Seen(a)))]

LEMMA DecidedIs ==
    ASSUME ActorsOK, FilesOK, NoPhantomCards, NEW a \in Actors, HaveInv(a),
           Verdict(Seen(a)) # "lost"
    PROVE  /\ Decided(a) \in ActorState /\ Decided(a).pc \in {"merge", "clean"}
           /\ Sure(Decided(a).recs) /\ Decided(a).live = {}
           /\ \A n \in Names : Decided(a).seen[n].ids = {}
<1> DEFINE seen == Seen(a)
           pc == IF Verdict(seen) = "empty" THEN "merge" ELSE "clean"
           discard == Discards(seen)
           restore == (Verdict(seen) = "backup")
           recs == Recovered(seen) \cup actor[a].live
           write == Writes(actor[a].live, Recovered(seen))
<1>1. actor[a] \in ActorState
    BY DEF ActorsOK
<1>2. actor[a].seen \in [Names -> File] /\ actor[a].live \subseteq IDs
    BY <1>1 DEF ActorState
<1>3. seen \in [Names -> File] /\ seen["path"] = actor[a].seen["path"] /\ seen["bak"] = reg["bak"]
    BY <1>2 DEF Seen, FilesOK, Names
<1>4. discard \in Seq(Names) /\ recs \subseteq IDs
    BY <1>2, <1>3, DiscardsAre, RecoveredOf
<1>5. pc \in PCs /\ pc \in {"merge", "clean"}
    BY DEF PCs
<1>6. restore \in BOOLEAN /\ write \in SUBSET BOOLEAN
    BY DEF Writes
<1>7. Sure(recs)
  <2>1. Sure(actor[a].seen["path"].ids) /\ Sure(actor[a].live)
    BY DEF HaveInv, Names
  <2>2. Sure(reg["bak"].ids)
    BY DEF FilesOK, NoPhantomCards, Sure, Names
  <2>3. Recovered(seen) \subseteq actor[a].seen["path"].ids \cup reg["bak"].ids
    BY <1>3, RecoveredOf
  <2>4. QED
    BY <2>1, <2>2, <2>3 DEF Sure
<1>8. Decided(a) = [Idle EXCEPT !.pc = pc, !.discard = discard, !.restore = restore,
                                !.recs = recs, !.write = write]
    BY DEF Decided
<1> HIDE DEF pc, discard, restore, recs, write
<1>9. /\ Decided(a) \in ActorState
      /\ Decided(a).pc = pc /\ Decided(a).recs = recs
      /\ Decided(a).live = Idle.live /\ Decided(a).seen = Idle.seen
    BY <1>4, <1>5, <1>6, <1>8, IdleIs DEF ActorState
<1>10. QED
    BY <1>5, <1>7, <1>9, IdleIs

\* A reconciliation writes down identities that it saw on cards or in the files, and
\* touches no card.
LEMMA ReconcileStep ==
    ASSUME CardInv, NEW a \in Actors, Reconcile(a)
    PROVE  CardInv'
<1>1. /\ ActorsOK /\ FilesOK /\ HistoryOK /\ FaultsOK /\ NoPhantomCards
      /\ HandInv(a) /\ HaveInv(a) /\ actor[a] \in ActorState
      /\ reg \in [Names -> File]
    BY TypeIs DEF CardInv, IdentityInv, ActorsOK, FilesOK
<1>2. /\ actor[a].live \subseteq IDs /\ actor[a].recs \subseteq IDs
      /\ actor[a].seen \in [Names -> File] /\ actor[a].discard \in Seq(Names)
    BY <1>1 DEF ActorState
<1>3. FaultsOK'
    BY <1>1, Counted DEF Reconcile, ReadPath, ReadTmp
<1> DEFINE Away == PCs \ {"idle", "believe", "enrollPromote", "enrollSync"}
           Others == \A b \in Actors \ {a} : actor'[b] = actor[b]
           Apart == UNCHANGED <<cardVars, reported, strayed>>
<1>4. Apart => Stays
    BY StaysSame DEF cardVars
<1>5. ASSUME NEW p \in Away, Goes(a, p), Apart
      PROVE  ActorsOK' /\ HandInv(a)' /\ HaveInv(a)' /\ Others
  <2>1. /\ actor' \in [Actors -> ActorState] /\ actor'[a].pc = p /\ Others
        /\ actor'[a].live = actor[a].live /\ actor'[a].seen = actor[a].seen
        /\ actor'[a].recs = actor[a].recs
    BY <1>1, <1>5, GoesIs DEF ActorsOK
  <2>2. ActorsOK'
    BY <1>1, <2>1 DEF ActorsOK
  <2>3. HaveInv(a)'
    BY <1>1, <1>4, <1>5, <2>1, HaveSame
  <2>4. HandInv(a)'
    BY <2>1 DEF HandInv
  <2>5. QED
    BY <2>1, <2>2, <2>3, <2>4
<1>6. ASSUME NEW s \in ActorState, s.pc \in Away, actor' = [actor EXCEPT ![a] = s],
             Sure(s.live), Sure(s.recs), \A n \in Names : Sure(s.seen[n].ids), Apart
      PROVE  ActorsOK' /\ HandInv(a)' /\ HaveInv(a)' /\ Others
  <2>1. ActorsOK' /\ actor'[a] = s /\ Others
    BY <1>1, <1>6, ActorsStep
  <2>2. HaveInv(a)'
    BY <1>6, <2>1 DEF HaveInv, Sure, Certain, cardVars
  <2>3. HandInv(a)'
    BY <1>6, <2>1 DEF HandInv
  <2>4. QED
    BY <2>1, <2>2, <2>3
<1>7. ASSUME Returns(a) PROVE ActorsOK' /\ HandInv(a)' /\ HaveInv(a)' /\ Others
    BY <1>1, <1>7, ReturnedIs
<1>8. ASSUME ActorsOK', HandInv(a)', HaveInv(a)', Others, FilesOK', NoPhantomCards', HistoryOK',
             Apart
      PROVE  CardInv'
    BY <1>3, <1>8, RegistryStep
<1>9. /\ {"tmp", "bak", "merge", "clean", "confirm", "fill", "dropBak", "backUp", "promote",
           "flush", "validate"} \subseteq Away
      /\ Names = {"path", "tmp", "bak"}
    BY DEF PCs, Names
<1>10. UNCHANGED <<known, spoiled>> => HistoryOK'
    BY <1>1 DEF HistoryOK
<1>11. Apart /\ UNCHANGED <<reg, regDisk>> => FilesOK' /\ NoPhantomCards'
    BY <1>1, SameIs DEF cardVars
<1>12. ASSUME NEW n \in Names, Change([reg EXCEPT ![n] = Absent]), Apart
       PROVE  FilesOK' /\ NoPhantomCards'
  <2>1. /\ [reg EXCEPT ![n] = Absent] \in [Names -> File]
        /\ \A m \in Names : \/ [reg EXCEPT ![n] = Absent][m].ids = {}
                            \/ [reg EXCEPT ![n] = Absent][m] = reg[m]
    BY <1>1, FileIs DEF Absent
  <2>2. QED
    BY <1>1, <1>12, <2>1, ChangeIs DEF cardVars
<1>13. ASSUME NEW from \in Names, NEW to \in Names \ {from}, Change(Renamed(from, to)), Apart
       PROVE  FilesOK' /\ NoPhantomCards'
  <2>1. /\ Renamed(from, to) \in [Names -> File]
        /\ \A m \in Names : \/ Renamed(from, to)[m].ids = {}
                            \/ \E k \in Names : Renamed(from, to)[m] = reg[k]
    BY <1>1, RenamedIs DEF Absent
  <2>2. QED
    BY <1>1, <1>13, <2>1, ChangeIs DEF cardVars
<1>14. Apart /\ SyncRegistry => FilesOK' /\ NoPhantomCards'
    BY <1>1, SyncIs DEF cardVars
<1>15. ASSUME NEW n \in Names, NEW p \in {"tmp", "bak"}, Read(a, n, p), spoiled' \in BOOLEAN
       PROVE  CardInv'
  <2> DEFINE s == [actor[a] EXCEPT !.pc = p, !.seen[n] = reg[n]]
  <2>1. [actor[a].seen EXCEPT ![n] = reg[n]] \in [Names -> File]
    BY <1>1, <1>2
  <2>2. /\ s \in ActorState /\ s.pc = p /\ s.live = actor[a].live /\ s.recs = actor[a].recs
        /\ s.seen = [actor[a].seen EXCEPT ![n] = reg[n]]
    BY <1>1, <1>9, <2>1 DEF ActorState
  <2>3. actor' = [actor EXCEPT ![a] = s]
    BY <1>1, <1>15 DEF Read, ActorsOK
  <2> HIDE DEF s
  <2>4. Sure(reg[n].ids)
    BY <1>1 DEF FilesOK, NoPhantomCards, Sure
  <2>5. Sure(s.live) /\ Sure(s.recs) /\ \A m \in Names : Sure(s.seen[m].ids)
    BY <1>1, <1>2, <2>2, <2>4 DEF HaveInv
  <2>6. Apart /\ UNCHANGED <<reg, regDisk, known>>
    BY <1>15 DEF Read, regVars
  <2>7. ActorsOK' /\ HandInv(a)' /\ HaveInv(a)' /\ Others
    BY <1>6, <1>9, <2>2, <2>3, <2>5, <2>6
  <2>8. HistoryOK'
    BY <1>1, <1>15, <2>6 DEF HistoryOK
  <2>9. QED
    BY <1>8, <1>11, <2>6, <2>7, <2>8
<1>16. CASE ReadPath(a)
  <2>1. spoiled' \in BOOLEAN
    BY <1>1, <1>16 DEF ReadPath, HistoryOK
  <2>2. QED
    BY <1>15, <1>16, <2>1 DEF ReadPath, Names
<1>17. CASE ReadTmp(a)
  <2>1. spoiled' \in BOOLEAN
    BY <1>1, <1>17 DEF ReadTmp, HistoryOK
  <2>2. QED
    BY <1>15, <1>17, <2>1 DEF ReadTmp, Names
<1>18. CASE ReadBak(a)
  <2>1. /\ actor' = [actor EXCEPT ![a] = Decided(a)]
        /\ Apart /\ UNCHANGED <<reg, regDisk, known, spoiled>>
    BY <1>18 DEF ReadBak, Decided, Seen, regVars, history
  <2>2. CASE Verdict(Seen(a)) = "lost"
    <3>1. Returns(a)
      BY <2>1, <2>2 DEF Decided, Returns
    <3>2. QED
      BY <1>7, <1>8, <1>10, <1>11, <2>1, <3>1
  <2>3. CASE Verdict(Seen(a)) # "lost"
    <3>1. /\ Decided(a) \in ActorState /\ Decided(a).pc \in {"merge", "clean"}
          /\ Sure(Decided(a).recs) /\ Decided(a).live = {}
          /\ \A n \in Names : Decided(a).seen[n].ids = {}
      BY <1>1, <2>3, DecidedIs
    <3>2. Sure(Decided(a).live) /\ \A n \in Names : Sure(Decided(a).seen[n].ids)
      BY <3>1 DEF Sure
    <3>3. ActorsOK' /\ HandInv(a)' /\ HaveInv(a)' /\ Others
      BY <1>6, <1>9, <2>1, <3>1, <3>2
    <3>4. QED
      BY <1>8, <1>10, <1>11, <2>1, <3>3
  <2>4. QED
    BY <2>2, <2>3
<1>19. CASE Discard(a)
  <2> DEFINE n == Head(actor[a].discard)
             s == [actor[a] EXCEPT !.discard = Tail(@)]
  <2>1. /\ n \in Names /\ Tail(actor[a].discard) \in Seq(Names) /\ actor[a].pc = "clean"
        /\ Apart /\ UNCHANGED <<known, spoiled>>
    BY <1>2, <1>19 DEF Discard, At, history
  <2>2. CASE Exists(reg[n])
    <3>1. /\ s \in ActorState /\ s.pc = "clean" /\ s.live = actor[a].live
          /\ s.recs = actor[a].recs /\ s.seen = actor[a].seen
      BY <1>1, <2>1 DEF ActorState
    <3>2. actor' = [actor EXCEPT ![a] = s]
      BY <1>1, <1>19, <2>2 DEF Discard, ActorsOK
    <3>3. Change([reg EXCEPT ![n] = Absent])
      BY <1>19, <2>2 DEF Discard
    <3> HIDE DEF s, n
    <3>4. Sure(s.live) /\ Sure(s.recs) /\ \A m \in Names : Sure(s.seen[m].ids)
      BY <1>1, <3>1 DEF HaveInv
    <3>5. ActorsOK' /\ HandInv(a)' /\ HaveInv(a)' /\ Others
      BY <1>6, <1>9, <2>1, <3>1, <3>2, <3>4
    <3>6. QED
      BY <1>8, <1>10, <1>12, <2>1, <3>3, <3>5
  <2>3. CASE ~Exists(reg[n])
    <3>1. Returns(a) /\ UNCHANGED <<reg, regDisk>>
      BY <1>19, <2>3 DEF Discard
    <3>2. QED
      BY <1>7, <1>8, <1>10, <1>11, <2>1, <3>1
  <2>4. QED
    BY <2>2, <2>3
<1>20. ASSUME UNCHANGED <<cardVars, history>>, Returns(a), UNCHANGED <<reg, regDisk>> PROVE CardInv'
    BY <1>7, <1>8, <1>10, <1>11, <1>20 DEF history
<1>21. ASSUME UNCHANGED <<cardVars, history>>, NEW p \in Away, Goes(a, p), FilesOK', NoPhantomCards'
       PROVE  CardInv'
    BY <1>5, <1>8, <1>10, <1>21 DEF history
<1>22. CASE Restore(a)
  <2>1. UNCHANGED <<cardVars, history>> /\ Apart
    BY <1>22 DEF Restore, history
  <2>2. "confirm" \in Away /\ "bak" \in Names /\ "path" \in Names \ {"bak"}
    BY <1>9
  <2>3. \/ Goes(a, "confirm") /\ UNCHANGED <<reg, regDisk>>
        \/ Goes(a, "confirm") /\ Change(Renamed("bak", "path"))
        \/ Returns(a) /\ UNCHANGED <<reg, regDisk>>
    BY <1>22 DEF Restore
  <2>4. QED
    BY <1>11, <1>13, <1>20, <1>21, <2>1, <2>2, <2>3
<1>23. CASE Confirm(a)
  <2> DEFINE s == [actor[a] EXCEPT !.pc = "merge", !.restore = FALSE]
  <2>1. /\ s \in ActorState /\ s.pc = "merge" /\ s.live = actor[a].live
        /\ s.recs = actor[a].recs /\ s.seen = actor[a].seen
    BY <1>1 DEF ActorState, PCs
  <2>2. actor' = [actor EXCEPT ![a] = s]
    BY <1>1, <1>23 DEF Confirm, ActorsOK
  <2>3. SyncRegistry /\ Apart /\ UNCHANGED <<known, spoiled>>
    BY <1>23 DEF Confirm, history
  <2> HIDE DEF s
  <2>4. Sure(s.live) /\ Sure(s.recs) /\ \A m \in Names : Sure(s.seen[m].ids)
    BY <1>1, <2>1 DEF HaveInv
  <2>5. ActorsOK' /\ HandInv(a)' /\ HaveInv(a)' /\ Others
    BY <1>6, <1>9, <2>1, <2>2, <2>3, <2>4
  <2>6. QED
    BY <1>8, <1>10, <1>14, <2>3, <2>5
<1>24. CASE Unchanged(a)
  <2>1. /\ Returns(a) /\ Apart /\ UNCHANGED <<reg, regDisk, spoiled>>
        /\ known' = known \cup actor[a].recs
    BY <1>24 DEF Unchanged, regVars
  <2>2. HistoryOK'
    BY <1>1, <1>2, <2>1 DEF HistoryOK
  <2>3. QED
    BY <1>7, <1>8, <1>11, <2>1, <2>2
<1>25. CASE Create(a)
  <2>1. UNCHANGED <<cardVars, history>> /\ Apart /\ "fill" \in Away
    BY <1>9, <1>25 DEF Create, history
  <2>2. CASE Exists(reg["tmp"])
    BY <1>20, <1>25, <2>1, <2>2 DEF Create
  <2>3. CASE ~Exists(reg["tmp"])
    <3> DEFINE r == [reg EXCEPT !["tmp"] = Torn(a)]
    <3>1. r \in [Names -> File] /\ \A n \in Names : r[n].ids = {} \/ r[n] = reg[n]
      BY <1>1, <1>9, FileIs DEF Torn
    <3>2. Goes(a, "fill") /\ Change(r)
      BY <1>25, <2>3 DEF Create
    <3>3. FilesOK' /\ NoPhantomCards'
      BY <1>1, <2>1, <3>1, <3>2, ChangeIs DEF cardVars
    <3>4. QED
      BY <1>21, <2>1, <3>2, <3>3
  <2>4. QED
    BY <2>2, <2>3
<1>26. CASE Fill(a)
  <2>1. /\ UNCHANGED <<cardVars, history>> /\ Apart /\ "dropBak" \in Away
        /\ Goes(a, "dropBak") /\ Rewrite({a}, Whole(actor[a].recs))
    BY <1>9, <1>26 DEF Fill, history
  <2>2. Whole(actor[a].recs) \in File /\ Sure(Whole(actor[a].recs).ids)
    BY <1>1, <1>2, FileIs DEF HaveInv
  <2>3. FilesOK' /\ NoPhantomCards'
    BY <1>1, <2>1, <2>2, RewriteIs DEF cardVars
  <2>4. QED
    BY <1>21, <2>1, <2>3
<1>27. CASE DropBackup(a)
  <2>1. /\ UNCHANGED <<cardVars, history>> /\ Apart /\ "backUp" \in Away /\ "bak" \in Names
        /\ Goes(a, "backUp") /\ Change([reg EXCEPT !["bak"] = Absent])
    BY <1>9, <1>27 DEF DropBackup, history
  <2>2. QED
    BY <1>12, <1>21, <2>1
<1>28. CASE BackUp(a)
  <2>1. UNCHANGED <<cardVars, history>> /\ Apart
    BY <1>28 DEF BackUp, history
  <2>2. "promote" \in Away /\ "path" \in Names /\ "bak" \in Names \ {"path"}
    BY <1>9
  <2>3. \/ Goes(a, "promote") /\ UNCHANGED <<reg, regDisk>>
        \/ Goes(a, "promote") /\ Change(Renamed("path", "bak"))
        \/ Returns(a) /\ UNCHANGED <<reg, regDisk>>
    BY <1>28 DEF BackUp, Good, Exists
  <2>4. QED
    BY <1>11, <1>13, <1>20, <1>21, <2>1, <2>2, <2>3
<1>29. CASE Promote(a)
  <2>1. UNCHANGED <<cardVars, history>> /\ Apart
    BY <1>29 DEF Promote, history
  <2>2. "flush" \in Away /\ "tmp" \in Names /\ "path" \in Names \ {"tmp"}
    BY <1>9
  <2>3. \/ Goes(a, "flush") /\ Change(Renamed("tmp", "path"))
        \/ Returns(a) /\ UNCHANGED <<reg, regDisk>>
    BY <1>29 DEF Promote
  <2>4. QED
    BY <1>13, <1>20, <1>21, <2>1, <2>2, <2>3
<1>30. CASE Flush(a)
  <2>1. /\ UNCHANGED <<cardVars, history>> /\ Apart /\ "validate" \in Away
        /\ Goes(a, "validate") /\ SyncRegistry
    BY <1>9, <1>30 DEF Flush, history
  <2>2. QED
    BY <1>14, <1>21, <2>1
<1>31. CASE Validate(a)
  <2>1. /\ Returns(a) /\ Apart /\ UNCHANGED <<reg, regDisk, spoiled>>
        /\ known' \in {known, known \cup actor[a].recs}
    BY <1>31 DEF Validate, regVars
  <2>2. HistoryOK'
    BY <1>1, <1>2, <2>1 DEF HistoryOK
  <2>3. QED
    BY <1>7, <1>8, <1>11, <2>1, <2>2
<1>32. QED
    BY <1>16, <1>17, <1>18, <1>19, <1>22, <1>23, <1>24, <1>25, <1>26, <1>27, <1>28, <1>29,
       <1>30, <1>31 DEF Reconcile

-----------------------------------------------------------------------------
(* The theorems.                                                            *)

LEMMA CardInit == Init => CardInv
<1> SUFFICES ASSUME Init PROVE CardInv
    OBVIOUS
<1>1. /\ mounted = {} /\ ident = [c \in Cards |-> NoID] /\ identTmp = {}
      /\ identDisk = [c \in Cards |-> {NoID}] /\ drawn = 0
      /\ reg = NoFiles /\ regDisk = [n \in Names |-> {Absent}]
      /\ actor = [a \in Actors |-> Idle] /\ reported = [c \in Cards |-> NoID]
      /\ strayed = [c \in Cards |-> {}] /\ known = {} /\ spoiled = FALSE /\ faults = 0
    BY DEF Init
<1>2. ActorsOK /\ \A a \in Actors : HandInv(a) /\ HaveInv(a)
    BY <1>1, IdleIs DEF ActorsOK, HandInv, HaveInv, Sure
<1>3. FilesOK /\ \A n \in Names : \A f \in regDisk[n] : f.ids = {}
  <2>1. Absent \in File /\ Absent.ids = {} /\ NoFiles \in [Names -> File]
    BY FileIs DEF Absent
  <2>2. \A n \in Names : NoFiles[n] = Absent /\ regDisk[n] = {Absent}
    BY <1>1 DEF NoFiles
  <2>3. regDisk \in [Names -> SUBSET File]
    BY <1>1, <2>1
  <2>4. QED
    BY <1>1, <2>1, <2>2, <2>3 DEF FilesOK
<1>4. CardsOK /\ HistoryOK /\ FaultsOK /\ IdentityDurable
  <2>1. CardsOK
    BY <1>1, CardsAssumption DEF CardsOK
  <2>2. HistoryOK /\ FaultsOK
    <3>1. 0 \in 0..MaxFaults
      BY CardsAssumption
    <3>2. FaultsOK
      BY <1>1, <3>1 DEF FaultsOK
    <3>3. HistoryOK
      BY <1>1 DEF HistoryOK
    <3>4. QED
      BY <3>2, <3>3
  <2>3. IdentityDurable
    BY <1>1 DEF IdentityDurable
  <2>4. QED
    BY <2>1, <2>2, <2>3
<1>5. QED
    BY <1>2, <1>3, <1>4, TypeIs DEF CardInv, IdentityInv, NoPhantomCards

LEMMA CardStutter == CardInv /\ UNCHANGED vars => CardInv'
<1> SUFFICES ASSUME CardInv, UNCHANGED vars PROVE CardInv'
    OBVIOUS
<1>1. /\ ActorsOK /\ FilesOK /\ CardsOK /\ HistoryOK /\ FaultsOK /\ IdentityDurable
      /\ NoPhantomCards
    BY TypeIs DEF CardInv, IdentityInv
<1>2. /\ UNCHANGED <<cardVars, actor, reported, strayed, known, spoiled, faults>>
      /\ UNCHANGED <<mounted, ident, identTmp, identDisk, drawn, reg, regDisk>>
    BY DEF vars, cardVars, regVars, history
<1>3. ActorsOK' /\ CardsOK' /\ HistoryOK' /\ FaultsOK' /\ Stays
    BY <1>1, <1>2, StaysSame DEF ActorsOK, CardsOK, HistoryOK, FaultsOK
<1>4. FilesOK' /\ NoPhantomCards' /\ IdentityDurable'
    BY <1>1, <1>2, <1>3, SameIs, DurableStays
<1>5. \A a \in Actors : HandInv(a)' /\ HaveInv(a)'
    BY <1>1, <1>2, <1>3, Bystander DEF CardInv
<1>6. QED
    BY <1>3, <1>4, <1>5, TypeIs DEF CardInv, IdentityInv

LEMMA CardInductive == Spec => []CardInv
<1>1. CardInv /\ [Next]_vars => CardInv'
    BY CardStutter, ReconcileStep, InspectStep, EnrollStep, InsertStep, FailsStep, PullOutStep,
       PowerLossStep DEF Next
<1>2. QED
    BY <1>1, CardInit, PTL DEF Spec

\* An identity that Enroll returned or an inventory showed stays the card's only
\* one: whichever writes fail, whenever the card is pulled out or the power cut,
\* and whoever enrolls and inspects at the same time.
THEOREM IdentitySafety == Spec => []IdentityInv
<1>1. CardInv => IdentityInv
    BY DEF CardInv
<1>2. QED
    BY <1>1, CardInductive, PTL

\* The registry remembers no card that does not exist (ReconcileRegistry), however many
\* reconciliations overlap and whatever of its three files a power cut leaves.
THEOREM PhantomSafety == Spec => []NoPhantomCards
<1>1. CardInv => NoPhantomCards
    BY DEF CardInv
<1>2. QED
    BY <1>1, CardInductive, PTL
==============================================================================
