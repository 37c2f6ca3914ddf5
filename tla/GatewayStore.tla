---------------------------- MODULE GatewayStore ----------------------------
(***************************************************************************)
(* The trusted browsers of the gateway (internal/gateway/trust.go): the    *)
(* records in memory, the file they are written to, and what a power loss  *)
(* would leave of it.  Every method holds the store's mutex from its first *)
(* read to the rename of the file, so it is one step; a persist that fails *)
(* leaves the file as it was and the memory as it had become.              *)
(*                                                                         *)
(* A token names a record; the browser that was given it presents it until *)
(* it is told to forget it.  Ages stand for the two times of a record,     *)
(* Created and LastUsed: what matters of them is how long ago they were.   *)
(***************************************************************************)
EXTENDS Naturals, FiniteSets, Functions, TLC

CONSTANTS
    Tokens,             \* tokens the store may issue, each once
    MaxTrustRecords,    \* 32
    TrustAbsolute, TrustIdle, LastUsedFlush,
    MaxFaults           \* bound: failed persists and power losses

ASSUME StoreAssumption ==
    /\ IsFiniteSet(Tokens)
    /\ MaxTrustRecords \in Nat \ {0}
    /\ TrustAbsolute \in Nat /\ TrustIdle \in Nat
    /\ LastUsedFlush \in Nat \ {0}
    /\ MaxFaults \in Nat

VARIABLES
    records,    \* memory: the age of LastUsed, by token
    file,       \* the same, as the file has it
    durable,    \* the same, as a power loss would leave the file
    created,    \* the age of Created, by token issued so far
    cookies,    \* tokens the browsers hold
    used,       \* history: the time since each token was last accepted
    touched,    \* history: the time since that was last made the record's LastUsed
    revoked,    \* history: tokens whose revocation was answered with success
    faults

times == <<used, touched>>
storeVars == <<records, file, durable, created, cookies, times, revoked, faults>>

Ages(limit) == 0..limit + 1         \* past the limit an age no longer matters
Records == UNION {[T -> Ages(TrustIdle)] : T \in SUBSET Tokens}
Empty == [t \in {} |-> 0]

StoreTypeOK ==
    /\ records \in Records /\ file \in Records /\ durable \in Records
    /\ created \in UNION {[T -> Ages(TrustAbsolute)] : T \in SUBSET Tokens}
    /\ DOMAIN records \cup DOMAIN file \cup DOMAIN durable \subseteq DOMAIN created
    /\ cookies \subseteq DOMAIN created /\ revoked \subseteq DOMAIN created
    /\ used \in Records /\ touched \in Records
    /\ DOMAIN used = DOMAIN created /\ DOMAIN touched = DOMAIN created
    /\ faults \in 0..MaxFaults

StoreInit ==
    /\ records = Empty /\ file = Empty /\ durable = Empty
    /\ created = Empty
    /\ cookies = {}
    /\ used = Empty /\ touched = Empty
    /\ revoked = {}
    /\ faults = 0

-----------------------------------------------------------------------------
(* Helpers.                                                                 *)

Expired(r, t) == created[t] > TrustAbsolute \/ r[t] > TrustIdle
Pruned(r) == Restrict(r, {t \in DOMAIN r : ~Expired(r, t)})

\* persistLocked writes the records it is given, or fails before its rename.
PersistOK(r) == file' = r /\ UNCHANGED <<durable, faults>>
PersistFails ==
    /\ faults < MaxFaults
    /\ faults' = faults + 1
    /\ UNCHANGED <<file, durable>>
Persist(r) == PersistOK(r) \/ PersistFails
\* An error nobody looks at, or no reason to write.
PersistIfChanged(changed, r) == IF changed THEN Persist(r) ELSE UNCHANGED <<file, durable, faults>>

-----------------------------------------------------------------------------
(* Methods of the store.                                                    *)

\* Count, which every status and Extend call: expired records go.
Count ==
    LET r == Pruned(records) IN
    /\ r # records
    /\ records' = r
    /\ Persist(r)
    /\ UNCHANGED <<created, cookies, times, revoked>>

\* What Issue may keep of the records r for the new one, t: all of them, or
\* all but one of those used longest ago (the new one was used last of all).
\* mutant: the oldest trust goes, not the least recently used
AdmitOldest(r, t) ==
    IF Cardinality(DOMAIN r) <= MaxTrustRecords THEN {r}
    ELSE {Restrict(r, DOMAIN r \ {v}) :
            v \in {w \in DOMAIN r \ {t} : \A k \in DOMAIN r \ {t} : created[k] <= created[w]}}

\* mutant: nothing is dropped
AdmitAll(r, t) == {r}

Admit(r, t) ==
    IF Cardinality(DOMAIN r) <= MaxTrustRecords THEN {r}
    ELSE {Restrict(r, DOMAIN r \ {v}) :
            v \in {w \in DOMAIN r \ {t} : \A k \in DOMAIN r \ {t} : r[k] <= r[w]}}

\* A cookie is sent only if the record could be persisted; the record stays
\* in memory in either case.
\* mutant: the error of the persist is lost
AnswerAlways(t, kept) == Persist(kept) /\ cookies' = cookies \cup {t}

Answer(t, kept) ==
    \/ PersistOK(kept) /\ cookies' = cookies \cup {t}
    \/ PersistFails /\ cookies' = cookies

Issue(t) ==
    LET with(f) == [k \in DOMAIN f \cup {t} |-> IF k = t THEN 0 ELSE f[k]] IN
    /\ t \notin DOMAIN created
    /\ created' = with(created) /\ used' = with(used) /\ touched' = with(touched)
    /\ \E kept \in Admit(with(Pruned(records)), t) : records' = kept /\ Answer(t, kept)
    /\ UNCHANGED revoked

\* mutant: the time of use is never written
TouchNever(r, t) == r

\* LastUsed is written when it is LastUsedFlush old, not at every request.
Touch(r, t) == IF r[t] >= LastUsedFlush THEN [r EXCEPT ![t] = 0] ELSE r

\* Authenticate, for every request to the proxy and for a logout.
Authenticate(t) ==
    LET r == Pruned(records)
        now == IF t \in DOMAIN r THEN Touch(r, t) ELSE r
    IN
    /\ t \in cookies
    /\ records' = now
    /\ used' = IF t \in DOMAIN r THEN [used EXCEPT ![t] = 0] ELSE used
    /\ touched' = IF now # r THEN [touched EXCEPT ![t] = 0] ELSE touched
    /\ PersistIfChanged(now # records, now)
    /\ UNCHANGED <<created, cookies, revoked>>

\* Revoke, the end of a logout: the browser forgets the cookie if it worked.
Revoke(t) ==
    LET r == Restrict(records, DOMAIN records \ {t}) IN
    /\ t \in cookies
    /\ records' = r
    /\ \/ PersistOK(r) /\ cookies' = cookies \ {t} /\ revoked' = revoked \cup {t}
       \/ PersistFails /\ UNCHANGED <<cookies, revoked>>
    /\ UNCHANGED <<created, times>>

\* mutant: a revocation that could not be written is answered with success
RevokeAllUnwritten ==
    /\ created # Empty
    /\ records' = Empty
    /\ Persist(Empty)
    /\ revoked' = DOMAIN created
    /\ UNCHANGED <<created, cookies, times>>

RevokeAll ==
    /\ created # Empty
    /\ records' = Empty
    /\ \/ PersistOK(Empty) /\ revoked' = DOMAIN created
       \/ PersistFails /\ UNCHANGED revoked
    /\ UNCHANGED <<created, cookies, times>>

-----------------------------------------------------------------------------
(* Restarts and time.                                                       *)

Loadable(f) == Cardinality(DOMAIN f) <= MaxTrustRecords

\* load, when the controller starts: a store it refuses stops the start.
Load(f) == Loadable(f) /\ records' = Pruned(f)

Restart ==
    /\ Load(file)
    /\ UNCHANGED <<file, durable, created, cookies, times, revoked, faults>>

\* The rename of persistLocked is not followed by a flush of its directory.
\* A revocation that the power loss undoes is no longer counted as one.
PowerLoss ==
    /\ faults < MaxFaults
    /\ faults' = faults + 1
    /\ file' = durable
    /\ Load(durable)
    /\ revoked' = revoked \ DOMAIN durable
    /\ UNCHANGED <<durable, created, cookies, times>>

Flush ==
    /\ durable # file
    /\ durable' = file
    /\ UNCHANGED <<records, file, created, cookies, times, revoked, faults>>

Older(r, limit) == [t \in DOMAIN r |-> IF r[t] <= limit THEN r[t] + 1 ELSE r[t]]

StoreAdvance ==
    /\ records' = Older(records, TrustIdle)
    /\ file' = Older(file, TrustIdle)
    /\ durable' = Older(durable, TrustIdle)
    /\ used' = Older(used, TrustIdle) /\ touched' = Older(touched, TrustIdle)
    /\ created' = Older(created, TrustAbsolute)
    /\ UNCHANGED <<cookies, revoked, faults>>

StoreNext ==
    \/ Count \/ RevokeAll
    \/ \E t \in Tokens : Issue(t) \/ Authenticate(t) \/ Revoke(t)
    \/ Restart \/ PowerLoss \/ Flush \/ StoreAdvance

StoreSpec == StoreInit /\ [][StoreNext]_storeVars

TokenSymmetry == Permutations(Tokens)

-----------------------------------------------------------------------------
(* Properties.                                                              *)

\* The file can be loaded at every moment, after a kill or a power loss too:
\* it never holds more records than load accepts, or the controller would
\* refuse to start (New, run.go).
StoreLoads == Loadable(file) /\ Loadable(durable)

\* The records, the file and what a power loss leaves of it are well typed and
\* within the limit that load checks (Issue, persistLocked, load).
StoreInv == StoreTypeOK /\ StoreLoads

\* A browser that was given its cookie and is trusted stays trusted through a
\* restart of the controller, whatever writes failed since (Issue persists
\* before it answers; later failures are ignored by Authenticate and Count).
CookieSurvivesRestart == \A t \in cookies \cap DOMAIN records : t \in DOMAIN file

\* Trust whose revocation was answered with success does not come back, by a
\* restart or by a later write of another record (Revoke, RevokeAll clear the
\* memory before they persist and report a failed persist).
RevokedStaysRevoked == revoked \cap (DOMAIN records \cup DOMAIN file) = {}

\* When a new browser takes the place of a trusted one, no browser that keeps
\* its trust was used LastUsedFlush or more before the one that loses it,
\* although the time of use is written only every LastUsedFlush; over restarts
\* and failed writes, unless the very time of use that would have spared it was
\* not written, or taken back by a power loss (Issue, Authenticate, load).
EvictionSparesRecentUse ==
    [][DOMAIN created # DOMAIN created' =>
         \A v \in DOMAIN Pruned(records) \ DOMAIN records', k \in DOMAIN records \cap DOMAIN records' :
            records[v] = touched[v] => used[k] < used[v] + LastUsedFlush]_storeVars

\* The same without the exception.  Authenticate ignores the error of the write,
\* and a restart then forgets the time of use.
EvictionAlwaysSparesRecentUse ==
    [][DOMAIN created # DOMAIN created' =>
         \A v \in DOMAIN Pruned(records) \ DOMAIN records', k \in DOMAIN records \cap DOMAIN records' :
            used[k] < used[v] + LastUsedFlush]_storeVars
=============================================================================
