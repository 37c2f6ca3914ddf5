------------------------------ MODULE Gateway ------------------------------
(***************************************************************************)
(* The browser gateway's manager (internal/gateway/gateway.go): one        *)
(* listener, its lease, its pairing offer and the limits on guessing.      *)
(*                                                                         *)
(* Three kinds of goroutine share the manager, each call of which takes    *)
(* the mutex more than once:                                               *)
(*   - the UI control socket serves one operation at a time: Open,         *)
(*     KeepAlive, Extend, CloseForeground, RevokeAll, and the Close of a   *)
(*     profile change or of a reset;                                       *)
(*   - the run loop calls Tick twice a second, after a Close when the      *)
(*     LAN boundary changed;                                               *)
(*   - every HTTP request has a goroutine of its own.                      *)
(* One step of the model is one critical section.                          *)
(*                                                                         *)
(* Times are kept as what is left of them (leases, the offer) or as what   *)
(* has passed (failures), so that Advance is the only step of the clock.   *)
(* Trusted browsers are the pair of the browser and the offer it used;     *)
(* their age, their eviction and their file are GatewayStore's.            *)
(***************************************************************************)
EXTENDS Integers, FiniteSets

CONSTANTS
    Browsers,           \* browsers on the LAN, each at an address of its own
    AddressSets,        \* what options.Addresses may return, NoAddresses included
    NoAddresses,        \* no eligible LAN address, or an error
    ForegroundLifetime, PairingLifetime, ExtensionLifetime,
    PerSourceWindow, GlobalWindow,
    PerSourceLimit, GlobalLimit,    \* 5 and 20
    MaxOpens            \* bound: offers issued

\* A deadline in the code is strictly in the future when it is set.
ASSUME LifetimesAssumption ==
    /\ ForegroundLifetime \in Nat \ {0}
    /\ PairingLifetime \in Nat \ {0}
    /\ ExtensionLifetime \in Nat \ {0}

\* An offer is gone before the failures against it leave the global window.
ASSUME WindowAssumption ==
    /\ PerSourceWindow \in Nat
    /\ GlobalWindow \in Nat
    /\ PairingLifetime <= GlobalWindow

ASSUME LimitAssumption ==
    /\ PerSourceLimit \in Nat \ {0}
    /\ GlobalLimit \in Nat \ {0}
    /\ MaxOpens \in Nat

NoInstance == "no-instance"
NoTime == -1                    \* the zero time.Time, or no offer

ASSUME AddressAssumption == NoInstance \notin AddressSets

VARIABLES
    instance,           \* the addresses the listener was opened for
    offer,              \* time left of the pairing offer
    controlCSRF,        \* whether there is a CSRF token
    foregroundDeadline, extensionExpires,
    failures,           \* failed attempts: source, age and which of those it is
    pairingLocked,
    trusted,            \* what trust.records holds
    addresses,          \* what options.Addresses returns
    ui,                 \* the UI operation under way
    loop,               \* where the run loop stands
    request,            \* each browser's pairing request
    opens,              \* offers issued, the name of the latest one
    guesses             \* history: wrong attempts against the latest offer

managerVars == <<instance, offer, controlCSRF, foregroundDeadline, extensionExpires>>
limitVars == <<failures, pairingLocked, guesses>>
callVars == <<ui, loop, request>>
vars == <<managerVars, limitVars, trusted, addresses, callVars, opens>>

Source == Browsers          \* the host of request.RemoteAddr
Failure == [source : Source, age : 0..GlobalWindow, nth : Nat \ {0}]
Idle == [at |-> "idle"]
UIOp == [at : {"idle", "finish", "revoked", "gone"}] \cup
        [at : {"listen"}, addresses : AddressSets]
LoopAt == [at : {"idle", "close"}] \cup
          [at : {"judge"}, addresses : AddressSets]
Request == [at : {"idle", "submitted"}] \cup
           [at : {"accepted"}, offer : 1..MaxOpens]

TypeOK ==
    /\ instance \in AddressSets \cup {NoInstance}
    /\ offer \in 0..PairingLifetime \cup {NoTime}
    /\ controlCSRF \in BOOLEAN
    /\ foregroundDeadline \in 0..ForegroundLifetime \cup {NoTime}
    /\ extensionExpires \in 0..ExtensionLifetime \cup {NoTime}
    /\ failures \subseteq Failure /\ pairingLocked \in BOOLEAN
    /\ trusted \subseteq Browsers \X (1..MaxOpens)
    /\ addresses \in AddressSets
    /\ ui \in UIOp /\ loop \in LoopAt
    /\ request \in [Browsers -> Request]
    /\ opens \in 0..MaxOpens
    /\ guesses \in Nat

Init ==
    /\ instance = NoInstance
    /\ offer = NoTime
    /\ controlCSRF = FALSE
    /\ foregroundDeadline = NoTime
    /\ extensionExpires = NoTime
    /\ failures = {}
    /\ pairingLocked = FALSE
    /\ trusted = {}
    /\ addresses \in AddressSets
    /\ ui = Idle
    /\ loop = Idle
    /\ request = [b \in Browsers |-> Idle]
    /\ opens = 0
    /\ guesses = 0

-----------------------------------------------------------------------------
(* Close: the mutex part.  Closing the server ends the connections, not the *)
(* goroutines of the requests that are under way.                           *)

CloseManager ==
    /\ instance' = NoInstance
    /\ offer' = NoTime
    /\ controlCSRF' = FALSE
    /\ foregroundDeadline' = NoTime
    /\ extensionExpires' = NoTime

-----------------------------------------------------------------------------
(* Operations of the UI control socket.                                     *)

UICall == ui = Idle

\* Open up to its first unlock, and the Close that follows when the listener
\* is for other addresses (nothing that runs in between changes what it does).
\* Without an eligible address Open returns.
OpenCompare ==
    /\ UICall
    /\ opens < MaxOpens
    /\ addresses # NoAddresses
    /\ \/ /\ instance = addresses
          /\ ui' = [at |-> "finish"]
          /\ UNCHANGED managerVars
       \/ /\ instance # addresses
          /\ ui' = [at |-> "listen", addresses |-> addresses]
          /\ CloseManager
    /\ UNCHANGED <<limitVars, trusted, addresses, loop, request, opens>>

\* The certificate and the listener: either may fail.
OpenListen ==
    /\ ui.at = "listen"
    /\ \/ instance' = ui.addresses /\ ui' = [at |-> "finish"]
       \/ instance' = instance /\ ui' = Idle
    /\ UNCHANGED <<offer, controlCSRF, foregroundDeadline, extensionExpires, limitVars,
                   trusted, addresses, loop, request, opens>>

\* issueOfferLocked: a PIN and a token, and a CSRF token for the control pages.
IssueOffer ==
    /\ offer' = PairingLifetime
    /\ opens' = opens + 1
    /\ controlCSRF' = TRUE
    /\ guesses' = 0

\* mutant: an extension survives the next Open
OpenFinishExtended ==
    /\ ui.at = "finish"
    /\ instance # NoInstance
    /\ ui' = Idle
    /\ extensionExpires' = extensionExpires
    /\ foregroundDeadline' = ForegroundLifetime
    /\ failures' = {}
    /\ pairingLocked' = FALSE
    /\ IssueOffer
    /\ UNCHANGED <<instance, trusted, addresses, loop, request>>

\* The last critical section of Open: a lease, a clean slate of failures and
\* a new offer, unless the listener was closed meanwhile.
OpenFinish ==
    /\ ui.at = "finish"
    /\ instance # NoInstance
    /\ ui' = Idle
    /\ extensionExpires' = NoTime
    /\ foregroundDeadline' = ForegroundLifetime
    /\ failures' = {}
    /\ pairingLocked' = FALSE
    /\ IssueOffer
    /\ UNCHANGED <<instance, trusted, addresses, loop, request>>

OpenClosedMeanwhile ==
    /\ ui.at = "finish"
    /\ instance = NoInstance
    /\ ui' = Idle
    /\ UNCHANGED <<managerVars, limitVars, trusted, addresses, loop, request, opens>>

KeepAlive ==
    /\ UICall
    /\ instance # NoInstance
    /\ extensionExpires = NoTime
    /\ foregroundDeadline' = ForegroundLifetime
    /\ UNCHANGED <<instance, offer, controlCSRF, extensionExpires, limitVars, trusted,
                   addresses, callVars, opens>>

Extend ==
    /\ UICall
    /\ instance # NoInstance
    /\ trusted # {}
    /\ offer' = NoTime
    /\ extensionExpires' = ExtensionLifetime
    /\ foregroundDeadline' = NoTime
    /\ UNCHANGED <<instance, controlCSRF, limitVars, trusted, addresses, callVars,
                   opens>>

Extended ==
    /\ instance # NoInstance
    /\ extensionExpires # NoTime
    /\ extensionExpires > 0

CloseForeground ==
    /\ UICall
    /\ \/ Extended /\ offer' = NoTime
          /\ UNCHANGED <<instance, controlCSRF, foregroundDeadline, extensionExpires>>
       \/ ~Extended /\ CloseManager
    /\ UNCHANGED <<limitVars, trusted, addresses, callVars, opens>>

\* The records in memory go first.  If they cannot be persisted the operation
\* fails there, the listener still open.
RevokeRecords ==
    /\ UICall
    /\ trusted' = {}
    /\ \E persisted \in BOOLEAN : ui' = IF persisted THEN [at |-> "revoked"] ELSE Idle
    /\ UNCHANGED <<managerVars, limitVars, addresses, loop, request, opens>>

RevokeClose ==
    /\ ui.at = "revoked"
    /\ CloseManager
    /\ ui' = Idle
    /\ UNCHANGED <<limitVars, trusted, addresses, loop, request, opens>>

\* SetNetworkProfile and PrepareReset close the gateway before they act.
CloseBeforeChange ==
    /\ UICall
    /\ instance # NoInstance
    /\ CloseManager
    /\ UNCHANGED <<limitVars, trusted, addresses, callVars, opens>>

\* The UI leaves or dies (an operation it started completes first).
UIQuit ==
    /\ UICall
    /\ ui' = [at |-> "gone"]
    /\ UNCHANGED <<managerVars, limitVars, trusted, addresses, loop, request, opens>>

-----------------------------------------------------------------------------
(* The run loop.                                                            *)

\* The LAN boundary changed (the network profile's RefreshIfChanged).
RefreshLan ==
    /\ loop = Idle
    /\ instance # NoInstance
    /\ CloseManager
    /\ UNCHANGED <<limitVars, trusted, addresses, callVars, opens>>

\* Tick: it sees a listener, and reads the addresses without the mutex.
TickRead ==
    /\ loop = Idle
    /\ instance # NoInstance
    /\ loop' = [at |-> "judge", addresses |-> addresses]
    /\ UNCHANGED <<managerVars, limitVars, trusted, addresses, ui, request, opens>>

\* mutant: only the foreground lease ends
LeaseOverForeground == extensionExpires = NoTime /\ foregroundDeadline = 0

LeaseOver ==
    \/ extensionExpires = 0
    \/ extensionExpires = NoTime /\ foregroundDeadline = 0

\* Tick takes the mutex again and judges the listener it finds there.
TickJudge ==
    /\ loop.at = "judge"
    /\ LET over == instance # NoInstance /\ (LeaseOver \/ instance # loop.addresses)
       IN  loop' = IF over THEN [at |-> "close"] ELSE Idle
    /\ offer' = IF instance # NoInstance /\ offer = 0 THEN NoTime ELSE offer
    /\ UNCHANGED <<instance, controlCSRF, foregroundDeadline, extensionExpires, limitVars,
                   trusted, addresses, ui, request, opens>>

TickClose ==
    /\ loop.at = "close"
    /\ CloseManager
    /\ loop' = Idle
    /\ UNCHANGED <<limitVars, trusted, addresses, ui, request, opens>>

-----------------------------------------------------------------------------
(* Requests.                                                                *)

\* The page that GET /leaf/pair serves carries the CSRF token of the moment,
\* so a browser can always send the current one.
ValidControlRequest == instance # NoInstance /\ controlCSRF

\* POST /leaf/pair, up to the body.
SubmitPairing(b) ==
    /\ request[b] = Idle
    /\ ValidControlRequest
    /\ request' = [request EXCEPT ![b] = [at |-> "submitted"]]
    /\ UNCHANGED <<managerVars, limitVars, trusted, addresses, ui, loop, opens>>

RecentFrom(b) == {f \in failures : f.source = b /\ f.age <= PerSourceWindow}
Locked(b) == pairingLocked \/ Cardinality(RecentFrom(b)) >= PerSourceLimit

\* the failures of one source at one moment are counted
NowFrom(b) == {f \in failures : f.source = b /\ f.age = 0}
Failed(b) == failures \cup {[source |-> b, age |-> 0, nth |-> Cardinality(NowFrom(b)) + 1]}

RejectLocked(b) ==
    /\ request[b].at = "submitted"
    /\ Locked(b)
    /\ request' = [request EXCEPT ![b] = Idle]
    /\ UNCHANGED <<managerVars, limitVars, trusted, addresses, ui, loop, opens>>

\* mutant: the failure after the limit locks
RejectPairingLate(b) ==
    /\ request[b].at = "submitted"
    /\ ~Locked(b)
    /\ failures' = Failed(b)
    /\ pairingLocked' = (Cardinality(failures') > GlobalLimit)
    /\ offer' = IF pairingLocked' THEN NoTime ELSE offer
    /\ guesses' = IF offer > 0 THEN guesses + 1 ELSE guesses
    /\ request' = [request EXCEPT ![b] = Idle]
    /\ UNCHANGED <<instance, controlCSRF, foregroundDeadline, extensionExpires, trusted,
                   addresses, ui, loop, opens>>

\* A wrong PIN or token, or no offer to match it with.
RejectPairing(b) ==
    /\ request[b].at = "submitted"
    /\ ~Locked(b)
    /\ failures' = Failed(b)
    /\ pairingLocked' = (Cardinality(failures') >= GlobalLimit)
    /\ offer' = IF pairingLocked' THEN NoTime ELSE offer
    /\ guesses' = IF offer > 0 THEN guesses + 1 ELSE guesses
    /\ request' = [request EXCEPT ![b] = Idle]
    /\ UNCHANGED <<instance, controlCSRF, foregroundDeadline, extensionExpires, trusted,
                   addresses, ui, loop, opens>>

\* mutant: the offer is left to the next tick
AcceptPairingAgain(b) ==
    /\ request[b].at = "submitted"
    /\ ~Locked(b)
    /\ offer > 0
    /\ offer' = offer
    /\ request' = [request EXCEPT ![b] = [at |-> "accepted", offer |-> opens]]
    /\ UNCHANGED <<instance, controlCSRF, foregroundDeadline, extensionExpires, limitVars,
                   trusted, addresses, ui, loop, opens>>

\* The offer is consumed with the mutex held; the trust is issued without it.
AcceptPairing(b) ==
    /\ request[b].at = "submitted"
    /\ ~Locked(b)
    /\ offer > 0
    /\ offer' = NoTime
    /\ request' = [request EXCEPT ![b] = [at |-> "accepted", offer |-> opens]]
    /\ UNCHANGED <<instance, controlCSRF, foregroundDeadline, extensionExpires, limitVars,
                   trusted, addresses, ui, loop, opens>>

\* trust.Issue: the record is in memory whether or not it could be persisted.
IssueTrust(b) ==
    /\ request[b].at = "accepted"
    /\ trusted' = trusted \cup {<<b, request[b].offer>>}
    /\ request' = [request EXCEPT ![b] = Idle]
    /\ UNCHANGED <<managerVars, limitVars, addresses, ui, loop, opens>>

\* A logout, or a record that expired or was evicted (GatewayStore).
TrustEnds(t) ==
    /\ trusted' = trusted \ {t}
    /\ UNCHANGED <<managerVars, limitVars, addresses, callVars, opens>>

-----------------------------------------------------------------------------
(* The world.                                                               *)

\* The device moves to another network or loses it.
AddressChange ==
    /\ addresses' \in AddressSets \ {addresses}
    /\ UNCHANGED <<managerVars, limitVars, trusted, callVars, opens>>

Left(t) == IF t > 0 THEN t - 1 ELSE t
Aged(f) == [f EXCEPT !.age = @ + 1]

\* Time passes.  recent drops what is older than a window before it counts.
Advance ==
    /\ offer' = Left(offer)
    /\ foregroundDeadline' = Left(foregroundDeadline)
    /\ extensionExpires' = Left(extensionExpires)
    /\ failures' = {Aged(f) : f \in {g \in failures : g.age < GlobalWindow}}
    /\ UNCHANGED <<instance, controlCSRF, pairingLocked, guesses, trusted, addresses,
                   callVars, opens>>

-----------------------------------------------------------------------------
UIStep == OpenListen \/ OpenFinish \/ OpenClosedMeanwhile \/ RevokeClose
UIStart == OpenCompare \/ KeepAlive \/ Extend \/ CloseForeground \/ RevokeRecords
             \/ CloseBeforeChange \/ UIQuit
Tick == TickRead \/ TickJudge \/ TickClose
RequestStep(b) == \/ SubmitPairing(b) \/ RejectLocked(b)
                  \/ RejectPairing(b) \/ AcceptPairing(b) \/ IssueTrust(b)

Next ==
    \/ UIStart \/ UIStep \/ RefreshLan \/ Tick
    \/ \E b \in Browsers : RequestStep(b)
    \/ \E t \in trusted : TrustEnds(t)
    \/ AddressChange
    \/ Advance

\* The run loop's ticker fires again and again, and so does the clock.
\* Nothing is asked of the UI, of its operations, of the browsers or of the
\* network.
Fairness == WF_vars(Tick) /\ WF_vars(Advance)

Spec == Init /\ [][Next]_vars /\ Fairness

-----------------------------------------------------------------------------
(* Properties.                                                              *)

\* One offer trusts at most one browser (docs/gateway-security.md: "One live
\* pairing offer; lifetime two minutes; single use"), however many submit the
\* PIN at once and whatever opens, closes or expires between a submission,
\* its check and the trust that follows (submitPairing).
OfferPairsOneBrowser ==
    \A o \in 1..opens :
        Cardinality({b \in Browsers : \/ <<b, o>> \in trusted
                                      \/ request[b] = [at |-> "accepted", offer |-> o]}) <= 1

\* submitPairing looks neither at the listener nor at the extension: it counts
\* on an offer being there only while the listener is open in its foreground
\* lease and pairing is not locked (Open, Extend, Close, the lock of the
\* twentieth failure).
OfferOnlyInForeground ==
    offer # NoTime => /\ instance # NoInstance
                      /\ extensionExpires = NoTime
                      /\ ~pairingLocked

\* A listener has one deadline, the foreground lease or the extension, except
\* while Open is about to give it one: Tick never meets a listener that no
\* deadline ends, although Open publishes the instance before its lease.
ListenerHasDeadline ==
    instance # NoInstance /\ ui.at # "finish" =>
        (foregroundDeadline = NoTime) # (extensionExpires = NoTime)

\* The state of the listener, between any two critical sections: well typed, one
\* deadline, and an offer only where submitPairing expects one.
ListenerInv == TypeOK /\ OfferOnlyInForeground /\ ListenerHasDeadline

\* No offer is guessed at more often than the global limit allows, although
\* failures are forgotten after the window and the count is kept per source
\* too (submitPairing, pruneFailuresLocked).
GuessesBounded == guesses <= GlobalLimit

\* Once the UI is gone the listener closes for good, whatever lease or
\* extension it had, whatever operation was under way and however the ticks
\* of the run loop interleave with it (Tick, CloseForeground).
LeaseEnds == ui.at = "gone" ~> instance = NoInstance

\* "gateway.revoke-all removes all browser trust and closes the listener"
\* (docs/ui-control-v1.md): when the operation has succeeded no browser is
\* trusted.  A pairing accepted before it may issue its trust in between.
RevokeAllRemovesTrust == [][ui.at = "revoked" /\ ui' = Idle => trusted' = {}]_vars
=============================================================================
