--------------------------- MODULE GatewayProofs ----------------------------
(***************************************************************************)
(* Proofs about Gateway, for every set of browsers and addresses, every    *)
(* lifetime, window and limit the assumptions admit, and about its store   *)
(* of trusted browsers, GatewayStore, for every number of tokens and every *)
(* limit.                                                                  *)
(*                                                                         *)
(* Gateway: an offer is there only where submitPairing counts on it, it    *)
(* pairs one browser, and it is guessed at no more often than the limit    *)
(* allows.  IInv follows the operation under way (ProgressInv), says who   *)
(* may hold trust from an offer (HolderInv), and that the failures that    *)
(* are kept count the guesses at a live offer (CountInv).                  *)
(*                                                                         *)
(* GatewayStore: the file can always be loaded, trust that was answered    *)
(* survives a restart, trust that was revoked does not come back, and a    *)
(* new browser takes the place of one that was used about as long ago as   *)
(* any other.  Beyond the checked properties StoreIInv says that the       *)
(* memory too is within the limit (SizeInv), how far the last touch of a   *)
(* record may be behind the browser's last use of it, and that no record,  *)
(* wherever it is kept, is ahead of that touch (AgeInv).                   *)
(***************************************************************************)
EXTENDS Gateway, GatewayStore, FiniteSetTheorems, TLAPS

\* what an operation of the UI knows between its critical sections
ProgressInv ==
    /\ ui.at \in {"listen", "finish"} => opens < MaxOpens
    /\ ui.at = "listen" => instance = NoInstance
    /\ offer # NoTime => opens > 0

\* the trust a browser has from an offer, or is about to be issued
Holds(b, o) == <<b, o>> \in trusted \/ request[b] = [at |-> "accepted", offer |-> o]
HolderInv ==
    /\ \A b \in Browsers, o \in 1..MaxOpens : Holds(b, o) => o <= opens
    /\ \A b, c \in Browsers, o \in 1..MaxOpens : Holds(b, o) /\ Holds(c, o) => b = c
    /\ offer # NoTime => \A b \in Browsers : ~Holds(b, opens)

\* the failures since the latest offer was issued, as far as its age tells
Since == {f \in failures : f.age <= PairingLifetime - offer}
CountInv ==
    /\ IsFiniteSet(failures)
    /\ \A f \in failures : f.age = 0 => f.nth <= Cardinality(NowFrom(f.source))
    /\ ~pairingLocked => Cardinality(failures) < GlobalLimit
    /\ offer > 0 => guesses <= Cardinality(Since)
    /\ GuessesBounded

IInv ==
    /\ TypeOK /\ OfferOnlyInForeground /\ ListenerHasDeadline
    /\ ProgressInv /\ HolderInv /\ CountInv

-----------------------------------------------------------------------------
(* Counting failures.                                                       *)

\* A part of a finite set has at most as many members.
LEMMA PartIsSmaller ==
    ASSUME NEW S, IsFiniteSet(S), NEW T, T \subseteq S
    PROVE  /\ IsFiniteSet(T)
           /\ Cardinality(T) \in Nat /\ Cardinality(S) \in Nat
           /\ Cardinality(T) <= Cardinality(S)
BY FS_Subset, FS_CardinalityType

\* A failure that is recorded is one more, and one of those that happen now.
LEMMA FailedIs ==
    ASSUME IInv, NEW b \in Browsers
    PROVE  LET f == [source |-> b, age |-> 0, nth |-> Cardinality(NowFrom(b)) + 1]
           IN  /\ Failed(b) = failures \cup {f} /\ f \in Failure /\ f \notin failures
               /\ IsFiniteSet(Failed(b))
               /\ Cardinality(Failed(b)) = Cardinality(failures) + 1
               /\ Cardinality(failures) \in Nat
<1> DEFINE f == [source |-> b, age |-> 0, nth |-> Cardinality(NowFrom(b)) + 1]
<1>1. IsFiniteSet(failures) /\ NowFrom(b) \subseteq failures
    BY DEF IInv, CountInv, NowFrom
<1>2. Cardinality(NowFrom(b)) \in Nat /\ Cardinality(failures) \in Nat
    BY <1>1, PartIsSmaller
<1>3. f \in Failure
    BY <1>2, WindowAssumption DEF Failure, Source
<1>4. f \notin failures
    BY <1>2 DEF IInv, CountInv
<1>5. Failed(b) = failures \cup {f}
    BY DEF Failed
<1>6. /\ IsFiniteSet(failures \cup {f})
      /\ Cardinality(failures \cup {f}) = Cardinality(failures) + 1
    BY <1>1, <1>4, FS_AddElement
<1>7. QED
    BY <1>2, <1>3, <1>4, <1>5, <1>6

\* Failures that get older by the same stay as many (Advance).
LEMMA AgedIs ==
    ASSUME NEW S \in SUBSET Failure, IsFiniteSet(S)
    PROVE  LET T == {Aged(f) : f \in S}
           IN  IsFiniteSet(T) /\ Cardinality(T) = Cardinality(S)
<1> DEFINE T == {Aged(f) : f \in S}
           older == [f \in S |-> Aged(f)]
<1>1. older \in [S -> T] /\ \A t \in T : \E f \in S : older[f] = t
    OBVIOUS
<1>2. \A f, g \in S : Aged(f) = Aged(g) => f = g
  <2> SUFFICES ASSUME NEW f \in S, NEW g \in S, Aged(f) = Aged(g) PROVE f = g
    OBVIOUS
  <2>1. /\ Aged(f).source = f.source /\ Aged(f).age = f.age + 1 /\ Aged(f).nth = f.nth
        /\ Aged(g).source = g.source /\ Aged(g).age = g.age + 1 /\ Aged(g).nth = g.nth
        /\ f = [source |-> f.source, age |-> f.age, nth |-> f.nth]
        /\ g = [source |-> g.source, age |-> g.age, nth |-> g.nth]
        /\ f.age \in Nat /\ g.age \in Nat
    BY DEF Aged, Failure
  <2>2. f.source = g.source /\ f.age + 1 = g.age + 1 /\ f.nth = g.nth
    BY <2>1
  <2>3. f.age = g.age
    BY <2>1, <2>2
  <2>4. QED
    BY <2>1, <2>2, <2>3
<1>3. older \in Surjection(S, T) /\ older \in Injection(S, T)
    BY <1>1, <1>2 DEF Surjection, Injection, IsInjective
<1>4. QED
    BY <1>3, FS_Surjection

-----------------------------------------------------------------------------
(* The invariant, action by action.                                         *)

\* The places of an operation, of the run loop and of a request are told apart by "at".
LEMMA Places ==
    /\ Idle \in UIOp /\ Idle \in LoopAt /\ Idle \in Request /\ Idle.at = "idle"
    /\ \A at \in {"finish", "revoked", "gone"} : [at |-> at] \in UIOp
    /\ \A a \in AddressSets : [at |-> "listen", addresses |-> a] \in UIOp
    /\ \A o : Idle # [at |-> "accepted", offer |-> o]
<1>1. \A o : [at |-> "accepted", offer |-> o].at # Idle.at
    BY DEF Idle
<1>2. QED
    BY <1>1 DEF Idle, UIOp, LoopAt, Request

LEMMA InitInv == Init => IInv
<1> SUFFICES ASSUME Init PROVE IInv
    OBVIOUS
<1>1. CountInv
  <2>1. IsFiniteSet({}) /\ Cardinality({}) = 0
    BY FS_EmptySet
  <2>2. QED
    BY <2>1, LimitAssumption DEF Init, CountInv, NoTime, GuessesBounded
<1>2. TypeOK
  <2>1. /\ offer = NoTime /\ foregroundDeadline = NoTime /\ extensionExpires = NoTime
        /\ instance = NoInstance /\ addresses \in AddressSets
        /\ failures = {} /\ trusted = {} /\ opens = 0 /\ guesses = 0
        /\ controlCSRF = FALSE /\ pairingLocked = FALSE
    BY DEF Init
  <2>2. ui \in UIOp /\ loop \in LoopAt /\ request \in [Browsers -> Request]
    BY Places DEF Init
  <2>3. opens \in 0..MaxOpens /\ guesses \in Nat
    BY <2>1, LimitAssumption
  <2>4. controlCSRF \in BOOLEAN /\ pairingLocked \in BOOLEAN
    BY <2>1
  <2>5. QED
    BY <2>1, <2>2, <2>3, <2>4 DEF TypeOK
<1>3. HolderInv
  <2>1. \A b \in Browsers : request[b] = Idle
    BY DEF Init
  <2>2. \A o : \A b \in Browsers : ~Holds(b, o)
    BY <2>1, Places DEF Init, Holds
  <2>3. QED
    BY <2>2 DEF HolderInv
<1>4. OfferOnlyInForeground /\ ListenerHasDeadline /\ ProgressInv
    BY Places DEF Init, OfferOnlyInForeground, ListenerHasDeadline, ProgressInv
<1>5. QED
    BY <1>1, <1>2, <1>3, <1>4 DEF IInv

\* A step that records no failure and gives no time to an offer keeps the count.
Same ==
    /\ UNCHANGED limitVars
    /\ offer' \in {offer, NoTime}

LEMMA SameCount == IInv /\ Same => CountInv'
<1> SUFFICES ASSUME IInv, Same PROVE CountInv'
    OBVIOUS
<1>1. CountInv /\ UNCHANGED <<failures, pairingLocked, guesses>>
    BY DEF IInv, Same, limitVars
<1>2. CASE offer' = offer
    BY <1>1, <1>2 DEF CountInv, Since, NowFrom, GuessesBounded
<1>3. CASE offer' = NoTime
    BY <1>1, <1>3 DEF CountInv, NowFrom, GuessesBounded, NoTime
<1>4. QED
    BY <1>2, <1>3 DEF Same

\* Operations of the UI control socket.
LEMMA UIStepInv ==
    ASSUME IInv, UIStart \/ UIStep
    PROVE  IInv'
<1> USE LifetimesAssumption, WindowAssumption, LimitAssumption, AddressAssumption
    DEF IInv, TypeOK, OfferOnlyInForeground, ListenerHasDeadline, ProgressInv, HolderInv, Holds,
        NoTime, Idle, UICall, CloseManager, UIOp, LoopAt, Request, Source,
        managerVars, limitVars, callVars, Same
<1>1. CASE OpenCompare
  <2>1. CountInv'
    BY <1>1, SameCount DEF OpenCompare
  <2>2. TypeOK'
    BY <1>1, Places DEF OpenCompare
  <2>3. OfferOnlyInForeground' /\ ListenerHasDeadline' /\ ProgressInv'
    BY <1>1 DEF OpenCompare
  <2>4. HolderInv'
    BY <1>1 DEF OpenCompare
  <2>5. QED
    BY <2>1, <2>2, <2>3, <2>4
<1>2. CASE OpenFinish
  <2>1. /\ ui.at = "finish" /\ instance # NoInstance /\ ui' = Idle
        /\ extensionExpires' = NoTime /\ foregroundDeadline' = ForegroundLifetime
        /\ failures' = {} /\ pairingLocked' = FALSE /\ guesses' = 0
        /\ offer' = PairingLifetime /\ opens' = opens + 1 /\ controlCSRF' = TRUE
        /\ UNCHANGED <<instance, trusted, addresses, loop, request>>
    BY <1>2 DEF OpenFinish, IssueOffer
  <2>2. CountInv'
    <3>1. IsFiniteSet({}) /\ Cardinality({}) = 0
      BY FS_EmptySet
    <3>2. Since' = {}
      BY <2>1 DEF Since
    <3>3. /\ IsFiniteSet(failures') /\ Cardinality(failures') < GlobalLimit
          /\ \A f \in failures' : f.age = 0 => f.nth <= Cardinality(NowFrom(f.source)')
      BY <2>1, <3>1
    <3>4. guesses' <= Cardinality(Since') /\ GuessesBounded'
      BY <2>1, <3>1, <3>2 DEF GuessesBounded
    <3>5. QED
      BY <3>3, <3>4 DEF CountInv
  <2>3. HolderInv'
    BY <2>1
  <2>4. TypeOK'
    <3>1. opens' \in 0..MaxOpens /\ guesses' \in Nat
      BY <2>1
    <3>2. /\ offer' \in 0..PairingLifetime
          /\ foregroundDeadline' \in 0..ForegroundLifetime
      BY <2>1
    <3>3. ui' \in UIOp
      BY <2>1, Places
    <3>4. controlCSRF' \in BOOLEAN /\ pairingLocked' \in BOOLEAN
      BY <2>1
    <3>5. QED
      BY <2>1, <3>1, <3>2, <3>3, <3>4
  <2>5. OfferOnlyInForeground' /\ ListenerHasDeadline' /\ ProgressInv'
    BY <2>1
  <2>6. QED
    BY <2>2, <2>3, <2>4, <2>5
<1>3. CASE OpenListen
  <2>1. CountInv'
    BY <1>3, SameCount DEF OpenListen
  <2>2. QED
    BY <1>3, <2>1 DEF OpenListen
<1>4. CASE OpenClosedMeanwhile
  <2>1. CountInv'
    BY <1>4, SameCount DEF OpenClosedMeanwhile
  <2>2. QED
    BY <1>4, <2>1 DEF OpenClosedMeanwhile
<1>5. CASE KeepAlive
  <2>1. CountInv'
    BY <1>5, SameCount DEF KeepAlive
  <2>2. QED
    BY <1>5, <2>1 DEF KeepAlive
<1>6. CASE Extend
  <2>1. CountInv'
    BY <1>6, SameCount DEF Extend
  <2>2. QED
    BY <1>6, <2>1 DEF Extend
<1>7. CASE CloseForeground
  <2>1. CountInv'
    BY <1>7, SameCount DEF CloseForeground
  <2>2. QED
    BY <1>7, <2>1 DEF CloseForeground
<1>8. CASE RevokeRecords
  <2>1. CountInv'
    BY <1>8, SameCount DEF RevokeRecords
  <2>2. TypeOK'
    BY <1>8, Places DEF RevokeRecords
  <2>3. OfferOnlyInForeground' /\ ListenerHasDeadline' /\ ProgressInv'
    BY <1>8 DEF RevokeRecords
  <2>4. HolderInv'
    BY <1>8 DEF RevokeRecords
  <2>5. QED
    BY <2>1, <2>2, <2>3, <2>4
<1>9. CASE RevokeClose
  <2>1. CountInv'
    BY <1>9, SameCount DEF RevokeClose
  <2>2. QED
    BY <1>9, <2>1 DEF RevokeClose
<1>10. CASE CloseBeforeChange
  <2>1. CountInv'
    BY <1>10, SameCount DEF CloseBeforeChange
  <2>2. QED
    BY <1>10, <2>1 DEF CloseBeforeChange
<1>11. CASE UIQuit
  <2>1. CountInv'
    BY <1>11, SameCount DEF UIQuit
  <2>2. QED
    BY <1>11, <2>1 DEF UIQuit
<1>12. QED
    BY <1>1, <1>2, <1>3, <1>4, <1>5, <1>6, <1>7, <1>8, <1>9, <1>10, <1>11 DEF UIStart, UIStep

\* The run loop.
LEMMA LoopStepInv ==
    ASSUME IInv, RefreshLan \/ Tick
    PROVE  IInv'
<1> USE LifetimesAssumption, WindowAssumption, LimitAssumption, AddressAssumption
    DEF IInv, TypeOK, OfferOnlyInForeground, ListenerHasDeadline, ProgressInv, HolderInv, Holds,
        NoTime, Idle, UICall, CloseManager, UIOp, LoopAt, Request, Source,
        managerVars, limitVars, callVars, Same
<1>1. CASE RefreshLan
  <2>1. CountInv'
    BY <1>1, SameCount DEF RefreshLan
  <2>2. QED
    BY <1>1, <2>1 DEF RefreshLan
<1>2. CASE TickRead
  <2>1. CountInv'
    BY <1>2, SameCount DEF TickRead
  <2>2. QED
    BY <1>2, <2>1 DEF TickRead
<1>3. CASE TickJudge
  <2>1. CountInv'
    BY <1>3, SameCount DEF TickJudge
  <2>2. QED
    BY <1>3, <2>1 DEF TickJudge
<1>4. CASE TickClose
  <2>1. CountInv'
    BY <1>4, SameCount DEF TickClose
  <2>2. QED
    BY <1>4, <2>1 DEF TickClose
<1>5. QED
    BY <1>1, <1>2, <1>3, <1>4 DEF Tick

\* Pairing requests.
LEMMA RequestStepInv ==
    ASSUME IInv, NEW b \in Browsers, RequestStep(b)
    PROVE  IInv'
<1> USE LifetimesAssumption, WindowAssumption, LimitAssumption, AddressAssumption
    DEF IInv, TypeOK, OfferOnlyInForeground, ListenerHasDeadline, ProgressInv, HolderInv, Holds,
        NoTime, Idle, UICall, CloseManager, UIOp, LoopAt, Request, Source,
        managerVars, limitVars, callVars, Same
<1>1. CASE SubmitPairing(b)
  <2>1. CountInv'
    BY <1>1, SameCount DEF SubmitPairing
  <2>2. QED
    BY <1>1, <2>1 DEF SubmitPairing
<1>2. CASE RejectLocked(b)
  <2>1. CountInv'
    BY <1>2, SameCount DEF RejectLocked
  <2>2. QED
    BY <1>2, <2>1 DEF RejectLocked
<1>3. CASE RejectPairing(b)
  <2> DEFINE f == [source |-> b, age |-> 0, nth |-> Cardinality(NowFrom(b)) + 1]
  <2>1. /\ ~pairingLocked
        /\ failures' = Failed(b)
        /\ pairingLocked' = (Cardinality(failures') >= GlobalLimit)
        /\ offer' = IF pairingLocked' THEN NoTime ELSE offer
        /\ guesses' = IF offer > 0 THEN guesses + 1 ELSE guesses
        /\ request' = [request EXCEPT ![b] = Idle]
        /\ UNCHANGED <<instance, controlCSRF, foregroundDeadline, extensionExpires, trusted,
                       addresses, ui, loop, opens>>
    BY <1>3 DEF RejectPairing, Locked
  <2>2. /\ failures' = failures \cup {f} /\ f \in Failure /\ f \notin failures
        /\ IsFiniteSet(failures') /\ Cardinality(failures') = Cardinality(failures) + 1
        /\ IsFiniteSet(failures) /\ Cardinality(failures) \in Nat
    BY <2>1, FailedIs DEF CountInv
  <2> HIDE DEF f
  <2>3. \A g \in failures' : g.age = 0 => g.nth <= Cardinality(NowFrom(g.source)')
    <3> SUFFICES ASSUME NEW g \in failures', g.age = 0
                 PROVE  g.nth <= Cardinality(NowFrom(g.source)')
      OBVIOUS
    <3>1. CASE g.source = b
      <4>1. NowFrom(b)' = NowFrom(b) \cup {f} /\ f \notin NowFrom(b)
        BY <2>2 DEF NowFrom, f
      <4>2. IsFiniteSet(NowFrom(b)) /\ Cardinality(NowFrom(b)) \in Nat
        BY <2>2, PartIsSmaller DEF NowFrom
      <4>3. Cardinality(NowFrom(b)') = Cardinality(NowFrom(b)) + 1
        <5>1. Cardinality(NowFrom(b) \cup {f}) = Cardinality(NowFrom(b)) + 1
          BY <4>1, <4>2, FS_AddElement
        <5>2. QED
          BY <4>1, <5>1
      <4>4. CASE g = f
        BY <4>3, <4>4, <3>1, <4>2 DEF f
      <4>5. CASE g \in failures
        <5>1. g.nth \in Nat /\ g.nth <= Cardinality(NowFrom(b))
          <6>1. g \in Failure /\ g.nth \in Nat
            BY <4>5 DEF Failure
          <6>2. g.nth <= Cardinality(NowFrom(g.source))
            BY <4>5 DEF CountInv
          <6>3. QED
            BY <6>1, <6>2, <3>1
        <5>2. QED
          BY <5>1, <3>1, <4>2, <4>3
      <4>6. QED
        BY <2>2, <4>4, <4>5
    <3>2. CASE g.source # b
      <4>1. NowFrom(g.source)' = NowFrom(g.source) /\ g \in failures
        BY <2>2, <3>2 DEF NowFrom, f
      <4>2. QED
        BY <4>1 DEF CountInv
    <3>3. QED
      BY <3>1, <3>2
  <2>4. offer > 0 => guesses + 1 <= Cardinality(failures) + 1 /\ guesses + 1 <= GlobalLimit
    <3>1. Cardinality(Since) \in Nat /\ Cardinality(Since) <= Cardinality(failures)
      BY <2>2, PartIsSmaller DEF Since
    <3>2. QED
      BY <2>1, <2>2, <3>1 DEF CountInv
  <2>5. offer' > 0 => guesses' <= Cardinality(Since')
    <3> SUFFICES ASSUME offer' > 0 PROVE guesses' <= Cardinality(Since')
      OBVIOUS
    <3>1. offer' = offer /\ offer \in 1..PairingLifetime /\ guesses' = guesses + 1
      BY <2>1
    <3>2. Since' = Since \cup {f} /\ f \notin Since
      BY <2>2, <3>1 DEF Since, f
    <3>3. IsFiniteSet(Since) /\ Cardinality(Since) \in Nat
      BY <2>2, PartIsSmaller DEF Since
    <3>4. Cardinality(Since') = Cardinality(Since) + 1
      BY <3>2, <3>3, FS_AddElement
    <3>5. QED
      BY <3>1, <3>3, <3>4 DEF CountInv
  <2>6. CountInv'
    <3>1. ~pairingLocked' => Cardinality(failures') < GlobalLimit
      <4>1. ~pairingLocked' => ~(Cardinality(failures') >= GlobalLimit)
        BY <2>1, Zenon
      <4>2. Cardinality(failures') \in Nat /\ GlobalLimit \in Nat
        BY <2>2
      <4>3. QED
        BY <4>1, <4>2
    <3>2. GuessesBounded'
      BY <2>1, <2>4 DEF CountInv, GuessesBounded
    <3>3. QED
      BY <2>2, <2>3, <2>5, <3>1, <3>2 DEF CountInv
  <2>7. TypeOK'
    BY <2>1, <2>2
  <2>8. OfferOnlyInForeground' /\ ListenerHasDeadline' /\ ProgressInv' /\ HolderInv'
    BY <2>1
  <2>9. QED
    BY <2>6, <2>7, <2>8
<1>4. CASE AcceptPairing(b)
  <2>1. CountInv'
    BY <1>4, SameCount DEF AcceptPairing
  <2>2. QED
    BY <1>4, <2>1 DEF AcceptPairing
<1>5. CASE IssueTrust(b)
  <2>1. CountInv'
    BY <1>5, SameCount DEF IssueTrust
  <2>2. QED
    BY <1>5, <2>1 DEF IssueTrust
<1>6. QED
    BY <1>1, <1>2, <1>3, <1>4, <1>5 DEF RequestStep

\* The network, the clock and trust that ends.
LEMMA WorldStepInv ==
    ASSUME IInv, (\E t \in trusted : TrustEnds(t)) \/ AddressChange \/ Advance
    PROVE  IInv'
<1> USE LifetimesAssumption, WindowAssumption, LimitAssumption, AddressAssumption
    DEF IInv, TypeOK, OfferOnlyInForeground, ListenerHasDeadline, ProgressInv, HolderInv, Holds,
        NoTime, Idle, UICall, CloseManager, UIOp, LoopAt, Request, Source,
        managerVars, limitVars, callVars, Same
<1>1. ASSUME NEW t \in trusted, TrustEnds(t)
      PROVE  IInv'
  <2>1. CountInv'
    BY <1>1, SameCount DEF TrustEnds
  <2>2. QED
    BY <1>1, <2>1 DEF TrustEnds
<1>2. CASE AddressChange
  <2>1. CountInv'
    BY <1>2, SameCount DEF AddressChange
  <2>2. QED
    BY <1>2, <2>1 DEF AddressChange
<1>3. CASE Advance
  <2> DEFINE Old == {g \in failures : g.age < GlobalWindow}
  <2>1. /\ failures' = {Aged(f) : f \in Old}
        /\ offer' = Left(offer)
        /\ foregroundDeadline' = Left(foregroundDeadline)
        /\ extensionExpires' = Left(extensionExpires)
        /\ UNCHANGED <<instance, controlCSRF, pairingLocked, guesses, trusted, addresses,
                       callVars, opens>>
    BY <1>3 DEF Advance
  <2>2. /\ IsFiniteSet(Old) /\ Old \subseteq Failure
        /\ Cardinality(Old) \in Nat /\ Cardinality(failures) \in Nat
        /\ Cardinality(Old) <= Cardinality(failures)
    BY PartIsSmaller DEF CountInv
  <2>3. \A f \in Failure : /\ Aged(f).age = f.age + 1 /\ f.age \in Nat
                           /\ f.age < GlobalWindow => Aged(f) \in Failure
    BY DEF Aged, Failure
  <2>4. IsFiniteSet(failures') /\ Cardinality(failures') = Cardinality(Old)
    BY <2>1, <2>2, AgedIs
  <2>5. failures' \subseteq Failure /\ \A f \in failures' : f.age # 0
    BY <2>1, <2>2, <2>3
  <2>6. offer' > 0 => guesses' <= Cardinality(Since')
    <3> SUFFICES ASSUME offer' > 0 PROVE guesses' <= Cardinality(Since')
      OBVIOUS
    <3>1. offer \in 2..PairingLifetime /\ offer' = offer - 1
      BY <2>1 DEF Left
    <3>2. \A f \in Since : f \in Old
      BY <3>1 DEF Since, Failure
    <3>3. Since' = {Aged(f) : f \in Since}
      BY <2>1, <2>2, <2>3, <3>1, <3>2 DEF Since
    <3>4. IsFiniteSet(Since) /\ Since \in SUBSET Failure
      BY PartIsSmaller DEF CountInv, Since
    <3>5. Cardinality(Since') = Cardinality(Since)
      BY <3>3, <3>4, AgedIs
    <3>6. QED
      BY <2>1, <3>1, <3>5 DEF CountInv
  <2> HIDE DEF Old
  <2>7. CountInv'
    BY <2>1, <2>2, <2>4, <2>5, <2>6 DEF CountInv, GuessesBounded
  <2>8. TypeOK'
    BY <2>1, <2>5 DEF Left
  <2>9. OfferOnlyInForeground' /\ ListenerHasDeadline' /\ ProgressInv' /\ HolderInv'
    BY <2>1 DEF Left
  <2>10. QED
    BY <2>7, <2>8, <2>9
<1>4. QED
    BY <1>1, <1>2, <1>3

LEMMA StepInv == IInv /\ [Next]_vars => IInv'
<1> SUFFICES ASSUME IInv, [Next]_vars PROVE IInv'
    OBVIOUS
<1>1. CASE UNCHANGED vars
    BY <1>1 DEF vars, managerVars, limitVars, callVars, IInv, TypeOK, OfferOnlyInForeground,
       ListenerHasDeadline, ProgressInv, HolderInv, Holds, CountInv, NowFrom, Since, GuessesBounded
<1>2. QED
    BY <1>1, UIStepInv, LoopStepInv, RequestStepInv, WorldStepInv DEF Next

LEMMA Inductive == Spec => []IInv
BY InitInv, StepInv, PTL DEF Spec

-----------------------------------------------------------------------------
(* Theorems.                                                                *)

\* Between any two critical sections the state is well typed, an open listener
\* has one deadline, and an offer is there only in an open foreground lease with
\* pairing unlocked, which submitPairing relies on without looking.
THEOREM ListenerSafety == Spec => []ListenerInv
<1>1. IInv => ListenerInv
    BY DEF IInv, ListenerInv
<1>2. QED
    BY <1>1, Inductive, PTL

\* One offer trusts at most one browser, although the trust is issued after the
\* mutex was given up and anything may open or close in between (submitPairing).
THEOREM SinglePairing == Spec => []OfferPairsOneBrowser
<1>1. IInv => OfferPairsOneBrowser
  <2> SUFFICES ASSUME IInv, NEW o \in 1..opens
               PROVE  Cardinality({b \in Browsers : Holds(b, o)}) <= 1
    BY DEF OfferPairsOneBrowser, Holds
  <2> DEFINE H == {b \in Browsers : Holds(b, o)}
  <2>1. o \in 1..MaxOpens
    BY LimitAssumption DEF IInv, TypeOK
  <2>2. \A b, c \in H : b = c
    BY <2>1 DEF IInv, HolderInv
  <2>3. CASE H = {}
    BY <2>3, FS_EmptySet
  <2>4. CASE H # {}
    <3>1. PICK b : H = {b}
      BY <2>2, <2>4
    <3>2. QED
      BY <3>1, FS_Singleton
  <2>5. QED
    BY <2>3, <2>4
<1>2. QED
    BY <1>1, Inductive, PTL

\* No offer is guessed at more than GlobalLimit times: failures leave the window
\* only after the offer they were made against is gone (pruneFailuresLocked).
THEOREM GuessSafety == Spec => []GuessesBounded
<1>1. IInv => GuessesBounded
    BY DEF IInv, CountInv
<1>2. QED
    BY <1>1, Inductive, PTL

-----------------------------------------------------------------------------
(* The store of trusted browsers.                                           *)

SizeInv == Loadable(records) /\ Loadable(file) /\ Loadable(durable)

\* none of the records r was used later than it was last touched
Behind(r) == \A t \in DOMAIN r : touched[t] <= r[t]
AgeInv ==
    /\ \A t \in DOMAIN created : used[t] <= touched[t] /\ touched[t] < used[t] + LastUsedFlush
    /\ Behind(records) /\ Behind(file) /\ Behind(durable)

StoreIInv == StoreTypeOK /\ SizeInv /\ CookieSurvivesRestart /\ RevokedStaysRevoked /\ AgeInv

-----------------------------------------------------------------------------
(* What the helpers return.                                                 *)

\* A table of the store is a function of some of the tokens.
LEMMA TableIs ==
    ASSUME NEW S, NEW r
    PROVE  r \in UNION {[T -> S] : T \in SUBSET Tokens}
             <=> DOMAIN r \subseteq Tokens /\ r \in [DOMAIN r -> S]
<1>1. ASSUME NEW T \in SUBSET Tokens, r \in [T -> S]
      PROVE  DOMAIN r \subseteq Tokens /\ r \in [DOMAIN r -> S]
    BY <1>1
<1>2. QED
    BY <1>1

\* The same, of ages: the form in which the steps below use it.
LEMMA RecordsAre ==
    ASSUME NEW r
    PROVE  r \in Records <=> /\ DOMAIN r \subseteq Tokens
                             /\ r \in [DOMAIN r -> Ages(TrustIdle)]
BY TableIs DEF Records

\* A part of a table is a table (Restrict, pruneLocked, Revoke).
LEMMA RestrictIs ==
    ASSUME NEW r \in Records, NEW T \in SUBSET DOMAIN r
    PROVE  /\ Restrict(r, T) \in Records
           /\ DOMAIN Restrict(r, T) = T
           /\ \A t \in T : Restrict(r, T)[t] = r[t]
BY RecordsAre DEF Restrict

\* pruneLocked only drops records.
LEMMA PrunedIs ==
    ASSUME NEW r \in Records
    PROVE  /\ Pruned(r) \in Records
           /\ DOMAIN Pruned(r) \subseteq DOMAIN r
           /\ \A t \in DOMAIN Pruned(r) : Pruned(r)[t] = r[t]
<1> DEFINE T == {t \in DOMAIN r : ~Expired(r, t)}
<1>1. T \in SUBSET DOMAIN r
    OBVIOUS
<1>2. Pruned(r) = Restrict(r, T)
    BY DEF Pruned
<1> HIDE DEF T
<1>3. QED
    BY <1>1, <1>2, RestrictIs

\* A table with fewer records stays within the limit that load checks.
LEMMA SmallerLoads ==
    ASSUME NEW r \in Records, Loadable(r), NEW s, DOMAIN s \subseteq DOMAIN r
    PROVE  Loadable(s)
<1>1. IsFiniteSet(DOMAIN r) /\ IsFiniteSet(DOMAIN s)
    BY RecordsAre, StoreAssumption, FS_Subset
<1>2. /\ Cardinality(DOMAIN s) <= Cardinality(DOMAIN r)
      /\ Cardinality(DOMAIN s) \in Nat /\ Cardinality(DOMAIN r) \in Nat
    BY <1>1, FS_Subset, FS_CardinalityType
<1>3. QED
    BY <1>2, StoreAssumption DEF Loadable

\* Time makes no table larger, and no age untyped (StoreAdvance).
LEMMA OlderIs ==
    ASSUME NEW r \in Records
    PROVE  /\ Older(r, TrustIdle) \in Records
           /\ DOMAIN Older(r, TrustIdle) = DOMAIN r
           /\ \A t \in DOMAIN r :
                Older(r, TrustIdle)[t] = IF r[t] <= TrustIdle THEN r[t] + 1 ELSE r[t]
<1>1. /\ DOMAIN Older(r, TrustIdle) = DOMAIN r
      /\ \A t \in DOMAIN r :
           Older(r, TrustIdle)[t] = IF r[t] <= TrustIdle THEN r[t] + 1 ELSE r[t]
    BY DEF Older
<1>2. \A t \in DOMAIN r : Older(r, TrustIdle)[t] \in Ages(TrustIdle)
    BY <1>1, RecordsAre, StoreAssumption DEF Ages
<1>3. Older(r, TrustIdle) \in [DOMAIN r -> Ages(TrustIdle)]
    BY <1>1, <1>2 DEF Older
<1>4. QED
    BY <1>1, <1>3, RecordsAre

\* Touch moves a record's time of use to now, if it is LastUsedFlush old.
LEMMA TouchIs ==
    ASSUME NEW r \in Records, NEW t \in DOMAIN r
    PROVE  /\ Touch(r, t) \in Records
           /\ DOMAIN Touch(r, t) = DOMAIN r
           /\ Touch(r, t)[t] < LastUsedFlush
           /\ \A k \in DOMAIN r \ {t} : Touch(r, t)[k] = r[k]
           /\ Touch(r, t)[t] \in Nat
           /\ Touch(r, t)[t] <= r[t]
           /\ Touch(r, t) = r \/ Touch(r, t)[t] = 0
BY RecordsAre, StoreAssumption DEF Touch, Ages

-----------------------------------------------------------------------------
(* Issue: the table with the new record, and what Admit keeps of it.        *)

With(f, t) == [k \in DOMAIN f \cup {t} |-> IF k = t THEN 0 ELSE f[k]]

\* A table with one more record is a table.
LEMMA WithIs ==
    ASSUME NEW r \in Records, NEW t \in Tokens
    PROVE  /\ With(r, t) \in Records
           /\ DOMAIN With(r, t) = DOMAIN r \cup {t}
           /\ With(r, t)[t] = 0
           /\ \A k \in DOMAIN r \ {t} : With(r, t)[k] = r[k]
BY RecordsAre, StoreAssumption DEF With, Ages

\* Admit keeps the table within the limit, and keeps the new record.  If it
\* drops one, that one was used, as far as the records tell, before all others.
LEMMA AdmitIs ==
    ASSUME NEW r \in Records, Loadable(r), NEW t \in Tokens, t \notin DOMAIN r,
           NEW kept \in Admit(With(r, t), t)
    PROVE  /\ kept \in Records
           /\ Loadable(kept)
           /\ DOMAIN kept \subseteq DOMAIN r \cup {t}
           /\ t \in DOMAIN kept
           /\ \A k \in DOMAIN kept : kept[k] = With(r, t)[k]
           /\ \A v \in DOMAIN r \ DOMAIN kept, k \in DOMAIN r : r[k] <= r[v]
<1> DEFINE w == With(r, t)
<1>1. /\ w \in Records /\ DOMAIN w = DOMAIN r \cup {t}
      /\ \A k \in DOMAIN r : w[k] = r[k]
    BY WithIs
<1>2. /\ IsFiniteSet(DOMAIN r) /\ IsFiniteSet(DOMAIN w)
      /\ Cardinality(DOMAIN r) \in Nat /\ Cardinality(DOMAIN w) \in Nat
      /\ Cardinality(DOMAIN w) = Cardinality(DOMAIN r) + 1
    BY <1>1, RecordsAre, StoreAssumption, FS_Subset, FS_AddElement, FS_CardinalityType
<1> HIDE DEF w
<1>3. kept \in Admit(w, t)
    BY DEF w
<1>4. CASE Cardinality(DOMAIN w) <= MaxTrustRecords
  <2>1. kept = w
    BY <1>3, <1>4 DEF Admit
  <2>2. QED
    BY <2>1, <1>1, <1>4, WithIs DEF w, Loadable
<1>5. CASE ~(Cardinality(DOMAIN w) <= MaxTrustRecords)
  <2>1. PICK v \in DOMAIN w \ {t} :
          /\ \A k \in DOMAIN w \ {t} : w[k] <= w[v]
          /\ kept = Restrict(w, DOMAIN w \ {v})
    BY <1>3, <1>5 DEF Admit
  <2>2. /\ kept \in Records /\ DOMAIN kept = DOMAIN w \ {v}
        /\ \A k \in DOMAIN kept : kept[k] = w[k]
    BY <2>1, <1>1, RestrictIs
  <2>3. Cardinality(DOMAIN kept) = Cardinality(DOMAIN r)
    <3>1. Cardinality(DOMAIN w \ {v}) = Cardinality(DOMAIN w) - 1
      BY <1>2, FS_RemoveElement, v \in DOMAIN w
    <3>2. QED
      BY <3>1, <2>2, <1>2
  <2>4. Loadable(kept)
    BY <2>3 DEF Loadable
  <2>5. \A u \in DOMAIN r \ DOMAIN kept, k \in DOMAIN r : r[k] <= r[u]
    BY <2>1, <2>2, <1>1
  <2>6. QED
    BY <2>1, <2>2, <2>4, <2>5, <1>1 DEF w
<1>6. QED
    BY <1>4, <1>5

-----------------------------------------------------------------------------
(* The invariant, action by action.                                         *)

LEMMA StoreInitInv == StoreInit => StoreIInv
<1> SUFFICES ASSUME StoreInit PROVE StoreIInv
    OBVIOUS
<1>1. Empty \in Records /\ DOMAIN Empty = {}
    BY RecordsAre DEF Empty
<1>2. Loadable(Empty)
    BY <1>1, FS_EmptySet, StoreAssumption DEF Loadable
<1>3. created \in UNION {[T -> Ages(TrustAbsolute)] : T \in SUBSET Tokens}
    BY <1>1, TableIs DEF StoreInit, Empty
<1>4. StoreTypeOK
    BY <1>1, <1>3, StoreAssumption DEF StoreInit, StoreTypeOK
<1>5. QED
    BY <1>1, <1>2, <1>4
       DEF StoreInit, StoreIInv, SizeInv, CookieSurvivesRestart, RevokedStaysRevoked, AgeInv, Behind

\* What there is to show of a step in which no use is recorded: what becomes of the
\* memory, and that the others come from it and from each other.
Among(r, s) == DOMAIN r \subseteq DOMAIN s /\ \A t \in DOMAIN r : r[t] = s[t]

LEMMA BehindPart ==
    ASSUME NEW s, Behind(s), NEW r, Among(r, s), UNCHANGED touched
    PROVE  \A t \in DOMAIN r : touched'[t] <= r[t]
BY DEF Behind, Among

\* A method that drops records, whether or not it can write that.
LEMMA DropStep ==
    ASSUME StoreIInv, NEW r \in Records, Among(r, records), records' = r,
           PersistOK(r) \/ PersistFails, UNCHANGED <<created, times>>
    PROVE  /\ records' \in Records /\ file' \in Records /\ durable' \in Records
           /\ used' \in Records /\ touched' \in Records
           /\ DOMAIN records' \cup DOMAIN file' \cup DOMAIN durable' \subseteq DOMAIN created'
           /\ DOMAIN used' = DOMAIN created' /\ DOMAIN touched' = DOMAIN created'
           /\ created' \in UNION {[T -> Ages(TrustAbsolute)] : T \in SUBSET Tokens}
           /\ faults' \in 0..MaxFaults
           /\ DOMAIN records' \subseteq DOMAIN records
           /\ SizeInv' /\ AgeInv'
<1>1. /\ StoreTypeOK /\ SizeInv /\ AgeInv
      /\ faults < MaxFaults => faults + 1 \in 0..MaxFaults
    BY StoreAssumption DEF StoreIInv, StoreTypeOK
<1>2. /\ records' = r /\ DOMAIN r \subseteq DOMAIN records /\ durable' = durable
      /\ file' = r \/ file' = file
      /\ faults' \in 0..MaxFaults /\ UNCHANGED <<created, used, touched>>
    BY <1>1 DEF PersistOK, PersistFails, Among, times, StoreTypeOK
<1>3. Loadable(r)
    BY <1>1, <1>2, SmallerLoads DEF SizeInv, StoreTypeOK
<1>4. \A t \in DOMAIN r : touched'[t] <= r[t]
    BY <1>1, <1>2, BehindPart DEF AgeInv
<1>5. AgeInv'
    BY <1>1, <1>2, <1>4 DEF AgeInv, Behind
<1>6. SizeInv'
    BY <1>1, <1>2, <1>3 DEF SizeInv
<1>7. QED
    BY <1>1, <1>2, <1>5, <1>6 DEF StoreTypeOK

LEMMA StoreStepInv == StoreIInv /\ [StoreNext]_storeVars => StoreIInv'
<1> SUFFICES ASSUME StoreIInv, [StoreNext]_storeVars PROVE StoreIInv'
    OBVIOUS
<1>t. /\ StoreTypeOK /\ SizeInv /\ CookieSurvivesRestart /\ RevokedStaysRevoked /\ AgeInv
      /\ faults < MaxFaults => faults + 1 \in 0..MaxFaults
    BY StoreAssumption DEF StoreIInv, StoreTypeOK
<1> USE DEF StoreIInv, CookieSurvivesRestart, RevokedStaysRevoked
<1>1. CASE Count
  <2>1. Pruned(records) \in Records /\ Among(Pruned(records), records)
    BY <1>t, PrunedIs DEF Among, StoreTypeOK
  <2>2. /\ records' = Pruned(records) /\ (PersistOK(Pruned(records)) \/ PersistFails)
        /\ UNCHANGED <<created, cookies, times, revoked>>
    BY <1>1 DEF Count, Persist
  <2>3. /\ StoreTypeOK' /\ SizeInv' /\ AgeInv' /\ DOMAIN records' \subseteq DOMAIN records
    BY <1>t, <2>1, <2>2, DropStep DEF StoreTypeOK
  <2>4. QED
    BY <1>t, <2>2, <2>3 DEF PersistOK, PersistFails
<1>2. CASE RevokeAll
  <2>1. Empty \in Records /\ Among(Empty, records) /\ DOMAIN Empty = {}
    BY RecordsAre DEF Among, Empty
  <2>2. /\ records' = Empty /\ UNCHANGED <<created, cookies, times>>
        /\ \/ PersistOK(Empty) /\ revoked' = DOMAIN created
           \/ PersistFails /\ UNCHANGED revoked
    BY <1>2 DEF RevokeAll
  <2>3. /\ StoreTypeOK' /\ SizeInv' /\ AgeInv'
    BY <1>t, <2>1, <2>2, DropStep DEF StoreTypeOK
  <2>4. QED
    BY <1>t, <2>1, <2>2, <2>3 DEF PersistOK, PersistFails
<1>3. ASSUME NEW t \in Tokens, Issue(t)
      PROVE  StoreIInv'
  <2> DEFINE r == Pruned(records)
  <2>1. r \in Records /\ DOMAIN r \subseteq DOMAIN records /\ t \notin DOMAIN r
    BY <1>t, <1>3, PrunedIs DEF StoreTypeOK, Issue
  <2>2. Loadable(r)
    BY <1>t, <2>1, SmallerLoads DEF StoreTypeOK, SizeInv
  <2>3. PICK kept \in Admit(With(r, t), t) : records' = kept /\ Answer(t, kept)
    BY <1>3 DEF Issue, With
  <2>4. /\ t \notin DOMAIN created
        /\ created' = With(created, t) /\ used' = With(used, t) /\ touched' = With(touched, t)
        /\ UNCHANGED revoked
    BY <1>3 DEF Issue, With
  <2>5. /\ kept \in Records /\ Loadable(kept)
        /\ DOMAIN kept \subseteq DOMAIN r \cup {t}
        /\ \A k \in DOMAIN kept : kept[k] = With(r, t)[k]
    BY <2>1, <2>2, AdmitIs
  <2>6. \A k \in DOMAIN r : r[k] = records[k]
    BY <1>t, PrunedIs DEF StoreTypeOK
  <2> HIDE DEF r
  <2>7. /\ created' \in UNION {[T -> Ages(TrustAbsolute)] : T \in SUBSET Tokens}
        /\ DOMAIN created' = DOMAIN created \cup {t}
    <3>1. /\ DOMAIN created \subseteq Tokens
          /\ created \in [DOMAIN created -> Ages(TrustAbsolute)]
      BY <1>t, TableIs DEF StoreTypeOK
    <3>2. /\ DOMAIN created' = DOMAIN created \cup {t}
          /\ created' \in [DOMAIN created' -> Ages(TrustAbsolute)]
      BY <3>1, <2>4, StoreAssumption DEF With, Ages
    <3>3. QED
      BY <3>1, <3>2, TableIs
  <2>8. ASSUME NEW h \in Records, DOMAIN h = DOMAIN created
        PROVE  /\ With(h, t) \in Records /\ DOMAIN With(h, t) = DOMAIN created'
               /\ With(h, t)[t] = 0 /\ \A k \in DOMAIN created : With(h, t)[k] = h[k]
    BY <2>4, <2>7, <2>8, WithIs
  <2>9. /\ used' \in Records /\ DOMAIN used' = DOMAIN created' /\ used'[t] = 0
        /\ touched' \in Records /\ DOMAIN touched' = DOMAIN created' /\ touched'[t] = 0
        /\ \A k \in DOMAIN created : used'[k] = used[k] /\ touched'[k] = touched[k]
    BY <1>t, <2>4, <2>8 DEF StoreTypeOK
  <2>10. /\ DOMAIN kept \subseteq DOMAIN created'
         /\ durable' = durable /\ file' \in {file, kept} /\ faults' \in 0..MaxFaults
         /\ cookies' \subseteq cookies \cup {t}
    BY <1>t, <2>1, <2>3, <2>5, <2>7
       DEF StoreTypeOK, Answer, PersistOK, PersistFails
  <2>11. StoreTypeOK'
    BY <1>t, <2>3, <2>4, <2>5, <2>7, <2>9, <2>10 DEF StoreTypeOK
  <2>12. AgeInv'
    <3>1. /\ With(r, t)[t] = 0 /\ \A k \in DOMAIN r \ {t} : With(r, t)[k] = r[k]
      BY <2>1, WithIs
    <3>2. \A k \in DOMAIN kept : touched'[k] <= kept[k]
      <4>1. \A k \in DOMAIN r : k \in DOMAIN created /\ touched[k] <= records[k]
        BY <1>t, <2>1 DEF AgeInv, Behind, StoreTypeOK
      <4>2. QED
        BY <3>1, <4>1, <2>1, <2>5, <2>6, <2>9
    <3>3. \A k \in DOMAIN file \cup DOMAIN durable : k \in DOMAIN created
      BY <1>t DEF StoreTypeOK
    <3>4. Behind(file)' /\ Behind(durable)' /\ Behind(records)'
      BY <1>t, <2>3, <2>9, <2>10, <3>2, <3>3 DEF Behind, AgeInv
    <3>5. \A k \in DOMAIN created' : used'[k] <= touched'[k] /\ touched'[k] < used'[k] + LastUsedFlush
      BY <1>t, <2>7, <2>9, StoreAssumption DEF AgeInv
    <3>6. QED
      BY <3>4, <3>5 DEF AgeInv
  <2>13. SizeInv'
    BY <1>t, <2>3, <2>5, <2>10 DEF SizeInv
  <2>14. CookieSurvivesRestart'
    BY <1>t, <2>1, <2>3, <2>4, <2>5 DEF StoreTypeOK, Answer, PersistOK, PersistFails
  <2>15. RevokedStaysRevoked'
    BY <1>t, <2>1, <2>3, <2>4, <2>5 DEF StoreTypeOK, Answer, PersistOK, PersistFails
  <2>16. QED
    BY <2>11, <2>12, <2>13, <2>14, <2>15
<1>4. ASSUME NEW t \in Tokens, Authenticate(t)
      PROVE  StoreIInv'
  <2> DEFINE r == Pruned(records)
             now == IF t \in DOMAIN r THEN Touch(r, t) ELSE r
  <2>1. /\ r \in Records /\ DOMAIN r \subseteq DOMAIN records
        /\ \A k \in DOMAIN r : r[k] = records[k]
    BY <1>t, PrunedIs DEF StoreTypeOK
  <2>2. /\ records' = now
        /\ used' = IF t \in DOMAIN r THEN [used EXCEPT ![t] = 0] ELSE used
        /\ touched' = IF now # r THEN [touched EXCEPT ![t] = 0] ELSE touched
        /\ PersistIfChanged(now # records, now)
        /\ UNCHANGED <<created, cookies, revoked>>
    BY <1>4 DEF Authenticate
  <2> HIDE DEF r
  <2>3. /\ now \in Records /\ DOMAIN now = DOMAIN r
        /\ \A k \in DOMAIN r \ {t} : now[k] = r[k]
        /\ t \in DOMAIN r => now[t] \in Nat /\ now[t] < LastUsedFlush /\ now[t] <= r[t]
        /\ t \notin DOMAIN r => now = r
        /\ now # r => t \in DOMAIN r /\ now[t] = 0
    BY <2>1, TouchIs
  <2>4. t \in DOMAIN r => now = r \/ now[t] = 0
    BY <2>3
  <2> HIDE DEF now
  <2>5. DOMAIN records' \subseteq DOMAIN records /\ Loadable(records')
    BY <1>t, <2>1, <2>2, <2>3, SmallerLoads DEF StoreTypeOK, SizeInv
  <2>6. /\ durable' = durable /\ file' \in {file, now} /\ faults' \in 0..MaxFaults
    BY <1>t, <2>2 DEF PersistIfChanged, Persist, PersistOK, PersistFails, StoreTypeOK
  <2>7. /\ DOMAIN used = DOMAIN created /\ DOMAIN touched = DOMAIN created
        /\ used \in [DOMAIN created -> Ages(TrustIdle)]
        /\ touched \in [DOMAIN created -> Ages(TrustIdle)]
        /\ DOMAIN created \subseteq Tokens /\ 0 \in Ages(TrustIdle)
    BY <1>t, RecordsAre, StoreAssumption DEF StoreTypeOK, Ages
  <2>8. /\ used' \in Records /\ DOMAIN used' = DOMAIN created
        /\ touched' \in Records /\ DOMAIN touched' = DOMAIN created
        /\ \A k \in DOMAIN created \ {t} : used'[k] = used[k] /\ touched'[k] = touched[k]
        /\ touched'[t] = IF now # r THEN 0 ELSE touched[t]
        /\ used'[t] = IF t \in DOMAIN r THEN 0 ELSE used[t]
    <3>1. /\ used' \in [DOMAIN created -> Ages(TrustIdle)] /\ DOMAIN used' = DOMAIN created
          /\ touched' \in [DOMAIN created -> Ages(TrustIdle)] /\ DOMAIN touched' = DOMAIN created
      BY <2>2, <2>7
    <3>2. now # r => t \in DOMAIN created
      BY <1>t, <2>1, <2>3 DEF StoreTypeOK
    <3>3. t \in DOMAIN r => t \in DOMAIN created
      BY <1>t, <2>1 DEF StoreTypeOK
    <3>4. QED
      BY <2>2, <2>7, <3>1, <3>2, <3>3, RecordsAre
  <2>9. StoreTypeOK'
    BY <1>t, <2>2, <2>3, <2>5, <2>6, <2>8 DEF StoreTypeOK
  <2>10. AgeInv'
    <3>1. \A k \in DOMAIN created : touched'[k] <= touched[k] /\ touched'[k] \in Nat /\ touched[k] \in Nat
      BY <2>7, <2>8, StoreAssumption DEF Ages
    <3>2. \A k \in DOMAIN now : touched'[k] <= now[k]
      <4>1. \A k \in DOMAIN r : k \in DOMAIN created /\ touched[k] <= r[k] /\ r[k] \in Nat
        BY <1>t, <2>1, RecordsAre, StoreAssumption DEF AgeInv, Behind, StoreTypeOK, Ages
      <4>2. QED
        BY <2>3, <2>4, <2>8, <4>1
    <3>3. ASSUME NEW q \in Records, DOMAIN q \subseteq DOMAIN created, Behind(q)
          PROVE  \A k \in DOMAIN q : touched'[k] <= q[k]
      <4>1. \A k \in DOMAIN q : q[k] \in Nat /\ touched[k] <= q[k]
        BY <3>3, RecordsAre, StoreAssumption DEF Ages, Behind
      <4>2. QED
        BY <3>1, <3>3, <4>1
    <3>4. Behind(records)' /\ Behind(file)' /\ Behind(durable)'
      <4>1. /\ file \in Records /\ DOMAIN file \subseteq DOMAIN created /\ Behind(file)
            /\ durable \in Records /\ DOMAIN durable \subseteq DOMAIN created /\ Behind(durable)
        BY <1>t DEF StoreTypeOK, AgeInv
      <4>2. /\ \A k \in DOMAIN file : touched'[k] <= file[k]
            /\ \A k \in DOMAIN durable : touched'[k] <= durable[k]
        BY <3>3, <4>1
      <4>3. QED
        BY <2>2, <2>6, <3>2, <4>2 DEF Behind
    <3>5. ASSUME NEW k \in DOMAIN created
          PROVE  used'[k] <= touched'[k] /\ touched'[k] < used'[k] + LastUsedFlush
      <4>1. used[k] <= touched[k] /\ touched[k] < used[k] + LastUsedFlush
        BY <1>t DEF AgeInv
      <4>2. CASE k # t
        BY <2>8, <4>1, <4>2
      <4>3. CASE k = t /\ t \notin DOMAIN r
        BY <2>3, <2>8, <4>1, <4>3
      <4>4. CASE k = t /\ t \in DOMAIN r
        <5>1. touched'[t] <= now[t]
          BY <2>3, <3>2, <4>4
        <5>2. touched'[t] \in Nat /\ used'[t] = 0 /\ now[t] \in Nat /\ now[t] < LastUsedFlush
          BY <2>3, <2>8, <3>1, <4>4
        <5>3. QED
          BY <4>4, <5>1, <5>2, StoreAssumption
      <4>5. QED
        BY <4>2, <4>3, <4>4
    <3>6. QED
      BY <2>2, <3>4, <3>5 DEF AgeInv
  <2>11. SizeInv' /\ CookieSurvivesRestart' /\ RevokedStaysRevoked'
    BY <1>t, <2>2, <2>5 DEF SizeInv, PersistIfChanged, Persist, PersistOK, PersistFails
  <2>12. QED
    BY <2>9, <2>10, <2>11
<1>5. ASSUME NEW t \in Tokens, Revoke(t)
      PROVE  StoreIInv'
  <2> DEFINE r == Restrict(records, DOMAIN records \ {t})
  <2>1. /\ records' = r
        /\ \/ PersistOK(r) /\ cookies' = cookies \ {t} /\ revoked' = revoked \cup {t}
           \/ PersistFails /\ UNCHANGED <<cookies, revoked>>
        /\ t \in cookies /\ UNCHANGED <<created, times>>
    BY <1>5 DEF Revoke
  <2>2. r \in Records /\ Among(r, records) /\ DOMAIN r = DOMAIN records \ {t}
    BY <1>t, RestrictIs DEF Among, StoreTypeOK
  <2> HIDE DEF r
  <2>3. StoreTypeOK' /\ SizeInv' /\ AgeInv' /\ DOMAIN records' \subseteq DOMAIN records
    BY <1>t, <2>1, <2>2, DropStep DEF StoreTypeOK
  <2>4. QED
    BY <1>t, <2>1, <2>2, <2>3 DEF PersistOK, PersistFails
<1>6. ASSUME NEW f, f \in {file, durable}, Load(f), file' = f,
             UNCHANGED <<durable, created, cookies, times>>, faults' \in 0..MaxFaults,
             revoked' \subseteq revoked, revoked' \cap DOMAIN f = {}
      PROVE  StoreIInv'
  <2>1. /\ f \in Records /\ Loadable(f)
        /\ records' = Pruned(f) /\ UNCHANGED <<used, touched>>
    BY <1>t, <1>6 DEF StoreTypeOK, SizeInv, Load, times
  <2>2. /\ records' \in Records /\ Among(records', f)
        /\ Loadable(records')
    BY <2>1, PrunedIs, SmallerLoads DEF Among
  <2>3. AgeInv'
    <3>1. Behind(f)
      BY <1>t, <1>6 DEF AgeInv
    <3>2. QED
      BY <1>t, <1>6, <2>1, <2>2, <3>1 DEF AgeInv, Behind, Among
  <2>4. StoreTypeOK'
    BY <1>t, <1>6, <2>1, <2>2 DEF StoreTypeOK, Among
  <2>5. QED
    BY <1>t, <1>6, <2>1, <2>2, <2>3, <2>4 DEF SizeInv, Among
<1>7. CASE Restart
  <2>1. Load(file) /\ UNCHANGED <<file, durable, created, cookies, times, revoked, faults>>
    BY <1>7 DEF Restart
  <2>2. faults' \in 0..MaxFaults /\ revoked' \subseteq revoked /\ revoked' \cap DOMAIN file = {}
    BY <1>t, <2>1 DEF StoreTypeOK
  <2>3. QED
    BY <2>1, <2>2, <1>6
<1>8. CASE PowerLoss
  <2>1. /\ Load(durable) /\ file' = durable /\ revoked' = revoked \ DOMAIN durable
        /\ faults < MaxFaults /\ faults' = faults + 1
        /\ UNCHANGED <<durable, created, cookies, times>>
    BY <1>8 DEF PowerLoss
  <2>2. /\ faults' \in 0..MaxFaults
        /\ revoked' \subseteq revoked /\ revoked' \cap DOMAIN durable = {}
    BY <1>t, <2>1
  <2>3. QED
    BY <2>1, <2>2, <1>6
<1>9. CASE Flush
    BY <1>t, <1>9 DEF Flush, StoreTypeOK, SizeInv, AgeInv, Behind, times
<1>10. CASE StoreAdvance
  <2>1. /\ records' = Older(records, TrustIdle) /\ file' = Older(file, TrustIdle)
        /\ durable' = Older(durable, TrustIdle) /\ used' = Older(used, TrustIdle)
        /\ touched' = Older(touched, TrustIdle)
        /\ created' = Older(created, TrustAbsolute)
        /\ UNCHANGED <<cookies, revoked, faults>>
    BY <1>10 DEF StoreAdvance
  <2>2. /\ records' \in Records /\ DOMAIN records' = DOMAIN records
        /\ file' \in Records /\ DOMAIN file' = DOMAIN file
        /\ durable' \in Records /\ DOMAIN durable' = DOMAIN durable
        /\ used' \in Records /\ DOMAIN used' = DOMAIN used
        /\ touched' \in Records /\ DOMAIN touched' = DOMAIN touched
    BY <1>t, <2>1, OlderIs DEF StoreTypeOK
  <2>3. /\ created' \in UNION {[T -> Ages(TrustAbsolute)] : T \in SUBSET Tokens}
        /\ DOMAIN created' = DOMAIN created
    <3>1. DOMAIN created \subseteq Tokens /\ created \in [DOMAIN created -> Ages(TrustAbsolute)]
      BY <1>t, TableIs DEF StoreTypeOK
    <3>2. DOMAIN created' = DOMAIN created /\ created' \in [DOMAIN created -> Ages(TrustAbsolute)]
      BY <3>1, <2>1, StoreAssumption DEF Older, Ages
    <3>3. QED
      BY <3>1, <3>2, TableIs
  <2>4. StoreTypeOK'
    BY <1>t, <2>1, <2>2, <2>3 DEF StoreTypeOK
  <2>5. AgeInv'
    <3> DEFINE OneOlder(x) == IF x <= TrustIdle THEN x + 1 ELSE x
    <3>1. ASSUME NEW q \in Records
          PROVE  \A t \in DOMAIN q : q[t] \in Ages(TrustIdle) /\ Older(q, TrustIdle)[t] = OneOlder(q[t])
      BY RecordsAre, OlderIs
    <3>2. \A x, y \in Ages(TrustIdle) : /\ x <= y => OneOlder(x) <= OneOlder(y)
                                        /\ x < y + LastUsedFlush => OneOlder(x) < OneOlder(y) + LastUsedFlush
      BY StoreAssumption DEF Ages
    <3> HIDE DEF OneOlder
    <3>3. \A t \in DOMAIN created : /\ used[t] \in Ages(TrustIdle) /\ used'[t] = OneOlder(used[t])
                                    /\ touched[t] \in Ages(TrustIdle) /\ touched'[t] = OneOlder(touched[t])
      BY <1>t, <2>1, <3>1 DEF StoreTypeOK
    <3>4. ASSUME NEW q \in Records, DOMAIN q \subseteq DOMAIN created, Behind(q)
          PROVE  \A t \in DOMAIN q : touched'[t] <= Older(q, TrustIdle)[t]
      BY <3>1, <3>2, <3>3, <3>4 DEF Behind
    <3>5. Behind(records)' /\ Behind(file)' /\ Behind(durable)'
      <4>1. /\ \A t \in DOMAIN records : touched'[t] <= Older(records, TrustIdle)[t]
            /\ \A t \in DOMAIN file : touched'[t] <= Older(file, TrustIdle)[t]
            /\ \A t \in DOMAIN durable : touched'[t] <= Older(durable, TrustIdle)[t]
        BY <1>t, <3>4 DEF StoreTypeOK, AgeInv
      <4>2. QED
        BY <2>1, <2>2, <4>1 DEF Behind
    <3>6. \A t \in DOMAIN created : used'[t] <= touched'[t] /\ touched'[t] < used'[t] + LastUsedFlush
      BY <1>t, <3>2, <3>3 DEF AgeInv
    <3>7. QED
      BY <2>3, <3>5, <3>6 DEF AgeInv
  <2>6. QED
    BY <1>t, <2>1, <2>2, <2>4, <2>5 DEF SizeInv, Loadable
<1>11. CASE UNCHANGED storeVars
    BY <1>t, <1>11 DEF storeVars, times, StoreTypeOK, SizeInv, AgeInv, Behind, Loadable
<1>12. QED
    BY <1>1, <1>2, <1>3, <1>4, <1>5, <1>7, <1>8, <1>9, <1>10, <1>11 DEF StoreNext

LEMMA StoreInductive == StoreSpec => []StoreIInv
BY StoreInitInv, StoreStepInv, PTL DEF StoreSpec

-----------------------------------------------------------------------------
(* Theorems.                                                                *)

\* The memory, the file and what a power loss leaves of it are well typed, and
\* load accepts the file at every moment: Issue drops a record before it writes
\* one too many, and nothing else adds any (Issue, persistLocked, load).
THEOREM StoreSafety == StoreSpec => []StoreInv
<1>1. StoreIInv => StoreInv
    BY DEF StoreIInv, SizeInv, StoreInv, StoreLoads
<1>2. QED
    BY <1>1, StoreInductive, PTL

\* A browser whose cookie was answered and that is trusted is in the file, so it
\* is trusted after a restart, whatever persist failed since (Issue, Authenticate).
THEOREM CookieSafety == StoreSpec => []CookieSurvivesRestart
<1>1. StoreIInv => CookieSurvivesRestart
    BY DEF StoreIInv
<1>2. QED
    BY <1>1, StoreInductive, PTL

\* Trust whose revocation was answered with success is neither in the memory nor
\* in the file a restart would load (Revoke, RevokeAll).
THEOREM RevocationSafety == StoreSpec => []RevokedStaysRevoked
<1>1. StoreIInv => RevokedStaysRevoked
    BY DEF StoreIInv
<1>2. QED
    BY <1>1, StoreInductive, PTL

\* Whichever record Issue drops for the new one, nobody who keeps its trust was
\* used LastUsedFlush or more before the browser that lost it, through every restart
\* and failed write that has not cost this record its last touch (Issue, Authenticate).
THEOREM EvictionSafety == StoreSpec => EvictionSparesRecentUse
<1> DEFINE Spares == DOMAIN created # DOMAIN created' =>
         \A v \in DOMAIN Pruned(records) \ DOMAIN records', k \in DOMAIN records \cap DOMAIN records' :
            records[v] = touched[v] => used[k] < used[v] + LastUsedFlush
<1>1. StoreIInv /\ [StoreNext]_storeVars => [Spares]_storeVars
  <2> SUFFICES ASSUME StoreIInv, StoreNext, DOMAIN created # DOMAIN created',
                      NEW v \in DOMAIN Pruned(records) \ DOMAIN records',
                      NEW k \in DOMAIN records \cap DOMAIN records',
                      records[v] = touched[v]
               PROVE  used[k] < used[v] + LastUsedFlush
    OBVIOUS
  <2> DEFINE r == Pruned(records)
  <2>1. PICK t \in Tokens : Issue(t)
    BY DEF StoreNext, Count, RevokeAll, Authenticate, Revoke, Restart, PowerLoss, Flush, StoreAdvance, Older
  <2>2. /\ r \in Records /\ DOMAIN r \subseteq DOMAIN records /\ t \notin DOMAIN records
        /\ DOMAIN records \subseteq DOMAIN created
        /\ \A u \in DOMAIN r : r[u] = records[u]
    BY <2>1, PrunedIs DEF StoreIInv, StoreTypeOK, Issue
  <2>3. PICK kept \in Admit(With(r, t), t) : records' = kept
    BY <2>1 DEF Issue, With
  <2> HIDE DEF r
  <2>4. Loadable(r)
    BY <2>2, SmallerLoads DEF StoreIInv, StoreTypeOK, SizeInv
  <2>5. /\ DOMAIN kept \subseteq DOMAIN r \cup {t}
        /\ \A u \in DOMAIN r \ DOMAIN kept, w \in DOMAIN r : r[w] <= r[u]
    BY <2>2, <2>4, AdmitIs
  <2>6. k \in DOMAIN r /\ v \in DOMAIN r \ DOMAIN kept
    BY <2>2, <2>3, <2>5 DEF r
  <2>7. records[k] <= records[v]
    BY <2>2, <2>5, <2>6
  <2>8. /\ used[k] <= touched[k] /\ touched[k] <= records[k]
        /\ records[v] < used[v] + LastUsedFlush
    BY <2>2, <2>6 DEF StoreIInv, AgeInv, Behind
  <2>9. {used[k], touched[k], used[v], records[k], records[v]} \subseteq Nat
    BY <2>2, <2>6, RecordsAre, StoreAssumption DEF StoreIInv, StoreTypeOK, Ages
  <2>10. QED
    BY <2>7, <2>8, <2>9, StoreAssumption
<1>2. StoreSpec => [][Spares]_storeVars
    BY <1>1, StoreInductive, PTL DEF StoreSpec
<1>3. QED
    BY <1>2 DEF EvictionSparesRecentUse
=============================================================================
