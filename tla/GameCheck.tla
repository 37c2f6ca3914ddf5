----------------------------- MODULE GameCheck -----------------------------
(***************************************************************************)
(* What the controller does when a game is launched: the LIFE-1 client     *)
(* (internal/life1/client.go), the run loop's lifecycle events             *)
(* (internal/controller/run.go) and the check-before-stop goroutine        *)
(* (internal/controller/game_check.go, internal/syncthing/game_check.go).  *)
(*                                                                         *)
(* Jawaka, at the other end of the connection, is outside the repository:  *)
(* it launches one game at a time under a fresh launch id, sends events on *)
(* the connection in order, answers game.state with what is true when it   *)
(* answers, and may drop the connection at any time; what it had written   *)
(* is still read before the end of the stream.                             *)
(*                                                                         *)
(* The subscription is always of mode stop (bootstrap.go), which is sent   *)
(* game.check and the cancel and abort of it.                              *)
(*                                                                         *)
(* Durations are in equal units and only kept until a check's first        *)
(* reply.  Runs that end (Run returns) are not restarted: a new controller *)
(* starts like the first one.                                              *)
(***************************************************************************)
EXTENDS Integers, Sequences, FiniteSets, Functions

CONSTANTS
    Launches, NoLaunch,
    Folders,        \* the managed folder kinds of the launch's card
    Peers,          \* the peers every one of them is shared with
    AckMS,          \* gameCheckAckMS
    ReplyMargin,    \* firstStatusReplyMargin
    StatusBudget,   \* firstStatusBudget
    ProbeBudget,    \* firstStatusProbeBudget
    RetryDelay,     \* firstStatusRetryDelay
    MaxDrops,       \* bound: connections lost
    MaxWire         \* bound: messages in flight

ASSUME GameCheckAssumption ==
    /\ {AckMS, ReplyMargin, StatusBudget, ProbeBudget, RetryDelay} \subseteq Nat \ {0}
    /\ {MaxDrops, MaxWire} \subseteq Nat
    /\ NoLaunch \notin Launches
    /\ IsFiniteSet(Folders) /\ IsFiniteSet(Peers)

\* A duration is in nanoseconds, AckMS whole milliseconds: a fifth of it is not nothing.
ASSUME UnitAssumption == AckMS <= ReplyMargin => AckMS >= 5

VARIABLES
    launch,         \* Jawaka: the launch in progress
    phase,          \* Jawaka: how far it is
    begun,          \* Jawaka: launch ids used so far
    told,           \* Jawaka: the last reply for the launch in progress
    linked,         \* Jawaka holds its end of the subscription
    wire,           \* sent by Jawaka and not yet read by the controller
    drops,
    loop,           \* where the run loop is
    pending,        \* Subscription.pending
    gameState,
    gameCheckID,    \* gameCheckLaunchID
    cancelSet,      \* gameCheckCancel # nil
    check           \* the check goroutine of each launch

jawaka == <<launch, phase, begun>>
vars == <<launch, phase, begun, told, linked, wire, drops, loop, pending,
          gameState, gameCheckID, cancelSet, check>>

MaybeLaunch == Launches \cup {NoLaunch}
Replies == {"waiting", "stop", "error"}
Event == [name : {"game.check", "game.cancel", "game.abort"}, launch : Launches]
StateAnswer == [name : {"state"}, launch : MaybeLaunch]

\* last = 0 stands for haveLast = FALSE
Check == [pc : {"none", "probe", "send", "done"}, folders : SUBSET Folders,
          cancelled : BOOLEAN, stale : BOOLEAN, elapsed : Nat,
          last : Nat, synthetic : BOOLEAN,
          reply : Replies, items : Nat, current : BOOLEAN]
Fresh(S) == [pc |-> "probe", folders |-> S, cancelled |-> FALSE, stale |-> FALSE,
             elapsed |-> 0, last |-> 0, synthetic |-> FALSE,
             reply |-> "error", items |-> 0, current |-> FALSE]
Unstarted == [Fresh({}) EXCEPT !.pc = "none"]
Done(c) == [Unstarted EXCEPT !.pc = "done", !.current = c.current]

Least(a, b) == IF a < b THEN a ELSE b

(***************************************************************************)
(* ReadGameCheckStatus: the answers of the upstream to one probe, and what *)
(* they are taken for.  A count stands for items and bytes together.       *)
(***************************************************************************)
Answers == [link : [Peers -> {"unconfigured", "paused", "away", "connected"}],
            local : [Folders -> [state : {"idle", "active", "unready"}, need : 0..1]],
            remote : [Folders \X Peers -> [state : {"unknown", "valid", "other"}, need : 0..1]]]

\* mutant: an unfinished handshake is taken for a peer that needs nothing
PeerNeedRaw(a, f, p) == IF a.link[p] = "away" THEN 1 ELSE a.remote[<<f, p>>].need

PeerNeed(a, f, p) ==
    LET r == a.remote[<<f, p>>]
    IN  IF a.link[p] = "away" \/ (r.state = "unknown" /\ r.need = 0) THEN 1 ELSE r.need

LocalNeeds(S, a) == {f \in S : a.local[f].need > 0}
PeerNeeds(S, a) == {fp \in S \X Peers : PeerNeed(a, fp[1], fp[2]) > 0}

FolderNeed(a, f) == Cardinality(LocalNeeds({f}, a)) + Cardinality(PeerNeeds({f}, a))

ReadGameCheckStatus(S, a) ==
    [err   |-> \E f \in S :
                 \/ \E p \in Peers :
                      \/ a.link[p] \in {"unconfigured", "paused"}
                      \/ a.link[p] = "connected" /\ a.remote[<<f, p>>].state = "other"
                 \/ a.local[f].state = "unready"
                 \/ a.local[f].state = "active" /\ FolderNeed(a, f) = 0,
     items |-> Cardinality(LocalNeeds(S, a)) + Cardinality(PeerNeeds(S, a))]

\* what "current" is to mean, without the counts
AllCurrent(S, a) ==
    \A f \in S :
        /\ a.local[f] = [state |-> "idle", need |-> 0]
        /\ \A p \in Peers : /\ a.link[p] = "connected"
                            /\ a.remote[<<f, p>>] = [state |-> "valid", need |-> 0]

\* every outcome a probe that is answered can have
Probes == {[folders |-> S, status |-> ReadGameCheckStatus(S, a), current |-> AllCurrent(S, a)] :
             S \in SUBSET Folders, a \in Answers}
Answered(S) == {q \in Probes : q.folders = S /\ ~q.status.err}

(***************************************************************************)
(* The first reply's budget (game_check.go).                               *)
(***************************************************************************)
FirstReplyBudget ==
    LET margin == IF AckMS <= ReplyMargin THEN AckMS \div 5 ELSE ReplyMargin
    IN  Least(AckMS - margin, StatusBudget)

Remaining(c) == FirstReplyBudget - c.elapsed
\* mutant: a probe may outlive what remains of the budget
ReadTimeoutWhole(c) == Least(AckMS, ProbeBudget)

ReadTimeout(c) == Least(AckMS, Least(Remaining(c), ProbeBudget))

Init ==
    /\ launch \in MaybeLaunch
    /\ phase = IF launch = NoLaunch THEN "none" ELSE "playing"
    /\ begun = {launch} \ {NoLaunch}
    /\ told = "none"
    /\ linked = FALSE /\ wire = <<>> /\ drops = 0
    /\ loop = "dialing" /\ pending = <<>>
    /\ gameState = NoLaunch
    /\ gameCheckID = NoLaunch /\ cancelSet = FALSE
    /\ check = [l \in Launches |-> Unstarted]

(***************************************************************************)
(* Jawaka.                                                                 *)
(***************************************************************************)
Message(name, l) == [name |-> name, launch |-> l]
Sent(m) == IF linked THEN Append(wire, m) ELSE wire
Room == Len(wire) + Len(pending) < MaxWire
\* a reply for another launch than the one in progress is ignored
Heard(l, reply) == IF l = launch THEN reply ELSE told

Launch(l) ==
    /\ launch = NoLaunch /\ l \notin begun /\ Room
    /\ launch' = l /\ phase' = "checking" /\ begun' = begun \cup {l} /\ told' = "none"
    /\ wire' = Sent(Message("game.check", l))
    /\ UNCHANGED <<linked, drops, loop, pending, gameState, gameCheckID, cancelSet, check>>

\* the same game.check twice
Resend ==
    /\ phase = "checking" /\ linked /\ Room
    /\ Message("game.check", launch) \notin Range(wire \o pending)
    /\ wire' = Sent(Message("game.check", launch))
    /\ UNCHANGED <<jawaka, told, linked, drops, loop, pending, gameState, gameCheckID, cancelSet, check>>

Abort ==
    /\ phase = "checking" /\ Room
    /\ launch' = NoLaunch /\ phase' = "none"
    /\ wire' = Sent(Message("game.abort", launch))
    /\ UNCHANGED <<begun, told, linked, drops, loop, pending, gameState, gameCheckID, cancelSet, check>>

PlayAnyway ==
    /\ phase = "checking" /\ Room
    /\ phase' = "playing"
    /\ wire' = Sent(Message("game.cancel", launch))
    /\ UNCHANGED <<launch, begun, told, linked, drops, loop, pending, gameState, gameCheckID, cancelSet, check>>

AnswerState ==
    /\ loop = "asked" /\ linked
    /\ ~\E i \in DOMAIN wire : wire[i].name = "state"
    /\ wire' = Append(wire, Message("state", launch))
    /\ UNCHANGED <<jawaka, told, linked, drops, loop, pending, gameState, gameCheckID, cancelSet, check>>

Drop ==
    /\ linked /\ drops < MaxDrops
    /\ linked' = FALSE /\ drops' = drops + 1
    /\ UNCHANGED <<jawaka, told, wire, loop, pending, gameState, gameCheckID, cancelSet, check>>

(***************************************************************************)
(* Connect and readResponse: events that come before the game.state answer *)
(* are put aside and read after it.                                        *)
(***************************************************************************)
Dial ==
    /\ loop = "dialing"
    /\ loop' = "asked" /\ linked' = TRUE /\ wire' = <<>> /\ pending' = <<>>
    /\ UNCHANGED <<jawaka, told, drops, gameState, gameCheckID, cancelSet, check>>

QueueEvent ==
    /\ loop = "asked" /\ wire # <<>> /\ Head(wire).name # "state"
    /\ pending' = Append(pending, Head(wire)) /\ wire' = Tail(wire)
    /\ UNCHANGED <<jawaka, told, linked, drops, loop, gameState, gameCheckID, cancelSet, check>>

\* Run returns: its goroutines end with the process
Stopped ==
    /\ loop' = "stopped"
    /\ linked' = FALSE /\ wire' = <<>> /\ pending' = <<>>
    /\ gameCheckID' = NoLaunch /\ cancelSet' = FALSE
    /\ check' = [l \in Launches |-> Unstarted]

ReadState ==
    /\ loop = "asked" /\ wire # <<>> /\ Head(wire).name = "state"
    /\ IF Head(wire).launch # NoLaunch
       THEN Stopped /\ UNCHANGED gameState
       ELSE /\ loop' = "up" /\ gameState' = NoLaunch /\ wire' = Tail(wire)
            /\ UNCHANGED <<linked, pending, gameCheckID, cancelSet, check>>
    /\ UNCHANGED <<jawaka, told, drops>>

\* the stream ends, or the handshake's deadline passes first
HandshakeFails ==
    /\ loop = "asked"
    /\ \/ ~linked /\ wire = <<>> /\ drops' = drops
       \/ linked /\ drops < MaxDrops /\ drops' = drops + 1
    /\ loop' = "dialing" /\ linked' = FALSE /\ wire' = <<>> /\ pending' = <<>>
    /\ UNCHANGED <<jawaka, told, gameState, gameCheckID, cancelSet, check>>

(***************************************************************************)
(* The run loop.                                                           *)
(***************************************************************************)
\* A cancelled goroutine returns, unless it has looked at ctx.Err() already.
Cancelled ==
    IF ~cancelSet THEN check
    ELSE [check EXCEPT ![gameCheckID] =
            IF @.pc = "send" THEN [@ EXCEPT !.cancelled = TRUE] ELSE Done(@)]

Next1 == IF pending # <<>> THEN Head(pending) ELSE Head(wire)

\* Subscription.Next: what was put aside first
Take(name) ==
    /\ loop = "up"
    /\ pending # <<>> \/ wire # <<>>
    /\ Next1.name = name
    /\ IF pending # <<>> THEN pending' = Tail(pending) /\ wire' = wire
                         ELSE pending' = pending /\ wire' = Tail(wire)

\* mutant: game.cancel clears the state as game.abort does
ReconciledOnCancel(e) ==
    CASE e.name = "game.check"       -> e.launch
      [] gameState = e.launch        -> NoLaunch
      [] OTHER                       -> gameState

\* reconcileGameState
Reconciled(e) ==
    CASE e.name = "game.check"                          -> e.launch
      [] e.name = "game.abort" /\ gameState = e.launch  -> NoLaunch
      [] OTHER                                          -> gameState

\* foldersForGameCheck: some of the card's kinds are managed
Selections == SUBSET Folders

Sending(c, reply, items) == [c EXCEPT !.pc = "send", !.reply = reply, !.items = items]

\* game.check for a launch whose folders are safe to read: a check starts, and
\* refuses at once when a foreign Syncthing left the controller without upstream
StartCheck ==
    /\ Take("game.check")
    /\ LET l == Next1.launch
       IN  /\ gameCheckID # l
           /\ \E c \in {Fresh(S) : S \in Selections} \cup {Sending(Fresh({}), "error", 0)} :
                check' = [Cancelled EXCEPT ![l] = c]
           /\ gameCheckID' = l /\ cancelSet' = TRUE
    /\ gameState' = Reconciled(Next1)
    /\ UNCHANGED <<jawaka, told, linked, drops, loop>>

RepeatedCheck ==
    /\ Take("game.check")
    /\ gameCheckID = Next1.launch
    /\ gameState' = Reconciled(Next1)
    /\ UNCHANGED <<jawaka, told, linked, drops, loop, gameCheckID, cancelSet, check>>

\* mutant: the refusal is logged and not sent
RejectCheckSilent ==
    /\ Take("game.check")
    /\ gameCheckID # Next1.launch
    /\ check' = Cancelled
    /\ gameCheckID' = Next1.launch /\ cancelSet' = FALSE
    /\ gameState' = Reconciled(Next1)
    /\ UNCHANGED <<jawaka, told, linked, drops, loop>>

\* foldersForGameCheck refuses, or the registry cannot be read
RejectCheck ==
    /\ Take("game.check")
    /\ gameCheckID # Next1.launch
    /\ linked
    /\ told' = Heard(Next1.launch, "error")
    /\ check' = Cancelled
    /\ gameCheckID' = Next1.launch /\ cancelSet' = FALSE
    /\ gameState' = Reconciled(Next1)
    /\ UNCHANGED <<jawaka, linked, drops, loop>>

\* the refusal cannot be sent: Run returns the error
ReplyFails ==
    /\ loop = "up" /\ ~linked
    /\ pending # <<>> \/ wire # <<>>
    /\ Next1.name = "game.check" /\ Next1.launch # gameCheckID
    /\ Stopped
    /\ UNCHANGED <<jawaka, told, drops, gameState>>

EndCheck ==
    /\ \E name \in {"game.cancel", "game.abort"} : Take(name)
    /\ IF Next1.launch = gameCheckID
       THEN check' = Cancelled /\ cancelSet' = FALSE /\ gameCheckID' = NoLaunch
       ELSE UNCHANGED <<check, cancelSet, gameCheckID>>
    /\ gameState' = Reconciled(Next1)
    /\ UNCHANGED <<jawaka, told, linked, drops, loop>>

\* mutant: the check is left running across the reconnect
LifecycleLostRunning ==
    /\ loop = "up" /\ ~linked /\ pending = <<>> /\ wire = <<>>
    /\ loop' = "dialing"
    /\ UNCHANGED <<jawaka, told, linked, wire, drops, pending, gameState, gameCheckID, cancelSet>>
    /\ check' = [l \in Launches |-> [check[l] EXCEPT !.stale = @ \/ check[l].pc \in {"probe", "send"}]]

\* Next fails: close, cancel the check, connect again
LifecycleLost ==
    /\ loop = "up" /\ ~linked /\ pending = <<>> /\ wire = <<>>
    /\ loop' = "dialing"
    /\ check' = [l \in Launches |-> [Cancelled[l] EXCEPT !.stale = @ \/ Cancelled[l].pc = "send"]]
    /\ cancelSet' = FALSE
    /\ gameCheckID' = IF cancelSet THEN NoLaunch ELSE gameCheckID
    /\ UNCHANGED <<jawaka, told, linked, wire, drops, pending, gameState>>

\* ctx.Done, or a refresh or the UI socket fails
StopService ==
    /\ loop # "stopped"
    /\ Stopped
    /\ UNCHANGED <<jawaka, told, drops, gameState>>

(***************************************************************************)
(* runGameCheck.                                                           *)
(***************************************************************************)
\* the reads before the first reply, which took d
FirstRead(c, d) ==
    LET t == [c EXCEPT !.elapsed = @ + d]
        retry == [t EXCEPT !.elapsed = @ + Least(Remaining(t), RetryDelay)]
        noAnswer == {IF d = ReadTimeout(c) /\ Remaining(t) > 0
                     THEN [Sending(t, "waiting", 1) EXCEPT !.synthetic = TRUE]
                     ELSE IF Remaining(t) > 0 THEN retry ELSE Sending(t, "error", 0)}
        refused == {IF Remaining(t) > 0 THEN retry ELSE Sending(t, "error", 0)}
        answered(q) == IF q.status.items = 0
                       THEN [Sending(t, "stop", 0) EXCEPT !.current = q.current]
                       ELSE Sending(t, "waiting", q.status.items)
    IN  noAnswer \cup refused
          \cup {answered(q) : q \in Answered(c.folders)}

\* the reads after it
LaterRead(c) ==
    LET failed == IF c.synthetic THEN Sending(c, "error", 0) ELSE c
        answered(q) ==
            IF q.status.items = 0 THEN [Sending(c, "stop", 0) EXCEPT !.current = q.current]
            ELSE IF q.status.items # c.last
            THEN [Sending(c, "waiting", q.status.items) EXCEPT !.synthetic = FALSE]
            ELSE [c EXCEPT !.synthetic = FALSE]
    IN  {failed} \cup {answered(q) : q \in Answered(c.folders)}

Probe(l) ==
    /\ check[l].pc = "probe"
    /\ LET c == check[l]
       IN  IF c.last > 0 THEN \E n \in LaterRead(c) : check' = [check EXCEPT ![l] = n]
           ELSE IF Remaining(c) <= 0 THEN check' = [check EXCEPT ![l] = Sending(c, "error", 0)]
           ELSE \E d \in 0..ReadTimeout(c) : \E n \in FirstRead(c, d) :
                  check' = [check EXCEPT ![l] = n]
    /\ UNCHANGED <<jawaka, told, linked, wire, drops, loop, pending, gameState, gameCheckID, cancelSet>>

\* SendWaiting, SendStop, SendError on the connection the check began with
Reply(l) ==
    /\ check[l].pc = "send"
    /\ LET c  == check[l]
           ok == linked /\ ~c.stale
       IN  /\ told' = IF ok THEN Heard(l, c.reply) ELSE told
           /\ check' = [check EXCEPT ![l] =
                IF ok /\ c.reply = "waiting" /\ ~c.cancelled
                THEN [c EXCEPT !.pc = "probe", !.last = c.items, !.elapsed = 0]
                ELSE Done(c)]
    /\ UNCHANGED <<jawaka, linked, wire, drops, loop, pending, gameState, gameCheckID, cancelSet>>

Jawaka == Resend \/ Abort \/ PlayAnyway \/ Drop \/ \E l \in Launches : Launch(l)
Connect == Dial \/ AnswerState \/ QueueEvent \/ ReadState \/ HandshakeFails
HandleEvent == StartCheck \/ RepeatedCheck \/ RejectCheck \/ ReplyFails \/ EndCheck
                 \/ LifecycleLost
RunGameCheck(l) == Probe(l) \/ Reply(l)

Next == \/ loop # "stopped" /\ Jawaka
        \/ Connect
        \/ HandleEvent
        \/ StopService
        \/ \E l \in Launches : RunGameCheck(l)

\* The client dials until Jawaka is there and Jawaka answers what it is asked;
\* the run loop comes back to its select, and a runnable goroutine runs.
Fairness == /\ WF_vars(Connect)
            /\ WF_vars(HandleEvent)
            /\ \A l \in Launches : WF_vars(RunGameCheck(l))

Spec == Init /\ [][Next]_vars /\ Fairness

(***************************************************************************)
(* Properties.                                                             *)
(***************************************************************************)
\* Every variable has its type, and the run loop holds a cancel function only
\* for the launch whose id it keeps.
TypeOK ==
    /\ launch \in MaybeLaunch /\ phase \in {"none", "checking", "playing"}
    /\ begun \subseteq Launches
    /\ told \in Replies \cup {"none"}
    /\ linked \in BOOLEAN /\ drops \in 0..MaxDrops
    /\ wire \in Seq(Event \cup StateAnswer) /\ pending \in Seq(Event)
    /\ loop \in {"dialing", "asked", "up", "stopped"}
    /\ gameState \in MaybeLaunch /\ gameCheckID \in MaybeLaunch
    /\ cancelSet \in BOOLEAN /\ (cancelSet => gameCheckID # NoLaunch)
    /\ check \in [Launches -> Check]

\* At most one check reads the upstream, it is the one of the last game.check,
\* the run loop can still cancel it, and its replies go to the connection that
\* asked: a newer launch, an end event or a lost connection ends every other.
OneLiveCheck ==
    \A l \in Launches : check[l].pc = "probe" =>
        l = gameCheckID /\ cancelSet /\ ~check[l].stale

\* The run loop's id, its cancel function and the goroutines agree (Run).
CheckInv == TypeOK /\ OneLiveCheck

\* Once every message is read, the game state the controller reports is the
\* launch Jawaka is in, whatever events came between the subscription and the
\* snapshot and however often the connection was lost.
GameStateConverges ==
    (loop = "up" /\ linked /\ wire = <<>> /\ pending = <<>>) => gameState = launch

\* Jawaka is told to stop the service and start the game only on answers in
\* which every folder is idle and complete and every peer is configured,
\* connected, unpaused, valid and complete.
StopOnlyWhenCurrent ==
    (told = "stop" /\ loop # "stopped" /\ launch # NoLaunch) => check[launch].current

\* A check's first reply is written before ack_ms have passed since the check
\* began, whatever the probes did and however long they took (runGameCheck).
FirstReplyLeavesMargin ==
    \A l \in Launches : check[l].pc = "send" /\ check[l].last = 0
                          => check[l].elapsed < AckMS

\* A launch that waits for the check gets a reply, ends, or finds the controller
\* stopped: lost connections, repeated events and failing probes never leave it
\* to Jawaka's own timeouts.
LaunchGetsVerdict ==
    \A l \in Launches :
        (launch = l /\ phase = "checking")
          ~> (told # "none" \/ launch # l \/ phase # "checking" \/ loop = "stopped")
=============================================================================
