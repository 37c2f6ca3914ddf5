------------------------------ MODULE Network ------------------------------
(***************************************************************************)
(* The network profile (internal/controller/network.go) and the live       *)
(* transition that enforces it upstream (internal/syncthing/network.go):   *)
(* LAN only, where every peer is confined to the directly connected        *)
(* networks, or Sync Anywhere.                                             *)
(*                                                                         *)
(* Transitions hold the manager's mutex, so there is one at a time: of the *)
(* start (Initialize), of the UI (Set) or of the run loop (RefreshIfChanged*)
(* when the routes have changed).  Each of its requests is a step; device  *)
(* operations of the UI are between them when the run loop is at it.       *)
(*                                                                         *)
(* The upstream keeps its configuration over a restart.  allowedNetworks   *)
(* is looked at when a connection is made, and an empty list admits        *)
(* everybody; a connection ends when its peer is paused or removed.        *)
(***************************************************************************)
EXTENDS Naturals, FiniteSets

CONSTANTS
    Peers, Networks,
    Away,           \* an address outside every directly connected network
    None,           \* no connection; noEligibleNetwork in a policy
    MaxFaults,      \* bound: failed requests, reads and writes, kills
    MaxChanges,     \* bound: route changes
    MaxAdds         \* bound: peers added by the user

ASSUME NetworkAssumption ==
    /\ Away \notin Networks /\ None \notin Networks \cup {Away}
    /\ {MaxFaults, MaxChanges, MaxAdds} \subseteq Nat

VARIABLES
    ctl,            \* the controller: off, starting, running
    routes,         \* what DirectlyConnectedNetworks returns
    profile, allowed, observed,     \* networkManager
    stateFile,      \* network-profile.json
    op,             \* the transition under way
    ui,             \* a peer about to be added: its device and networks
    configured, paused, policy, anywhere,   \* the upstream's configuration
    conn,           \* peer -> the address it is connected from
    faults, changes, adds,
    sound,          \* history: the last transition succeeded
    inherited       \* history: peers added since a transition listed them

manager == <<profile, allowed, observed>>
upstream == <<configured, paused, policy, anywhere, conn>>
bounds == <<faults, changes, adds>>
vars == <<ctl, routes, manager, stateFile, op, ui, upstream, bounds, sound, inherited>>

Profiles == {"lan-only", "sync-anywhere"}
Policies == SUBSET (Networks \cup {None})
Idle == [pc |-> "idle"]
Steps == {"list", "clear", "pause", "wait", "policy", "options", "restore", "persist", "commit", "fail"}
Transition == [pc : Steps, by : {"init", "ui", "loop"}, profile : Profiles,
               allowed : SUBSET Networks, observed : SUBSET Networks,
               remote : SUBSET Peers, todo : SUBSET Peers,
               mine : SUBSET Peers,         \* pausedByTransition
               failed : BOOLEAN, expired : BOOLEAN]

Boundary(S) == IF S = {} THEN {None} ELSE S
Admits(pol, a) == pol = {} \/ a \in pol

Init ==
    /\ ctl = "off"
    /\ routes \in SUBSET Networks
    /\ profile = "lan-only" /\ allowed = {} /\ observed = {}
    /\ stateFile = "none"
    /\ op = Idle /\ ui = Idle
    /\ configured = {} /\ paused = {} /\ policy = [p \in Peers |-> {}] /\ anywhere = FALSE
    /\ conn = [p \in Peers |-> None]
    /\ faults = 0 /\ changes = 0 /\ adds = 0
    /\ sound = FALSE /\ inherited = {}

Fault == faults < MaxFaults /\ faults' = faults + 1

-----------------------------------------------------------------------------
(* The controller starts and ends.                                          *)

\* newNetworkManager, next to an upstream that already serves its peers.
StartUp ==
    /\ ctl = "off"
    /\ ctl' = "starting"
    /\ profile' = IF stateFile = "none" THEN "lan-only" ELSE stateFile
    /\ allowed' = {} /\ observed' = {}
    /\ sound' = FALSE
    /\ UNCHANGED <<routes, stateFile, op, ui, upstream, bounds, inherited>>

\* The service and its upstream stop; the configuration stays.
Down ==
    /\ ctl' = "off"
    /\ op' = Idle /\ ui' = Idle
    /\ conn' = [p \in Peers |-> None]
    /\ sound' = FALSE
    /\ UNCHANGED <<routes, manager, configured, paused, policy, anywhere, changes, adds, inherited>>

Kill ==
    /\ ctl # "off" /\ Fault
    /\ Down
    /\ UNCHANGED stateFile

-----------------------------------------------------------------------------
(* Transitions begin.                                                       *)

Begin(by, pr) ==
    op' = [pc |-> "list", by |-> by, profile |-> pr,
           allowed |-> IF pr = "lan-only" THEN routes ELSE {}, observed |-> routes,
           remote |-> {}, todo |-> {}, mine |-> {}, failed |-> FALSE, expired |-> FALSE]

Initialize ==
    /\ ctl = "starting" /\ op = Idle
    /\ Begin("init", profile)
    /\ UNCHANGED <<ctl, routes, manager, stateFile, ui, upstream, bounds, sound, inherited>>

Set(pr) ==
    /\ ctl = "running" /\ op = Idle /\ ui = Idle
    /\ Begin("ui", pr)
    /\ UNCHANGED <<ctl, routes, manager, stateFile, ui, upstream, bounds, sound, inherited>>

\* mutant: a device without any network is not looked at
RefreshIfOnline ==
    /\ ctl = "running" /\ op = Idle
    /\ routes # observed /\ routes # {}
    /\ IF profile = "lan-only" THEN Begin("loop", profile) /\ UNCHANGED observed
                               ELSE observed' = routes /\ UNCHANGED op
    /\ UNCHANGED <<ctl, routes, profile, allowed, stateFile, ui, upstream, bounds, sound, inherited>>

RefreshIfChanged ==
    /\ ctl = "running" /\ op = Idle
    /\ routes # observed
    /\ IF profile = "lan-only" THEN Begin("loop", profile) /\ UNCHANGED observed
                               ELSE observed' = routes /\ UNCHANGED op
    /\ UNCHANGED <<ctl, routes, profile, allowed, stateFile, ui, upstream, bounds, sound, inherited>>

\* The routes cannot be derived: the start and the run loop end the service.  (A
\* Set returns the error before it has changed anything.)
DeriveFails ==
    /\ ctl # "off" /\ op = Idle
    /\ Fault
    /\ Down
    /\ UNCHANGED stateFile

-----------------------------------------------------------------------------
(* ApplyNetworkProfile.  rest is what its requests leave alone.             *)

rest == <<ctl, routes, manager, ui, changes, adds>>

Failing(o) == [o EXCEPT !.pc = IF o.mine = {} THEN "fail" ELSE "restore", !.todo = o.mine, !.failed = TRUE]

\* The 8 seconds of the context are over: what it asks from now on fails.
Expire ==
    /\ op # Idle /\ ~op.expired /\ Fault
    /\ op' = [op EXCEPT !.expired = TRUE]
    /\ UNCHANGED <<rest, stateFile, upstream, sound, inherited>>

\* A request that changes the configuration of one peer.  It may be refused, or
\* applied and its answer lost; for a peer that is no longer there it is refused.
Patch(p, newPaused, newPolicy, ok, failed) ==
    /\ \/ /\ p \in configured /\ ~op.expired
          /\ paused' = newPaused /\ policy' = newPolicy
          /\ \/ op' = ok /\ UNCHANGED faults
             \/ op' = failed /\ Fault
       \/ /\ op' = failed
          /\ UNCHANGED <<paused, policy>>
          /\ IF op.expired \/ p \notin configured THEN UNCHANGED faults ELSE Fault
    /\ UNCHANGED <<rest, stateFile, configured, anywhere, conn, sound, inherited>>

Without(p) == [op EXCEPT !.todo = @ \ {p}]

\* mutant: the policy is changed under the connections that exist
ListConfigOnly ==
    /\ op.pc = "list"
    /\ IF op.expired THEN op' = Failing(op) ELSE
         op' = [op EXCEPT !.pc = IF op.profile = "lan-only" THEN "policy" ELSE "clear",
                          !.remote = configured, !.todo = configured]
    /\ inherited' = {} /\ sound' = FALSE
    /\ UNCHANGED <<rest, stateFile, upstream, faults>>

\* The peers there are, and those that are not paused.
List ==
    /\ op.pc = "list"
    /\ \/ /\ ~op.expired
          /\ LET lan == op.profile = "lan-only"
             IN  op' = [op EXCEPT !.pc = IF lan THEN "pause" ELSE "clear", !.remote = configured,
                                  !.todo = IF lan THEN configured \ paused ELSE configured]
          /\ inherited' = {}
          /\ UNCHANGED faults
       \/ /\ op' = Failing(op)
          /\ IF op.expired THEN UNCHANGED faults ELSE Fault
          /\ UNCHANGED inherited
    /\ sound' = FALSE
    /\ UNCHANGED <<rest, stateFile, upstream>>

\* Sync Anywhere: the boundary of every peer is cleared.
Clear(p) ==
    /\ op.pc = "clear" /\ p \in op.todo
    /\ Patch(p, paused, [policy EXCEPT ![p] = {}], Without(p), Failing(op))

Pause(p) ==
    /\ op.pc = "pause" /\ p \in op.todo
    /\ Patch(p, paused \cup {p}, policy, [Without(p) EXCEPT !.mine = @ \cup {p}], Failing(op))

\* waitDisconnected: no listed peer is connected, or the 5 seconds are over.  They
\* run out when a peer that was removed and added again meanwhile, and so is not
\* paused, keeps connecting; that the upstream is too slow to drop one is a fault.
WaitDisconnected ==
    /\ op.pc = "wait"
    /\ \/ /\ ~op.expired
          /\ \A p \in op.remote : conn[p] = None
          /\ op' = [op EXCEPT !.pc = "policy", !.todo = op.remote]
          /\ UNCHANGED faults
       \/ /\ op' = Failing(op)
          /\ IF op.expired \/ \E p \in op.remote \ paused : conn[p] # None
             THEN UNCHANGED faults ELSE Fault
    /\ UNCHANGED <<rest, stateFile, upstream, sound, inherited>>

Confine(p) ==
    /\ op.pc = "policy" /\ p \in op.todo
    /\ Patch(p, paused, [policy EXCEPT ![p] = Boundary(op.allowed)], Without(p), Failing(op))

\* All peers of a round are done.
RoundOver ==
    /\ op.pc \in {"clear", "pause", "policy"} /\ op.todo = {}
    /\ op' = [op EXCEPT !.pc = IF op.pc = "pause" THEN "wait" ELSE "options"]
    /\ UNCHANGED <<rest, stateFile, upstream, faults, sound, inherited>>

\* patchNetworkOptions: global discovery, relays and NAT traversal together.
PatchNetworkOptions ==
    /\ op.pc = "options"
    /\ \/ /\ ~op.expired
          /\ anywhere' = (op.profile = "sync-anywhere")
          /\ \/ op' = [op EXCEPT !.pc = "restore", !.todo = op.mine] /\ UNCHANGED faults
             \/ op' = Failing(op) /\ Fault
       \/ /\ op' = Failing(op) /\ UNCHANGED anywhere
          /\ IF op.expired THEN UNCHANGED faults ELSE Fault
    /\ UNCHANGED <<rest, stateFile, configured, paused, policy, conn, sound, inherited>>

\* restore: an error is remembered, the other peers are tried all the same.
Restore(p) ==
    /\ op.pc = "restore" /\ p \in op.todo
    /\ Patch(p, paused \ {p}, policy, Without(p), [Without(p) EXCEPT !.failed = TRUE])

Restored ==
    /\ op.pc = "restore" /\ op.todo = {}
    /\ op' = [op EXCEPT !.pc = IF op.failed THEN "fail" ELSE "persist"]
    /\ UNCHANGED <<rest, stateFile, upstream, faults, sound, inherited>>

\* writeNetworkProfileState, for a profile that was set.  Its last step, the
\* flush of the directory, may fail after the file has its name.
Persist ==
    /\ op.pc = "persist"
    /\ \/ /\ stateFile' = IF op.by = "loop" THEN stateFile ELSE op.profile
          /\ op' = [op EXCEPT !.pc = "commit"]
          /\ UNCHANGED faults
       \/ /\ op.by # "loop" /\ Fault
          /\ stateFile' \in {stateFile, op.profile}
          /\ op' = [op EXCEPT !.pc = "fail", !.failed = TRUE]
    /\ UNCHANGED <<rest, upstream, sound, inherited>>

Commit ==
    /\ op.pc = "commit"
    /\ profile' = op.profile /\ allowed' = op.allowed /\ observed' = op.observed
    /\ ctl' = "running"
    /\ op' = Idle /\ sound' = TRUE
    /\ UNCHANGED <<routes, stateFile, ui, upstream, bounds, inherited>>

\* Set reports the error; the start and the run loop stop the upstream and end.
Fail ==
    /\ op.pc = "fail"
    /\ \/ op.by = "ui" /\ op' = Idle /\ UNCHANGED <<rest, conn, configured, paused, policy, anywhere,
                                                     sound, inherited>>
       \/ op.by # "ui" /\ Down
    /\ UNCHANGED <<stateFile, faults>>

-----------------------------------------------------------------------------
(* Device operations of the UI.                                             *)

\* device.add reads the profile and its networks under the mutex.  (Of the two
\* only the networks can change between the two reads.)
AddPeerRead(p) ==
    /\ ctl = "running" /\ op = Idle /\ ui = Idle /\ adds < MaxAdds
    /\ ui' = [pc |-> "add", peer |-> p,
              policy |-> IF profile = "lan-only" THEN allowed ELSE {}]
    /\ adds' = adds + 1
    /\ UNCHANGED <<ctl, routes, manager, stateFile, op, upstream, faults, changes, sound, inherited>>

\* AddPeer: the upstream takes the device as it is posted, or the request fails.
AddPeerPost ==
    /\ ui # Idle
    /\ ui' = Idle
    /\ \/ /\ configured' = configured \cup {ui.peer} /\ paused' = paused \ {ui.peer}
          /\ policy' = [policy EXCEPT ![ui.peer] = ui.policy]
          /\ inherited' = inherited \cup {ui.peer}
       \/ UNCHANGED <<configured, paused, policy, inherited>>
    /\ UNCHANGED <<ctl, routes, manager, stateFile, op, anywhere, conn, bounds, sound>>

\* RemovePeer, of a peer no folder is shared with.
RemovePeer(p) ==
    /\ ctl = "running" /\ ui = Idle /\ (op # Idle => op.by = "loop")
    /\ p \in configured
    /\ configured' = configured \ {p} /\ paused' = paused \ {p}
    /\ policy' = [policy EXCEPT ![p] = {}] /\ conn' = [conn EXCEPT ![p] = None]
    /\ UNCHANGED <<ctl, routes, manager, stateFile, op, ui, anywhere, bounds, sound, inherited>>

-----------------------------------------------------------------------------
(* The upstream's connections and the device's routes.                      *)

Connect(p, a) ==
    /\ ctl # "off" /\ p \in configured \ paused /\ conn[p] = None
    /\ Admits(policy[p], a)
    /\ conn' = [conn EXCEPT ![p] = a]
    /\ UNCHANGED <<ctl, routes, manager, stateFile, op, ui, configured, paused, policy, anywhere,
                   bounds, sound, inherited>>

Disconnect(p) ==
    /\ conn[p] # None
    /\ conn' = [conn EXCEPT ![p] = None]
    /\ UNCHANGED <<ctl, routes, manager, stateFile, op, ui, configured, paused, policy, anywhere,
                   bounds, sound, inherited>>

RouteChange ==
    /\ changes < MaxChanges /\ changes' = changes + 1
    /\ routes' \in SUBSET Networks \ {routes}
    /\ UNCHANGED <<ctl, manager, stateFile, op, ui, upstream, faults, adds, sound, inherited>>

-----------------------------------------------------------------------------
ApplyNetworkProfile ==
    \/ List \/ WaitDisconnected \/ RoundOver \/ PatchNetworkOptions \/ Restored \/ Persist
    \/ Commit \/ Fail
    \/ \E p \in Peers : Clear(p) \/ Pause(p) \/ Confine(p) \/ Restore(p)

Next ==
    \/ StartUp \/ Kill \/ Initialize \/ RefreshIfChanged \/ DeriveFails \/ Expire
    \/ \E pr \in Profiles : Set(pr)
    \/ ApplyNetworkProfile
    \/ \E p \in Peers : AddPeerRead(p) \/ RemovePeer(p) \/ Disconnect(p)
    \/ \E p \in Peers, a \in Networks \cup {Away} : Connect(p, a)
    \/ AddPeerPost
    \/ RouteChange

\* The supervisor starts the service again, a transition goes on, the run loop
\* looks at the routes, and the upstream drops the peers that are paused.
Fairness ==
    /\ WF_vars(StartUp) /\ WF_vars(Initialize) /\ WF_vars(ApplyNetworkProfile)
    /\ SF_vars(RefreshIfChanged)
    /\ \A p \in Peers : WF_vars(p \in paused /\ Disconnect(p))

Spec == Init /\ [][Next]_vars /\ Fairness

-----------------------------------------------------------------------------
(* Properties.                                                              *)

\* Every variable has its type, and only a transition has peers paused by it.
TypeOK ==
    /\ ctl \in {"off", "starting", "running"}
    /\ routes \in SUBSET Networks
    /\ profile \in Profiles /\ allowed \in SUBSET Networks /\ observed \in SUBSET Networks
    /\ stateFile \in Profiles \cup {"none"}
    /\ op \in Transition \cup {Idle}
    /\ op # Idle => op.mine \subseteq op.remote /\ (op.by = "ui" => ctl = "running" /\ ui = Idle)
    /\ ui \in [pc : {"add"}, peer : Peers, policy : SUBSET Networks] \cup {Idle}
    /\ configured \subseteq Peers /\ paused \subseteq configured
    /\ policy \in [Peers -> Policies] /\ anywhere \in BOOLEAN
    /\ conn \in [Peers -> Networks \cup {Away, None}]
    /\ faults \in 0..MaxFaults /\ changes \in 0..MaxChanges /\ adds \in 0..MaxAdds
    /\ sound \in BOOLEAN /\ inherited \subseteq Peers

\* After a LAN-only transition that succeeded (ApplyNetworkProfile of the start,
\* of the user or of a route change), until the next one, every peer it listed is
\* confined to the networks the status shows, discovery and relays are off, and
\* no connection from elsewhere has survived or come back.
BoundaryHolds ==
    (ctl = "running" /\ op = Idle /\ profile = "lan-only" /\ sound) =>
        /\ ~anywhere
        /\ \A p \in configured \ inherited :
             /\ policy[p] = Boundary(allowed)
             /\ conn[p] \in Boundary(allowed) \cup {None}

\* A transition that has succeeded leaves the peers it paused running: "restores
\* only peers that were previously unpaused" (ApplyNetworkProfile).
SuccessRestoresPeers ==
    op.pc \in {"persist", "commit"} => op.mine \cap paused = {}

\* What a transition leaves behind: no peer paused, and under LAN only nobody but
\* the LAN (ApplyNetworkProfile).
BoundaryInv == TypeOK /\ BoundaryHolds /\ SuccessRestoresPeers

\* The boundary follows the device from network to network: when the routes have
\* changed under LAN only, the controller comes to enforce the new ones, through
\* failed requests, the end of the service and its next start.
BoundaryFollowsRoutes ==
    (ctl = "running" /\ profile = "lan-only" /\ observed # routes)
      ~> (ctl = "running" /\ (observed = routes \/ profile # "lan-only"))

\* "LAN-only" as the status shows it, also after a Set that failed: Sync Anywhere
\* clears the boundary of peer after peer, and an error on the way leaves the
\* cleared ones as they are under a profile that is still lan-only.
StatusTellsBoundary ==
    (ctl = "running" /\ op = Idle /\ profile = "lan-only") =>
        \A p \in configured \ inherited : policy[p] # {}

\* "New peers ... inherit the current route-derived LAN boundary"
\* (docs/ui-control-v1.md): without any network that boundary is the empty list.
NewPeersAreConfined ==
    (ctl = "running" /\ op = Idle /\ profile = "lan-only" /\ sound) =>
        \A p \in configured \cap inherited : policy[p] # {}

\* The profile the status shows is the one the next start enforces: a Set whose
\* last step, the flush of the directory, fails is reported as failed, and its
\* profile is in the file.
ReportedProfileIsKept ==
    (ctl = "running" /\ op = Idle /\ sound) => stateFile = profile

\* A peer that a transition paused is not left paused for good: the program has no
\* other operation that pauses or resumes a peer.
PausedPeersComeBack == \A p \in Peers : p \in paused ~> p \notin paused
=============================================================================
