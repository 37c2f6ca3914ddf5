--------------------------- MODULE NetworkProofs ----------------------------
(***************************************************************************)
(* Proofs about Network, for every set of peers and of networks and any    *)
(* number of faults: after a LAN-only transition that succeeded nobody but *)
(* the LAN is connected, and the peers it paused run again.                *)
(*                                                                         *)
(* The argument follows the transition from request to request (StageInv). *)
(* It is about the peers that are configured and have been since they were *)
(* listed (Listed): they are all paused when it looks for connections, so  *)
(* that none comes back before each has its new policy.                    *)
(***************************************************************************)
EXTENDS Network, TLAPS

Listed == configured \ inherited

\* what a LAN-only transition has achieved before its next request
StageInv ==
    (op # Idle /\ op.profile = "lan-only" /\ ~op.failed /\ op.pc \notin {"list", "fail"}) =>
        /\ Listed \subseteq op.remote
        /\ op.pc = "pause" => Listed \subseteq paused \cup op.todo
        /\ op.pc \in {"wait", "policy", "options"} => Listed \subseteq paused
        /\ op.pc \in {"policy", "options"} => \A p \in Listed : conn[p] = None
        /\ op.pc = "policy" => \A p \in Listed \ op.todo : policy[p] = Boundary(op.allowed)
        /\ op.pc \in {"options", "restore", "persist", "commit"} =>
             \A p \in Listed : policy[p] = Boundary(op.allowed)
        /\ op.pc \in {"restore", "persist", "commit"} =>
             ~anywhere /\ \A p \in Listed : conn[p] \in Boundary(op.allowed) \cup {None}

\* what any transition knows of its own lists
ListsInv ==
    op # Idle =>
        /\ op.todo \subseteq op.remote
        /\ op.pc = "list" => op.mine = {}
        /\ op.pc = "clear" => op.profile # "lan-only"
        /\ op.pc # "list" => ~sound
        /\ op.pc = "restore" /\ ~op.failed => op.mine \cap paused \subseteq op.todo
        /\ op.pc \in {"persist", "commit"} => ~op.failed /\ op.mine \cap paused = {}

IInv == TypeOK /\ BoundaryHolds /\ ListsInv /\ StageInv

-----------------------------------------------------------------------------
(* Values.                                                                  *)

LEMMA BoundaryIs ==
    ASSUME NEW S \in SUBSET Networks
    PROVE  /\ Boundary(S) \in Policies /\ Boundary(S) # {}
           /\ \A a : Admits(Boundary(S), a) => a \in Boundary(S)
BY DEF Boundary, Policies, Admits

\* A transition under way is no idle one, and neither is a peer about to be added.
LEMMA Kinds ==
    /\ Idle \notin Transition
    /\ \A u \in [pc : {"add"}, peer : Peers, policy : SUBSET Networks] : u # Idle
<1>1. Idle.pc = "idle" /\ "idle" \notin Steps
    BY DEF Idle, Steps
<1>2. \A o \in Transition : o.pc \in Steps
    BY DEF Transition
<1>3. \A u \in [pc : {"add"}, peer : Peers, policy : SUBSET Networks] : u.pc = "add"
    OBVIOUS
<1>4. QED
    BY <1>1, <1>2, <1>3

\* The fields of a transition, and of one that fails.
LEMMA TransitionFields ==
    ASSUME NEW o \in Transition
    PROVE  /\ o.pc \in Steps /\ o.by \in {"init", "ui", "loop"} /\ o.profile \in Profiles
           /\ o.allowed \in SUBSET Networks /\ o.observed \in SUBSET Networks
           /\ o.remote \in SUBSET Peers /\ o.todo \in SUBSET Peers /\ o.mine \in SUBSET Peers
           /\ o.failed \in BOOLEAN /\ o.expired \in BOOLEAN
BY DEF Transition

LEMMA FailingIs ==
    ASSUME NEW o \in Transition
    PROVE  /\ Failing(o) \in Transition
           /\ Failing(o).pc \in {"fail", "restore"} /\ Failing(o).failed
           /\ Failing(o).todo = o.mine /\ Failing(o).mine = o.mine
           /\ Failing(o).remote = o.remote /\ Failing(o).by = o.by
BY DEF Failing, Transition, Steps

\* A request that fails leaves nothing to show but that the lists are lists.
LEMMA FailingStep ==
    ASSUME TypeOK, op # Idle, op' = Failing(op), ~sound'
    PROVE  /\ op' \in Transition /\ op' # Idle /\ op'.by = op.by
           /\ op'.mine \subseteq op'.remote
           /\ BoundaryHolds' /\ ListsInv' /\ StageInv'
<1>1. op \in Transition /\ op.mine \subseteq op.remote
    BY DEF TypeOK
<1>2. /\ op' \in Transition /\ op'.pc \in {"fail", "restore"} /\ op'.failed
      /\ op'.todo = op.mine /\ op'.mine = op.mine /\ op'.remote = op.remote /\ op'.by = op.by
    BY <1>1, FailingIs
<1>3. op' # Idle
    BY <1>2, Kinds
<1>4. BoundaryHolds'
    BY <1>3 DEF BoundaryHolds
<1>5. ListsInv'
    BY <1>1, <1>2 DEF ListsInv
<1>6. StageInv'
    BY <1>2 DEF StageInv
<1>7. QED
    BY <1>1, <1>2, <1>3, <1>4, <1>5, <1>6

-----------------------------------------------------------------------------
(* Start, end and the beginning of a transition.                            *)

LEMMA InitInv == Init => IInv
<1> SUFFICES ASSUME Init PROVE IInv
    OBVIOUS
<1>1. op = Idle /\ ui = Idle /\ ctl = "off"
    BY DEF Init
<1>2. TypeOK
  <2>1. /\ routes \in SUBSET Networks /\ profile = "lan-only" /\ allowed = {} /\ observed = {}
        /\ stateFile = "none" /\ configured = {} /\ paused = {} /\ inherited = {}
        /\ policy = [p \in Peers |-> {}] /\ conn = [p \in Peers |-> None]
        /\ faults = 0 /\ changes = 0 /\ adds = 0
    BY DEF Init
  <2>2. anywhere \in BOOLEAN /\ sound \in BOOLEAN
    BY DEF Init
  <2>3. faults \in 0..MaxFaults /\ changes \in 0..MaxChanges /\ adds \in 0..MaxAdds
    BY <2>1, NetworkAssumption
  <2>4. QED
    BY <1>1, <2>1, <2>2, <2>3 DEF TypeOK, Profiles, Policies
<1>3. BoundaryHolds
    BY <1>1 DEF BoundaryHolds
<1>4. ListsInv /\ StageInv
    BY <1>1 DEF ListsInv, StageInv
<1>5. QED
    BY <1>2, <1>3, <1>4 DEF IInv

LEMMA DownInv ==
    ASSUME IInv, Down, stateFile' = stateFile, faults' \in 0..MaxFaults
    PROVE  IInv'
<1>1. /\ ctl' = "off" /\ op' = Idle /\ ui' = Idle /\ conn' = [p \in Peers |-> None]
      /\ sound' = FALSE
      /\ UNCHANGED <<routes, profile, allowed, observed, stateFile, configured, paused, policy,
                     anywhere, changes, adds, inherited>>
    BY DEF Down, manager
<1>2. TypeOK'
    BY <1>1 DEF IInv, TypeOK
<1>3. BoundaryHolds' /\ ListsInv' /\ StageInv'
    BY <1>1 DEF BoundaryHolds, ListsInv, StageInv
<1>4. QED
    BY <1>2, <1>3 DEF IInv

\* A transition that begins has no lists yet.
LEMMA BeginInv ==
    ASSUME IInv, NEW by \in {"init", "ui", "loop"}, NEW pr \in Profiles, Begin(by, pr),
           by = "ui" => ctl = "running" /\ ui = Idle,
           UNCHANGED <<ctl, routes, manager, stateFile, ui, upstream, bounds, sound, inherited>>
    PROVE  IInv'
<1>1. /\ op' \in Transition /\ op'.pc = "list" /\ op'.by = by
      /\ op'.remote = {} /\ op'.todo = {} /\ op'.mine = {}
    BY DEF Begin, IInv, TypeOK, Transition, Steps
<1>2. op' # Idle
    BY <1>1, Kinds
<1>3. UNCHANGED <<ctl, routes, profile, allowed, observed, stateFile, ui, configured, paused,
                  policy, anywhere, conn, faults, changes, adds, sound, inherited>>
    BY DEF manager, upstream, bounds
<1>4. TypeOK'
    BY <1>1, <1>3 DEF IInv, TypeOK
<1>5. BoundaryHolds' /\ ListsInv' /\ StageInv'
    BY <1>1, <1>2 DEF BoundaryHolds, ListsInv, StageInv
<1>6. QED
    BY <1>4, <1>5 DEF IInv

\* The steps of the controller that are no request.
LEMMA ControlInv ==
    ASSUME IInv,
           \/ StartUp \/ Kill \/ Initialize \/ RefreshIfChanged \/ DeriveFails \/ Expire
           \/ \E pr \in Profiles : Set(pr)
    PROVE  IInv'
<1>1. CASE StartUp
  <2>1. /\ ctl = "off" /\ ctl' = "starting" /\ profile' \in Profiles
        /\ allowed' = {} /\ observed' = {} /\ sound' = FALSE
        /\ UNCHANGED <<routes, stateFile, op, ui, configured, paused, policy, anywhere, conn,
                       faults, changes, adds, inherited>>
    BY <1>1 DEF StartUp, upstream, bounds, IInv, TypeOK, Profiles
  <2>2. TypeOK'
    BY <2>1 DEF IInv, TypeOK
  <2>3. BoundaryHolds' /\ ListsInv'
    BY <2>1 DEF IInv, BoundaryHolds, ListsInv
  <2>4. StageInv'
    BY <2>1 DEF IInv, StageInv, Listed
  <2>5. QED
    BY <2>2, <2>3, <2>4 DEF IInv
<1>2. CASE Kill
  <2>1. Down /\ stateFile' = stateFile /\ faults' \in 0..MaxFaults
    BY <1>2, NetworkAssumption DEF Kill, Fault, IInv, TypeOK
  <2>2. QED
    BY <2>1, DownInv
<1>3. CASE Initialize
  <2>1. profile \in Profiles
    BY DEF IInv, TypeOK
  <2>2. QED
    BY <1>3, <2>1, BeginInv DEF Initialize
<1>4. CASE RefreshIfChanged
  <2>1. CASE profile = "lan-only"
    <3>1. /\ Begin("loop", profile)
          /\ UNCHANGED <<ctl, routes, manager, stateFile, ui, upstream, bounds, sound, inherited>>
      BY <1>4, <2>1 DEF RefreshIfChanged, manager
    <3>2. profile \in Profiles
      BY DEF IInv, TypeOK
    <3>3. QED
      BY <3>1, <3>2, BeginInv
  <2>2. CASE profile # "lan-only"
    <3>1. /\ op = Idle /\ observed' = routes /\ profile' # "lan-only"
          /\ UNCHANGED <<ctl, routes, op, profile, allowed, stateFile, ui, configured, paused,
                         policy, anywhere, conn, faults, changes, adds, sound, inherited>>
      BY <1>4, <2>2 DEF RefreshIfChanged, upstream, bounds
    <3>2. TypeOK'
      BY <3>1 DEF IInv, TypeOK
    <3>3. BoundaryHolds' /\ ListsInv' /\ StageInv'
      BY <3>1 DEF BoundaryHolds, ListsInv, StageInv
    <3>4. QED
      BY <3>2, <3>3 DEF IInv
  <2>3. QED
    BY <2>1, <2>2
<1>5. CASE DeriveFails
  <2>1. Down /\ stateFile' = stateFile /\ faults' \in 0..MaxFaults
    BY <1>5, NetworkAssumption DEF DeriveFails, Fault, IInv, TypeOK
  <2>2. QED
    BY <2>1, DownInv
<1>6. CASE Expire
  <2>1. /\ op # Idle /\ op' = [op EXCEPT !.expired = TRUE]
        /\ faults' \in 0..MaxFaults
        /\ UNCHANGED <<ctl, routes, profile, allowed, observed, ui, changes, adds, stateFile,
                       configured, paused, policy, anywhere, conn, sound, inherited>>
    BY <1>6, NetworkAssumption DEF Expire, Fault, rest, manager, upstream, IInv, TypeOK
  <2>2. op \in Transition
    BY <2>1 DEF IInv, TypeOK
  <2>3. /\ op' \in Transition
        /\ op'.pc = op.pc /\ op'.by = op.by /\ op'.profile = op.profile
        /\ op'.allowed = op.allowed /\ op'.remote = op.remote /\ op'.todo = op.todo
        /\ op'.mine = op.mine /\ op'.failed = op.failed
    BY <2>1, <2>2 DEF Transition
  <2>4. op' # Idle
    BY <2>3, Kinds
  <2>5. TypeOK'
    BY <2>1, <2>3 DEF IInv, TypeOK
  <2>6. BoundaryHolds' /\ ListsInv'
    BY <2>1, <2>3, <2>4 DEF IInv, BoundaryHolds, ListsInv
  <2>7. StageInv'
    BY <2>1, <2>3 DEF IInv, StageInv, Listed
  <2>8. QED
    BY <2>5, <2>6, <2>7 DEF IInv
<1>7. ASSUME NEW pr \in Profiles, Set(pr)
      PROVE  IInv'
    BY <1>7, BeginInv DEF Set
<1>8. QED
    BY <1>1, <1>2, <1>3, <1>4, <1>5, <1>6, <1>7

-----------------------------------------------------------------------------
(* The requests of a transition, one by one.                                *)

\* A request for one peer was applied and answered, or it failed.
LEMMA PatchIs ==
    ASSUME TypeOK, NEW p \in Peers, NEW newPaused, NEW newPolicy, NEW ok, NEW failed,
           Patch(p, newPaused, newPolicy, ok, failed)
    PROVE  /\ \/ p \in configured /\ paused' = newPaused /\ policy' = newPolicy
                   /\ op' \in {ok, failed}
              \/ UNCHANGED <<paused, policy>> /\ op' = failed
           /\ faults' \in 0..MaxFaults
           /\ UNCHANGED <<ctl, routes, profile, allowed, observed, ui, changes, adds, stateFile,
                          configured, anywhere, conn, sound, inherited>>
BY NetworkAssumption DEF Patch, Fault, rest, manager, TypeOK

LEMMA RequestInv ==
    ASSUME IInv, ApplyNetworkProfile
    PROVE  IInv'
<1> USE DEF IInv
<1>0. op # Idle /\ op \in Transition
  <2>1. op.pc # "idle"
    BY DEF ApplyNetworkProfile, List, WaitDisconnected, RoundOver, PatchNetworkOptions,
       Restored, Persist, Commit, Fail, Clear, Pause, Confine, Restore
  <2>2. QED
    BY <2>1 DEF TypeOK, Idle
<1>1. CASE List
  <2>1. /\ op.pc = "list" /\ sound' = FALSE /\ faults' \in 0..MaxFaults
        /\ UNCHANGED <<ctl, routes, profile, allowed, observed, ui, changes, adds, stateFile,
                       configured, paused, policy, anywhere, conn>>
    BY <1>1, NetworkAssumption DEF List, Fault, rest, manager, upstream, TypeOK
  <2>2. CASE op' = Failing(op) /\ inherited' = inherited
    <3>1. /\ op' \in Transition /\ op'.by = op.by /\ op'.mine \subseteq op'.remote
          /\ BoundaryHolds' /\ ListsInv' /\ StageInv'
      BY <1>0, <2>1, <2>2, FailingStep
    <3>2. TypeOK'
      BY <1>0, <2>1, <2>2, <3>1 DEF TypeOK
    <3>3. QED
      BY <3>1, <3>2
  <2>3. CASE op' # Failing(op) \/ inherited' # inherited
    <3> DEFINE lan == op.profile = "lan-only"
    <3>1. /\ op' = [op EXCEPT !.pc = IF lan THEN "pause" ELSE "clear", !.remote = configured,
                              !.todo = IF lan THEN configured \ paused ELSE configured]
          /\ inherited' = {}
      BY <1>1, <2>3 DEF List
    <3>2. configured \in SUBSET Peers
      BY DEF TypeOK
    <3>3. /\ op' \in Transition
          /\ op'.pc = (IF lan THEN "pause" ELSE "clear") /\ op'.remote = configured
          /\ op'.todo = (IF lan THEN configured \ paused ELSE configured)
          /\ op'.mine = op.mine /\ op'.by = op.by /\ op'.profile = op.profile
      BY <1>0, <3>1, <3>2 DEF Transition, Steps
    <3>4. op' # Idle /\ op'.mine = {}
      BY <1>0, <2>1, <3>3, Kinds DEF ListsInv
    <3>5. TypeOK'
      BY <1>0, <2>1, <3>1, <3>3, <3>4 DEF TypeOK
    <3>6. BoundaryHolds'
      BY <3>4 DEF BoundaryHolds
    <3>7. ListsInv'
      BY <2>1, <3>3, <3>4 DEF ListsInv
    <3>8. StageInv'
      BY <2>1, <3>1, <3>3 DEF StageInv, Listed
    <3>9. QED
      BY <3>5, <3>6, <3>7, <3>8
  <2>4. QED
    BY <2>2, <2>3
<1>2. CASE WaitDisconnected
  <2>1. /\ op.pc = "wait" /\ faults' \in 0..MaxFaults
        /\ UNCHANGED <<ctl, routes, profile, allowed, observed, ui, changes, adds, stateFile,
                       configured, paused, policy, anywhere, conn, sound, inherited>>
    BY <1>2, NetworkAssumption DEF WaitDisconnected, Fault, rest, manager, upstream, TypeOK
  <2>2. ~sound'
    BY <1>0, <2>1 DEF ListsInv
  <2>3. CASE op' = Failing(op)
    <3>1. /\ op' \in Transition /\ op'.by = op.by /\ op'.mine \subseteq op'.remote
          /\ BoundaryHolds' /\ ListsInv' /\ StageInv'
      BY <1>0, <2>2, <2>3, FailingStep
    <3>2. TypeOK'
      BY <1>0, <2>1, <3>1 DEF TypeOK
    <3>3. QED
      BY <3>1, <3>2
  <2>4. CASE op' # Failing(op)
    <3>1. /\ op' = [op EXCEPT !.pc = "policy", !.todo = op.remote]
          /\ \A p \in op.remote : conn[p] = None
      BY <1>2, <2>4 DEF WaitDisconnected
    <3>2. /\ op' \in Transition
          /\ op'.pc = "policy" /\ op'.remote = op.remote /\ op'.todo = op.remote
          /\ op'.mine = op.mine /\ op'.by = op.by /\ op'.profile = op.profile
          /\ op'.failed = op.failed
      BY <1>0, <3>1 DEF Transition, Steps
    <3>3. op' # Idle
      BY <3>2, Kinds
    <3>4. TypeOK'
      BY <1>0, <2>1, <3>2 DEF TypeOK
    <3>5. BoundaryHolds' /\ ListsInv'
      BY <2>2, <3>2, <3>3 DEF BoundaryHolds, ListsInv
    <3>6. StageInv'
      BY <1>0, <2>1, <3>1, <3>2 DEF StageInv, Listed
    <3>7. QED
      BY <3>4, <3>5, <3>6
  <2>5. QED
    BY <2>3, <2>4
<1>3. CASE RoundOver
  <2>1. /\ op.pc \in {"clear", "pause", "policy"} /\ op.todo = {}
        /\ op' = [op EXCEPT !.pc = IF op.pc = "pause" THEN "wait" ELSE "options"]
        /\ UNCHANGED <<ctl, routes, profile, allowed, observed, ui, changes, adds, stateFile,
                       configured, paused, policy, anywhere, conn, sound, inherited, faults>>
    BY <1>3 DEF RoundOver, rest, manager, upstream
  <2>2. /\ op' \in Transition
        /\ op'.pc = (IF op.pc = "pause" THEN "wait" ELSE "options")
        /\ op'.remote = op.remote /\ op'.todo = op.todo /\ op'.allowed = op.allowed
        /\ op'.mine = op.mine /\ op'.by = op.by /\ op'.profile = op.profile
        /\ op'.failed = op.failed
    BY <1>0, <2>1 DEF Transition, Steps
  <2>3. op' # Idle
    BY <2>2, Kinds
  <2>4. TypeOK'
    BY <1>0, <2>1, <2>2 DEF TypeOK
  <2>5. BoundaryHolds' /\ ListsInv'
    BY <1>0, <2>1, <2>2, <2>3 DEF BoundaryHolds, ListsInv
  <2>6. op.profile = "lan-only" /\ ~op.failed => op.pc # "clear"
    BY <1>0 DEF ListsInv
  <2>7. StageInv'
    BY <1>0, <2>1, <2>2, <2>6 DEF StageInv, Listed
  <2>8. QED
    BY <2>4, <2>5, <2>7
<1>4. CASE PatchNetworkOptions
  <2>1. /\ op.pc = "options" /\ faults' \in 0..MaxFaults
        /\ UNCHANGED <<ctl, routes, profile, allowed, observed, ui, changes, adds, stateFile,
                       configured, paused, policy, conn, sound, inherited>>
    BY <1>4, NetworkAssumption DEF PatchNetworkOptions, Fault, rest, manager, TypeOK
  <2>2. anywhere' \in BOOLEAN
    BY <1>4 DEF PatchNetworkOptions, TypeOK
  <2>3. ~sound'
    BY <1>0, <2>1 DEF ListsInv
  <2>4. CASE op' = Failing(op) 
    <3>1. /\ op' \in Transition /\ op'.by = op.by /\ op'.mine \subseteq op'.remote
          /\ BoundaryHolds' /\ ListsInv' /\ StageInv'
      BY <1>0, <2>3, <2>4, FailingStep
    <3>2. TypeOK'
      BY <1>0, <2>2, <2>1, <2>4, <3>1 DEF TypeOK
    <3>3. QED
      BY <3>1, <3>2
  <2>5. CASE op' # Failing(op)
    <3>1. /\ op' = [op EXCEPT !.pc = "restore", !.todo = op.mine]
          /\ anywhere' = (op.profile = "sync-anywhere")
      BY <1>4, <2>5 DEF PatchNetworkOptions
    <3>2. /\ op' \in Transition
          /\ op'.pc = "restore" /\ op'.remote = op.remote /\ op'.todo = op.mine
          /\ op'.allowed = op.allowed
          /\ op'.mine = op.mine /\ op'.by = op.by /\ op'.profile = op.profile
          /\ op'.failed = op.failed
      BY <1>0, <3>1 DEF Transition, Steps
    <3>3. op' # Idle
      BY <3>2, Kinds
    <3>4. TypeOK'
      BY <1>0, <2>2, <2>1, <3>2 DEF TypeOK
    <3>5. BoundaryHolds' /\ ListsInv'
      BY <1>0, <2>3, <3>2, <3>3 DEF BoundaryHolds, ListsInv, TypeOK
    <3>6. op.profile = "lan-only" => ~anywhere'
      BY <3>1
    <3>7. StageInv'
      BY <1>0, <2>1, <3>2, <3>6 DEF StageInv, Listed
    <3>8. QED
      BY <3>4, <3>5, <3>7
  <2>6. QED
    BY <2>4, <2>5
<1>5. CASE Restored
  <2>1. /\ op.pc = "restore" /\ op.todo = {}
        /\ op' = [op EXCEPT !.pc = IF op.failed THEN "fail" ELSE "persist"]
        /\ UNCHANGED <<ctl, routes, profile, allowed, observed, ui, changes, adds, stateFile,
                       configured, paused, policy, anywhere, conn, sound, inherited, faults>>
    BY <1>5 DEF Restored, rest, manager, upstream
  <2>2. /\ op' \in Transition
        /\ op'.pc = (IF op.failed THEN "fail" ELSE "persist")
        /\ op'.remote = op.remote /\ op'.todo = op.todo /\ op'.allowed = op.allowed
        /\ op'.mine = op.mine /\ op'.by = op.by /\ op'.profile = op.profile
        /\ op'.failed = op.failed
    BY <1>0, <2>1 DEF Transition, Steps
  <2>3. op' # Idle
    BY <2>2, Kinds
  <2>4. TypeOK'
    BY <1>0, <2>1, <2>2 DEF TypeOK
  <2>5. BoundaryHolds' /\ ListsInv'
    BY <1>0, <2>1, <2>2, <2>3 DEF BoundaryHolds, ListsInv
  <2>6. StageInv'
    BY <1>0, <2>1, <2>2 DEF StageInv, Listed
  <2>7. QED
    BY <2>4, <2>5, <2>6
<1>6. CASE Persist
  <2>1. /\ op.pc = "persist" /\ faults' \in 0..MaxFaults
        /\ stateFile' \in {stateFile, op.profile}
        /\ \/ op' = [op EXCEPT !.pc = "commit"]
           \/ op' = [op EXCEPT !.pc = "fail", !.failed = TRUE]
        /\ UNCHANGED <<ctl, routes, profile, allowed, observed, ui, changes, adds,
                       configured, paused, policy, anywhere, conn, sound, inherited>>
    BY <1>6, NetworkAssumption DEF Persist, Fault, rest, manager, upstream, TypeOK
  <2>2. /\ op' \in Transition
        /\ \/ op'.pc = "commit" /\ op'.failed = op.failed
           \/ op'.pc = "fail"
        /\ op'.remote = op.remote /\ op'.todo = op.todo /\ op'.allowed = op.allowed
        /\ op'.mine = op.mine /\ op'.by = op.by /\ op'.profile = op.profile
    BY <1>0, <2>1 DEF Transition, Steps
  <2>3. op' # Idle
    BY <2>2, Kinds
  <2>4. TypeOK'
    BY <1>0, <2>1, <2>2, TransitionFields DEF TypeOK
  <2>5. BoundaryHolds' /\ ListsInv'
    BY <1>0, <2>1, <2>2, <2>3 DEF BoundaryHolds, ListsInv
  <2>6. StageInv'
    BY <1>0, <2>1, <2>2 DEF StageInv, Listed
  <2>7. QED
    BY <2>4, <2>5, <2>6
<1>7. CASE Commit
  <2>1. /\ op.pc = "commit"
        /\ profile' = op.profile /\ allowed' = op.allowed /\ observed' = op.observed
        /\ ctl' = "running" /\ op' = Idle /\ sound' = TRUE
        /\ UNCHANGED <<routes, stateFile, ui, configured, paused, policy, anywhere, conn,
                       faults, changes, adds, inherited>>
    BY <1>7 DEF Commit, upstream, bounds
  <2>2. TypeOK'
    BY <1>0, <2>1, TransitionFields DEF TypeOK
  <2>3. ListsInv' /\ StageInv'
    BY <2>1 DEF ListsInv, StageInv
  <2>4. ~op.failed
    BY <1>0, <2>1 DEF ListsInv
  <2>5. op.profile = "lan-only" =>
          /\ ~anywhere
          /\ \A p \in Listed : /\ policy[p] = Boundary(op.allowed)
                               /\ conn[p] \in Boundary(op.allowed) \cup {None}
    BY <1>0, <2>1, <2>4 DEF StageInv
  <2>6. BoundaryHolds'
    BY <2>1, <2>5 DEF BoundaryHolds, Listed
  <2>7. QED
    BY <2>2, <2>3, <2>6
<1>8. CASE Fail
  <2>1. op.pc = "fail" /\ UNCHANGED <<stateFile, faults>>
    BY <1>8 DEF Fail
  <2>2. CASE op.by = "ui" /\ op' = Idle
             /\ UNCHANGED <<rest, conn, configured, paused, policy, anywhere, sound, inherited>>
    <3>1. UNCHANGED <<ctl, routes, profile, allowed, observed, ui, changes, adds, conn,
                      configured, paused, policy, anywhere, sound, inherited>>
      BY <2>2 DEF rest, manager
    <3>2. ~sound
      BY <1>0, <2>1 DEF ListsInv
    <3>3. TypeOK'
      BY <2>1, <2>2, <3>1 DEF TypeOK
    <3>4. BoundaryHolds' /\ ListsInv' /\ StageInv'
      BY <2>2, <3>1, <3>2 DEF BoundaryHolds, ListsInv, StageInv
    <3>5. QED
      BY <3>3, <3>4
  <2>3. CASE Down
    <3>1. faults' \in 0..MaxFaults
      BY <2>1 DEF TypeOK
    <3>2. QED
      BY <2>1, <2>3, <3>1, DownInv
  <2>4. QED
    BY <1>8, <2>2, <2>3 DEF Fail
<1>9. ASSUME NEW p \in Peers, Clear(p)
      PROVE  IInv'
  <2>1. /\ op.pc = "clear" /\ p \in op.todo
        /\ \/ /\ p \in configured /\ op' \in {Without(p), Failing(op)}
              /\ paused' = paused /\ policy' = [policy EXCEPT ![p] = {}]
           \/ UNCHANGED <<paused, policy>> /\ op' = Failing(op)
        /\ faults' \in 0..MaxFaults
        /\ UNCHANGED <<ctl, routes, profile, allowed, observed, ui, changes, adds, stateFile,
                       configured, anywhere, conn, sound, inherited>>
    BY <1>9, PatchIs DEF Clear
  <2>2. ~sound'
    BY <1>0, <2>1 DEF ListsInv
  <2>3. paused' \subseteq configured /\ policy' \in [Peers -> Policies]
    BY <1>0, <2>1, TransitionFields, BoundaryIs DEF TypeOK, Policies
  <2>4. CASE op' = Failing(op) 
    <3>1. /\ op' \in Transition /\ op'.by = op.by /\ op'.mine \subseteq op'.remote
          /\ BoundaryHolds' /\ ListsInv' /\ StageInv'
      BY <1>0, <2>2, <2>4, FailingStep
    <3>2. TypeOK'
      BY <1>0, <2>1, <2>3, <2>4, <3>1 DEF TypeOK
    <3>3. QED
      BY <3>1, <3>2
  <2>5. CASE op' = Without(p) /\ op' # Failing(op)
    <3>1. p \in configured /\ paused' = paused /\ policy' = [policy EXCEPT ![p] = {}]
      BY <2>1, <2>5
    <3>2. /\ op' \in Transition
          /\ op'.pc = op.pc /\ op'.remote = op.remote /\ op'.todo = op.todo \ {p}
          /\ op'.allowed = op.allowed /\ op'.by = op.by /\ op'.profile = op.profile
          /\ op'.failed = op.failed /\ op'.mine = op.mine
      BY <1>0, <2>5 DEF Without, Transition
    <3>3. op' # Idle /\ op'.mine \subseteq op'.remote
      BY <1>0, <2>1, <3>2, Kinds DEF ListsInv, TypeOK
    <3>4. TypeOK'
      BY <1>0, <2>1, <2>3, <3>2, <3>3 DEF TypeOK
    <3>5. BoundaryHolds' /\ ListsInv'
      BY <1>0, <2>1, <2>2, <3>1, <3>2, <3>3 DEF BoundaryHolds, ListsInv
    <3>6. StageInv'
      BY <1>0, <2>1, <3>1, <3>2 DEF StageInv, Listed, ListsInv, TypeOK
    <3>7. QED
      BY <3>4, <3>5, <3>6
  <2>6. QED
    BY <2>1, <2>4, <2>5
<1>10. ASSUME NEW p \in Peers, Pause(p)
      PROVE  IInv'
  <2>1. /\ op.pc = "pause" /\ p \in op.todo
        /\ \/ /\ p \in configured /\ op' \in {[Without(p) EXCEPT !.mine = @ \cup {p}], Failing(op)}
              /\ paused' = paused \cup {p} /\ policy' = policy
           \/ UNCHANGED <<paused, policy>> /\ op' = Failing(op)
        /\ faults' \in 0..MaxFaults
        /\ UNCHANGED <<ctl, routes, profile, allowed, observed, ui, changes, adds, stateFile,
                       configured, anywhere, conn, sound, inherited>>
    BY <1>10, PatchIs DEF Pause
  <2>2. ~sound'
    BY <1>0, <2>1 DEF ListsInv
  <2>3. paused' \subseteq configured /\ policy' \in [Peers -> Policies]
    BY <1>0, <2>1, TransitionFields, BoundaryIs DEF TypeOK, Policies
  <2>4. CASE op' = Failing(op) 
    <3>1. /\ op' \in Transition /\ op'.by = op.by /\ op'.mine \subseteq op'.remote
          /\ BoundaryHolds' /\ ListsInv' /\ StageInv'
      BY <1>0, <2>2, <2>4, FailingStep
    <3>2. TypeOK'
      BY <1>0, <2>1, <2>3, <2>4, <3>1 DEF TypeOK
    <3>3. QED
      BY <3>1, <3>2
  <2>5. CASE op' = [Without(p) EXCEPT !.mine = @ \cup {p}] /\ op' # Failing(op)
    <3>1. p \in configured /\ paused' = paused \cup {p} /\ policy' = policy
      BY <2>1, <2>5
    <3>2. /\ op' \in Transition
          /\ op'.pc = op.pc /\ op'.remote = op.remote /\ op'.todo = op.todo \ {p}
          /\ op'.allowed = op.allowed /\ op'.by = op.by /\ op'.profile = op.profile
          /\ op'.failed = op.failed /\ op'.mine = op.mine \cup {p}
      BY <1>0, <2>5 DEF Without, Transition
    <3>3. op' # Idle /\ op'.mine \subseteq op'.remote
      BY <1>0, <2>1, <3>2, Kinds DEF ListsInv, TypeOK
    <3>4. TypeOK'
      BY <1>0, <2>1, <2>3, <3>2, <3>3 DEF TypeOK
    <3>5. BoundaryHolds' /\ ListsInv'
      BY <1>0, <2>1, <2>2, <3>1, <3>2, <3>3 DEF BoundaryHolds, ListsInv
    <3>6. StageInv'
      BY <1>0, <2>1, <3>1, <3>2 DEF StageInv, Listed, ListsInv, TypeOK
    <3>7. QED
      BY <3>4, <3>5, <3>6
  <2>6. QED
    BY <2>1, <2>4, <2>5
<1>11. ASSUME NEW p \in Peers, Confine(p)
      PROVE  IInv'
  <2>1. /\ op.pc = "policy" /\ p \in op.todo
        /\ \/ /\ p \in configured /\ op' \in {Without(p), Failing(op)}
              /\ paused' = paused /\ policy' = [policy EXCEPT ![p] = Boundary(op.allowed)]
           \/ UNCHANGED <<paused, policy>> /\ op' = Failing(op)
        /\ faults' \in 0..MaxFaults
        /\ UNCHANGED <<ctl, routes, profile, allowed, observed, ui, changes, adds, stateFile,
                       configured, anywhere, conn, sound, inherited>>
    BY <1>11, PatchIs DEF Confine
  <2>2. ~sound'
    BY <1>0, <2>1 DEF ListsInv
  <2>3. paused' \subseteq configured /\ policy' \in [Peers -> Policies]
    BY <1>0, <2>1, TransitionFields, BoundaryIs DEF TypeOK, Policies
  <2>4. CASE op' = Failing(op) 
    <3>1. /\ op' \in Transition /\ op'.by = op.by /\ op'.mine \subseteq op'.remote
          /\ BoundaryHolds' /\ ListsInv' /\ StageInv'
      BY <1>0, <2>2, <2>4, FailingStep
    <3>2. TypeOK'
      BY <1>0, <2>1, <2>3, <2>4, <3>1 DEF TypeOK
    <3>3. QED
      BY <3>1, <3>2
  <2>5. CASE op' = Without(p) /\ op' # Failing(op)
    <3>1. p \in configured /\ paused' = paused /\ policy' = [policy EXCEPT ![p] = Boundary(op.allowed)]
      BY <2>1, <2>5
    <3>2. /\ op' \in Transition
          /\ op'.pc = op.pc /\ op'.remote = op.remote /\ op'.todo = op.todo \ {p}
          /\ op'.allowed = op.allowed /\ op'.by = op.by /\ op'.profile = op.profile
          /\ op'.failed = op.failed /\ op'.mine = op.mine
      BY <1>0, <2>5 DEF Without, Transition
    <3>3. op' # Idle /\ op'.mine \subseteq op'.remote
      BY <1>0, <2>1, <3>2, Kinds DEF ListsInv, TypeOK
    <3>4. TypeOK'
      BY <1>0, <2>1, <2>3, <3>2, <3>3 DEF TypeOK
    <3>5. BoundaryHolds' /\ ListsInv'
      BY <1>0, <2>1, <2>2, <3>1, <3>2, <3>3 DEF BoundaryHolds, ListsInv
    <3>6. StageInv'
      BY <1>0, <2>1, <3>1, <3>2 DEF StageInv, Listed, ListsInv, TypeOK
    <3>7. QED
      BY <3>4, <3>5, <3>6
  <2>6. QED
    BY <2>1, <2>4, <2>5
<1>12. ASSUME NEW p \in Peers, Restore(p)
      PROVE  IInv'
  <2>1. /\ op.pc = "restore" /\ p \in op.todo
        /\ \/ /\ p \in configured /\ paused' = paused \ {p} /\ policy' = policy
              /\ op' \in {Without(p), [Without(p) EXCEPT !.failed = TRUE]}
           \/ /\ UNCHANGED <<paused, policy>>
              /\ op' = [Without(p) EXCEPT !.failed = TRUE]
        /\ faults' \in 0..MaxFaults
        /\ UNCHANGED <<ctl, routes, profile, allowed, observed, ui, changes, adds, stateFile,
                       configured, anywhere, conn, sound, inherited>>
    BY <1>12, PatchIs DEF Restore
  <2>2. /\ op' \in Transition
        /\ op'.pc = op.pc /\ op'.remote = op.remote /\ op'.todo = op.todo \ {p}
        /\ op'.allowed = op.allowed /\ op'.by = op.by /\ op'.profile = op.profile
        /\ op'.mine = op.mine
    BY <1>0, <2>1 DEF Without, Transition
  <2>3. \/ op'.failed
        \/ op'.failed = op.failed /\ paused' = paused \ {p}
    BY <1>0, <2>1 DEF Without, Transition
  <2>4. op' # Idle
    BY <2>2, Kinds
  <2>5. TypeOK'
    BY <1>0, <2>1, <2>2 DEF TypeOK
  <2>6. BoundaryHolds' /\ ListsInv'
    BY <1>0, <2>1, <2>2, <2>4, <2>3 DEF BoundaryHolds, ListsInv
  <2>7. StageInv'
    BY <1>0, <2>1, <2>2, <2>3 DEF StageInv, Listed
  <2>8. QED
    BY <2>5, <2>6, <2>7
<1>13. QED
    BY <1>1, <1>2, <1>3, <1>4, <1>5, <1>6, <1>7, <1>8, <1>9, <1>10, <1>11, <1>12 DEF ApplyNetworkProfile

-----------------------------------------------------------------------------
(* Device operations, connections and routes.                               *)

LEMMA DeviceInv ==
    ASSUME IInv, NEW p \in Peers, AddPeerRead(p) \/ RemovePeer(p) \/ AddPeerPost
    PROVE  IInv'
<1> USE DEF IInv
<1>1. CASE AddPeerRead(p)
  <2>1. /\ op = Idle /\ ctl = "running"
        /\ ui' = [pc |-> "add", peer |-> p,
                  policy |-> IF profile = "lan-only" THEN allowed ELSE {}]
        /\ adds' \in 0..MaxAdds
        /\ UNCHANGED <<ctl, routes, profile, allowed, observed, stateFile, op, configured, paused,
                       policy, anywhere, conn, faults, changes, sound, inherited>>
    BY <1>1, NetworkAssumption DEF AddPeerRead, manager, upstream, TypeOK
  <2>2. ui' \in [pc : {"add"}, peer : Peers, policy : SUBSET Networks]
    BY <2>1 DEF TypeOK
  <2>3. TypeOK'
    BY <2>1, <2>2 DEF TypeOK
  <2>4. BoundaryHolds' /\ ListsInv' /\ StageInv'
    BY <2>1 DEF BoundaryHolds, ListsInv, StageInv
  <2>5. QED
    BY <2>3, <2>4
<1>2. CASE RemovePeer(p)
  <2>1. /\ p \in configured /\ configured' = configured \ {p} /\ paused' = paused \ {p}
        /\ policy' = [policy EXCEPT ![p] = {}] /\ conn' = [conn EXCEPT ![p] = None]
        /\ UNCHANGED <<ctl, routes, profile, allowed, observed, stateFile, op, ui, anywhere,
                       faults, changes, adds, sound, inherited>>
    BY <1>2 DEF RemovePeer, manager, bounds
  <2>2. TypeOK'
    BY <2>1 DEF TypeOK, Policies
  <2>3. BoundaryHolds'
    BY <2>1 DEF BoundaryHolds, TypeOK
  <2>4. ListsInv'
    BY <2>1 DEF ListsInv
  <2>5. StageInv'
    BY <2>1 DEF StageInv, Listed, TypeOK
  <2>6. QED
    BY <2>2, <2>3, <2>4, <2>5
<1>3. CASE AddPeerPost
  <2>1. /\ ui # Idle /\ ui' = Idle
        /\ \/ /\ configured' = configured \cup {ui.peer} /\ paused' = paused \ {ui.peer}
              /\ policy' = [policy EXCEPT ![ui.peer] = ui.policy]
              /\ inherited' = inherited \cup {ui.peer}
           \/ UNCHANGED <<configured, paused, policy, inherited>>
        /\ UNCHANGED <<ctl, routes, profile, allowed, observed, stateFile, op, anywhere, conn,
                       faults, changes, adds, sound>>
    BY <1>3 DEF AddPeerPost, manager, bounds
  <2>2. ui.peer \in Peers /\ ui.policy \in Policies
    BY <2>1 DEF TypeOK, Policies
  <2>3. TypeOK'
    BY <2>1, <2>2 DEF TypeOK
  <2>4. BoundaryHolds'
    BY <2>1, <2>2 DEF BoundaryHolds, TypeOK
  <2>5. ListsInv'
    BY <2>1 DEF ListsInv
  <2>6. StageInv'
    BY <2>1, <2>2 DEF StageInv, Listed, TypeOK
  <2>7. QED
    BY <2>3, <2>4, <2>5, <2>6
<1>4. QED
    BY <1>1, <1>2, <1>3

LEMMA WorldInv ==
    ASSUME IInv,
           \/ \E p \in Peers : Disconnect(p)
           \/ \E p \in Peers, a \in Networks \cup {Away} : Connect(p, a)
           \/ RouteChange
    PROVE  IInv'
<1> USE DEF IInv
<1>1. ASSUME NEW p \in Peers, Disconnect(p)
      PROVE  IInv'
  <2>1. /\ conn' = [conn EXCEPT ![p] = None]
        /\ UNCHANGED <<ctl, routes, profile, allowed, observed, stateFile, op, ui, configured,
                       paused, policy, anywhere, faults, changes, adds, sound, inherited>>
    BY <1>1 DEF Disconnect, manager, bounds
  <2>2. TypeOK'
    BY <2>1 DEF TypeOK
  <2>3. BoundaryHolds'
    BY <2>1 DEF BoundaryHolds, TypeOK
  <2>4. ListsInv'
    BY <2>1 DEF ListsInv
  <2>5. StageInv'
    BY <2>1 DEF StageInv, Listed, TypeOK
  <2>6. QED
    BY <2>2, <2>3, <2>4, <2>5
<1>2. ASSUME NEW p \in Peers, NEW a \in Networks \cup {Away}, Connect(p, a)
      PROVE  IInv'
  <2>1. /\ p \in configured \ paused /\ conn[p] = None /\ Admits(policy[p], a)
        /\ conn' = [conn EXCEPT ![p] = a]
        /\ UNCHANGED <<ctl, routes, profile, allowed, observed, stateFile, op, ui, configured,
                       paused, policy, anywhere, faults, changes, adds, sound, inherited>>
    BY <1>2 DEF Connect, manager, bounds
  <2>2. TypeOK'
    BY <2>1 DEF TypeOK
  <2>3. \A S \in SUBSET Networks : policy[p] = Boundary(S) => a \in Boundary(S)
    BY <2>1, BoundaryIs
  <2>4. allowed \in SUBSET Networks
    BY DEF TypeOK
  <2>5. BoundaryHolds'
    BY <2>1, <2>3, <2>4 DEF BoundaryHolds, TypeOK
  <2>6. ListsInv'
    BY <2>1 DEF ListsInv
  <2>7. op # Idle => op.allowed \in SUBSET Networks
    BY TransitionFields DEF TypeOK
  <2>8. StageInv'
    BY <2>1, <2>3, <2>7 DEF StageInv, Listed, TypeOK
  <2>9. QED
    BY <2>2, <2>5, <2>6, <2>8
<1>3. CASE RouteChange
  <2>1. /\ routes' \in SUBSET Networks /\ changes' \in 0..MaxChanges
        /\ UNCHANGED <<ctl, profile, allowed, observed, stateFile, op, ui, configured, paused,
                       policy, anywhere, conn, faults, adds, sound, inherited>>
    BY <1>3, NetworkAssumption DEF RouteChange, manager, upstream, TypeOK
  <2>2. TypeOK'
    BY <2>1 DEF TypeOK
  <2>3. BoundaryHolds' /\ ListsInv' /\ StageInv'
    BY <2>1 DEF BoundaryHolds, ListsInv, StageInv, Listed
  <2>4. QED
    BY <2>2, <2>3
<1>4. QED
    BY <1>1, <1>2, <1>3

LEMMA StepInv == IInv /\ [Next]_vars => IInv'
<1> SUFFICES ASSUME IInv, [Next]_vars PROVE IInv'
    OBVIOUS
<1>1. CASE UNCHANGED vars
    BY <1>1 DEF vars, manager, upstream, bounds, IInv, TypeOK, BoundaryHolds, ListsInv, StageInv,
       Listed
<1>2. CASE AddPeerPost
  <2>1. PICK p \in Peers : TRUE
    BY <1>2 DEF AddPeerPost, IInv, TypeOK
  <2>2. QED
    BY <1>2, <2>1, DeviceInv
<1>3. QED
    BY <1>1, <1>2, ControlInv, RequestInv, DeviceInv, WorldInv DEF Next

LEMMA Inductive == Spec => []IInv
BY InitInv, StepInv, PTL DEF Spec

-----------------------------------------------------------------------------
(* The theorem.                                                             *)

\* What a transition leaves behind (ApplyNetworkProfile): once it has succeeded no
\* peer is paused by it, and under LAN only every peer it listed is confined to the
\* networks that the status shows and no connection from elsewhere is left, whatever
\* requests failed or were applied without an answer, and whatever peers were added
\* or removed between them.
THEOREM BoundarySafety == Spec => []BoundaryInv
<1>1. IInv => BoundaryInv
  <2> SUFFICES ASSUME IInv PROVE SuccessRestoresPeers
    BY DEF IInv, BoundaryInv
  <2>1. CASE op = Idle
    BY <2>1 DEF SuccessRestoresPeers, Idle
  <2>2. CASE op # Idle
    BY <2>2 DEF IInv, ListsInv, SuccessRestoresPeers
  <2>3. QED
    BY <2>1, <2>2
<1>2. QED
    BY <1>1, Inductive, PTL
=============================================================================
