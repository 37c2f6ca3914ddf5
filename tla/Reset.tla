------------------------------- MODULE Reset -------------------------------
(***************************************************************************)
(* The destructive reset (internal/controller/reset.go) and the three      *)
(* entry points that carry it out (cmd/leaf-syncthing/main.go): the        *)
(* reset-execute helper, the service (Bootstrap and waitForResetRecovery)  *)
(* and doctor.                                                             *)
(*                                                                         *)
(* The primary filesystem (the intent, configuration, index, controller    *)
(* state) and every card (snapshots and versions) are modelled as the      *)
(* processes see them and as a power loss may leave them.  They are FAT    *)
(* filesystems and give no order: until the next syncfs a name may have on *)
(* the disk whatever it had since the last one, independently of the other *)
(* names.  A root holds the reset epoch in which its contents were made, 0 *)
(* when there are none.                                                    *)
(***************************************************************************)
EXTENDS Naturals, FiniteSets

CONSTANTS
    Cards,      \* enrolled cards (a reset keeps the enrollment)
    MaxResets,  \* bound: resets the user confirms
    MaxFaults,  \* bound: errors, kills, power losses and card removals
    None

ASSUME ResetAssumption == MaxResets \in Nat /\ MaxFaults \in Nat /\ IsFiniteSet(Cards)

VARIABLES
    pc,        \* where each process is
    doc,       \* the document a process works from
    todo,      \* declared roots it has not removed yet
    lock,      \* holder of controller.lock
    plan,      \* the sealed plan whose id the UI holds
    term,      \* the service was asked to stop
    fs,        \* the intent and the contents of each root, as the processes see them
    disk,      \* for each of these, what a power loss may leave
    unflushed, \* history: an intent was renamed into place and its flush did not return
    present,   \* cards that are mounted
    resets, faults

procVars == <<pc, doc, todo, lock>>
diskVars == <<fs, disk, unflushed>>
envVars == <<present, resets, faults>>
vars == <<procVars, diskVars, envVars, plan, term>>

-----------------------------------------------------------------------------
(* Values.                                                                  *)

Procs == {"service", "helper", "doctor"}
Actions == {"index-only", "full", "available-only"}
\* config: configuration and identity; index: index directories; state: backups,
\* trusted clients, gateway certificate and key, folder controls
Primary == {"config", "index", "state"}
\* a card's root is its snapshots and versions
Places == Primary \cup Cards
Epochs == 0..MaxResets + 1
Now == resets + 1
\* id: the epoch the reset was confirmed in (the code's ActionID is random)
Document == [id : 1..MaxResets, action : Actions, roots : SUBSET Places]
Tree == [intent : Document \cup {None}, root : [Places -> Epochs]]
Disk == [intent : SUBSET (Document \cup {None}), root : [Places -> SUBSET Epochs]]

\* a card is not one of the primary roots, and None is nothing else
ASSUME ValueAssumption ==
    /\ Cards \cap Primary = {}
    /\ None \notin Procs /\ None \notin Document
    /\ None \notin [action : Actions, roots : SUBSET Places]

RemovePCs == {"intent", "intent-sync", "remove", "sync", "absent", "clear", "clear-sync"}
ResetPCs == {"read", "verify"} \cup RemovePCs
StartPCs == {"boot", "generate", "running"}
PCs == {"off", "start", "waiting", "checked"} \cup ResetPCs \cup StartPCs

\* Every variable has its type.
TypeOK ==
    /\ pc \in [Procs -> PCs]
    /\ doc \in [Procs -> Document \cup {None}]
    /\ todo \in [Procs -> SUBSET Places]
    /\ lock \in Procs \cup {None}
    /\ plan \in [action : Actions, roots : SUBSET Places] \cup {None}
    /\ term \in BOOLEAN
    /\ fs \in Tree /\ disk \in Disk /\ unflushed \in BOOLEAN
    /\ present \in SUBSET Cards
    /\ resets \in 0..MaxResets /\ faults \in 0..MaxFaults

-----------------------------------------------------------------------------
(* Building blocks.                                                         *)

Goto(p, next) == pc' = [pc EXCEPT ![p] = next]
\* a process ends, or goes back to its caller, without the lock
Leave(p, next) ==
    /\ Goto(p, next)
    /\ lock' = IF lock = p THEN None ELSE lock
    /\ doc' = [doc EXCEPT ![p] = None] /\ todo' = [todo EXCEPT ![p] = {}]
Exit(p) == Leave(p, "off") /\ term' = (term /\ p # "service")
Faulty == faults < MaxFaults /\ faults' = faults + 1

\* an entry changes, and the disk may have either content of it
SetIntent(intent) ==
    /\ fs' = [fs EXCEPT !.intent = intent]
    /\ disk' = [disk EXCEPT !.intent = @ \cup {intent}]
SetRoot(r, epoch) ==
    /\ fs' = [fs EXCEPT !.root[r] = epoch]
    /\ disk' = [disk EXCEPT !.root[r] = @ \cup {epoch}]

\* syncStateFilesystem on each filesystem that has one of these roots
Sync(roots) ==
    LET primary == roots \cap Primary # {}
        flushed(r) == IF r \in Primary THEN primary ELSE r \in roots
    IN /\ disk' = [intent |-> IF primary THEN {fs.intent} ELSE disk.intent,
                   root |-> [r \in Places |->
                               IF flushed(r) THEN {fs.root[r]} ELSE disk.root[r]]]
       /\ unflushed' = (unflushed /\ ~primary)
SyncPrimary == Sync(Primary)

\* buildResetDocument: full needs every enrolled card
Roots(action) ==
    CASE action = "index-only" -> {r \in {"index"} : fs.root[r] # 0}
      [] action = "full" -> Places
      [] action = "available-only" -> Primary \cup present

\* what Lstat sees of a declared root
Visible(r) == r \in Primary \cup present /\ fs.root[r] # 0

-----------------------------------------------------------------------------
(* RecoverReset and runResetIntent, in any of the processes.                *)

\* where the caller goes on: the service boots under the lock, or bootstraps
\* again when it recovered while waiting; the other two end
Done(p) ==
    IF p # "service" THEN Exit(p)
    ELSE IF lock = p THEN /\ Goto(p, "boot") /\ doc' = [doc EXCEPT ![p] = None]
                          /\ UNCHANGED <<lock, todo, term>>
         ELSE Leave(p, "start") /\ UNCHANGED term

ReadIntent(p) ==
    /\ pc[p] = "read"
    /\ \/ fs.intent = None /\ Done(p)
       \/ /\ fs.intent # None
          /\ doc' = [doc EXCEPT ![p] = fs.intent]
          /\ Goto(p, "verify")
          /\ UNCHANGED <<todo, lock, term>>
    /\ UNCHANGED <<diskVars, envVars, plan>>

\* mutant: a pending reset does not keep the service from starting
VerifyCardsBoots(p) ==
    /\ pc[p] = "verify"
    /\ \/ /\ doc[p].roots \cap Cards \subseteq present
          /\ Goto(p, "intent")
          /\ UNCHANGED <<doc, todo, lock, term>>
       \/ /\ ~(doc[p].roots \cap Cards \subseteq present)
          /\ Done(p)
    /\ UNCHANGED <<diskVars, envVars, plan>>

\* resetInventory, verifyRequiredCards: ErrResetPending sends the service waiting
VerifyCards(p) ==
    /\ pc[p] = "verify"
    /\ \/ /\ doc[p].roots \cap Cards \subseteq present
          /\ Goto(p, "intent")
          /\ UNCHANGED <<doc, todo, lock, term>>
       \/ /\ ~(doc[p].roots \cap Cards \subseteq present)
          /\ IF p = "service" THEN Leave(p, "waiting") /\ UNCHANGED term ELSE Exit(p)
    /\ UNCHANGED <<diskVars, envVars, plan>>

StartRemoval(p) == Goto(p, "remove") /\ todo' = [todo EXCEPT ![p] = doc[p].roots]

\* an intent that is there is kept; otherwise temporary file, fsync, rename
WriteIntent(p) ==
    /\ pc[p] = "intent"
    /\ \/ fs.intent # None /\ StartRemoval(p) /\ UNCHANGED <<fs, disk>>
       \/ fs.intent = None /\ Goto(p, "intent-sync") /\ UNCHANGED todo
            /\ SetIntent(doc[p])
    /\ UNCHANGED <<doc, lock, unflushed, envVars, plan, term>>

\* mutant: the renamed intent is not flushed before the first removal
SyncIntentSkipped(p) ==
    /\ pc[p] = "intent-sync" /\ StartRemoval(p)
    /\ UNCHANGED <<doc, lock, diskVars, envVars, plan, term>>

SyncIntent(p) ==
    /\ pc[p] = "intent-sync" /\ StartRemoval(p)
    /\ SyncPrimary
    /\ UNCHANGED <<doc, lock, fs, envVars, plan, term>>

\* removeDeclaredPath: what Lstat does not find counts as removed
RemoveRoot(p, r) ==
    /\ pc[p] = "remove" /\ r \in todo[p]
    /\ todo' = [todo EXCEPT ![p] = @ \ {r}]
    /\ IF Visible(r) THEN SetRoot(r, 0) ELSE UNCHANGED <<fs, disk>>
    /\ UNCHANGED <<pc, doc, lock, unflushed, envVars, plan, term>>

AllRemoved(p) ==
    /\ pc[p] = "remove" /\ todo[p] = {}
    /\ Goto(p, "sync")
    /\ UNCHANGED <<doc, todo, lock, diskVars, envVars, plan, term>>

\* mutant: the removal is not flushed before the intent is cleared
SyncRootsSkipped(p) ==
    /\ pc[p] = "sync" /\ Goto(p, "absent")
    /\ UNCHANGED <<doc, todo, lock, diskVars, envVars, plan, term>>

\* uniqueFilesystems; the mount point of an absent card can still be opened
SyncRoots(p) ==
    /\ pc[p] = "sync"
    /\ Sync(doc[p].roots \cap (Primary \cup present))
    /\ Goto(p, "absent")
    /\ UNCHANGED <<doc, todo, lock, fs, envVars, plan, term>>

\* a root that remains is an error
VerifyAbsent(p) ==
    /\ pc[p] = "absent"
    /\ \/ /\ \A r \in doc[p].roots : ~Visible(r)
          /\ Goto(p, "clear") /\ UNCHANGED <<doc, todo, lock, term>>
       \/ (\E r \in doc[p].roots : Visible(r)) /\ Exit(p)
    /\ UNCHANGED <<diskVars, envVars, plan>>

\* removeSafeRegular: an intent that is gone is an error
ClearIntent(p) ==
    /\ pc[p] = "clear"
    /\ \/ fs.intent # None /\ SetIntent(None)
            /\ Goto(p, "clear-sync") /\ UNCHANGED <<doc, todo, lock, term>>
       \/ fs.intent = None /\ UNCHANGED <<fs, disk>> /\ Exit(p)
    /\ UNCHANGED <<unflushed, envVars, plan>>

SyncClear(p) ==
    /\ pc[p] = "clear-sync"
    /\ SyncPrimary /\ Done(p)
    /\ UNCHANGED <<fs, envVars, plan>>

runResetIntent(p) ==
    \/ VerifyCards(p) \/ WriteIntent(p) \/ SyncIntent(p)
    \/ (\E r \in Places : RemoveRoot(p, r)) \/ AllRemoved(p)
    \/ SyncRoots(p) \/ VerifyAbsent(p) \/ ClearIntent(p) \/ SyncClear(p)

RecoverReset(p) == ReadIntent(p) \/ runResetIntent(p)

-----------------------------------------------------------------------------
(* The service.                                                             *)

\* Run starts with Bootstrap: acquireControllerLock (a service that finds the lock
\* taken ends at once and is started again), RecoverReset
Bootstrap ==
    /\ pc["service"] \in {"off", "start"} /\ lock = None
    /\ pc["service"] = "off" => ~term
    /\ lock' = "service" /\ Goto("service", "read")
    /\ UNCHANGED <<doc, todo, diskVars, envVars, plan, term>>

\* the rest of Bootstrap observes a cancelled context
BootCancelled ==
    /\ pc["service"] = "boot" /\ term
    /\ Exit("service")
    /\ UNCHANGED <<diskVars, envVars, plan>>

BootExisting ==
    /\ pc["service"] = "boot" /\ ~term /\ fs.root["config"] # 0
    /\ Goto("service", "running")
    /\ UNCHANGED <<doc, todo, lock, diskVars, envVars, plan, term>>

\* mutant: generation does not flush the staged directory
GenerateSyncSkipped ==
    /\ pc["service"] = "boot" /\ ~term /\ fs.root["config"] = 0
    /\ Goto("service", "generate")
    /\ UNCHANGED <<doc, todo, lock, diskVars, envVars, plan, term>>

\* generateIdentity flushes the staged directory, then renames it and flushes
GenerateSync ==
    /\ pc["service"] = "boot" /\ ~term /\ fs.root["config"] = 0
    /\ SyncPrimary
    /\ Goto("service", "generate")
    /\ UNCHANGED <<doc, todo, lock, fs, envVars, plan, term>>

GeneratePromote ==
    /\ pc["service"] = "generate"
    /\ SetRoot("config", Now)
    /\ Goto("service", "running")
    /\ UNCHANGED <<doc, todo, lock, unflushed, envVars, plan, term>>

\* the running service writes its state and first-sync snapshots, upstream its index
\* and the versions
WriteState(r) ==
    /\ pc["service"] = "running" /\ Now # fs.root[r]
    /\ r \in (Primary \ {"config"}) \cup present
    /\ SetRoot(r, Now)
    /\ UNCHANGED <<procVars, unflushed, envVars, plan, term>>

\* PrepareResetPlan
PrepareReset(action) ==
    /\ pc["service"] = "running" /\ resets < MaxResets
    /\ action = "full" => present = Cards
    /\ plan' = [action |-> action, roots |-> Roots(action)]
    /\ UNCHANGED <<procVars, diskVars, envVars, term>>

\* CTL-1 stop, or any SIGTERM
RequestStop ==
    /\ pc["service"] # "off" /\ ~term
    /\ term' = TRUE
    /\ UNCHANGED <<procVars, diskVars, envVars, plan>>

StopRunning ==
    /\ pc["service"] = "running" /\ term
    /\ Exit("service")
    /\ UNCHANGED <<diskVars, envVars, plan>>

\* mutant: the tick only serves the status
WaitTickIdle ==
    /\ pc["service"] = "waiting" /\ ~term
    /\ Goto("service", "waiting")
    /\ UNCHANGED <<doc, todo, lock, diskVars, envVars, plan, term>>

\* waitForResetRecovery: one attempt per tick, without the lock
WaitTick ==
    /\ pc["service"] = "waiting" /\ ~term
    /\ Goto("service", "read")
    /\ UNCHANGED <<doc, todo, lock, diskVars, envVars, plan, term>>

\* a cancelled context returns nil, and Run bootstraps again
WaitCancelled ==
    /\ pc["service"] = "waiting" /\ term
    /\ Goto("service", "start")
    /\ UNCHANGED <<doc, todo, lock, diskVars, envVars, plan, term>>

Service ==
    \/ RecoverReset("service")
    \/ Bootstrap \/ BootCancelled \/ BootExisting
    \/ GenerateSync \/ GeneratePromote
    \/ StopRunning \/ WaitTick \/ WaitCancelled

-----------------------------------------------------------------------------
(* The helper and doctor.                                                   *)

\* VerifyServiceStopped; the UI runs the helper once for a plan
HelperCheck ==
    /\ pc["helper"] = "off" /\ pc["service"] = "off" /\ plan # None
    /\ Goto("helper", "checked")
    /\ UNCHANGED <<doc, todo, lock, diskVars, envVars, plan, term>>

\* ExecuteResetPlan: the lock, and storage as it was when the plan was sealed
ExecuteResetPlan ==
    /\ pc["helper"] = "checked"
    /\ plan' = None
    /\ IF /\ lock = None /\ plan # None /\ resets < MaxResets
          /\ plan.action = "full" => present = Cards
          /\ plan.roots = Roots(plan.action)
       THEN /\ lock' = "helper" /\ Goto("helper", "verify") /\ resets' = resets + 1
            /\ doc' = [doc EXCEPT !["helper"] =
                         [id |-> resets + 1, action |-> plan.action, roots |-> plan.roots]]
            /\ UNCHANGED <<todo, term>>
       ELSE Exit("helper") /\ UNCHANGED resets
    /\ UNCHANGED <<diskVars, present, faults>>

\* doctor calls RecoverReset, without the lock
DoctorStart ==
    /\ pc["doctor"] = "off"
    /\ Goto("doctor", "read")
    /\ UNCHANGED <<doc, todo, lock, diskVars, envVars, plan, term>>

-----------------------------------------------------------------------------
(* The environment.                                                         *)

\* an I/O error, a kill, a controller that stops
Abort(p) ==
    /\ pc[p] # "off" /\ Faulty
    /\ Exit(p)
    /\ unflushed' = (unflushed \/ pc[p] = "intent-sync")
    /\ UNCHANGED <<fs, disk, present, resets, plan>>

\* the runtime directory is lost with the power, and of each name one content stays
PowerLoss ==
    /\ Faulty
    /\ \E intent \in disk.intent, root \in [Places -> UNION {disk.root[r] : r \in Places}] :
         /\ \A r \in Places : root[r] \in disk.root[r]
         /\ fs' = [intent |-> intent, root |-> root]
         /\ disk' = [intent |-> {intent}, root |-> [r \in Places |-> {root[r]}]]
    /\ unflushed' = FALSE
    /\ pc' = [p \in Procs |-> "off"] /\ doc' = [p \in Procs |-> None]
    /\ todo' = [p \in Procs |-> {}]
    /\ lock' = None /\ plan' = None /\ term' = FALSE
    /\ UNCHANGED <<present, resets>>

\* no process has verified that card and is still at work
Settled(c) == \A p \in Procs : ~(pc[p] \in RemovePCs /\ c \in doc[p].roots)
Unplug(c) ==
    /\ c \in present /\ Faulty
    /\ present' = present \ {c}
    /\ \E epoch \in disk.root[c] : /\ fs' = [fs EXCEPT !.root[c] = epoch]
                                   /\ disk' = [disk EXCEPT !.root[c] = {epoch}]
    /\ UNCHANGED <<procVars, unflushed, resets, plan, term>>
CardOut(c) == Settled(c) /\ Unplug(c)

CardIn(c) ==
    /\ c \notin present
    /\ present' = present \cup {c}
    /\ UNCHANGED <<procVars, diskVars, resets, faults, plan, term>>

-----------------------------------------------------------------------------
(* Specification.                                                           *)

Init ==
    /\ pc = [p \in Procs |-> "off"] /\ doc = [p \in Procs |-> None]
    /\ todo = [p \in Procs |-> {}] /\ lock = None /\ plan = None /\ term = FALSE
    /\ fs = [intent |-> None, root |-> [r \in Places |-> 0]]
    /\ disk = [intent |-> {None}, root |-> [r \in Places |-> {0}]]
    /\ unflushed = FALSE
    /\ present = Cards /\ resets = 0 /\ faults = 0

Next ==
    \/ Service
    \/ RequestStop
    \/ \E r \in Places : WriteState(r)
    \/ \E c \in Cards : CardOut(c) \/ CardIn(c)
    \/ \E action \in Actions : PrepareReset(action)
    \/ HelperCheck \/ ExecuteResetPlan \/ runResetIntent("helper")
    \/ \E p \in Procs : Abort(p)
    \/ PowerLoss

Spec == Init /\ [][Next]_vars

\* the service's own steps are taken, the supervisor starts it again, and a card
\* that is needed comes back; errors and losses are finitely many
FairSpec ==
    /\ Spec
    /\ WF_vars(Service) /\ WF_vars(ExecuteResetPlan) /\ WF_vars(runResetIntent("helper"))
    /\ \A c \in Cards : WF_vars(CardIn(c))

\* the service's own steps only: the card may be lost
StopSpec == Spec /\ WF_vars(Service)

\* with diagnostics run beside the service
DoctorSpec == Init /\ [][Next \/ DoctorStart \/ RecoverReset("doctor")]_vars

\* with cards pulled while a reset works on them
UnplugSpec == Init /\ [][Next \/ \E c \in Cards : Unplug(c)]_vars

-----------------------------------------------------------------------------
(* Properties.                                                              *)

\* RecoverReset "completes a durable intent before any entrypoint may generate,
\* migrate, inspect, or start Syncthing state": while the service boots or runs
\* there is no intent, and nobody carries one out.
NothingStartsDuringReset ==
    pc["service"] \in StartPCs =>
        fs.intent = None /\ \A p \in Procs : pc[p] \notin RemovePCs

\* An intent, also one that a power loss brings back after it was cleared, never
\* declares contents made after the reset it belongs to: recovering it twice
\* destroys no newer identity, state or history.  An index-only reset is excepted:
\* the service starts on its configuration before anything is flushed, and the
\* intent may come back beside the index that upstream has derived anew.
IntentNamesOldState ==
    \A intent \in disk.intent \ {None} : intent.action # "index-only" =>
        \A r \in intent.roots : \A epoch \in disk.root[r] : epoch <= intent.id

\* Intents are well typed and name what they were made for (runResetIntent).
IntentInv == TypeOK /\ IntentNamesOldState

\* what is gone, but not yet for good, is named by the intent, and the intent is
\* there whatever a power loss leaves
Announced(r) ==
    fs.root[r] = 0 /\ disk.root[r] # {0} =>
        fs.intent # None /\ disk.intent = {fs.intent} /\ r \in fs.intent.roots

\* "Before intent, all prior durable Syncthing state remains": a power loss that
\* leaves a part of the removals leaves the intent that declares them, unless the
\* process that renamed it into place ended before its flush (runResetIntent
\* flushes only an intent that it wrote itself).
RemovalIsAnnounced == ~unflushed => \A r \in Places : Announced(r)

\* The sentence as it stands, without that exception.
RemovalIsAlwaysAnnounced == \A r \in Places : Announced(r)

\* "after intent, recovery completes the same exact deletion set": when a durable
\* intent is cleared, no root it declares is left on any disk.
ClearedResetIsComplete ==
    [][fs.intent # None /\ disk.intent = {fs.intent} /\ fs.intent' = None =>
         \A r \in fs.intent.roots : disk.root[r] = {0}]_vars

\* RecoverReset: an interrupted reset is completed.
InterruptedResetCompletes == fs.intent # None ~> fs.intent = None

\* Run ends when the service is asked to stop.
StopRequestEndsService == term ~> pc["service"] = "off"

=============================================================================
