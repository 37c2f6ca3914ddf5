-------------------------- MODULE UpstreamProcess --------------------------
(***************************************************************************)
(* The upstream process group of one controller after another              *)
(* (internal/syncthing/process.go, proc_linux.go) and the ways out of Run  *)
(* that end it or leave it behind (internal/controller/run.go).            *)
(*                                                                         *)
(* The upstream is a tree: the direct child, whose end the controller      *)
(* learns by Wait, and what it forks.  /proc is read one process at a      *)
(* time from a list made before, so every census of the group (groupAbsent,*)
(* signalGroupMembers, DetectForeignConflict) is a scan of many steps      *)
(* during which processes start and end.  Windows and deadlines may elapse *)
(* between any two censuses.                                               *)
(***************************************************************************)
EXTENDS Naturals, FiniteSets

CONSTANTS
    Pids,                       \* bound: processes ever alive at once
    ShutdownRequestAttempts,    \* 3
    MaxRuns,                    \* bound: controllers started
    None

ASSUME ProcessAssumption ==
    /\ ShutdownRequestAttempts \in Nat \ {0}
    /\ MaxRuns \in Nat
    /\ None \notin Pids

VARIABLES
    phase,      \* where the controller is
    scan,       \* the census under way
    attempt,    \* clean shutdown requests sent
    main,       \* the direct child
    done,       \* Wait has returned
    members,    \* live processes of the reserved group, without the controller
    killed,     \* those that were sent KILL
    left,       \* live Syncthing processes of earlier or foreign groups
    runs,
    blind       \* history: a process forked while the foreign ones were counted

processVars == <<phase, scan, attempt, main, done, members, killed, left, runs, blind>>

WaitPhases == {"absence", "termWait", "killWait"}
StopPhases == {"request", "graceful", "term", "kill"} \cup WaitPhases
Phases == {"off", "detect", "spawn", "starting", "running", "conflict", "stopped", "unverified"}
            \cup StopPhases

\* todo: listed and not read; found: read and alive; forked: the list is stale
Scan == [todo : SUBSET Pids, found : SUBSET Pids, forked : BOOLEAN]
NoScan == [todo |-> {}, found |-> {}, forked |-> FALSE]
List(S) == [todo |-> S, found |-> {}, forked |-> FALSE]

ProcessTypeOK ==
    /\ phase \in Phases
    /\ scan \in Scan
    /\ attempt \in 0..ShutdownRequestAttempts
    /\ main \in Pids \cup {None}
    /\ done \in BOOLEAN /\ (done => main \notin members)
    /\ members \subseteq Pids /\ killed \subseteq members
    /\ left \subseteq Pids \ members
    /\ runs \in 0..MaxRuns
    /\ blind \in BOOLEAN
    /\ phase \in {"off", "detect", "spawn", "conflict"} => members = {}

\* A foreign Syncthing may be there from the start.
ProcessInit ==
    /\ phase = "off"
    /\ scan = NoScan
    /\ attempt = 0
    /\ main = None
    /\ done = FALSE
    /\ members = {}
    /\ killed = {}
    /\ left \in {{}} \cup {{p} : p \in Pids}
    /\ runs = 0
    /\ blind = FALSE

-----------------------------------------------------------------------------
(* The upstream and its descendants.                                        *)

Alive == members \cup left

\* A process that was sent KILL starts nothing any more.
Fork(p, q) ==
    /\ p \in Alive \ killed
    /\ q \in Pids \ Alive
    /\ q # main
    /\ members' = IF p \in members THEN members \cup {q} ELSE members
    /\ left' = IF p \in left THEN left \cup {q} ELSE left
    /\ scan' = [scan EXCEPT !.forked = TRUE]
    /\ UNCHANGED <<phase, attempt, main, done, killed, runs, blind>>

\* A process ends: told to, signalled, or by itself.
Exit(p) ==
    /\ p \in Alive
    /\ members' = members \ {p}
    /\ killed' = killed \ {p}
    /\ left' = left \ {p}
    /\ UNCHANGED <<phase, scan, attempt, main, done, runs, blind>>

\* The goroutine in Wait.
Reap ==
    /\ main # None
    /\ main \notin members
    /\ ~done
    /\ phase # "off"
    /\ done' = TRUE
    /\ UNCHANGED <<phase, scan, attempt, main, members, killed, left, runs, blind>>

-----------------------------------------------------------------------------
(* Scans.                                                                   *)

\* readProcStat of one listed process; one that has ended is skipped.
ReadStat(p) ==
    /\ p \in scan.todo
    /\ scan' = [scan EXCEPT !.todo = @ \ {p}, !.found = IF p \in Alive THEN @ \cup {p} ELSE @]
    /\ UNCHANGED <<phase, attempt, main, done, members, killed, left, runs, blind>>

Scanned == scan.todo = {}
NobodyFound == Scanned /\ scan.found = {}

\* What a controller leaves when it ends, by returning or by being killed:
\* the child gets TERM (PDEATHSIG), which a process may take its time over.
Leave ==
    /\ phase' = "off"
    /\ left' = left \cup members
    /\ members' = {}
    /\ killed' = {}
    /\ main' = None
    /\ done' = FALSE
    /\ scan' = NoScan
    /\ attempt' = 0
    /\ UNCHANGED <<runs, blind>>

-----------------------------------------------------------------------------
(* StartProcess.                                                            *)

DetectForeignConflict ==
    /\ phase = "off"
    /\ runs < MaxRuns
    /\ runs' = runs + 1
    /\ phase' = "detect"
    /\ scan' = List(left)
    /\ UNCHANGED <<attempt, main, done, members, killed, left, blind>>

\* mutant: the conflict is only logged
DetectedIgnored ==
    /\ phase = "detect"
    /\ Scanned
    /\ phase' = "spawn"
    /\ blind' = scan.forked
    /\ scan' = NoScan
    /\ UNCHANGED <<attempt, main, done, members, killed, left, runs>>

\* A listener on the conventional port is a conflict too; the controller then
\* serves its socket without an upstream.
Detected ==
    /\ phase = "detect"
    /\ Scanned
    /\ \/ phase' = "conflict"
       \/ NobodyFound /\ phase' = "spawn"
    /\ blind' = scan.forked
    /\ scan' = NoScan
    /\ UNCHANGED <<attempt, main, done, members, killed, left, runs>>

\* Everything before command.Start may fail, and so may it.
StartChild ==
    /\ phase = "spawn"
    /\ \E p \in Pids \ Alive :
         /\ main' = p
         /\ members' = {p}
    /\ done' = FALSE
    /\ phase' = "starting"
    /\ UNCHANGED <<scan, attempt, killed, left, runs, blind>>

StartFails ==
    /\ phase = "spawn"
    /\ Leave

\* waitReady: the upstream answers on its socket.
Ready ==
    /\ phase = "starting"
    /\ members # {}
    /\ phase' = "running"
    /\ UNCHANGED <<scan, attempt, main, done, members, killed, left, runs, blind>>

\* It exited, the context ended, the deadline passed, or the socket is not
\* private: the group is cleaned up before StartProcess returns.
NotReady ==
    /\ phase = "starting"
    /\ phase' = "term"
    /\ scan' = List(members)
    /\ UNCHANGED <<attempt, main, done, members, killed, left, runs, blind>>

-----------------------------------------------------------------------------
(* Ways out of Run.                                                         *)

\* A stop request, a failed control socket, LAN boundary or LIFE-1 connection.
Shutdown ==
    /\ phase = "running"
    /\ phase' = "request"
    /\ attempt' = 1
    /\ UNCHANGED <<scan, main, done, members, killed, left, runs, blind>>

\* The direct child ended by itself: Run returns.
ExitedUnexpectedly ==
    /\ phase = "running"
    /\ done
    /\ Leave

\* A LIFE-1 answer that cannot be sent, an event that is not supported.
LifecycleFails ==
    /\ phase = "running"
    /\ Leave

\* A controller without an upstream is told to stop.
ConflictEnds ==
    /\ phase = "conflict"
    /\ Leave

\* The controller is killed.
Killed ==
    /\ phase # "off"
    /\ Leave

-----------------------------------------------------------------------------
(* Shutdown and TerminateAndVerify.                                         *)

\* requestCleanShutdown, an attempt that is not the last one: it failed and
\* may be repeated, unless the child has ended.
RetryRequest ==
    /\ phase = "request"
    /\ attempt < ShutdownRequestAttempts
    /\ ~done
    /\ attempt' = attempt + 1
    /\ UNCHANGED <<phase, scan, main, done, members, killed, left, runs, blind>>

\* It was accepted, will never be (no socket, no attempt left, the caller's
\* grace spent), or the child has ended.
EndRequest ==
    /\ phase = "request"
    /\ phase' = "graceful"
    /\ attempt' = 0
    /\ UNCHANGED <<scan, main, done, members, killed, left, runs, blind>>

\* The child ended in the graceful window: is the group gone with it?
GracefulExit ==
    /\ phase = "graceful"
    /\ done
    /\ phase' = "absence"
    /\ scan' = List(members)
    /\ UNCHANGED <<attempt, main, done, members, killed, left, runs, blind>>

\* The window (none, if nothing accepted the request) or the grace is over.
GracefulOver ==
    /\ phase = "graceful"
    /\ phase' = "term"
    /\ scan' = List(members)
    /\ UNCHANGED <<attempt, main, done, members, killed, left, runs, blind>>

\* signalGroupMembers: TERM and KILL reach what the list still finds.  A list
\* that cannot be made, or a signal that is refused, ends the clean-up.
TermSent ==
    /\ phase = "term"
    /\ Scanned
    /\ phase' \in {"termWait", "unverified"}
    /\ scan' = List(members)
    /\ UNCHANGED <<attempt, main, done, members, killed, left, runs, blind>>

KillSent ==
    /\ phase = "kill"
    /\ Scanned
    /\ killed' = scan.found \cap members
    /\ phase' \in {"killWait", "unverified"}
    /\ scan' = List(members)
    /\ UNCHANGED <<attempt, main, done, members, left, runs, blind>>

\* mutant: the end of the direct child is taken for the end of the group
VerifiedByChild ==
    /\ phase \in WaitPhases
    /\ Scanned
    /\ NobodyFound \/ done
    /\ phase' = "stopped"
    /\ UNCHANGED <<scan, attempt, main, done, members, killed, left, runs, blind>>

\* A census found nobody: Shutdown, or the clean-up, has succeeded.
Verified ==
    /\ phase \in WaitPhases
    /\ NobodyFound
    /\ phase' = "stopped"
    /\ UNCHANGED <<scan, attempt, main, done, members, killed, left, runs, blind>>

\* A census found somebody and the window is not over.
LookAgain ==
    /\ phase \in WaitPhases
    /\ Scanned
    /\ ~NobodyFound
    /\ scan' = List(members)
    /\ UNCHANGED <<phase, attempt, main, done, members, killed, left, runs, blind>>

\* mutant: a group that survives its child is waited for, not signalled
WindowOverWaits ==
    /\ phase \in WaitPhases
    /\ Scanned
    /\ ~NobodyFound
    /\ phase' = CASE phase = "absence" -> "absence" [] phase = "termWait" -> "kill" [] OTHER -> "unverified"
    /\ scan' = IF phase = "killWait" THEN NoScan ELSE List(members)
    /\ UNCHANGED <<attempt, main, done, members, killed, left, runs, blind>>

\* The window of this rung is over: the next one, or an error after the last.
WindowOver ==
    /\ phase \in WaitPhases
    /\ Scanned
    /\ ~NobodyFound
    /\ phase' = CASE phase = "absence" -> "term" [] phase = "termWait" -> "kill" [] OTHER -> "unverified"
    /\ scan' = IF phase = "killWait" THEN NoScan ELSE List(members)
    /\ UNCHANGED <<attempt, main, done, members, killed, left, runs, blind>>

\* Run returns what Shutdown returned.
Return ==
    /\ phase \in {"stopped", "unverified"}
    /\ Leave

-----------------------------------------------------------------------------
Census == \E p \in Pids : ReadStat(p)
Ladder == RetryRequest \/ EndRequest \/ GracefulExit \/ GracefulOver \/ TermSent \/ KillSent
            \/ Verified \/ LookAgain \/ Return

ProcessNext ==
    \/ \E p, q \in Pids : Fork(p, q)
    \/ \E p \in Pids : Exit(p)
    \/ Reap
    \/ DetectForeignConflict \/ Detected \/ StartChild \/ StartFails \/ Ready \/ NotReady
    \/ Shutdown \/ ExitedUnexpectedly \/ LifecycleFails \/ ConflictEnds \/ Killed
    \/ Census \/ Ladder \/ WindowOver

\* The controller takes its next step, and a window that is asked about again
\* and again ends.  Nothing is asked of the upstream, not even that KILL works.
Fairness == WF_processVars(Census) /\ WF_processVars(Ladder) /\ SF_processVars(WindowOver)

ProcessSpec == ProcessInit /\ [][ProcessNext]_processVars /\ Fairness

-----------------------------------------------------------------------------
(* Properties.                                                              *)

\* A stop that is reported as verified (Shutdown, or the clean-up of a failed
\* start, returned nil) leaves no process of the group alive, the monitor's
\* children included, unless one forked while /proc was being read.
VerifiedStopIsEmpty == phase = "stopped" => members = {} \/ scan.forked

\* The processes and the scan of them are well typed, and a verified stop is empty.
StopInv == ProcessTypeOK /\ VerifiedStopIsEmpty

\* "It never restarts upstream inside the same generation", and no controller
\* starts one next to a Syncthing that another left behind: DetectForeignConflict
\* sees it, unless it forked while it was being counted.
NoSecondUpstream == [][main = None /\ main' # None => left = {} \/ blind]_processVars

\* The stop ladder ends, whatever the upstream does with the request, TERM and
\* KILL: every rung has a window of its own (Shutdown, TerminateAndVerify).
StopReturns == phase \in StopPhases ~> phase = "off"

\* "guardian cleanup signals every other group member, escalates survivors,
\* and proves non-zombie absence before the controller returns"
\* (docs/decision-record-b1.md): a controller that returns by itself leaves no
\* process of its group, or has said that it could not verify that.  Run
\* returns without the ladder when the direct child ends by itself.
ReturnsAfterCleanup ==
    [][ExitedUnexpectedly => members = {}]_processVars
=============================================================================
