-------------------------- MODULE FirstSyncHistory --------------------------
(***************************************************************************)
(* FirstSync with two history variables, for what the documents say about  *)
(* the past of a folder: who started its first sync, and when the snapshot *)
(* it relies on was taken.  Observe only looks at steps of FirstSync.      *)
(***************************************************************************)
EXTENDS FirstSync

VARIABLES
    started,  \* the user started first sync since the folder was onboarded
    recent    \* snapshots promoted since the folder was onboarded and since
              \*   its protection was last lifted

\* CompleteClear or RecoverComplete has cleared the flag
Lifted ==
    \/ pc = "done-clear" /\ pc' = "done-unpause"
    \/ pc = "decide" /\ pc' = "gate" /\ inventory /\ ~mem'.firstSync

Onboarded == bindings' # bindings

Observe ==
    /\ started' = (~Onboarded /\ (started \/ pc' \in CompletePCs))
    /\ recent' = IF Onboarded \/ Lifted THEN {}
                 ELSE IF pc = "prep-promote" /\ pc' = "prep-sync-promote"
                 THEN recent \cup {opName}
                 ELSE recent

HistoryInit == Init /\ started = FALSE /\ recent = {}

HistorySpec == HistoryInit /\ [][Next /\ Observe]_<<vars, started, recent>>

-----------------------------------------------------------------------------
(* Properties.                                                              *)

\* Complete and the epochs: a receive-capable completion names a snapshot taken
\* since the folder was onboarded and since it was last allowed to run, so a
\* snapshot of an earlier receive period never serves a later one.
CompletionUsesFreshSnapshot ==
    [][mem.firstSync /\ pc = "done-clear" /\ ~mem'.firstSync /\ fsMarker.mode = "snapshot"
         => fsMarker.name \in recent]_<<vars, started, recent>>

\* decision-record-b3.md: a folder leaves the first-sync pause only after "the
\* user explicitly starts the merge"; here, of the folder as it is now bound.
ClearedByExplicitStart ==
    bound /\ ~store.firstSync => started

=============================================================================
