--------------------------- MODULE ConfigRegister ---------------------------
(***************************************************************************)
(* What the config.xml transaction promises (docs of RecoverConfig and     *)
(* ApplyOfflinePauseSet): the upstream configuration is one register.  It  *)
(* changes in one step, only while the controller edits it or upstream     *)
(* runs; recovery never changes it; a power loss leaves one of the values  *)
(* written since it was last persisted.  An edit, or the recovery from an  *)
(* interrupted one, may also suspend this promise about power losses       *)
(* (Suspended) until the value is persisted.                               *)
(***************************************************************************)
CONSTANT Values, NoValue

VARIABLES
    mode,    \* off (down or recovering), edit (the controller), run (upstream)
    cur,     \* the configuration a start-up would find now
    durable  \* the configurations it may find after a power loss

vars == <<mode, cur, durable>>

Suspended == Values \cup {NoValue}

Init == mode = "off" /\ cur = NoValue /\ durable = {NoValue}

\* the value may be persisted in the step in which an edit begins or ends
MayPersist == durable' \in {durable, {cur}} /\ UNCHANGED cur

Begin == mode = "off" /\ mode' = "edit" /\ MayPersist
Commit(v) ==
    /\ mode = "edit" /\ cur' = v
    /\ durable' \in {durable \cup {v}, Suspended}
    /\ UNCHANGED mode
Suspend == mode \in {"edit", "off"} /\ durable' = Suspended /\ UNCHANGED <<mode, cur>>
Run == mode = "edit" /\ cur # NoValue /\ mode' = "run" /\ UNCHANGED <<cur, durable>>
Save(v) == mode = "run" /\ cur' = v /\ durable' = durable \cup {v} /\ UNCHANGED mode
Persist == durable' = {cur} /\ UNCHANGED <<mode, cur>>
Stop == mode' = "off" /\ MayPersist
PowerLoss == mode' = "off" /\ cur' \in durable /\ durable' = {cur'}

Next ==
    \/ Begin
    \/ \E v \in Values : Commit(v) \/ Save(v)
    \/ Suspend
    \/ Run
    \/ Persist
    \/ Stop
    \/ PowerLoss

Spec == Init /\ [][Next]_vars
=============================================================================
