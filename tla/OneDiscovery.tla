---------------------------- MODULE OneDiscovery ----------------------------
(***************************************************************************)
(* What the GATT discovery manager promises its user: one procedure at a    *)
(* time, each answered exactly once, by its data, which the user then holds *)
(* until it releases them, or by the news that there are none.              *)
(***************************************************************************)
VARIABLES
  state,  \* "idle", "busy" with a procedure, its data "held", or "dead"
  heard   \* the last answer

Init == state = "idle" /\ heard = "none"

Start == state = "idle" /\ state' = "busy" /\ heard' = "none"

Completed == state = "busy" /\ state' = "held" /\ heard' = "completed"

GaveUp == state = "busy" /\ state' = "idle" /\ heard' \in {"not_found", "error"}

\* The processor faults in the middle of a procedure.
Died == state = "busy" /\ state' = "dead" /\ UNCHANGED heard

\* There is no next service to look for, or the search for it cannot be started.
Refused == state = "idle" /\ state' = "idle" /\ heard' \in {"not_found", "error"}

Release == state = "held" /\ state' = "idle" /\ UNCHANGED heard

Answer == Completed \/ GaveUp \/ Died

Next == Start \/ Answer \/ Refused \/ Release

Spec == Init /\ [][Next]_<<state, heard>> /\ WF_<<state, heard>>(Answer)
=============================================================================
