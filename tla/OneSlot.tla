------------------------------ MODULE OneSlot ------------------------------
(***************************************************************************)
(* What a hand-over between two threads through one buffer and one binary   *)
(* semaphore promises: one item at a time is under way, it comes out as it  *)
(* was put in or is given up, and nothing comes out twice.  CanReply (the   *)
(* replies to the CAN bus) and IsoTpRx (the messages from it) implement it. *)
(***************************************************************************)
CONSTANTS
  Item,   \* what is handed over
  Empty   \* no item

VARIABLES
  slot,   \* the item under way
  out     \* the item that came out last

Init == slot = Empty /\ out = Empty

Put == slot = Empty /\ slot' \in Item /\ UNCHANGED out

Deliver == slot # Empty /\ out' = slot /\ slot' = Empty

GiveUp == slot # Empty /\ slot' = Empty /\ UNCHANGED out

Next == Put \/ Deliver \/ GiveUp

Spec == Init /\ [][Next]_<<slot, out>>
=============================================================================
