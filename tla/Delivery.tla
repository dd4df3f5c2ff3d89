------------------------------ MODULE Delivery ------------------------------
(***************************************************************************)
(* What the outbox promises its callers (the comment of dispatchOutbox in  *)
(* packages/auth/src/outbox.ts and docs/events.md): at-least-once          *)
(* delivery.  A message is reported delivered only after it was handed     *)
(* over, it may be handed over again later, a settled message never        *)
(* becomes pending again and never settles the other way, and a forgotten  *)
(* one is gone.                                                            *)
(***************************************************************************)
CONSTANT Messages

VARIABLES status, handedOver

dvars == <<status, handedOver>>

Init ==
  /\ status = [m \in Messages |-> "absent"]
  /\ handedOver = {}

Submit(m) ==
  /\ status[m] = "absent"
  /\ status' = [status EXCEPT ![m] = "pending"]
  /\ UNCHANGED handedOver

HandOver(m) ==
  /\ status[m] # "absent"
  /\ handedOver' = handedOver \cup {m}
  /\ UNCHANGED status

Settle(m) ==
  /\ status[m] = "pending"
  /\ \/ m \in handedOver /\ status' = [status EXCEPT ![m] = "delivered"]
     \/ status' = [status EXCEPT ![m] = "failed"]
  /\ UNCHANGED handedOver

Forget(gone) ==
  /\ \A m \in gone : status[m] \notin {"absent", "deleted"}
  /\ status' = [m \in Messages |-> IF m \in gone THEN "deleted" ELSE status[m]]
  /\ UNCHANGED handedOver

Next ==
  \/ \E m \in Messages : Submit(m) \/ HandOver(m) \/ Settle(m)
  \/ \E gone \in SUBSET Messages : Forget(gone)

Spec == Init /\ [][Next]_dvars
=============================================================================
