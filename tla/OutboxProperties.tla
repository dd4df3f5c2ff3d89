-------------------------- MODULE OutboxProperties --------------------------
(* What Outbox must guarantee, over the state of dispatchOutbox's workers. *)
EXTENDS Outbox

\* Every variable keeps its shape.
TypeOK ==
  /\ status \in [Messages -> Statuses]
  /\ lease \in [Messages -> Workers \cup {NoOne}]
  /\ leaseLeft \in [Messages -> Nat]
  /\ attempts \in [Messages -> Nat]
  /\ created \in [Messages -> Nat]
  /\ hook \in {"active", "paused", "removed"}
  /\ phase \in [Workers -> Phases]
  /\ todo \in [Workers -> SUBSET Messages]
  /\ msg \in [Workers -> Messages \cup {NoOne}]
  /\ attempt \in [Workers -> Nat]
  /\ accepted \subseteq Messages
  /\ dropped \subseteq Messages
  /\ faults \in Nat
  /\ \A w \in Workers : phase[w] \notin {"idle", "claim"} => msg[w] \in Messages

\* A message is claimed at most maxAttempts times, plus once for every crash,
\* failed recording or overrun lease: no interleaving of two dispatchOutbox
\* runs over the same stale list spends an attempt of its own.
AttemptsWithinBudget ==
  \A m \in Messages : attempts[m] <= MaxAttempts + faults

\* The comment on the claim transaction (outbox.ts:76), as far as it goes:
\* while no process died, no recording failed and no callback outlasted its
\* lease, two workers never hold the same message in their callbacks.
OneDelivererWithoutFaults ==
  faults = 0 => \A v, w \in Workers, m \in Messages :
                  InFlight(v, m) /\ InFlight(w, m) => v = w

\* The at-least-once contract: dispatchOutbox, the webhook calls and the
\* sweep together implement Delivery.  In particular a worker whose lease was
\* taken over can never settle, unsettle or resurrect the row.
Contract == INSTANCE Delivery WITH
  status <- status,
  handedOver <- accepted \cup dropped
ImplementsDelivery == Contract!Spec

\* With a scheduler that keeps dispatching and finitely many faults, every
\* queued message is delivered, abandoned or removed with its subscription:
\* retries end, and no message waits behind others forever.
EveryMessageSettles ==
  \A m \in Messages : status[m] = "pending" ~> status[m] # "pending"
=============================================================================
