------------------------------- MODULE Outbox -------------------------------
(***************************************************************************)
(* The delivery outbox (packages/auth/src/outbox.ts) together with the     *)
(* callers that touch its rows: the webhook subscription whose messages it *)
(* carries (packages/server/src/events.ts, api/webhooks.ts) and the        *)
(* retention sweep.  Workers are dispatchOutbox runs of any process.       *)
(*                                                                         *)
(* Time is relative: leaseLeft holds the ticks that remain until a row's   *)
(* leaseUntil, so "leaseUntil > now" reads leaseLeft > 0 and no clock      *)
(* grows.  A claim's lease identifier is fresh in the code; here it is the *)
(* worker, which has one claim in flight at a time.                        *)
(***************************************************************************)
EXTENDS Naturals, FiniteSets

CONSTANTS
  Messages,      \* delivery ids
  Workers,       \* concurrent dispatchOutbox runs
  NoOne,         \* "no lease" / "no message"
  MaxAttempts,   \* ctx.maxAttempts
  LeaseTerm,     \* the 60 second lease, in ticks
  BaseBackoff,   \* the 30 second first backoff, in ticks
  BackoffCap,    \* the one hour limit of the backoff, in ticks
  Limit,         \* the limit argument of dispatchOutbox
  MaxFaults      \* bound on crashes, storage errors and overrun leases

ASSUME OutboxAssumption ==
  /\ IsFiniteSet(Messages)
  /\ NoOne \notin Messages \cup Workers
  /\ MaxAttempts \in Nat \ {0} /\ LeaseTerm \in Nat \ {0}
  /\ BaseBackoff \in Nat \ {0} /\ BackoffCap \in Nat \ {0}
  /\ Limit \in Nat \ {0} /\ MaxFaults \in Nat

VARIABLES
  \* collection outbox, one function per field
  status,    \* message -> absent, pending, delivered, failed or deleted
  lease,     \* message -> the worker whose claim it carries
  leaseLeft, \* message -> ticks until leaseUntil, which also paces retries
  attempts,  \* message -> claims so far
  created,   \* message -> rank in the order of (createdAt, id)
  hook,      \* the webhook subscription: "active", "paused" or "removed"
  \* local variables of dispatchOutbox
  phase,     \* worker -> where its run is
  todo,      \* worker -> candidates of its scan not yet tried
  msg,       \* worker -> the message it claimed
  attempt,   \* worker -> claimed.attempts
  \* history
  accepted,  \* messages the receiver accepted
  dropped,   \* messages handed over while the hook was not active
  faults     \* faults so far

rows == <<status, lease, leaseLeft, attempts, created>>
locals == <<phase, todo, msg, attempt>>
history == <<accepted, dropped, faults>>
vars == <<rows, hook, locals, history>>

Statuses == {"absent", "pending", "delivered", "failed", "deleted"}
Phases == {"idle", "claim", "call", "recordDelivered", "recordFailure"}

Init ==
  /\ status = [m \in Messages |-> "absent"]
  /\ lease = [m \in Messages |-> NoOne]
  /\ leaseLeft = [m \in Messages |-> 0]
  /\ attempts = [m \in Messages |-> 0]
  /\ created = [m \in Messages |-> 0]
  /\ hook = "active"
  /\ phase = [w \in Workers |-> "idle"]
  /\ todo = [w \in Workers |-> {}]
  /\ msg = [w \in Workers |-> NoOne]
  /\ attempt = [w \in Workers |-> 0]
  /\ accepted = {}
  /\ dropped = {}
  /\ faults = 0

-----------------------------------------------------------------------------
(* Helpers *)

\* Mutants of Claimable: the lease is not looked at; a lease is never taken over.
ClaimableWhileLeased(m) == status[m] = "pending"
ClaimableOnce(m) == status[m] = "pending" /\ leaseLeft[m] = 0 /\ lease[m] = NoOne

\* Not delivered, not failed, and no lease or backoff still running.
Claimable(m) == status[m] = "pending" /\ leaseLeft[m] = 0

\* Math.min(30_000 * 2 ** (attempts - 1), 60 * 60_000), attempts being at least 1
Backoff(n) ==
  LET doubled == BaseBackoff * 2^(n - 1)
  IN  IF doubled \in 1..BackoffCap THEN doubled ELSE BackoffCap

\* Mutant of HoldsLease: the record transaction only looks for the row.
HoldsRow(w, m) == status[m] # "deleted"

\* message?.lease === lease: a deleted row carries no lease.
HoldsLease(w, m) == status[m] # "deleted" /\ lease[m] = w

\* Mutant of Exhausted: one attempt too many.
ExhaustedLate(w) == attempt[w] > MaxAttempts

\* claimed.attempts >= ctx.maxAttempts
Exhausted(w) == attempt[w] >= MaxAttempts

Fault == faults < MaxFaults /\ faults' = faults + 1

\* The worker is between its claim of m and the record of the outcome.
InFlight(w, m) == msg[w] = m /\ phase[w] \notin {"idle", "claim"}

\* The worker leaves its current candidate and goes on with the rest.
NextCandidate(w) ==
  /\ phase' = [phase EXCEPT ![w] = "claim"]
  /\ msg' = [msg EXCEPT ![w] = NoOne]
  /\ attempt' = [attempt EXCEPT ![w] = 0]
  /\ UNCHANGED todo

Reach(w, next) == phase' = [phase EXCEPT ![w] = next] /\ UNCHANGED <<todo, msg, attempt>>

\* The run is over or dead: its local variables are gone.
Stop(w) ==
  /\ phase' = [phase EXCEPT ![w] = "idle"]
  /\ todo' = [todo EXCEPT ![w] = {}]
  /\ msg' = [msg EXCEPT ![w] = NoOne]
  /\ attempt' = [attempt EXCEPT ![w] = 0]

-----------------------------------------------------------------------------
(* Callers *)

\* enqueueDelivery in the caller's transaction (fanOut, ping, redeliver):
\* only an active subscription is sent anything.
EnqueueDelivery(m) ==
  /\ hook = "active"
  /\ status[m] = "absent"
  /\ status' = [status EXCEPT ![m] = "pending"]
  /\ created' = [created EXCEPT ![m] = 1 + Cardinality({k \in Messages : created[k] > 0})]
  /\ UNCHANGED <<lease, leaseLeft, attempts, hook, locals, history>>

\* webhooks.update with active: false and active: true.
SetActive(active) ==
  /\ hook # "removed"
  /\ hook' = IF active THEN "active" ELSE "paused"
  /\ UNCHANGED <<rows, locals, history>>

\* webhooks.delete: the undelivered messages go with the subscription.
DeleteWebhook ==
  /\ hook # "removed"
  /\ hook' = "removed"
  /\ status' = [m \in Messages |-> IF status[m] = "pending" THEN "deleted" ELSE status[m]]
  /\ leaseLeft' = [m \in Messages |-> IF status[m] = "pending" THEN 0 ELSE leaseLeft[m]]
  /\ UNCHANGED <<lease, attempts, created, locals, history>>

\* sweepExpired: settled rows past their retention.
Sweep(m) ==
  /\ status[m] \in {"delivered", "failed"}
  /\ status' = [status EXCEPT ![m] = "deleted"]
  /\ UNCHANGED <<lease, leaseLeft, attempts, created, hook, locals, history>>

-----------------------------------------------------------------------------
(* dispatchOutbox, one action per transaction or external call *)

\* The unlocked read of the pending rows, oldest first, at most Limit.
Scan(w) ==
  /\ phase[w] = "idle"
  /\ LET older(m) == {k \in Messages : Claimable(k) /\ created[k] < created[m]}
         pending == {m \in Messages : Claimable(m) /\ Cardinality(older(m)) < Limit}
     IN  /\ pending # {}
         /\ todo' = [todo EXCEPT ![w] = pending]
  /\ phase' = [phase EXCEPT ![w] = "claim"]
  /\ UNCHANGED <<rows, hook, msg, attempt, history>>

\* The next candidate in scan order.
Candidate(w, m) ==
  /\ phase[w] = "claim"
  /\ m \in todo[w]
  /\ \A k \in todo[w] : created[m] <= created[k]
  /\ todo' = [todo EXCEPT ![w] = @ \ {m}]

\* The claim transaction, in which the row is judged again.
Claim(w, m) ==
  /\ Candidate(w, m)
  /\ Claimable(m)
  /\ lease' = [lease EXCEPT ![m] = w]
  /\ leaseLeft' = [leaseLeft EXCEPT ![m] = LeaseTerm]
  /\ attempts' = [attempts EXCEPT ![m] = @ + 1]
  /\ phase' = [phase EXCEPT ![w] = "call"]
  /\ msg' = [msg EXCEPT ![w] = m]
  /\ attempt' = [attempt EXCEPT ![w] = attempts[m] + 1]
  /\ UNCHANGED <<status, created, hook, history>>

\* The claim transaction finds the row gone, settled or leased: skipped.
Skip(w, m) ==
  /\ Candidate(w, m)
  /\ ~Claimable(m)
  /\ UNCHANGED <<rows, hook, phase, msg, attempt, history>>

\* The loop is over: dispatchOutbox returns.
Finish(w) ==
  /\ phase[w] = "claim"
  /\ todo[w] = {}
  /\ Stop(w)
  /\ UNCHANGED <<rows, hook, history>>

\* The callback on an active subscription: the receiver accepts and answers,
\* accepts but the answer is lost (a timeout), or refuses.
CallReceiver(w) ==
  /\ phase[w] = "call"
  /\ hook = "active"
  /\ \/ accepted' = accepted \cup {msg[w]} /\ Reach(w, "recordDelivered")
     \/ accepted' = accepted \cup {msg[w]} /\ Reach(w, "recordFailure")
     \/ UNCHANGED accepted /\ Reach(w, "recordFailure")
  /\ UNCHANGED <<rows, hook, dropped, faults>>

\* deliverWebhookMessage returns without sending when the subscription is
\* paused or removed.
DropDelivery(w) ==
  /\ phase[w] = "call"
  /\ hook # "active"
  /\ dropped' = dropped \cup {msg[w]}
  /\ Reach(w, "recordDelivered")
  /\ UNCHANGED <<rows, hook, accepted, faults>>

\* The transaction that records a delivery, if the lease is still ours.
RecordDelivered(w) ==
  /\ phase[w] = "recordDelivered"
  /\ IF HoldsLease(w, msg[w])
     THEN /\ status' = [status EXCEPT ![msg[w]] = "delivered"]
          /\ leaseLeft' = [leaseLeft EXCEPT ![msg[w]] = 0]
     ELSE UNCHANGED <<status, leaseLeft>>
  /\ NextCandidate(w)
  /\ UNCHANGED <<lease, attempts, created, hook, history>>

\* The transaction that records a failure: abandoned when the attempts are
\* used up, otherwise backed off.
RecordFailure(w) ==
  /\ phase[w] = "recordFailure"
  /\ LET m == msg[w]
     IN  IF HoldsLease(w, m)
         THEN /\ status' = [status EXCEPT ![m] = IF Exhausted(w) THEN "failed" ELSE @]
              /\ leaseLeft' = [leaseLeft EXCEPT ![m] = IF Exhausted(w) THEN 0 ELSE Backoff(attempt[w])]
         ELSE UNCHANGED <<status, leaseLeft>>
  /\ NextCandidate(w)
  /\ UNCHANGED <<lease, attempts, created, hook, history>>

-----------------------------------------------------------------------------
(* Faults and time *)

\* A storage error while recording the delivery is caught like any other:
\* the failure branch follows although the receiver has the message.
RecordDeliveredFails(w) ==
  /\ phase[w] = "recordDelivered"
  /\ Fault
  /\ Reach(w, "recordFailure")
  /\ UNCHANGED <<rows, hook, accepted, dropped>>

\* The process dies, or the claim or the failure transaction throws out of
\* dispatchOutbox: the run ends where it is and its lease stays on the row.
Crash(w) ==
  /\ phase[w] # "idle"
  /\ Fault
  /\ Stop(w)
  /\ UNCHANGED <<rows, hook, accepted, dropped>>

\* A lease ends with this tick while the callback of its holder still runs.
Overrun == \E w \in Workers, m \in Messages :
             InFlight(w, m) /\ HoldsLease(w, m) /\ leaseLeft[m] = 1

\* Time passes for every lease and every backoff; one that ends under a
\* callback still running counts as a fault.
Tick ==
  /\ \E m \in Messages : leaseLeft[m] > 0
  /\ IF Overrun THEN Fault ELSE UNCHANGED faults
  /\ leaseLeft' = [m \in Messages |-> IF leaseLeft[m] > 0 THEN leaseLeft[m] - 1 ELSE 0]
  /\ UNCHANGED <<status, lease, attempts, created, hook, locals, accepted, dropped>>

-----------------------------------------------------------------------------
WorkerStep(w) ==
  \/ Scan(w)
  \/ \E m \in Messages : Claim(w, m) \/ Skip(w, m)
  \/ Finish(w)
  \/ CallReceiver(w) \/ DropDelivery(w)
  \/ RecordDelivered(w) \/ RecordFailure(w)

Next ==
  \/ \E m \in Messages : EnqueueDelivery(m) \/ Sweep(m)
  \/ \E active \in BOOLEAN : SetActive(active)
  \/ DeleteWebhook
  \/ \E w \in Workers : WorkerStep(w) \/ RecordDeliveredFails(w) \/ Crash(w)
  \/ Tick

Spec == Init /\ [][Next]_vars

\* The scheduler keeps running dispatchOutbox, a started run goes on, and
\* time passes.
FairSpec == Spec /\ WF_vars(Tick) /\ \A w \in Workers : WF_vars(WorkerStep(w))
=============================================================================
