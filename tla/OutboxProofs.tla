---------------------------- MODULE OutboxProofs ----------------------------
(* Proofs about Outbox, for any number of messages, workers and attempts.  *)
EXTENDS OutboxProperties, FiniteSetTheorems, TLAPS

USE OutboxAssumption DEF Statuses, Phases

-----------------------------------------------------------------------------
(* A backoff is a number of ticks whatever the attempt. *)
LEMMA BackoffType == \A n : Backoff(n) \in Nat
  BY DEF Backoff

(* The rank of a new message is a number, Messages being finite. *)
LEMMA RankType ==
  ASSUME NEW S \in SUBSET Messages
  PROVE  Cardinality(S) \in Nat
  BY FS_Subset, FS_CardinalityType

(***************************************************************************)
(* Type correctness: every reachable state of the outbox and its workers   *)
(* has the shape TypeOK describes.                                         *)
(***************************************************************************)
THEOREM TypeCorrect == Spec => []TypeOK
<1>1. Init => TypeOK
  BY DEF Init, TypeOK
<1>2. TypeOK /\ [Next]_vars => TypeOK'
  <2> SUFFICES ASSUME TypeOK, [Next]_vars PROVE TypeOK'
    OBVIOUS
  <2> USE DEF TypeOK, rows, locals, history
  <2>1. ASSUME NEW m \in Messages, EnqueueDelivery(m) PROVE TypeOK'
    <3>1. Cardinality({k \in Messages : created[k] > 0}) \in Nat
      BY RankType
    <3> QED
      BY <2>1, <3>1 DEF EnqueueDelivery
  <2>2. ASSUME NEW m \in Messages, Sweep(m) PROVE TypeOK'
    BY <2>2 DEF Sweep
  <2>3. ASSUME NEW active \in BOOLEAN, SetActive(active) PROVE TypeOK'
    BY <2>3 DEF SetActive
  <2>4. CASE DeleteWebhook
    BY <2>4 DEF DeleteWebhook
  <2>5. ASSUME NEW w \in Workers, Scan(w) PROVE TypeOK'
    BY <2>5 DEF Scan
  <2>6. ASSUME NEW w \in Workers, NEW m \in Messages, Claim(w, m) PROVE TypeOK'
    BY <2>6 DEF Claim, Candidate, Claimable
  <2>7. ASSUME NEW w \in Workers, NEW m \in Messages, Skip(w, m) PROVE TypeOK'
    BY <2>7 DEF Skip, Candidate
  <2>8. ASSUME NEW w \in Workers, Finish(w) PROVE TypeOK'
    BY <2>8 DEF Finish, Stop
  <2>9. ASSUME NEW w \in Workers, CallReceiver(w) PROVE TypeOK'
    BY <2>9 DEF CallReceiver, Reach
  <2>10. ASSUME NEW w \in Workers, DropDelivery(w) PROVE TypeOK'
    BY <2>10 DEF DropDelivery, Reach
  <2>11. ASSUME NEW w \in Workers, RecordDelivered(w) PROVE TypeOK'
    BY <2>11 DEF RecordDelivered, NextCandidate
  <2>12. ASSUME NEW w \in Workers, RecordFailure(w) PROVE TypeOK'
    BY <2>12, BackoffType DEF RecordFailure, Exhausted, NextCandidate
  <2>13. ASSUME NEW w \in Workers, RecordDeliveredFails(w) PROVE TypeOK'
    BY <2>13 DEF RecordDeliveredFails, Reach, Fault
  <2>14. ASSUME NEW w \in Workers, Crash(w) PROVE TypeOK'
    BY <2>14 DEF Crash, Stop, Fault
  <2>15. CASE Tick
    BY <2>15 DEF Tick, Fault
  <2>16. CASE UNCHANGED vars
    BY <2>16 DEF vars
  <2> QED
    BY <2>1, <2>2, <2>3, <2>4, <2>5, <2>6, <2>7, <2>8, <2>9, <2>10, <2>11, <2>12, <2>13,
       <2>14, <2>15, <2>16 DEF Next, WorkerStep
<1> QED
  BY <1>1, <1>2, PTL DEF Spec

(***************************************************************************)
(* The attempt budget.  AttemptsWithinBudget is not inductive: a claim     *)
(* raises attempts, so what matters is that a message which can be claimed *)
(* again still has budget left.  It has, because either the last claim was *)
(* recorded as a failure below maxAttempts, or a fault ended it.           *)
(***************************************************************************)
HolderAtWork(m) == \E w \in Workers : InFlight(w, m) /\ HoldsLease(w, m)

BudgetInv ==
  /\ AttemptsWithinBudget
  /\ \A w \in Workers, m \in Messages :
       InFlight(w, m) /\ HoldsLease(w, m) => attempt[w] = attempts[m]
  /\ \A m \in Messages :
       status[m] = "pending" /\ (leaseLeft[m] = 0 \/ ~HolderAtWork(m))
         => attempts[m] < MaxAttempts + faults
  /\ \A m \in Messages : status[m] = "absent" => attempts[m] = 0

LEMMA BudgetStep == TypeOK /\ TypeOK' /\ BudgetInv /\ [Next]_vars => BudgetInv'
<1> SUFFICES ASSUME TypeOK, TypeOK', BudgetInv, [Next]_vars PROVE BudgetInv'
  OBVIOUS
<1> USE DEF TypeOK, BudgetInv, AttemptsWithinBudget, HolderAtWork, InFlight, HoldsLease,
            rows, locals, history
<1>1. ASSUME NEW m \in Messages, EnqueueDelivery(m) PROVE BudgetInv'
  BY <1>1 DEF EnqueueDelivery
<1>2. ASSUME NEW m \in Messages, Sweep(m) PROVE BudgetInv'
  BY <1>2 DEF Sweep
<1>3. ASSUME NEW active \in BOOLEAN, SetActive(active) PROVE BudgetInv'
  BY <1>3 DEF SetActive
<1>4. CASE DeleteWebhook
  BY <1>4 DEF DeleteWebhook
<1>5. ASSUME NEW w \in Workers, Scan(w) PROVE BudgetInv'
  BY <1>5 DEF Scan
<1>6. ASSUME NEW w \in Workers, NEW m \in Messages, Claim(w, m) PROVE BudgetInv'
  BY <1>6 DEF Claim, Candidate, Claimable
<1>7. ASSUME NEW w \in Workers, NEW m \in Messages, Skip(w, m) PROVE BudgetInv'
  BY <1>7 DEF Skip, Candidate
<1>8. ASSUME NEW w \in Workers, Finish(w) PROVE BudgetInv'
  BY <1>8 DEF Finish, Stop
<1>9. ASSUME NEW w \in Workers, CallReceiver(w) PROVE BudgetInv'
  BY <1>9 DEF CallReceiver, Reach
<1>10. ASSUME NEW w \in Workers, DropDelivery(w) PROVE BudgetInv'
  BY <1>10 DEF DropDelivery, Reach
<1>11. ASSUME NEW w \in Workers, RecordDelivered(w) PROVE BudgetInv'
  BY <1>11 DEF RecordDelivered, NextCandidate
<1>12. ASSUME NEW w \in Workers, RecordFailure(w) PROVE BudgetInv'
  BY <1>12, BackoffType DEF RecordFailure, Exhausted, NextCandidate
<1>13. ASSUME NEW w \in Workers, RecordDeliveredFails(w) PROVE BudgetInv'
  BY <1>13 DEF RecordDeliveredFails, Reach, Fault
<1>14. ASSUME NEW w \in Workers, Crash(w) PROVE BudgetInv'
  BY <1>14 DEF Crash, Stop, Fault
<1>15. CASE Tick
  BY <1>15 DEF Tick, Fault, Overrun
<1>16. CASE UNCHANGED vars
  BY <1>16 DEF vars
<1> QED
  BY <1>1, <1>2, <1>3, <1>4, <1>5, <1>6, <1>7, <1>8, <1>9, <1>10, <1>11, <1>12, <1>13,
     <1>14, <1>15, <1>16 DEF Next, WorkerStep

(* No message is claimed more often than maxAttempts plus the faults.      *)
THEOREM AttemptBudget == Spec => []AttemptsWithinBudget
<1>1. Init => BudgetInv
  BY DEF Init, BudgetInv, AttemptsWithinBudget, HolderAtWork, InFlight, HoldsLease
<1>2. BudgetInv => AttemptsWithinBudget
  BY DEF BudgetInv
<1> QED
  BY <1>1, <1>2, BudgetStep, TypeCorrect, PTL DEF Spec

(***************************************************************************)
(* One deliverer at a time.  As long as no fault happened, a message in a  *)
(* callback is leased to that worker, with time left, or was deleted with  *)
(* its subscription meanwhile; so no second worker can claim it.           *)
(***************************************************************************)
SoleInv ==
  /\ OneDelivererWithoutFaults
  /\ faults = 0 => \A w \in Workers, m \in Messages :
       InFlight(w, m) => \/ status[m] = "deleted"
                         \/ status[m] = "pending" /\ lease[m] = w /\ leaseLeft[m] > 0

LEMMA SoleStep == TypeOK /\ SoleInv /\ [Next]_vars => SoleInv'
<1> SUFFICES ASSUME TypeOK, SoleInv, [Next]_vars PROVE SoleInv'
  OBVIOUS
<1> USE DEF TypeOK, SoleInv, OneDelivererWithoutFaults, InFlight, HoldsLease,
            rows, locals, history
<1>1. ASSUME NEW m \in Messages, EnqueueDelivery(m) PROVE SoleInv'
  BY <1>1 DEF EnqueueDelivery
<1>2. ASSUME NEW m \in Messages, Sweep(m) PROVE SoleInv'
  BY <1>2 DEF Sweep
<1>3. ASSUME NEW active \in BOOLEAN, SetActive(active) PROVE SoleInv'
  BY <1>3 DEF SetActive
<1>4. CASE DeleteWebhook
  BY <1>4 DEF DeleteWebhook
<1>5. ASSUME NEW w \in Workers, Scan(w) PROVE SoleInv'
  BY <1>5 DEF Scan
<1>6. ASSUME NEW w \in Workers, NEW m \in Messages, Claim(w, m) PROVE SoleInv'
  BY <1>6 DEF Claim, Candidate, Claimable
<1>7. ASSUME NEW w \in Workers, NEW m \in Messages, Skip(w, m) PROVE SoleInv'
  BY <1>7 DEF Skip, Candidate
<1>8. ASSUME NEW w \in Workers, Finish(w) PROVE SoleInv'
  BY <1>8 DEF Finish, Stop
<1>9. ASSUME NEW w \in Workers, CallReceiver(w) PROVE SoleInv'
  BY <1>9 DEF CallReceiver, Reach
<1>10. ASSUME NEW w \in Workers, DropDelivery(w) PROVE SoleInv'
  BY <1>10 DEF DropDelivery, Reach
<1>11. ASSUME NEW w \in Workers, RecordDelivered(w) PROVE SoleInv'
  BY <1>11 DEF RecordDelivered, NextCandidate
<1>12. ASSUME NEW w \in Workers, RecordFailure(w) PROVE SoleInv'
  BY <1>12, BackoffType DEF RecordFailure, Exhausted, NextCandidate
<1>13. ASSUME NEW w \in Workers, RecordDeliveredFails(w) PROVE SoleInv'
  BY <1>13 DEF RecordDeliveredFails, Reach, Fault
<1>14. ASSUME NEW w \in Workers, Crash(w) PROVE SoleInv'
  BY <1>14 DEF Crash, Stop, Fault
<1>15. CASE Tick
  BY <1>15 DEF Tick, Fault, Overrun
<1>16. CASE UNCHANGED vars
  BY <1>16 DEF vars
<1> QED
  BY <1>1, <1>2, <1>3, <1>4, <1>5, <1>6, <1>7, <1>8, <1>9, <1>10, <1>11, <1>12, <1>13,
     <1>14, <1>15, <1>16 DEF Next, WorkerStep

(* Without faults, two workers never hold one message in their callbacks.  *)
THEOREM SoleDeliverer == Spec => []OneDelivererWithoutFaults
<1>1. Init => SoleInv
  BY DEF Init, SoleInv, OneDelivererWithoutFaults, InFlight
<1>2. SoleInv => OneDelivererWithoutFaults
  BY DEF SoleInv
<1> QED
  BY <1>1, <1>2, SoleStep, TypeCorrect, PTL DEF Spec

(***************************************************************************)
(* The at-least-once contract.  A worker about to record a delivery has    *)
(* handed its message over, and a row whose lease a worker still holds     *)
(* while it is in flight is not settled yet.                               *)
(***************************************************************************)
HandedInv ==
  /\ \A w \in Workers : phase[w] = "recordDelivered" => msg[w] \in accepted \cup dropped
  /\ \A w \in Workers, m \in Messages :
       InFlight(w, m) =>
         /\ status[m] # "absent"
         /\ HoldsLease(w, m) => status[m] = "pending"

LEMMA HandedStep == TypeOK /\ HandedInv /\ [Next]_vars => HandedInv'
<1> SUFFICES ASSUME TypeOK, HandedInv, [Next]_vars PROVE HandedInv'
  OBVIOUS
<1> USE DEF TypeOK, HandedInv, InFlight, HoldsLease, rows, locals, history
<1>1. ASSUME NEW m \in Messages, EnqueueDelivery(m) PROVE HandedInv'
  BY <1>1 DEF EnqueueDelivery
<1>2. ASSUME NEW m \in Messages, Sweep(m) PROVE HandedInv'
  BY <1>2 DEF Sweep
<1>3. ASSUME NEW active \in BOOLEAN, SetActive(active) PROVE HandedInv'
  BY <1>3 DEF SetActive
<1>4. CASE DeleteWebhook
  BY <1>4 DEF DeleteWebhook
<1>5. ASSUME NEW w \in Workers, Scan(w) PROVE HandedInv'
  BY <1>5 DEF Scan
<1>6. ASSUME NEW w \in Workers, NEW m \in Messages, Claim(w, m) PROVE HandedInv'
  BY <1>6 DEF Claim, Candidate, Claimable
<1>7. ASSUME NEW w \in Workers, NEW m \in Messages, Skip(w, m) PROVE HandedInv'
  BY <1>7 DEF Skip, Candidate
<1>8. ASSUME NEW w \in Workers, Finish(w) PROVE HandedInv'
  BY <1>8 DEF Finish, Stop
<1>9. ASSUME NEW w \in Workers, CallReceiver(w) PROVE HandedInv'
  BY <1>9 DEF CallReceiver, Reach
<1>10. ASSUME NEW w \in Workers, DropDelivery(w) PROVE HandedInv'
  BY <1>10 DEF DropDelivery, Reach
<1>11. ASSUME NEW w \in Workers, RecordDelivered(w) PROVE HandedInv'
  BY <1>11 DEF RecordDelivered, NextCandidate
<1>12. ASSUME NEW w \in Workers, RecordFailure(w) PROVE HandedInv'
  BY <1>12 DEF RecordFailure, Exhausted, NextCandidate
<1>13. ASSUME NEW w \in Workers, RecordDeliveredFails(w) PROVE HandedInv'
  BY <1>13 DEF RecordDeliveredFails, Reach, Fault
<1>14. ASSUME NEW w \in Workers, Crash(w) PROVE HandedInv'
  BY <1>14 DEF Crash, Stop, Fault
<1>15. CASE Tick
  BY <1>15 DEF Tick, Fault
<1>16. CASE UNCHANGED vars
  BY <1>16 DEF vars
<1> QED
  BY <1>1, <1>2, <1>3, <1>4, <1>5, <1>6, <1>7, <1>8, <1>9, <1>10, <1>11, <1>12, <1>13,
     <1>14, <1>15, <1>16 DEF Next, WorkerStep

LEMMA ContractStep ==
  TypeOK /\ TypeOK' /\ HandedInv /\ [Next]_vars => [Contract!Next]_(Contract!dvars)
<1> SUFFICES ASSUME TypeOK, TypeOK', HandedInv, [Next]_vars
             PROVE  Contract!Next \/ UNCHANGED Contract!dvars
  OBVIOUS
<1> USE DEF TypeOK, HandedInv, InFlight, HoldsLease, rows, locals, history, Contract!dvars
<1>1. ASSUME NEW m \in Messages, EnqueueDelivery(m) PROVE Contract!Next
  BY <1>1 DEF EnqueueDelivery, Contract!Submit, Contract!Next
<1>2. ASSUME NEW m \in Messages, Sweep(m) PROVE Contract!Next
  <2>1. status[m] \notin {"absent", "deleted"}
    BY <1>2 DEF Sweep
  <2>2. status' = [k \in Messages |-> IF k \in {m} THEN "deleted" ELSE status[k]]
    BY <1>2 DEF Sweep
  <2>3. UNCHANGED (accepted \cup dropped)
    BY <1>2 DEF Sweep
  <2>4. Contract!Forget({m})
    BY <2>1, <2>2, <2>3 DEF Contract!Forget
  <2> QED
    BY <2>4 DEF Contract!Next
<1>3. CASE DeleteWebhook
  <2> DEFINE gone == {m \in Messages : status[m] = "pending"}
  <2>1. Contract!Forget(gone)
    BY <1>3 DEF DeleteWebhook, Contract!Forget
  <2> QED
    BY <2>1 DEF Contract!Next
<1>4. ASSUME NEW w \in Workers, CallReceiver(w) PROVE Contract!Next \/ UNCHANGED Contract!dvars
  BY <1>4 DEF CallReceiver, Contract!HandOver, Contract!Next
<1>5. ASSUME NEW w \in Workers, DropDelivery(w) PROVE Contract!Next
  BY <1>5 DEF DropDelivery, Contract!HandOver, Contract!Next
<1>6. ASSUME NEW w \in Workers, RecordDelivered(w)
      PROVE  Contract!Next \/ UNCHANGED Contract!dvars
  BY <1>6 DEF RecordDelivered, Contract!Settle, Contract!Next
<1>7. ASSUME NEW w \in Workers, RecordFailure(w)
      PROVE  Contract!Next \/ UNCHANGED Contract!dvars
  BY <1>7 DEF RecordFailure, Contract!Settle, Contract!Next
<1>8. CASE \/ \E active \in BOOLEAN : SetActive(active)
           \/ \E w \in Workers : \/ Scan(w) \/ Finish(w) \/ Crash(w)
                                 \/ RecordDeliveredFails(w)
                                 \/ \E m \in Messages : Claim(w, m) \/ Skip(w, m)
           \/ Tick
           \/ UNCHANGED vars
  BY <1>8 DEF SetActive, Scan, Finish, Crash, RecordDeliveredFails, Claim, Skip, Tick, vars
<1> QED
  BY <1>1, <1>2, <1>3, <1>4, <1>5, <1>6, <1>7, <1>8 DEF Next, WorkerStep

(* dispatchOutbox with its callers implements the Delivery contract.       *)
THEOREM OutboxImplementsDelivery == Spec => ImplementsDelivery
<1>1. Init => Contract!Init /\ HandedInv
  BY DEF Init, Contract!Init, HandedInv, InFlight
<1> QED
  BY <1>1, HandedStep, ContractStep, TypeCorrect, PTL DEF Spec, ImplementsDelivery, Contract!Spec
=============================================================================
