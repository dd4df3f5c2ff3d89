-------------------------- MODULE InferenceBudgets --------------------------
(***************************************************************************)
(* One budget and the calls it covers: the in-process gateway              *)
(* (server/src/inference-gateway.ts) and an external one that redeems      *)
(* tickets (api/inference.ts), over checkInvocation and recordInvocation   *)
(* (inference.ts).  A call is checked in one transaction and metered in    *)
(* another, after the provider has answered; nothing is reserved.          *)
(***************************************************************************)
EXTENDS Naturals, Sequences, FiniteSets

CONSTANTS
  Calls,      \* calls in flight at once; each makes one call after another
  Models,     \* length of the chain of a model and its fallbacks
  Tickets,    \* ids of tickets, never used twice
  BudgetLimit, Estimate, Uses, \* of tokens: the budget's, a call's estimate, what calls may use
  BudgetWindow, \* length of the budget's window
  Lifetime,   \* of a ticket
  BudgetsMaxTime, MaxFaults  \* bounds on the clock, and on records and answers that fail

ASSUME BudgetsAssumption ==
  /\ IsFiniteSet(Calls) /\ IsFiniteSet(Tickets) /\ Calls \cap Tickets = {}
  /\ \A n \in {Models, BudgetLimit, Estimate, BudgetWindow, Lifetime, BudgetsMaxTime} : n \in Nat \ {0}
  /\ MaxFaults \in Nat
  \* A model's answers are of bounded length.
  /\ Uses \subseteq Nat /\ \E top \in Uses : \A n \in Uses : n <= top

VARIABLES
  used,      \* window -> the counter's tokens
  phase,     \* call -> idle, sent, streaming, cancelled or ending
  model,     \* call -> position in the chain
  finished,  \* call -> the stream's flag "metered"
  records,   \* call -> records on their way: tokens
  ticket,    \* ticket -> fresh, gone, or the time it ends
  budgetNow, \* the time
  faults,
  \* history
  sent,      \* call -> attempts that reached the provider, of the present call
  metered    \* call or ticket -> records stored for the present call

gateway == <<phase, model, finished, records>>
budgetVars == <<used, gateway, ticket, budgetNow, faults, sent, metered>>

Top(S) == CHOOSE x \in S : \A y \in S : y <= x

BudgetsInit ==
  /\ used = [w \in 0..(BudgetsMaxTime \div BudgetWindow) |-> 0]
  /\ phase = [c \in Calls |-> "idle"] /\ model = [c \in Calls |-> 1]
  /\ finished = [c \in Calls |-> FALSE] /\ records = [c \in Calls |-> <<>>]
  /\ ticket = [t \in Tickets |-> 0]
  /\ budgetNow = 1 /\ faults = 0
  /\ sent = [c \in Calls |-> 0] /\ metered = [x \in Calls \cup Tickets |-> 0]

-----------------------------------------------------------------------------

Period == budgetNow \div BudgetWindow

\* checkInvocation: the estimate fits and the budget is not exhausted.
Checked == used[Period] + Estimate <= BudgetLimit /\ used[Period] < BudgetLimit

\* The first model of a call.
Authorize(c) ==
  /\ phase[c] = "idle" /\ Checked
  /\ phase' = [phase EXCEPT ![c] = "sent"]
  /\ model' = [model EXCEPT ![c] = 1]
  /\ finished' = [finished EXCEPT ![c] = FALSE]
  /\ sent' = [sent EXCEPT ![c] = 1] /\ metered' = [metered EXCEPT ![c] = 0]
  /\ UNCHANGED <<used, records, ticket, budgetNow, faults>>

\* meterFor, on its way to recordInvocation.
Attempt(c, n) == records' = [records EXCEPT ![c] = Append(@, n)]

\* Unreachable, rate limited or failing, and a fallback the caller may use.
FallBack(c) ==
  /\ phase[c] = "sent" /\ records[c] = <<>> /\ Checked
  /\ \E m \in (model[c] + 1)..Models : model' = [model EXCEPT ![c] = m]
  /\ Attempt(c, 0)
  /\ sent' = [sent EXCEPT ![c] = @ + 1]
  /\ UNCHANGED <<used, phase, finished, ticket, budgetNow, faults, metered>>

\* No fallback is left or allowed, or the answer is not a stream.
Answered(c, n) ==
  /\ phase[c] = "sent" /\ records[c] = <<>>
  /\ Attempt(c, n)
  /\ phase' = [phase EXCEPT ![c] = "ending"]
  /\ UNCHANGED <<used, model, finished, ticket, budgetNow, faults, sent, metered>>

\* The plain answer breaks off while it is read: invoke throws, meters nothing.
BreaksOff(c) ==
  /\ phase[c] = "sent" /\ records[c] = <<>> /\ faults < MaxFaults
  /\ phase' = [phase EXCEPT ![c] = "ending"]
  /\ faults' = faults + 1
  /\ UNCHANGED <<used, model, finished, records, ticket, budgetNow, sent, metered>>

Streams(c) ==
  /\ phase[c] = "sent" /\ records[c] = <<>>
  /\ phase' = [phase EXCEPT ![c] = "streaming"]
  /\ UNCHANGED <<used, model, finished, records, ticket, budgetNow, faults, sent, metered>>

\* Mutant of Finish: every way a stream ends meters it.
FinishAgain(c, n) == Attempt(c, n) /\ UNCHANGED finished

Finish(c, n) ==
  IF finished[c] THEN UNCHANGED <<finished, records>>
  ELSE finished' = [finished EXCEPT ![c] = TRUE] /\ Attempt(c, n)

\* The client goes away while a read is under way, which then ends too.
Cancel(c, n) ==
  /\ phase[c] = "streaming"
  /\ Finish(c, n)
  /\ phase' = [phase EXCEPT ![c] = "cancelled"]
  /\ UNCHANGED <<used, model, ticket, budgetNow, faults, sent, metered>>

\* The read returns the end of the stream, or fails.
StreamEnds(c, n) ==
  /\ phase[c] \in {"streaming", "cancelled"}
  /\ Finish(c, n)
  /\ phase' = [phase EXCEPT ![c] = "ending"]
  /\ UNCHANGED <<used, model, ticket, budgetNow, faults, sent, metered>>

\* recordInvocation, in the window of that moment.
Record(c) ==
  /\ records[c] # <<>>
  /\ used' = [used EXCEPT ![Period] = @ + Head(records[c])]
  /\ records' = [records EXCEPT ![c] = Tail(@)]
  /\ metered' = [metered EXCEPT ![c] = @ + 1]
  /\ UNCHANGED <<phase, model, finished, ticket, budgetNow, faults, sent>>

\* It fails, which only onError learns.
RecordFails(c) ==
  /\ records[c] # <<>> /\ faults < MaxFaults
  /\ records' = [records EXCEPT ![c] = Tail(@)]
  /\ faults' = faults + 1
  /\ UNCHANGED <<used, phase, model, finished, ticket, budgetNow, sent, metered>>

Done(c) ==
  /\ phase[c] = "ending" /\ records[c] = <<>>
  /\ phase' = [phase EXCEPT ![c] = "idle"]
  /\ UNCHANGED <<used, model, finished, records, ticket, budgetNow, faults, sent, metered>>

-----------------------------------------------------------------------------
(* An external gateway *)

Gone == BudgetsMaxTime + Lifetime + 1

Check(t) ==
  /\ ticket[t] = 0 /\ Checked
  /\ ticket' = [ticket EXCEPT ![t] = budgetNow + Lifetime]
  /\ UNCHANGED <<used, gateway, budgetNow, faults, sent, metered>>

Redeemed(t) == [ticket EXCEPT ![t] = Gone]

RecordTicket(t, n) ==
  /\ ticket[t] \notin {0, Gone} /\ ticket[t] > budgetNow
  /\ ticket' = Redeemed(t)
  /\ used' = [used EXCEPT ![Period] = @ + n]
  /\ metered' = [metered EXCEPT ![t] = @ + 1]
  /\ UNCHANGED <<gateway, budgetNow, faults, sent>>

BudgetsTick ==
  /\ budgetNow < BudgetsMaxTime /\ budgetNow' = budgetNow + 1
  /\ UNCHANGED <<used, gateway, ticket, faults, sent, metered>>

BudgetsNext ==
  \/ \E c \in Calls :
       \/ Authorize(c) \/ FallBack(c) \/ BreaksOff(c) \/ Streams(c) \/ Record(c) \/ RecordFails(c) \/ Done(c)
       \/ \E n \in Uses : Answered(c, n) \/ Cancel(c, n) \/ StreamEnds(c, n)
  \/ \E t \in Tickets : Check(t) \/ \E n \in Uses : RecordTicket(t, n)
  \/ BudgetsTick

BudgetsSpec == BudgetsInit /\ [][BudgetsNext]_budgetVars

-----------------------------------------------------------------------------

\* A call is metered once for each attempt that went out, however its stream
\* ends, and none is free unless storing its record or reading its answer failed.
MeteredOnce ==
  \A c \in Calls :
    /\ metered[c] + Len(records[c]) <= sent[c]
    /\ phase[c] \in {"cancelled", "ending"} =>
         metered[c] + Len(records[c]) + faults >= sent[c]

\* A ticket pays for one call.
TicketOnce == \A t \in Tickets : metered[t] <= 1

\* What is used is recorded once, by the gateway or by whoever called with a
\* ticket.
RecordedOnce == MeteredOnce /\ TicketOnce

\* Nothing is reserved, so calls in flight can overspend together; but only
\* they, once each: however many follow one another, and in whichever window
\* they are metered, a window exceeds its limit by less than what the calls
\* that can be under way at once may use.
OverspendBounded ==
  \A w \in DOMAIN used :
    used[w] <= (BudgetLimit - 1) + Top(Uses) * (Cardinality(Calls) + Cardinality(Tickets))

\* What is spent is recorded, once, and bounded by what is checked.
SpendingHolds == RecordedOnce /\ OverspendBounded
=============================================================================
