----------------------------- MODULE Workflows -----------------------------
(***************************************************************************)
(* Identity lifecycle workflows: packages/server/src/api/workflows.ts.     *)
(* One workflow with a mover trigger: evaluating it starts a run for each  *)
(* person whose watched value changed, held back by a daily brake, and     *)
(* workers in any process carry the runs out step by step under a lease.   *)
(* Each step is one transaction with the move of the run; a wait ends the  *)
(* claim until its time has come.                                          *)
(***************************************************************************)
EXTENDS Naturals, Sequences, FiniteSets

CONSTANTS
  People,
  Values,          \* what a watched attribute may be
  Runs,            \* identifiers of runs
  Workers,         \* calls of execute, in any process
  Steps,           \* the workflow's steps: a sequence of "act" and "wait"
  Lease,           \* leaseMs, in ticks
  Wait,            \* how long a wait step waits, in ticks
  Brake,           \* maxRunsPerDay
  MaxChanges,      \* bound on changes to people
  MaxFaults,       \* bound on failing steps and stopping workers
  MaxEdits,        \* bound on enabling again, cancelling and retrying
  MaxDays,         \* bound on the days
  Nothing

Statuses == {"pending", "waiting", "running", "completed", "failed", "cancelled"}

\* A run, as far as it matters here.
Records == [step : 0..Len(Steps), status : Statuses, dueIn : Nat, token : Workers \cup {Nothing}, leaseFor : Nat]

ASSUME WorkflowsAssumption ==
  /\ Steps \in Seq({"act", "wait"}) /\ IsFiniteSet(People)
  /\ Lease \in Nat /\ Wait \in Nat /\ Brake \in Nat /\ MaxDays \in Nat \ {0}
  /\ Nothing \notin Workers /\ Nothing \notin Records

VARIABLES
  today,
  enabled,
  value,           \* the watched value of each person
  baseline,        \* workflowSubjects: the value already acted upon
  startedOn,       \* the day of the brake's counter
  startedToday,    \* automatic runs started on it
  run,             \* id -> record, or Nothing
  worker,          \* each worker: the run it executes, and where it is
  performed,       \* history: run -> the "act" steps carried out
  early,           \* history: an act came before the wait in front of it was over
  changed,         \* history: person -> changes of the value
  fired,           \* history: person -> automatic runs since the workflow was enabled
  startedOnDay,    \* history: day -> automatic runs started
  changes, faults, edits

vars == <<today, enabled, value, baseline, startedOn, startedToday, run, worker, performed,
          early, changed, fired, startedOnDay, changes, faults, edits>>

Days == 1..MaxDays

Free == [run |-> Nothing, at |-> "free"]

Init ==
  /\ today = 1 /\ enabled = TRUE
  /\ value \in [People -> Values] /\ baseline = value
  /\ startedOn = 0 /\ startedToday = 0
  /\ run = [r \in Runs |-> Nothing]
  /\ worker = [w \in Workers |-> Free]
  /\ performed = [r \in Runs |-> 0] /\ early = FALSE
  /\ changed = [p \in People |-> 0] /\ fired = [p \in People |-> 0]
  /\ startedOnDay = [d \in Days |-> 0]
  /\ changes = 0 /\ faults = 0 /\ edits = 0

people == <<value, baseline, startedOn, startedToday, changed, fired, startedOnDay, changes>>
runs == <<run, worker, performed, early>>

----------------------------------------------------------------------------
\* Somebody edits the watched attribute of a person.
Change(p) ==
  /\ changes < MaxChanges
  /\ \E v \in Values \ {value[p]} : value' = [value EXCEPT ![p] = v]
  /\ changed' = [changed EXCEPT ![p] = @ + 1] /\ changes' = changes + 1
  /\ UNCHANGED <<today, enabled, baseline, startedOn, startedToday, fired, startedOnDay,
                 faults, edits, runs>>

Pending == [step |-> 0, status |-> "pending", dueIn |-> 0, token |-> Nothing, leaseFor |-> 0]

Candidates == {p \in People : value[p] # baseline[p]}

Allowance == IF startedOn = today THEN Brake - startedToday ELSE Brake

\* Mutant of Acted: the baseline is left to the next evaluation.
ActedLater(admitted) == baseline

\* The baseline of a person held back stays: they start on a later day.
Acted(admitted) == [p \in People |-> IF p \in admitted THEN value[p] ELSE baseline[p]]

\* As many as the day allows have a run each.
Admit(admitted, id) ==
  /\ Cardinality(admitted) = (IF Cardinality(Candidates) < Allowance
                              THEN Cardinality(Candidates) ELSE Allowance)
  /\ admitted # {}
  /\ \A p \in admitted : run[id[p]] = Nothing
  /\ \A p, q \in admitted : p # q => id[p] # id[q]
  /\ \A p \in People \ admitted : id[p] = CHOOSE r \in Runs : TRUE
  /\ run' = [r \in Runs |-> IF \E p \in admitted : id[p] = r THEN Pending ELSE run[r]]
  /\ baseline' = Acted(admitted)
  /\ startedToday' = (IF startedOn = today THEN startedToday ELSE 0) + Cardinality(admitted)
  /\ startedOn' = today
  /\ fired' = [p \in People |-> IF p \in admitted THEN fired[p] + 1 ELSE fired[p]]
  /\ startedOnDay' = [startedOnDay EXCEPT ![today] = @ + Cardinality(admitted)]

\* evaluateWorkflow, one transaction.
Evaluate ==
  /\ enabled /\ Candidates # {}
  /\ \E admitted \in SUBSET Candidates, id \in [People -> Runs] : Admit(admitted, id)
  /\ UNCHANGED <<today, enabled, value, worker, performed, early, changed, changes, faults, edits>>

\* workflows.run starts one by hand; the brake does not count it.
StartManual(r) ==
  /\ run[r] = Nothing
  /\ run' = [run EXCEPT ![r] = Pending]
  /\ UNCHANGED <<today, enabled, worker, performed, early, faults, edits, people>>

Disable ==
  /\ enabled /\ edits < MaxEdits
  /\ enabled' = FALSE /\ edits' = edits + 1
  /\ UNCHANGED <<today, faults, people, runs>>

\* Enabling takes everybody's value as the baseline; the brake goes on counting.
Enable ==
  /\ ~enabled
  /\ enabled' = TRUE /\ baseline' = value
  /\ changed' = [p \in People |-> 0] /\ fired' = [p \in People |-> 0]
  /\ UNCHANGED <<today, value, startedOn, startedToday, startedOnDay, changes, faults, edits, runs>>

----------------------------------------------------------------------------
Active(r) == run[r] # Nothing /\ run[r].status \in {"pending", "waiting", "running"}

\* Mutant of Claimable: a run somebody claimed is left to them for good.
ClaimableOnce(r) == Active(r) /\ run[r].dueIn = 0 /\ run[r].status # "running"

Claimable(r) ==
  /\ Active(r) /\ run[r].dueIn = 0
  /\ run[r].status = "running" => run[r].leaseFor = 0

Claim(w, r) ==
  /\ worker[w] = Free /\ Claimable(r)
  /\ run' = [run EXCEPT ![r].status = "running", ![r].token = w, ![r].leaseFor = Lease]
  /\ worker' = [worker EXCEPT ![w] = [run |-> r, at |-> "step"]]
  /\ UNCHANGED <<today, enabled, performed, early, faults, edits, people>>

\* Mutant of Mine: whoever claimed the run goes on with it.
MineOnce(w) == TRUE

Mine(w) == LET r == worker[w].run IN run[r].token = w /\ run[r].status = "running"

Unclaimed(record, status) == [record EXCEPT !.status = status, !.token = Nothing, !.leaseFor = 0]

GoesFree(w) == worker' = [worker EXCEPT ![w] = Free]

Lost(w) ==
  /\ worker[w].at = "step" /\ ~Mine(w)
  /\ GoesFree(w)
  /\ UNCHANGED <<today, enabled, run, performed, early, faults, edits, people>>

\* Mutant of Advanced: the step's own transaction does not move the run.
AdvancedLater(record) == [record EXCEPT !.leaseFor = Lease]

Advanced(record) == [record EXCEPT !.step = @ + 1, !.leaseFor = Lease]

Act(w) ==
  LET r == worker[w].run IN
  /\ worker[w].at = "step" /\ Mine(w)
  /\ run[r].step < Len(Steps) /\ Steps[run[r].step + 1] = "act"
  /\ run' = [run EXCEPT ![r] = Advanced(@)]
  /\ performed' = [performed EXCEPT ![r] = @ + 1]
  /\ early' = (early \/ run[r].dueIn > 0)
  \* What follows the commit (afterIdentityChange) may fail.
  /\ \/ UNCHANGED <<worker, faults>>
     \/ /\ faults < MaxFaults /\ faults' = faults + 1
        /\ worker' = [worker EXCEPT ![w].at = "failing"]
  /\ UNCHANGED <<today, enabled, edits, people>>

WaitStep(w) ==
  LET r == worker[w].run IN
  /\ worker[w].at = "step" /\ Mine(w)
  /\ run[r].step < Len(Steps) /\ Steps[run[r].step + 1] = "wait"
  /\ run' = [run EXCEPT ![r] = [Unclaimed(run[r], "waiting") EXCEPT
                                 !.step = @ + 1, !.dueIn = Wait]]
  /\ GoesFree(w)
  /\ UNCHANGED <<today, enabled, performed, early, faults, edits, people>>

Complete(w) ==
  LET r == worker[w].run IN
  /\ worker[w].at = "step" /\ Mine(w) /\ run[r].step = Len(Steps)
  /\ run' = [run EXCEPT ![r] = Unclaimed(run[r], "completed")]
  /\ GoesFree(w)
  /\ UNCHANGED <<today, enabled, performed, early, faults, edits, people>>

\* The step throws (its owner left, its group is gone) and rolls back ...
StepFails(w) ==
  /\ worker[w].at = "step" /\ Mine(w) /\ faults < MaxFaults
  /\ faults' = faults + 1
  /\ worker' = [worker EXCEPT ![w].at = "failing"]
  /\ UNCHANGED <<today, enabled, run, performed, early, edits, people>>

\* ... and a second transaction marks the run, if it is still the worker's.
MarkFailed(w) ==
  LET r == worker[w].run IN
  /\ worker[w].at = "failing"
  /\ run' = IF run[r].token = w THEN [run EXCEPT ![r] = Unclaimed(run[r], "failed")] ELSE run
  /\ GoesFree(w)
  /\ UNCHANGED <<today, enabled, performed, early, faults, edits, people>>

\* The process stops; its lease runs out.
Stop(w) ==
  /\ worker[w] # Free /\ faults < MaxFaults
  /\ faults' = faults + 1
  /\ GoesFree(w)
  /\ UNCHANGED <<today, enabled, run, performed, early, edits, people>>

----------------------------------------------------------------------------
\* cancelRun, or an edit or deletion of the workflow that cancels its runs.
Cancel(r) ==
  /\ run[r] # Nothing /\ run[r].status \notin {"completed", "cancelled"} /\ edits < MaxEdits
  /\ run' = [run EXCEPT ![r] = Unclaimed(run[r], "cancelled")]
  /\ edits' = edits + 1
  /\ UNCHANGED <<today, enabled, worker, performed, early, faults, people>>

Retry(r) ==
  /\ run[r] # Nothing /\ run[r].status = "failed" /\ edits < MaxEdits
  /\ run' = [run EXCEPT ![r].status = "pending", ![r].dueIn = 0]
  /\ edits' = edits + 1
  /\ UNCHANGED <<today, enabled, worker, performed, early, faults, people>>

Less(n) == IF n > 0 THEN n - 1 ELSE 0

Tick ==
  /\ \E r \in Runs : Active(r) /\ run[r].dueIn + run[r].leaseFor > 0
  /\ run' = [r \in Runs |-> IF ~Active(r) THEN run[r]
                            ELSE [run[r] EXCEPT !.dueIn = Less(@), !.leaseFor = Less(@)]]
  /\ UNCHANGED <<today, enabled, worker, performed, early, faults, edits, people>>

NextDay ==
  /\ today < MaxDays
  /\ today' = today + 1
  /\ UNCHANGED <<enabled, faults, edits, people, runs>>

----------------------------------------------------------------------------
Advance(w) == Act(w) \/ WaitStep(w) \/ Complete(w)

RunDue == \E w \in Workers, r \in Runs : Claim(w, r)

Next ==
  \/ \E p \in People : Change(p)
  \/ Evaluate \/ Disable \/ Enable \/ Tick \/ NextDay \/ RunDue
  \/ \E r \in Runs : StartManual(r) \/ Cancel(r) \/ Retry(r)
  \/ \E w \in Workers : Advance(w) \/ Lost(w) \/ StepFails(w) \/ MarkFailed(w) \/ Stop(w)

Spec == Init /\ [][Next]_vars

\* The scheduler calls runDue again and again; a call that does not fail or
\* stop goes on; and a step takes less than the lease, so that workers do not
\* take a run from each other forever.
Fairness ==
  /\ WF_vars(Tick) /\ WF_vars(RunDue)
  /\ SF_vars(\E w \in Workers : Advance(w))
  /\ \A w \in Workers : WF_vars(Lost(w) \/ MarkFailed(w))

FairSpec == Spec /\ Fairness

----------------------------------------------------------------------------
\* A step takes effect once, in its place and not before the wait in front of
\* it is over, however often workers stop, lose their lease, fail after the
\* commit or are retried.
StepsOnceInOrder ==
  /\ \A r \in Runs : run[r] # Nothing =>
       performed[r] = Cardinality({i \in 1..run[r].step : Steps[i] = "act"})
  /\ ~early

\* Once cancelled, a run does nothing more, whoever was executing it.
CancelledStep ==
  \A r \in Runs : run[r] # Nothing /\ run[r].status = "cancelled"
    => run'[r] = run[r] /\ performed'[r] = performed[r]

CancelledStops == [][CancelledStep]_vars

\* Every run answers a change of its own: never two for one change, though
\* evaluations are repeated by the scheduler and by every audit event.
OneRunPerChange == \A p \in People : fired[p] <= changed[p]

\* The brake holds for the day, across evaluations and edits.
BrakeHolds == \A d \in Days : startedOnDay[d] <= Brake

\* What starts by itself is due, and no more than allowed.
StartsAreDue == OneRunPerChange /\ BrakeHolds

\* A run that starts ends: done, failed or cancelled.
RunsEnd == \A r \in Runs : Active(r) ~> ~Active(r)
=============================================================================
