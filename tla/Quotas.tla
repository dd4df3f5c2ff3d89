------------------------------- MODULE Quotas -------------------------------
(***************************************************************************)
(* The counters of one usage plan and one subject (server/src/quotas.ts,   *)
(* api/quotas.ts): a token bucket and a fixed window, both records that    *)
(* the retention sweep deletes.  Counting is one transaction.  A tick      *)
(* refills `rate` tokens; the plan may change under the counters.          *)
(***************************************************************************)
EXTENDS Integers

CONSTANTS
  Plans,        \* the plans an administrator chooses from: [rate, burst, limit]
  Costs,        \* what one call may ask for
  WindowStarts, \* when the windows start by the calendar
  Spare,        \* how long a full bucket or an ended window is kept
  QuotasMaxTime,     \* bound on the clock
  QuotasMaxChanges,  \* bound on changes of the plan and resets
  NoBucket

ASSUME QuotasAssumption ==
  /\ Plans \subseteq [rate : Nat \ {0}, burst : Nat \ {0}, limit : Nat]
  /\ Costs \subseteq Nat /\ Spare \in Nat
  /\ WindowStarts \subseteq Nat /\ 0 \in WindowStarts
  /\ QuotasMaxTime \in Nat /\ QuotasMaxChanges \in Nat
  /\ NoBucket \notin [tokens : Nat, at : Nat, expires : Nat]

VARIABLES
  plan,
  bucket,   \* [tokens, at, expires], or NoBucket
  window,   \* window start -> units used, 0 if there is no record
  quotaNow, \* the time
  replans,  \* changes of the plan and resets so far
  \* history
  spent,    \* time -> units allowed up to then, since the last reset
  settled,  \* those up to the last change of the plan
  highest   \* the greatest limit in force since the last reset

quotaVars == <<plan, bucket, window, quotaNow, replans, spent, settled, highest>>

Times == 0..QuotasMaxTime
Smaller(a, b) == IF a < b THEN a ELSE b
Larger(a, b) == IF a > b THEN a ELSE b

QuotasInit ==
  /\ plan \in Plans
  /\ bucket = NoBucket /\ window = [t \in Times |-> 0]
  /\ quotaNow = 0 /\ replans = 0
  /\ spent = [t \in Times |-> 0] /\ settled = 0 /\ highest = plan.limit

\* quotaWindow
StartOf(t) == CHOOSE s \in WindowStarts : s <= t /\ \A u \in WindowStarts : u <= t => u <= s

Tokens(b, t) ==
  IF b = NoBucket THEN plan.burst ELSE Smaller(plan.burst, b.tokens + (t - b.at) * plan.rate)

\* When the bucket written at t is full again, under the plan of that moment.
FullAfter(t) == t + (plan.burst + plan.rate - 1) \div plan.rate

Fits(cost) == window[StartOf(quotaNow)] + cost <= plan.limit

\* consumeQuota, if the plan allows it; a refusal counts nothing.
ConsumeQuota(cost) ==
  /\ Tokens(bucket, quotaNow) >= cost /\ Fits(cost)
  /\ bucket' = [tokens |-> Tokens(bucket, quotaNow) - cost, at |-> quotaNow,
                expires |-> FullAfter(quotaNow) + Spare]
  /\ window' = [window EXCEPT ![StartOf(quotaNow)] = @ + cost]
  /\ spent' = [t \in Times |-> IF t >= quotaNow THEN spent[t] + cost ELSE spent[t]]
  /\ UNCHANGED <<plan, quotaNow, replans, settled, highest>>

\* updatePlan; the counters stay.
UpdatePlan(new) ==
  /\ replans < QuotasMaxChanges /\ replans' = replans + 1
  /\ new # plan /\ plan' = new
  /\ settled' = spent[quotaNow] /\ highest' = Larger(highest, new.limit)
  /\ UNCHANGED <<bucket, window, quotaNow, spent>>

ResetQuota ==
  /\ replans < QuotasMaxChanges /\ replans' = replans + 1
  /\ bucket' = NoBucket /\ window' = [t \in Times |-> 0]
  /\ spent' = [t \in Times |-> 0] /\ settled' = 0 /\ highest' = plan.limit
  /\ UNCHANGED <<plan, quotaNow>>

\* sweepExpired
SweepBucket ==
  /\ bucket # NoBucket /\ bucket.expires <= quotaNow
  /\ bucket' = NoBucket
  /\ UNCHANGED <<plan, window, quotaNow, replans, spent, settled, highest>>

\* The window after it has started, and Spare has passed since.
Over(start) == \E end \in WindowStarts : start < end /\ end + Spare <= quotaNow

SweepWindow(start) ==
  /\ window[start] > 0 /\ Over(start)
  /\ window' = [window EXCEPT ![start] = 0]
  /\ UNCHANGED <<plan, bucket, quotaNow, replans, spent, settled, highest>>

QuotasTick ==
  /\ quotaNow < QuotasMaxTime /\ quotaNow' = quotaNow + 1
  /\ UNCHANGED <<plan, bucket, window, replans, spent, settled, highest>>

QuotasNext ==
  \/ \E cost \in Costs : ConsumeQuota(cost)
  \/ \E new \in Plans : UpdatePlan(new)
  \/ \E start \in Times : SweepWindow(start)
  \/ ResetQuota \/ SweepBucket \/ QuotasTick

QuotasSpec == QuotasInit /\ [][QuotasNext]_quotaVars

-----------------------------------------------------------------------------
SpentBefore(t) == IF t = 0 THEN 0 ELSE spent[t - 1]

\* Since the plan last changed, the throttle lets through no more than one
\* burst and what the rate adds, over any stretch of time, however the sweep
\* deletes buckets, those written under an earlier plan as well.
Throttled ==
  \A from \in 0..quotaNow, to \in 0..quotaNow :
    from <= to =>
      spent[to] - Larger(SpentBefore(from), settled) <= plan.burst + (to - from) * plan.rate

\* No window lets through more than the limit, although its counter is a
\* record that the sweep deletes and the limit may have been higher before.
WindowKept == \A t \in 0..quotaNow : spent[t] - SpentBefore(StartOf(t)) <= highest

\* A quota holds in both of its forms.
WithinQuota == Throttled /\ WindowKept
=============================================================================
