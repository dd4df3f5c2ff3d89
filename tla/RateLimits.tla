----------------------------- MODULE RateLimits -----------------------------
(***************************************************************************)
(* createStoreRateLimiter (packages/auth/src/rate-limit.ts): attempts of   *)
(* several processes counted in rows of authRateLimits, one per key, with  *)
(* the housekeeping beside them: the limiter's own sweep and the one of    *)
(* the retention worker (packages/server/src/lifecycle.ts).                *)
(***************************************************************************)
EXTENDS Naturals, Sequences, FiniteSets

CONSTANTS
  Attempts,      \* calls of consume
  Sweeps,        \* sweeps that may be under way
  RateLimit, RateWindow,
  RatesMaxTime,  \* bound on the clock
  MaxResets,     \* bound on resets
  NoRow

ASSUME RatesAssumption ==
  /\ RateLimit \in Nat \ {0} /\ RateWindow \in Nat \ {0}
  /\ RatesMaxTime \in Nat /\ MaxResets \in Nat
  /\ NoRow \notin Nat \cup [count : Nat, resetAt : Nat]

VARIABLES
  row,      \* the counter of the one key, or NoRow
  asked,    \* attempt -> the time it took with it, NoRow before and after
  sweep,    \* sweep -> the time of its list when the row was on it, NoRow otherwise
  ratesNow, \* the time
  resets,
  \* history
  permitted \* the attempts permitted since the last reset, in order: when, and until when their window ran

ratesVars == <<row, asked, sweep, ratesNow, resets, permitted>>

RatesInit ==
  /\ row = NoRow
  /\ asked = [a \in Attempts |-> NoRow]
  /\ sweep = [s \in Sweeps |-> NoRow]
  /\ ratesNow = 0 /\ resets = 0
  /\ permitted = <<>>

StillCounts(time) == row # NoRow /\ row.resetAt > time

\* `now` is read before the transaction waits for its turn.
Ask(a) ==
  /\ asked[a] = NoRow
  /\ asked' = [asked EXCEPT ![a] = ratesNow]
  /\ UNCHANGED <<row, sweep, ratesNow, resets, permitted>>

CounterAt(time) ==
  IF StillCounts(time) THEN row ELSE [count |-> 0, resetAt |-> time + RateWindow]

Exceeded(counter) == counter.count >= RateLimit

Consume(a) ==
  /\ asked[a] # NoRow
  /\ LET counter == CounterAt(asked[a])
     IN  IF Exceeded(counter)
           THEN UNCHANGED <<row, permitted>>
           ELSE /\ row' = [counter EXCEPT !.count = @ + 1]
                /\ permitted' = Append(permitted, [at |-> ratesNow, ends |-> counter.resetAt])
  /\ asked' = [asked EXCEPT ![a] = NoRow]
  /\ UNCHANGED <<sweep, ratesNow, resets>>

\* After a success; the attempts before it are forgiven.
Reset ==
  /\ row # NoRow /\ resets < MaxResets
  /\ row' = NoRow
  /\ resets' = resets + 1
  /\ permitted' = <<>>
  /\ UNCHANGED <<asked, sweep, ratesNow>>

SweepListsRow(s) ==
  /\ sweep[s] = NoRow /\ row # NoRow /\ ~StillCounts(ratesNow)
  /\ sweep' = [sweep EXCEPT ![s] = ratesNow]
  /\ UNCHANGED <<row, asked, ratesNow, resets, permitted>>

StillExpired(time) == ~StillCounts(time)

SweepDeletesRow(s) ==
  /\ sweep[s] # NoRow
  /\ row' = IF StillExpired(sweep[s]) THEN NoRow ELSE row
  /\ sweep' = [sweep EXCEPT ![s] = NoRow]
  /\ UNCHANGED <<asked, ratesNow, resets, permitted>>

\* No transaction waits for more than a tick.
RatesTick ==
  /\ ratesNow < RatesMaxTime /\ \A a \in Attempts : asked[a] \in {NoRow, ratesNow}
  /\ ratesNow' = ratesNow + 1
  /\ UNCHANGED <<row, asked, sweep, resets, permitted>>

RatesNext ==
  \/ \E a \in Attempts : Ask(a) \/ Consume(a)
  \/ Reset
  \/ \E s \in Sweeps : SweepListsRow(s) \/ SweepDeletesRow(s)
  \/ RatesTick

RatesSpec == RatesInit /\ [][RatesNext]_ratesVars

-----------------------------------------------------------------------------
PermittedFrom(t) ==
  {i \in DOMAIN permitted : t <= permitted[i].at /\ permitted[i].at + 1 < t + RateWindow}

\* What fixed windows promise: without a success, no stretch of a window's
\* length, less the longest wait of a transaction, permits more than two
\* windows' worth, although the sweeps delete counters that attempts of other
\* processes are restarting.
BurstBounded == \A t \in 0..RatesMaxTime : Cardinality(PermittedFrom(t)) <= 2 * RateLimit
=============================================================================
