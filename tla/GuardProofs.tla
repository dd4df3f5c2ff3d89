---------------------------- MODULE GuardProofs -----------------------------
(***************************************************************************)
(* Proofs about what is checked before a call and may be stale by the time *)
(* the call goes on: the network blocks behind a cache in every process    *)
(* (NetworkBlocks), for any number of processes, kinds of blocks and       *)
(* checks, the token budgets of the inference gateway (InferenceBudgets),  *)
(* for any number of calls in flight and tickets, and what is counted      *)
(* (Limits): attempts, for any limit, window and number of processes,      *)
(* quotas, for any plans and calendar, and seats, for any people and       *)
(* pools.                                                                  *)
(***************************************************************************)
EXTENDS NetworkBlocks, InferenceBudgets, Limits, FiniteSetTheorems, SequenceTheorems, WellFoundedInduction, TLAPS

(***************************************************************************)
(* Network blocks.                                                         *)
(***************************************************************************)
Cached == [at : Nat, list : [Kinds -> Nat]]

\* What the proofs need of the shape of a state.
BlocksShape ==
  /\ until \in [Kinds -> Nat] /\ promised \in [Kinds -> Nat] /\ changed \in [Kinds -> Nat]
  /\ change \in [in : Processes \cup {None}, kind : Kinds \cup {None}, until : Nat,
                 phase : {"none", "open", "committed"}]
  /\ change.phase # "none" => change.in \in Processes /\ change.kind \in Kinds
  /\ cache \in [Processes -> Cached \cup {None}]
  /\ check \in [Checks -> {"idle", "reading"} \cup Verdicts]
  /\ started \in [Checks -> Nat]
  /\ read \in [Checks -> [Kinds -> Nat \cup {None}]]
  /\ \A c \in Checks : check[c] # "reading" => \A k \in Kinds : read[c][k] = None
  /\ swept \subseteq Kinds
  /\ now \in Nat

\* Nothing is dated in the future.
BlocksDated ==
  /\ \A k \in Kinds : changed[k] <= now
  /\ \A p \in Processes : cache[p] # None => cache[p].at <= now
  /\ \A c \in Checks : started[c] <= now

\* The end of a block of kind k as it may be read now: the one that was
\* promised, or none when that one has lapsed and been swept.
Tracks(k, end) == end = promised[k] \/ (end = 0 /\ promised[k] <= now)

\* So it is in the table; and in what was read, or is being read, since the
\* last change.
TableTracks == \A k \in Kinds : Tracks(k, until[k])

CacheTracks ==
  \A p \in Processes, k \in Kinds :
    cache[p] # None /\ cache[p].at > changed[k] => Tracks(k, cache[p].list[k])

ReadTracks ==
  \A c \in Checks, k \in Kinds :
    check[c] = "reading" /\ read[c][k] # None /\ started[c] > changed[k] => Tracks(k, read[c][k])

BlocksInv == BlocksShape /\ BlocksDated /\ TableTracks /\ CacheTracks /\ ReadTracks

LEMMA BlocksInitInv == BlocksInit => BlocksInv
  BY BlocksAssumption
  DEF BlocksInit, BlocksInv, BlocksShape, BlocksDated, TableTracks, CacheTracks, ReadTracks,
      Tracks, NoChange, Verdicts

\* Clearing a cache costs nothing.
LEMMA ClearedTracks ==
  ASSUME BlocksInv, NEW p \in Processes, cache' = [cache EXCEPT ![p] = None],
         UNCHANGED <<promised, changed, now>>
  PROVE  /\ cache' \in [Processes -> Cached \cup {None}]
         /\ \A q \in Processes : cache'[q] # None => cache'[q].at <= now'
         /\ CacheTracks'
  BY BlocksAssumption DEF BlocksInv, BlocksShape, BlocksDated, CacheTracks, Tracks

LEMMA ChangeBlockKeeps ==
  ASSUME BlocksInv, NEW p \in Processes, NEW k \in Kinds, NEW u \in Nat, ChangeBlock(p, k, u)
  PROVE  BlocksInv'
<1>1. /\ cache' \in [Processes -> Cached \cup {None}]
      /\ \A q \in Processes : cache'[q] # None => cache'[q].at <= now'
      /\ CacheTracks'
  BY ClearedTracks DEF ChangeBlock, blocks
<1>2. BlocksShape'
  BY <1>1 DEF BlocksInv, BlocksShape, ChangeBlock, blocks, checking
<1>3. BlocksDated' /\ TableTracks' /\ ReadTracks'
  BY <1>1 DEF BlocksInv, BlocksDated, TableTracks, ReadTracks, Tracks, ChangeBlock, blocks, checking
<1> QED
  BY <1>1, <1>2, <1>3 DEF BlocksInv

LEMMA ChangeCommitsKeeps == BlocksInv /\ ChangeCommits => BlocksInv'
<1> SUFFICES ASSUME BlocksInv, ChangeCommits PROVE BlocksInv'
  OBVIOUS
<1>1. change.kind \in Kinds /\ change.until \in Nat
  BY DEF BlocksInv, BlocksShape, ChangeCommits
<1>2. BlocksShape'
  BY <1>1 DEF BlocksInv, BlocksShape, ChangeCommits, checking
<1>3. BlocksDated'
  BY <1>1 DEF BlocksInv, BlocksShape, BlocksDated, ChangeCommits, checking
<1>4. TableTracks'
  BY <1>1 DEF BlocksInv, BlocksShape, TableTracks, Tracks, ChangeCommits
<1>5. CacheTracks'
  BY <1>1 DEF BlocksInv, BlocksShape, BlocksDated, CacheTracks, Tracks, Cached, ChangeCommits
<1>6. ReadTracks'
  BY <1>1 DEF BlocksInv, BlocksShape, BlocksDated, ReadTracks, Tracks, ChangeCommits, checking
<1> QED
  BY <1>2, <1>3, <1>4, <1>5, <1>6 DEF BlocksInv

LEMMA ChangeReturnsKeeps == BlocksInv /\ ChangeReturns => BlocksInv'
<1> SUFFICES ASSUME BlocksInv, ChangeReturns PROVE BlocksInv'
  OBVIOUS
<1>1. change.in \in Processes
  BY DEF BlocksInv, BlocksShape, ChangeReturns
<1>2. /\ cache' \in [Processes -> Cached \cup {None}]
      /\ \A q \in Processes : cache'[q] # None => cache'[q].at <= now'
      /\ CacheTracks'
  BY <1>1, ClearedTracks DEF ChangeReturns, blocks
<1>3. BlocksShape'
  BY <1>2 DEF BlocksInv, BlocksShape, ChangeReturns, NoChange, blocks, checking
<1>4. BlocksDated' /\ TableTracks' /\ ReadTracks'
  BY <1>2 DEF BlocksInv, BlocksDated, TableTracks, ReadTracks, Tracks, ChangeReturns, blocks, checking
<1> QED
  BY <1>2, <1>3, <1>4 DEF BlocksInv

LEMMA CheckCachedKeeps ==
  ASSUME BlocksInv, NEW c \in Checks, CheckCached(c)
  PROVE  BlocksInv'
  BY DEF BlocksInv, BlocksShape, BlocksDated, TableTracks, CacheTracks, ReadTracks, Tracks,
         CheckCached, Verdict, Verdicts, blocks

LEMMA CheckUncachedKeeps ==
  ASSUME BlocksInv, NEW c \in Checks, CheckUncached(c)
  PROVE  BlocksInv'
  BY DEF BlocksInv, BlocksShape, BlocksDated, TableTracks, CacheTracks, ReadTracks, Tracks,
         CheckUncached, blocks

LEMMA ReadBlocksKeeps ==
  ASSUME BlocksInv, NEW c \in Checks, NEW k \in Kinds, ReadBlocks(c, k)
  PROVE  BlocksInv'
<1>1. BlocksShape'
  BY DEF BlocksInv, BlocksShape, ReadBlocks, blocks
<1>2. BlocksDated' /\ TableTracks' /\ CacheTracks'
  BY DEF BlocksInv, BlocksDated, TableTracks, CacheTracks, Tracks, ReadBlocks, blocks
<1>3. ReadTracks'
  BY DEF BlocksInv, BlocksShape, TableTracks, ReadTracks, Tracks, ReadBlocks, blocks
<1> QED
  BY <1>1, <1>2, <1>3 DEF BlocksInv

\* What was read is complete when the cache is filled with it.
LEMMA ReadComplete ==
  ASSUME BlocksInv, NEW c \in Checks, FillCache(c)
  PROVE  /\ check[c] = "reading" /\ Verdict(c, read[c])
         /\ \A k \in Kinds : read[c][k] # None
         /\ read[c] \in [Kinds -> Nat]
<1>1. read[c] \in [Kinds -> Nat \cup {None}]
  BY DEF BlocksInv, BlocksShape
<1>2. check[c] = "reading" /\ Verdict(c, read[c]) /\ \A k \in Kinds : read[c][k] # None
  BY DEF FillCache
<1>3. \A k \in Kinds : read[c][k] \in Nat
  BY <1>1, <1>2
<1> QED
  BY <1>1, <1>2, <1>3

LEMMA FillCacheKeeps ==
  ASSUME BlocksInv, NEW c \in Checks, FillCache(c)
  PROVE  BlocksInv'
<1>1. read[c] \in [Kinds -> Nat] /\ CheckIn[c] \in Processes
  BY ReadComplete, BlocksAssumption
<1>2. [at |-> started[c], list |-> read[c]] \in Cached
  BY <1>1 DEF BlocksInv, BlocksShape, Cached
<1>3. check'[c] \in Verdicts /\ \A d \in Checks \ {c} : check'[d] = check[d]
  BY DEF BlocksInv, BlocksShape, FillCache, Verdict, Verdicts
<1>4. BlocksShape'
  BY <1>1, <1>2, <1>3 DEF BlocksInv, BlocksShape, FillCache, FilledAt, Verdict, Verdicts, blocks
<1>5. BlocksDated'
  BY <1>1 DEF BlocksInv, BlocksShape, BlocksDated, FillCache, FilledAt, blocks
<1>6. TableTracks'
  BY DEF BlocksInv, TableTracks, Tracks, FillCache, blocks
<1>7. CacheTracks'
  BY <1>1 DEF BlocksInv, BlocksShape, CacheTracks, ReadTracks, Tracks, FillCache, FilledAt, blocks
<1>8. ReadTracks'
  BY <1>3 DEF BlocksInv, BlocksShape, ReadTracks, Tracks, FillCache, Verdicts, blocks
<1> QED
  BY <1>4, <1>5, <1>6, <1>7, <1>8 DEF BlocksInv

LEMMA SweepDeletesKeeps ==
  ASSUME BlocksInv, NEW p \in Processes, SweepDeletes(p)
  PROVE  BlocksInv'
<1>1. /\ cache' \in [Processes -> Cached \cup {None}]
      /\ \A q \in Processes : cache'[q] # None => cache'[q].at <= now'
      /\ CacheTracks'
  BY ClearedTracks DEF SweepDeletes
<1>2. BlocksShape'
  BY <1>1 DEF BlocksInv, BlocksShape, SweepDeletes, checking
<1>3. BlocksDated' /\ ReadTracks'
  BY <1>1 DEF BlocksInv, BlocksDated, ReadTracks, Tracks, SweepDeletes, checking
<1>4. TableTracks'
  BY DEF BlocksInv, BlocksShape, TableTracks, Tracks, SweepDeletes, StillLapsed, Lapsed
<1> QED
  BY <1>1, <1>2, <1>3, <1>4 DEF BlocksInv

LEMMA BlocksStep == BlocksInv /\ [BlocksNext]_networkVars => BlocksInv'
<1> SUFFICES ASSUME BlocksInv, [BlocksNext]_networkVars PROVE BlocksInv'
  OBVIOUS
<1>1. ASSUME NEW p \in Processes, NEW k \in Kinds, BlockNetwork(p, k) PROVE BlocksInv'
  <2>1. PICK d \in Durations : ChangeBlock(p, k, now + d)
    BY <1>1 DEF BlockNetwork
  <2>2. now + d \in Nat
    BY BlocksAssumption DEF BlocksInv, BlocksShape
  <2> QED
    BY <2>1, <2>2, ChangeBlockKeeps
<1>2. ASSUME NEW p \in Processes, NEW k \in Kinds, UnblockNetwork(p, k) PROVE BlocksInv'
  BY <1>2, ChangeBlockKeeps DEF UnblockNetwork
<1>3. CASE SweepLists
  BY <1>3 DEF BlocksInv, BlocksShape, BlocksDated, TableTracks, CacheTracks, ReadTracks, Tracks,
              SweepLists, blocks, checking
<1>4. CASE BlocksTick
  BY <1>4 DEF BlocksInv, BlocksShape, BlocksDated, TableTracks, CacheTracks, ReadTracks, Tracks,
              BlocksTick, Cached, blocks, checking
<1>5. CASE UNCHANGED networkVars
  BY <1>5 DEF BlocksInv, BlocksShape, BlocksDated, TableTracks, CacheTracks, ReadTracks, Tracks,
              networkVars, blocks, checking
<1> QED
  BY <1>1, <1>2, <1>3, <1>4, <1>5, ChangeCommitsKeeps, ChangeReturnsKeeps, CheckCachedKeeps,
     CheckUncachedKeeps, FillCacheKeeps, ReadBlocksKeeps, SweepDeletesKeeps DEF BlocksNext

\* A check that goes by a list which tracks what was promised since changes
\* that are older than the window decides as the table does now.
LEMMA ListDecides ==
  ASSUME BlocksInv, NEW list \in [Kinds -> Nat], NEW start \in Nat, NEW c \in Checks,
         Verdict(c, list),
         \A k \in Kinds : changed[k] + BlocksWindow <= start => Tracks(k, list[k])
  PROVE  IF check'[c] = "passed"
           THEN \A k \in Kinds : ~(InForce(k) /\ changed[k] + BlocksWindow <= start)
           ELSE \E k \in Kinds : InForce(k) \/ changed[k] + BlocksWindow > start
<1>1. check'[c] = IF Covers(list) THEN "refused" ELSE "passed"
  BY DEF BlocksInv, BlocksShape, Verdict
<1>2. ASSUME NEW k \in Kinds, Tracks(k, list[k]) PROVE InForce(k) <=> list[k] > now
  BY <1>2 DEF BlocksInv, BlocksShape, TableTracks, Tracks, InForce
<1>3. CASE Covers(list)
  <2>1. PICK k \in Kinds : list[k] > now
    BY <1>3 DEF Covers
  <2> QED
    BY <1>1, <1>2, <1>3, <2>1, BlocksAssumption DEF BlocksInv, BlocksShape
<1>4. CASE ~Covers(list)
  BY <1>1, <1>2, <1>4 DEF Covers
<1> QED
  BY <1>3, <1>4

LEMMA DecidedInTime ==
  ASSUME BlocksInv, BlocksNext, NEW c \in Checks, Decided(c)
  PROVE  IF check'[c] = "passed"
           THEN \A k \in Kinds : ~(InForce(k) /\ changed[k] + BlocksWindow <= Started(c))
           ELSE \E k \in Kinds : InForce(k) \/ changed[k] + BlocksWindow > Started(c)
<1>1. CheckCached(c) \/ FillCache(c)
  <2>1. ASSUME NEW d \in Checks, d # c, CheckCached(d) \/ FillCache(d) PROVE FALSE
    BY <2>1 DEF Decided, CheckCached, FillCache, Verdict, BlocksInv, BlocksShape
  <2>2. ASSUME NEW d \in Checks, CheckUncached(d) PROVE FALSE
    BY <2>2 DEF Decided, Verdicts, CheckUncached, BlocksInv, BlocksShape
  <2>3. check' # check
    BY DEF Decided
  <2> QED
    BY <2>1, <2>2, <2>3
    DEF BlocksNext, BlockNetwork, UnblockNetwork, ChangeBlock, ChangeCommits, ChangeReturns,
        ReadBlocks, SweepLists, SweepDeletes, BlocksTick, checking
<1>2. CASE CheckCached(c)
  <2> DEFINE entry == cache[CheckIn[c]]
  <2>1. entry \in Cached /\ entry # None /\ entry.at <= now /\ now - entry.at < BlocksWindow
    BY <1>2, BlocksAssumption DEF CheckCached, CacheHit, BlocksInv, BlocksShape, BlocksDated
  <2>2. Started(c) = now
    BY <1>2 DEF CheckCached, Started
  <2>3. ASSUME NEW k \in Kinds, changed[k] + BlocksWindow <= now PROVE Tracks(k, entry.list[k])
    <3>1. entry.at > changed[k]
      BY <2>1, <2>3, BlocksAssumption DEF Cached, BlocksInv, BlocksShape
    <3> QED
      BY <2>1, <3>1, BlocksAssumption DEF BlocksInv, CacheTracks
  <2>4. entry.list \in [Kinds -> Nat] /\ Verdict(c, entry.list) /\ now \in Nat
    BY <1>2, <2>1 DEF CheckCached, Cached, BlocksInv, BlocksShape
  <2> QED
    BY <2>2, <2>3, <2>4, ListDecides
<1>3. CASE FillCache(c)
  <2>1. Started(c) = started[c] /\ started[c] \in Nat
    BY <1>3 DEF FillCache, Started, BlocksInv, BlocksShape
  <2>2. read[c] \in [Kinds -> Nat] /\ Verdict(c, read[c])
    BY <1>3, ReadComplete
  <2>3. ASSUME NEW k \in Kinds, changed[k] + BlocksWindow <= started[c] PROVE Tracks(k, read[c][k])
    <3>1. started[c] > changed[k]
      <4>1. changed[k] \in Nat /\ BlocksWindow \in Nat \ {0}
        BY BlocksAssumption DEF BlocksInv, BlocksShape
      <4> QED
        BY <2>1, <2>3, <4>1
    <3>2. check[c] = "reading" /\ read[c][k] # None
      BY <1>3, ReadComplete
    <3> QED
      BY <3>1, <3>2 DEF BlocksInv, ReadTracks
  <2> QED
    BY <2>1, <2>2, <2>3, ListDecides
<1> QED
  BY <1>1, <1>2, <1>3

LEMMA BlocksAlways == BlocksSpec => []BlocksInv
  BY BlocksInitInv, BlocksStep, PTL DEF BlocksSpec

\* A block stays in the table until it lapses or is lifted, whatever the
\* sweep does; and no check that starts the length of the cache after a
\* change is decided by what was before it, in whichever process.
THEOREM BlocksAreSeenInTime == BlocksSpec => BlocksHold
<1>1. BlocksInv => PromisedBlockStays
  BY DEF BlocksInv, BlocksShape, TableTracks, Tracks, PromisedBlockStays
<1>2. BlocksSpec => []PromisedBlockStays
  BY <1>1, BlocksAlways, PTL
<1>3. BlocksInv /\ [BlocksNext]_networkVars =>
        [\A c \in Checks : Decided(c) =>
           IF check'[c] = "passed"
             THEN \A k \in Kinds : ~(InForce(k) /\ changed[k] + BlocksWindow <= Started(c))
             ELSE \E k \in Kinds : InForce(k) \/ changed[k] + BlocksWindow > Started(c)]_networkVars
  BY DecidedInTime
<1>4. BlocksSpec => StaleForWindowOnly
  BY <1>3, BlocksAlways, PTL DEF BlocksSpec, StaleForWindowOnly
<1> QED
  BY <1>2, <1>4 DEF BlocksHold

(***************************************************************************)
(* Token budgets.                                                          *)
(***************************************************************************)
Phases == {"idle", "sent", "streaming", "cancelled", "ending"}
\* What a call has on its way: a record that is not stored yet, or nothing.
OneRecord == {<<>>} \cup {<<n>> : n \in Uses \cup {0}}

Windows == 0..(BudgetsMaxTime \div BudgetWindow)

\* What the proofs need of the shape of a state.
BudgetsShape ==
  /\ used \in [Windows -> Nat]
  /\ phase \in [Calls -> Phases]
  /\ finished \in [Calls -> BOOLEAN]
  /\ records \in [Calls -> OneRecord]
  /\ ticket \in [Tickets -> Nat]
  /\ budgetNow \in 0..BudgetsMaxTime
  /\ faults \in Nat
  /\ sent \in [Calls -> Nat]
  /\ metered \in [Calls \cup Tickets -> Nat]

\* A record is worth nothing until the last answer is read; and there is one
\* for each attempt but the one that is still out.
Out(c) == IF phase[c] \in {"sent", "streaming"} THEN 1 ELSE 0

OnItsWay ==
  \A c \in Calls :
    /\ phase[c] = "sent" => records[c] \in {<<>>, <<0>>}
    /\ phase[c] \in {"idle", "streaming"} => records[c] = <<>>
    /\ phase[c] \in {"sent", "streaming"} => ~finished[c]
    /\ phase[c] = "cancelled" => finished[c]

CountedOf(c) ==
  /\ metered[c] + Len(records[c]) + Out(c) <= sent[c]
  /\ phase[c] # "idle" => metered[c] + Len(records[c]) + faults + Out(c) >= sent[c]

Counted == \A c \in Calls : CountedOf(c)

Redeeming == \A t \in Tickets : metered[t] <= IF ticket[t] = Gone THEN 1 ELSE 0

\* Those that may have spent in the present window, beyond what was checked:
\* calls that have nothing on its way, nor will before they are checked again,
\* and tickets that are gone.
SpentCalls == {c \in Calls : records[c] = <<>> /\ phase[c] \notin {"sent", "streaming"}}
SpentTickets == {t \in Tickets : ticket[t] = Gone}

Overspend(n) == (BudgetLimit - 1) + Top(Uses) * n

WindowsBounded ==
  /\ used[Period] <= Overspend(Cardinality(SpentCalls) + Cardinality(SpentTickets))
  /\ \A w \in Windows :
       /\ w < Period => used[w] <= Overspend(Cardinality(Calls) + Cardinality(Tickets))
       /\ w > Period => used[w] = 0

BudgetsInv == BudgetsShape /\ OnItsWay /\ Counted /\ Redeeming /\ WindowsBounded

(***************************************************************************)
(* About the arithmetic: windows follow the clock, and who spends adds no  *)
(* more than the largest use.                                              *)
(***************************************************************************)
LEMMA QuotientGrows ==
  ASSUME NEW L \in Nat \ {0}, NEW m \in Nat, NEW n \in Nat, m <= n
  PROVE  m \div L \in Nat /\ n \div L \in Nat /\ m \div L <= n \div L
<1> DEFINE q == m \div L
           p == n \div L
<1>1. /\ q \in Nat /\ p \in Nat
      /\ m = L * q + (m % L) /\ n = L * p + (n % L)
      /\ m % L \in 0..(L - 1) /\ n % L \in 0..(L - 1)
  OBVIOUS
<1>2. ASSUME q >= p + 1 PROVE FALSE
  <2> HIDE DEF q, p
  <2>1. L * q >= L * (p + 1) /\ L * (p + 1) = L * p + L
    BY <1>1, <1>2
  <2>2. L * q \in Nat /\ L * p \in Nat
    BY <1>1
  <2> QED
    BY <1>1, <2>1, <2>2
<1> QED
  BY <1>1, <1>2

LEMMA BudgetConstants ==
  /\ BudgetLimit \in Nat \ {0} /\ BudgetWindow \in Nat \ {0} /\ Lifetime \in Nat \ {0}
  /\ Estimate \in Nat \ {0} /\ BudgetsMaxTime \in Nat \ {0} /\ Uses \subseteq Nat
  /\ IsFiniteSet(Calls) /\ IsFiniteSet(Tickets) /\ Calls \cap Tickets = {}
  BY BudgetsAssumption

LEMMA TopIsLargest == Top(Uses) \in Nat /\ \A n \in Uses : n <= Top(Uses)
<1>1. PICK top \in Uses : \A n \in Uses : n <= top
  BY BudgetsAssumption
<1> QED
  BY <1>1, BudgetConstants DEF Top

LEMMA OverspendGrows ==
  ASSUME NEW a \in Nat, NEW b \in Nat, a <= b
  PROVE  Overspend(a) \in Nat /\ Overspend(b) \in Nat /\ Overspend(a) <= Overspend(b)
<1> DEFINE T == Top(Uses)
<1>1. T \in Nat /\ BudgetLimit - 1 \in Nat
  BY TopIsLargest, BudgetConstants
<1> HIDE DEF T
<1>2. T * a \in Nat /\ T * b \in Nat /\ T * a <= T * b
  BY <1>1
<1>3. Overspend(a) = (BudgetLimit - 1) + T * a /\ Overspend(b) = (BudgetLimit - 1) + T * b
  BY DEF Overspend, T
<1> QED
  BY <1>1, <1>2, <1>3

LEMMA OneSpendsMore ==
  ASSUME NEW a \in Nat, NEW n \in Uses
  PROVE  Overspend(a) + n <= Overspend(a + 1)
<1> DEFINE T == Top(Uses)
<1>1. T \in Nat /\ n \in Nat /\ n <= T /\ BudgetLimit - 1 \in Nat
  BY TopIsLargest, BudgetConstants
<1> HIDE DEF T
<1>2. T * a \in Nat /\ T * (a + 1) = T * a + T
  BY <1>1
<1>3. Overspend(a) = (BudgetLimit - 1) + T * a /\ Overspend(a + 1) = (BudgetLimit - 1) + T * (a + 1)
  BY DEF Overspend, T
<1> QED
  BY <1>1, <1>2, <1>3

LEMMA PeriodIsAWindow ==
  ASSUME BudgetsShape
  PROVE  Period \in Windows /\ Windows \subseteq Nat
<1>1. budgetNow \in Nat /\ budgetNow <= BudgetsMaxTime
  BY BudgetConstants DEF BudgetsShape
<1> QED
  BY <1>1, QuotientGrows, BudgetConstants DEF Period, Windows

\* Any more who may have spent are still only the calls and tickets there are.
LEMMA SpendersCounted ==
  /\ Cardinality(SpentCalls) \in Nat /\ Cardinality(SpentTickets) \in Nat
  /\ Cardinality(Calls) \in Nat /\ Cardinality(Tickets) \in Nat
  /\ Cardinality(SpentCalls) <= Cardinality(Calls)
  /\ Cardinality(SpentTickets) <= Cardinality(Tickets)
  /\ IsFiniteSet(SpentCalls) /\ IsFiniteSet(SpentTickets)
<1>1. SpentCalls \subseteq Calls /\ SpentTickets \subseteq Tickets
  BY DEF SpentCalls, SpentTickets
<1> QED
  BY <1>1, FS_Subset, FS_CardinalityType, BudgetConstants

LEMMA SpentIsBounded ==
  ASSUME BudgetsShape, WindowsBounded
  PROVE  used[Period] <= Overspend(Cardinality(Calls) + Cardinality(Tickets))
<1> DEFINE a == Cardinality(SpentCalls) + Cardinality(SpentTickets)
           b == Cardinality(Calls) + Cardinality(Tickets)
<1>1. a \in Nat /\ b \in Nat /\ a <= b
  BY SpendersCounted
<1>2. Overspend(a) <= Overspend(b) /\ Overspend(a) \in Nat /\ Overspend(b) \in Nat
  BY <1>1, OverspendGrows
<1>3. used[Period] \in Nat /\ used[Period] <= Overspend(a)
  BY PeriodIsAWindow DEF BudgetsShape, WindowsBounded
<1> QED
  BY <1>2, <1>3

\* A step that spends nothing, and after which nobody who may have spent is
\* forgotten.
LEMMA NothingSpent ==
  ASSUME BudgetsShape, WindowsBounded, UNCHANGED <<used, budgetNow>>,
         SpentCalls \subseteq SpentCalls', SpentTickets \subseteq SpentTickets'
  PROVE  WindowsBounded'
<1> DEFINE a == Cardinality(SpentCalls) + Cardinality(SpentTickets)
           b == Cardinality(SpentCalls') + Cardinality(SpentTickets')
<1>1. SpentCalls' \subseteq Calls /\ SpentTickets' \subseteq Tickets
  BY DEF SpentCalls, SpentTickets
<1>2. IsFiniteSet(SpentCalls') /\ IsFiniteSet(SpentTickets')
  BY <1>1, FS_Subset, BudgetConstants
<1>3. /\ Cardinality(SpentCalls) <= Cardinality(SpentCalls')
      /\ Cardinality(SpentTickets) <= Cardinality(SpentTickets')
  BY <1>2, FS_Subset
<1>4. a \in Nat /\ b \in Nat /\ a <= b
  BY <1>2, <1>3, SpendersCounted, FS_CardinalityType
<1>5. Overspend(a) <= Overspend(b) /\ Overspend(a) \in Nat /\ Overspend(b) \in Nat
  BY <1>4, OverspendGrows
<1>6. used[Period] \in Nat /\ used[Period] <= Overspend(a) /\ Period' = Period
  BY PeriodIsAWindow DEF BudgetsShape, WindowsBounded, Period
<1>7. used'[Period'] <= Overspend(b)
  BY <1>5, <1>6
<1>8. Overspend(b) = Overspend(Cardinality(SpentCalls) + Cardinality(SpentTickets))'
  BY DEF Overspend
<1> QED
  BY <1>6, <1>7, <1>8 DEF WindowsBounded, Overspend

\* A step in which one more spends, or what is spent is nothing.
LEMMA OneSpends ==
  ASSUME BudgetsShape, WindowsBounded, budgetNow' = budgetNow,
         NEW n \in Uses, used' = [used EXCEPT ![Period] = @ + n],
         \/ /\ SpentTickets' = SpentTickets
            /\ \E c \in Calls \ SpentCalls : SpentCalls' = SpentCalls \cup {c}
         \/ /\ SpentCalls' = SpentCalls
            /\ \E t \in Tickets \ SpentTickets : SpentTickets' = SpentTickets \cup {t}
  PROVE  WindowsBounded'
<1> DEFINE a == Cardinality(SpentCalls) + Cardinality(SpentTickets)
           b == Cardinality(SpentCalls') + Cardinality(SpentTickets')
<1>1. a \in Nat /\ b = a + 1
  <2>1. CASE /\ SpentTickets' = SpentTickets
             /\ \E c \in Calls \ SpentCalls : SpentCalls' = SpentCalls \cup {c}
    <3>1. Cardinality(SpentCalls') = Cardinality(SpentCalls) + 1
      BY <2>1, SpendersCounted, FS_AddElement
    <3> QED
      BY <2>1, <3>1, SpendersCounted
  <2>2. CASE /\ SpentCalls' = SpentCalls
             /\ \E t \in Tickets \ SpentTickets : SpentTickets' = SpentTickets \cup {t}
    <3>1. Cardinality(SpentTickets') = Cardinality(SpentTickets) + 1
      BY <2>2, SpendersCounted, FS_AddElement
    <3> QED
      BY <2>2, <3>1, SpendersCounted
  <2> QED
    BY <2>1, <2>2
<1>2. Overspend(a) + n <= Overspend(b) /\ Overspend(a) \in Nat /\ Overspend(b) \in Nat
  BY <1>1, OneSpendsMore, OverspendGrows
<1>3. /\ Period \in Windows /\ used[Period] \in Nat /\ n \in Nat
      /\ used[Period] <= Overspend(a) /\ Period' = Period
  BY PeriodIsAWindow, BudgetConstants DEF BudgetsShape, WindowsBounded, Period
<1>4. used'[Period'] <= Overspend(b)
  BY <1>2, <1>3 DEF BudgetsShape
<1>5. \A w \in Windows : w # Period => used'[w] = used[w]
  BY DEF BudgetsShape
<1>6. \A w \in Windows : (w < Period' \/ w > Period') => w # Period
  BY <1>3, PeriodIsAWindow
<1>7. Overspend(b) = Overspend(Cardinality(SpentCalls) + Cardinality(SpentTickets))'
  BY DEF Overspend
<1> QED
  BY <1>3, <1>4, <1>5, <1>6, <1>7 DEF WindowsBounded, Overspend

(***************************************************************************)
(* The steps of the gateway.                                               *)
(***************************************************************************)
LEMMA OneRecordHas ==
  /\ <<>> \in OneRecord /\ Len(<<>>) = 0
  /\ \A n \in Uses \cup {0} :
       /\ <<n>> \in OneRecord /\ <<n>> # <<>> /\ Len(<<n>>) = 1
       /\ Head(<<n>>) = n /\ Tail(<<n>>) = <<>> /\ Append(<<>>, n) = <<n>>
  /\ \A r \in OneRecord : r # <<>> => \E n \in Uses \cup {0} : r = <<n>>
  BY BudgetConstants DEF OneRecord

\* Everything but the windows.
GatewayInv == BudgetsShape /\ OnItsWay /\ Counted /\ Redeeming

\* Faults are never forgotten, so that what is counted of the calls that take
\* no step stays right.
LEMMA CountedNumbers ==
  ASSUME GatewayInv, NEW c \in Calls
  PROVE  /\ metered[c] \in Nat /\ Len(records[c]) \in Nat /\ sent[c] \in Nat /\ faults \in Nat
         /\ Out(c) \in {0, 1} /\ CountedOf(c)
<1>1. records[c] \in OneRecord /\ c \in Calls \cup Tickets
  BY DEF GatewayInv, BudgetsShape
<1>2. Len(records[c]) \in Nat
  BY <1>1, OneRecordHas
<1> QED
  BY <1>1, <1>2 DEF GatewayInv, BudgetsShape, Counted, Out

LEMMA CountedKeeps ==
  ASSUME GatewayInv, NEW c \in Calls, faults' \in Nat, faults' >= faults, CountedOf(c)',
         \A d \in Calls \ {c} : /\ phase'[d] = phase[d] /\ records'[d] = records[d]
                                /\ sent'[d] = sent[d] /\ metered'[d] = metered[d]
  PROVE  Counted'
<1> SUFFICES ASSUME NEW d \in Calls, d # c PROVE CountedOf(d)'
  BY DEF Counted
<1>1. /\ metered[d] \in Nat /\ Len(records[d]) \in Nat /\ sent[d] \in Nat /\ faults \in Nat
      /\ Out(d) \in {0, 1} /\ CountedOf(d)
  BY CountedNumbers
<1>2. /\ phase'[d] = phase[d] /\ Len(records'[d]) = Len(records[d]) /\ sent'[d] = sent[d]
      /\ metered'[d] = metered[d] /\ Out(d)' = Out(d)
  BY DEF Out
<1> QED
  BY <1>1, <1>2 DEF CountedOf

LEMMA AuthorizeKeeps ==
  ASSUME GatewayInv, WindowsBounded, NEW c \in Calls, Authorize(c)
  PROVE  GatewayInv' /\ WindowsBounded'
<1>1. phase[c] = "idle" /\ records[c] = <<>>
  BY DEF GatewayInv, OnItsWay, Authorize
<1>2. BudgetsShape'
  BY DEF GatewayInv, BudgetsShape, Phases, Authorize
<1>3. OnItsWay'
  BY <1>1 DEF GatewayInv, BudgetsShape, OnItsWay, Authorize
<1>4. Counted'
  BY <1>1, OneRecordHas, BudgetConstants DEF GatewayInv, BudgetsShape, Counted, CountedOf, Out, Authorize
<1>5. Redeeming'
  BY BudgetConstants DEF GatewayInv, BudgetsShape, Redeeming, Authorize
<1>6. WindowsBounded'
  <2> DEFINE b == Cardinality(SpentCalls') + Cardinality(SpentTickets')
  <2>1. SpentCalls' \subseteq Calls /\ SpentTickets' \subseteq Tickets
    BY DEF SpentCalls, SpentTickets
  <2>2. b \in Nat
    BY <2>1, FS_Subset, FS_CardinalityType, BudgetConstants
  <2>3. Overspend(0) \in Nat /\ Overspend(b) \in Nat /\ Overspend(0) <= Overspend(b)
    BY <2>2, OverspendGrows
  <2>4. Overspend(0) = BudgetLimit - 1
    BY TopIsLargest, BudgetConstants DEF Overspend
  <2>5. used[Period] \in Nat /\ used[Period] < BudgetLimit /\ Period' = Period /\ used' = used
    BY PeriodIsAWindow DEF GatewayInv, BudgetsShape, Authorize, Checked, Period
  <2>6. used'[Period'] <= Overspend(b)
    BY <2>3, <2>4, <2>5, BudgetConstants
  <2>7. Overspend(b) = Overspend(Cardinality(SpentCalls) + Cardinality(SpentTickets))'
    BY DEF Overspend
  <2> QED
    BY <2>5, <2>6, <2>7 DEF WindowsBounded, Overspend
<1> QED
  BY <1>2, <1>3, <1>4, <1>5, <1>6 DEF GatewayInv

\* The other steps of a call that leave the counter of the budget alone: what
\* is left to show is that who may have spent stays among those.
LEMMA GatewayWindows ==
  ASSUME GatewayInv, WindowsBounded, NEW c \in Calls, UNCHANGED <<used, budgetNow, ticket>>,
         \A d \in Calls \ {c} : phase'[d] = phase[d] /\ records'[d] = records[d],
         c \in SpentCalls => records'[c] = <<>> /\ phase'[c] \notin {"sent", "streaming"}
  PROVE  WindowsBounded'
<1>1. SpentCalls \subseteq SpentCalls' /\ SpentTickets \subseteq SpentTickets'
  BY DEF SpentCalls, SpentTickets
<1> QED
  BY <1>1, NothingSpent DEF GatewayInv

LEMMA FallBackKeeps ==
  ASSUME GatewayInv, WindowsBounded, NEW c \in Calls, FallBack(c)
  PROVE  GatewayInv' /\ WindowsBounded'
<1>1. records' = [records EXCEPT ![c] = <<0>>] /\ phase[c] = "sent" /\ records[c] = <<>>
  BY OneRecordHas DEF GatewayInv, BudgetsShape, FallBack, Attempt
<1>2. BudgetsShape'
  BY <1>1, OneRecordHas DEF GatewayInv, BudgetsShape, FallBack
<1>3. OnItsWay'
  BY <1>1 DEF GatewayInv, BudgetsShape, OnItsWay, FallBack
<1>4. Counted'
  <2>1. /\ Len(records[c]) = 0 /\ Len(records'[c]) = 1 /\ sent'[c] = sent[c] + 1
        /\ \A d \in Calls \ {c} : records'[d] = records[d] /\ sent'[d] = sent[d]
        /\ UNCHANGED <<phase, metered, faults>> /\ Out(c) = 1 /\ Out(c)' = 1
    BY <1>1, OneRecordHas DEF GatewayInv, BudgetsShape, FallBack, Out
  <2>2. CountedOf(c)'
    BY SMTT(30), <2>1, CountedNumbers DEF CountedOf
  <2> QED
    BY <2>1, <2>2, CountedNumbers, CountedKeeps
<1>5. Redeeming'
  BY DEF GatewayInv, Redeeming, FallBack
<1>6. WindowsBounded'
  BY <1>1, GatewayWindows DEF SpentCalls, FallBack, GatewayInv, BudgetsShape
<1> QED
  BY <1>2, <1>3, <1>4, <1>5, <1>6 DEF GatewayInv

LEMMA AnsweredKeeps ==
  ASSUME GatewayInv, WindowsBounded, NEW c \in Calls, NEW n \in Uses, Answered(c, n)
  PROVE  GatewayInv' /\ WindowsBounded'
<1>1. records' = [records EXCEPT ![c] = <<n>>] /\ phase[c] = "sent" /\ records[c] = <<>>
  BY OneRecordHas DEF GatewayInv, BudgetsShape, Answered, Attempt
<1>2. BudgetsShape'
  BY <1>1, OneRecordHas DEF GatewayInv, BudgetsShape, Phases, Answered
<1>3. OnItsWay'
  BY <1>1 DEF GatewayInv, BudgetsShape, OnItsWay, Answered
<1>4. Counted'
  BY <1>1, OneRecordHas, BudgetConstants DEF GatewayInv, BudgetsShape, Counted, CountedOf, Out, Answered
<1>5. Redeeming'
  BY DEF GatewayInv, Redeeming, Answered
<1>6. WindowsBounded'
  BY <1>1, GatewayWindows DEF SpentCalls, Answered, GatewayInv, BudgetsShape
<1> QED
  BY <1>2, <1>3, <1>4, <1>5, <1>6 DEF GatewayInv

LEMMA BreaksOffKeeps ==
  ASSUME GatewayInv, WindowsBounded, NEW c \in Calls, BreaksOff(c)
  PROVE  GatewayInv' /\ WindowsBounded'
<1>1. phase[c] = "sent" /\ records[c] = <<>>
  BY DEF BreaksOff
<1>2. BudgetsShape'
  BY DEF GatewayInv, BudgetsShape, Phases, BreaksOff
<1>3. OnItsWay'
  BY <1>1 DEF GatewayInv, BudgetsShape, OnItsWay, BreaksOff
<1>4. Counted'
  BY <1>1, OneRecordHas, BudgetConstants
  DEF GatewayInv, BudgetsShape, OneRecord, Counted, CountedOf, Out, BreaksOff
<1>5. Redeeming'
  BY DEF GatewayInv, Redeeming, BreaksOff
<1>6. WindowsBounded'
  BY <1>1, GatewayWindows DEF SpentCalls, BreaksOff, GatewayInv, BudgetsShape
<1> QED
  BY <1>2, <1>3, <1>4, <1>5, <1>6 DEF GatewayInv

LEMMA StreamsKeeps ==
  ASSUME GatewayInv, WindowsBounded, NEW c \in Calls, Streams(c)
  PROVE  GatewayInv' /\ WindowsBounded'
<1>1. phase[c] = "sent" /\ records[c] = <<>>
  BY DEF Streams
<1>2. BudgetsShape'
  BY DEF GatewayInv, BudgetsShape, Phases, Streams
<1>3. OnItsWay'
  BY <1>1 DEF GatewayInv, BudgetsShape, OnItsWay, Streams
<1>4. Counted'
  BY <1>1, OneRecordHas, BudgetConstants
  DEF GatewayInv, BudgetsShape, OneRecord, Counted, CountedOf, Out, Streams
<1>5. Redeeming'
  BY DEF GatewayInv, Redeeming, Streams
<1>6. WindowsBounded'
  BY <1>1, GatewayWindows DEF SpentCalls, Streams, GatewayInv, BudgetsShape
<1> QED
  BY <1>2, <1>3, <1>4, <1>5, <1>6 DEF GatewayInv

\* However a stream ends, one record is made of it.
LEMMA FinishMakesOne ==
  ASSUME GatewayInv, NEW c \in Calls, NEW n \in Uses, phase[c] \in {"streaming", "cancelled"},
         Finish(c, n)
  PROVE  /\ finished' \in [Calls -> BOOLEAN] /\ finished'[c]
         /\ records' \in [Calls -> OneRecord]
         /\ \A d \in Calls \ {c} : records'[d] = records[d] /\ finished'[d] = finished[d]
         /\ Len(records'[c]) = Len(records[c]) + Out(c) /\ Len(records[c]) \in Nat
         /\ c \in SpentCalls => records'[c] = <<>>
<1>1. CASE phase[c] = "streaming"
  <2>1. records[c] = <<>> /\ ~finished[c] /\ c \notin SpentCalls /\ Out(c) = 1
    BY <1>1 DEF GatewayInv, OnItsWay, SpentCalls, Out
  <2>2. records' = [records EXCEPT ![c] = <<n>>] /\ finished' = [finished EXCEPT ![c] = TRUE]
    BY <2>1, OneRecordHas DEF GatewayInv, BudgetsShape, Finish, Attempt
  <2> QED
    BY <2>1, <2>2, OneRecordHas DEF GatewayInv, BudgetsShape
<1>2. CASE phase[c] = "cancelled"
  <2>1. finished[c] /\ Out(c) = 0
    BY <1>2 DEF GatewayInv, OnItsWay, Out
  <2>2. records[c] \in OneRecord
    BY DEF GatewayInv, BudgetsShape
  <2>3. Len(records[c]) \in Nat
    BY <2>2, OneRecordHas
  <2> QED
    BY <2>1, <2>3 DEF GatewayInv, BudgetsShape, Finish, SpentCalls
<1> QED
  BY <1>1, <1>2

LEMMA StreamOverKeeps ==
  ASSUME GatewayInv, WindowsBounded, NEW c \in Calls, NEW n \in Uses,
         Cancel(c, n) \/ StreamEnds(c, n)
  PROVE  GatewayInv' /\ WindowsBounded'
<1>1. /\ phase[c] \in {"streaming", "cancelled"} /\ Finish(c, n)
      /\ phase' \in [Calls -> Phases] /\ phase'[c] \in {"cancelled", "ending"}
      /\ \A d \in Calls \ {c} : phase'[d] = phase[d]
      /\ UNCHANGED <<used, model, ticket, budgetNow, faults, sent, metered>>
  BY DEF Cancel, StreamEnds, GatewayInv, BudgetsShape, Phases
<1>2. /\ finished' \in [Calls -> BOOLEAN] /\ finished'[c]
      /\ records' \in [Calls -> OneRecord]
      /\ \A d \in Calls \ {c} : records'[d] = records[d] /\ finished'[d] = finished[d]
      /\ Len(records'[c]) = Len(records[c]) + Out(c) /\ Len(records[c]) \in Nat
      /\ c \in SpentCalls => records'[c] = <<>>
  BY <1>1, FinishMakesOne
<1>3. BudgetsShape'
  BY <1>1, <1>2 DEF GatewayInv, BudgetsShape
<1>4. OnItsWay'
  BY <1>1, <1>2 DEF GatewayInv, OnItsWay
<1>5. Counted'
  <2>1. Out(c)' = 0 /\ Out(c) \in {0, 1} /\ \A d \in Calls \ {c} : Out(d)' = Out(d)
    BY <1>1 DEF Out
  <2>2. sent[c] \in Nat /\ metered[c] \in Nat /\ faults \in Nat /\ phase[c] # "idle"
    BY <1>1, CountedNumbers
  <2>3. CountedOf(c)'
    <3>1. /\ metered'[c] = metered[c] /\ sent'[c] = sent[c] /\ faults' = faults
          /\ Len(records'[c]) = Len(records[c]) + Out(c) /\ Out(c)' = 0
          /\ phase[c] # "idle"
      BY <1>1, <1>2, <2>1
    <3>2. /\ metered[c] \in Nat /\ Len(records[c]) \in Nat /\ sent[c] \in Nat /\ faults \in Nat
          /\ Out(c) \in {0, 1} /\ CountedOf(c)
      BY CountedNumbers
    <3> QED
      BY <3>1, <3>2 DEF CountedOf
  <2> QED
    BY <1>1, <1>2, <2>2, <2>3, CountedKeeps
<1>6. Redeeming'
  BY <1>1 DEF GatewayInv, Redeeming
<1>7. WindowsBounded'
  BY <1>1, <1>2, GatewayWindows
<1> QED
  BY <1>3, <1>4, <1>5, <1>6, <1>7 DEF GatewayInv

LEMMA DoneKeeps ==
  ASSUME GatewayInv, WindowsBounded, NEW c \in Calls, Done(c)
  PROVE  GatewayInv' /\ WindowsBounded'
<1>1. phase[c] = "ending" /\ records[c] = <<>>
  BY DEF Done
<1>2. BudgetsShape'
  BY DEF GatewayInv, BudgetsShape, Phases, Done
<1>3. OnItsWay'
  BY <1>1 DEF GatewayInv, BudgetsShape, OnItsWay, Done
<1>4. Counted'
  BY <1>1, OneRecordHas, BudgetConstants
  DEF GatewayInv, BudgetsShape, OneRecord, Counted, CountedOf, Out, Done
<1>5. Redeeming'
  BY DEF GatewayInv, Redeeming, Done
<1>6. WindowsBounded'
  BY <1>1, GatewayWindows DEF SpentCalls, Done, GatewayInv, BudgetsShape
<1> QED
  BY <1>2, <1>3, <1>4, <1>5, <1>6 DEF GatewayInv

\* A record is stored, or is lost, and the call has nothing on its way.
LEMMA RecordTaken ==
  ASSUME GatewayInv, NEW c \in Calls, records[c] # <<>>
  PROVE  /\ Len(records[c]) = 1 /\ Tail(records[c]) = <<>> /\ Head(records[c]) \in Uses \cup {0}
         /\ phase[c] = "sent" => Head(records[c]) = 0
         /\ phase[c] \notin {"idle", "streaming"} /\ c \notin SpentCalls
<1>1. PICK n \in Uses \cup {0} : records[c] = <<n>>
  BY OneRecordHas DEF GatewayInv, BudgetsShape
<1>2. phase[c] = "sent" => records[c] = <<0>>
  BY DEF GatewayInv, OnItsWay
<1>3. Head(<<0>>) = 0
  BY OneRecordHas
<1> QED
  BY <1>1, <1>2, <1>3, OneRecordHas DEF GatewayInv, OnItsWay, SpentCalls

LEMMA RecordKeeps ==
  ASSUME GatewayInv, WindowsBounded, NEW c \in Calls, Record(c)
  PROVE  GatewayInv' /\ WindowsBounded'
<1> DEFINE n == Head(records[c])
<1>1. /\ Len(records[c]) = 1 /\ Tail(records[c]) = <<>> /\ n \in Uses \cup {0}
      /\ phase[c] = "sent" => n = 0
      /\ phase[c] \notin {"idle", "streaming"} /\ c \notin SpentCalls
  BY RecordTaken DEF Record
<1>2. /\ records' = [records EXCEPT ![c] = <<>>]
      /\ used' = [used EXCEPT ![Period] = @ + n]
      /\ metered' = [metered EXCEPT ![c] = @ + 1]
      /\ UNCHANGED <<phase, model, finished, ticket, budgetNow, faults, sent>>
  BY <1>1 DEF Record
<1>3. n \in Nat /\ Period \in Windows
  <2> HIDE DEF n
  <2> QED
    BY <1>1, BudgetConstants, PeriodIsAWindow DEF GatewayInv
<1> HIDE DEF n
<1>4. BudgetsShape'
  BY <1>2, <1>3, OneRecordHas DEF GatewayInv, BudgetsShape
<1>5. OnItsWay'
  BY <1>2 DEF GatewayInv, BudgetsShape, OnItsWay
<1>6. Counted'
  <2>1. /\ Len(records'[c]) = 0 /\ metered'[c] = metered[c] + 1 /\ metered[c] \in Nat
        /\ \A d \in Calls \ {c} : records'[d] = records[d] /\ metered'[d] = metered[d]
    BY <1>2, OneRecordHas DEF GatewayInv, BudgetsShape
  <2>2. Out(c)' = Out(c)
    BY <1>2 DEF Out
  <2>3. CountedOf(c)'
    <3>1. /\ metered'[c] = metered[c] + 1 /\ sent'[c] = sent[c] /\ faults' = faults
          /\ Len(records'[c]) = 0 /\ Len(records[c]) = 1 /\ Out(c)' = Out(c)
          /\ phase'[c] = phase[c]
      BY <1>1, <1>2, <2>1, <2>2
    <3>2. /\ metered[c] \in Nat /\ Len(records[c]) \in Nat /\ sent[c] \in Nat /\ faults \in Nat
          /\ Out(c) \in {0, 1} /\ CountedOf(c)
      BY CountedNumbers
    <3> QED
      BY <3>1, <3>2 DEF CountedOf
  <2> QED
    BY <1>2, <2>1, <2>3, CountedNumbers, CountedKeeps
<1>7. Redeeming'
  BY <1>2, BudgetConstants DEF GatewayInv, BudgetsShape, Redeeming
<1>8. WindowsBounded'
  <2>1. CASE n = 0
    <3>1. used' = used
      BY <1>2, <1>3, <2>1 DEF GatewayInv, BudgetsShape
    <3> QED
      BY <1>1, <1>2, <3>1, GatewayWindows DEF GatewayInv, BudgetsShape
  <2>2. CASE n # 0
    <3>1. n \in Uses /\ phase[c] # "sent"
      BY <1>1, <2>2
    <3>2. SpentTickets' = SpentTickets /\ SpentCalls' = SpentCalls \cup {c}
      BY <1>1, <1>2, <3>1 DEF SpentCalls, SpentTickets, GatewayInv, BudgetsShape
    <3> QED
      BY <1>1, <1>2, <3>1, <3>2, OneSpends DEF GatewayInv
  <2> QED
    BY <2>1, <2>2
<1> QED
  BY <1>4, <1>5, <1>6, <1>7, <1>8 DEF GatewayInv

LEMMA RecordFailsKeeps ==
  ASSUME GatewayInv, WindowsBounded, NEW c \in Calls, RecordFails(c)
  PROVE  GatewayInv' /\ WindowsBounded'
<1>1. /\ Len(records[c]) = 1 /\ Tail(records[c]) = <<>>
      /\ phase[c] \notin {"idle", "streaming"} /\ c \notin SpentCalls
  BY RecordTaken DEF RecordFails
<1>2. /\ records' = [records EXCEPT ![c] = <<>>]
      /\ faults' = faults + 1
      /\ UNCHANGED <<used, phase, model, finished, ticket, budgetNow, sent, metered>>
  BY <1>1 DEF RecordFails
<1>3. BudgetsShape'
  BY <1>2, OneRecordHas DEF GatewayInv, BudgetsShape
<1>4. OnItsWay'
  BY <1>2 DEF GatewayInv, BudgetsShape, OnItsWay
<1>5. Counted'
  <2>1. Len(records'[c]) = 0 /\ \A d \in Calls \ {c} : records'[d] = records[d]
    BY <1>2, OneRecordHas DEF GatewayInv, BudgetsShape
  <2>2. Out(c)' = Out(c)
    BY <1>2 DEF Out
  <2>3. CountedOf(c)'
    <3>1. /\ metered'[c] = metered[c] /\ sent'[c] = sent[c] /\ faults' = faults + 1
          /\ Len(records'[c]) = 0 /\ Len(records[c]) = 1 /\ Out(c)' = Out(c)
          /\ phase'[c] = phase[c]
      BY <1>1, <1>2, <2>1, <2>2
    <3>2. /\ metered[c] \in Nat /\ Len(records[c]) \in Nat /\ sent[c] \in Nat /\ faults \in Nat
          /\ Out(c) \in {0, 1} /\ CountedOf(c)
      BY CountedNumbers
    <3> QED
      BY <3>1, <3>2 DEF CountedOf
  <2> QED
    BY <1>2, <2>1, <2>3, CountedNumbers, CountedKeeps
<1>6. Redeeming'
  BY <1>2 DEF GatewayInv, Redeeming
<1>7. WindowsBounded'
  BY <1>1, <1>2, GatewayWindows DEF GatewayInv, BudgetsShape
<1> QED
  BY <1>3, <1>4, <1>5, <1>6, <1>7 DEF GatewayInv

(***************************************************************************)
(* The steps of an external gateway, and of the clock.                     *)
(***************************************************************************)
LEMMA CheckKeeps ==
  ASSUME GatewayInv, WindowsBounded, NEW t \in Tickets, Check(t)
  PROVE  GatewayInv' /\ WindowsBounded'
<1>1. ticket[t] = 0 /\ budgetNow + Lifetime \in Nat
  BY BudgetConstants DEF GatewayInv, BudgetsShape, Check
<1>2. Gone # 0
  BY BudgetConstants DEF Gone
<1>3. BudgetsShape'
  BY <1>1 DEF GatewayInv, BudgetsShape, Check, gateway
<1>4. OnItsWay'
  BY DEF GatewayInv, OnItsWay, Check, gateway
<1>5. Counted'
  BY DEF GatewayInv, Counted, CountedOf, Out, Check, gateway
<1>6. Redeeming'
  <2>1. metered[t] <= 0 /\ metered' = metered /\ metered[t] \in Nat
    BY <1>1, <1>2 DEF GatewayInv, BudgetsShape, Redeeming, Check
  <2>2. \A u \in Tickets \ {t} : ticket'[u] = ticket[u]
    BY DEF GatewayInv, BudgetsShape, Check
  <2> QED
    BY <2>1, <2>2 DEF GatewayInv, Redeeming, Gone
<1>7. WindowsBounded'
  <2>1. SpentCalls \subseteq SpentCalls'
    BY DEF SpentCalls, Check, gateway
  <2>2. SpentTickets \subseteq SpentTickets'
    BY <1>1, <1>2 DEF SpentTickets, GatewayInv, BudgetsShape, Check, Gone
  <2> QED
    BY <2>1, <2>2, NothingSpent DEF GatewayInv, Check
<1> QED
  BY <1>3, <1>4, <1>5, <1>6, <1>7 DEF GatewayInv

LEMMA RecordTicketKeeps ==
  ASSUME GatewayInv, WindowsBounded, NEW t \in Tickets, NEW n \in Uses, RecordTicket(t, n)
  PROVE  GatewayInv' /\ WindowsBounded'
<1>1. /\ ticket[t] # Gone /\ ticket' = [ticket EXCEPT ![t] = Gone]
      /\ used' = [used EXCEPT ![Period] = @ + n]
      /\ metered' = [metered EXCEPT ![t] = @ + 1]
      /\ UNCHANGED <<phase, model, finished, records, budgetNow, faults, sent>>
  BY DEF RecordTicket, Redeemed, gateway
<1>2. Gone \in Nat /\ n \in Nat /\ Period \in Windows /\ t \notin Calls
  BY BudgetConstants, PeriodIsAWindow DEF Gone, GatewayInv
<1>3. BudgetsShape'
  BY <1>1, <1>2 DEF GatewayInv, BudgetsShape
<1>4. OnItsWay'
  BY <1>1 DEF GatewayInv, OnItsWay
<1>5. Counted'
  BY <1>1, <1>2 DEF GatewayInv, BudgetsShape, Counted, CountedOf, Out
<1>6. Redeeming'
  <2>1. metered[t] \in Nat /\ metered[t] <= 0 /\ metered'[t] = metered[t] + 1 /\ ticket'[t] = Gone
    BY <1>1 DEF GatewayInv, BudgetsShape, Redeeming
  <2>2. \A u \in Tickets \ {t} : ticket'[u] = ticket[u] /\ metered'[u] = metered[u]
    BY <1>1 DEF GatewayInv, BudgetsShape
  <2> QED
    BY <2>1, <2>2 DEF GatewayInv, Redeeming, Gone
<1>7. WindowsBounded'
  <2>1. SpentCalls' = SpentCalls
    BY <1>1 DEF SpentCalls
  <2>2. SpentTickets' = SpentTickets \cup {t} /\ t \in Tickets \ SpentTickets
    BY <1>1, <1>2 DEF SpentTickets, GatewayInv, BudgetsShape, Gone
  <2> QED
    BY <1>1, <2>1, <2>2, OneSpends DEF GatewayInv
<1> QED
  BY <1>3, <1>4, <1>5, <1>6, <1>7 DEF GatewayInv

LEMMA BoundedNext ==
  ASSUME used'[Period'] <= Overspend(Cardinality(SpentCalls') + Cardinality(SpentTickets')),
         \A w \in Windows :
           /\ w < Period' => used'[w] <= Overspend(Cardinality(Calls) + Cardinality(Tickets))
           /\ w > Period' => used'[w] = 0
  PROVE  WindowsBounded'
  BY DEF WindowsBounded, Overspend

\* A window that is over stays as it is; nothing was spent in one to come.
LEMMA TickKeeps ==
  ASSUME GatewayInv, WindowsBounded, BudgetsTick
  PROVE  GatewayInv' /\ WindowsBounded'
<1>1. GatewayInv'
  BY BudgetConstants
  DEF GatewayInv, BudgetsShape, OnItsWay, Counted, CountedOf, Out, Redeeming, Gone, BudgetsTick, gateway
<1>2. budgetNow \in Nat /\ budgetNow + 1 \in Nat /\ budgetNow' = budgetNow + 1 /\ used' = used
  BY BudgetConstants DEF GatewayInv, BudgetsShape, BudgetsTick
<1>3. Period \in Nat /\ Period' \in Nat /\ Period <= Period'
  BY <1>2, QuotientGrows, BudgetConstants DEF Period
<1>4. Period' \in Windows /\ Windows \subseteq Nat
  <2>1. budgetNow' \in 0..BudgetsMaxTime
    BY <1>1 DEF GatewayInv, BudgetsShape
  <2>2. budgetNow' \in Nat /\ budgetNow' <= BudgetsMaxTime /\ BudgetsMaxTime \in Nat
    BY <2>1, BudgetConstants
  <2>3. budgetNow' \div BudgetWindow <= BudgetsMaxTime \div BudgetWindow
    BY <2>2, QuotientGrows, BudgetConstants
  <2>4. Period' <= BudgetsMaxTime \div BudgetWindow
    BY <2>3 DEF Period
  <2>5. BudgetsMaxTime \div BudgetWindow \in Nat
    BY <2>2, QuotientGrows, BudgetConstants
  <2> QED
    BY <1>3, <2>4, <2>5 DEF Windows
<1>5. CASE Period' = Period
  <2>1. SpentCalls' = SpentCalls /\ SpentTickets' = SpentTickets
    BY DEF SpentCalls, SpentTickets, BudgetsTick, gateway
  <2> QED
    BY <1>1, <1>2, <1>5, <2>1, BoundedNext DEF WindowsBounded
<1>6. CASE Period' > Period
  <2> DEFINE b == Cardinality(SpentCalls') + Cardinality(SpentTickets')
             all == Cardinality(Calls) + Cardinality(Tickets)
  <2>1. SpentCalls' \subseteq Calls /\ SpentTickets' \subseteq Tickets
    BY DEF SpentCalls, SpentTickets
  <2>2. b \in Nat /\ all \in Nat
    BY <2>1, FS_Subset, FS_CardinalityType, BudgetConstants
  <2>3. Overspend(b) \in Nat /\ Overspend(all) \in Nat
    BY <2>2, OverspendGrows
  <2>4. used'[Period'] <= Overspend(b)
    BY <1>2, <1>4, <1>6, <2>3 DEF WindowsBounded
  <2>5. ASSUME NEW w \in Windows, w < Period' PROVE used'[w] <= Overspend(all)
    <3>1. w < Period \/ w = Period \/ w > Period
      BY <1>3, <1>4
    <3>2. CASE w = Period
      BY <1>2, <3>2, SpentIsBounded DEF GatewayInv
    <3>3. CASE w < Period
      BY <1>2, <3>3 DEF WindowsBounded
    <3>4. CASE w > Period
      BY <1>2, <2>3, <3>4 DEF WindowsBounded
    <3> QED
      BY <3>1, <3>2, <3>3, <3>4
  <2>6. ASSUME NEW w \in Windows, w > Period' PROVE used'[w] = 0
    <3>1. w > Period
      BY <1>3, <1>4, <2>6
    <3> QED
      BY <1>2, <3>1 DEF WindowsBounded
  <2> QED
    BY <1>1, <2>4, <2>5, <2>6, BoundedNext
<1> QED
  BY <1>1, <1>3, <1>5, <1>6

LEMMA BudgetsInitInv == BudgetsInit => BudgetsInv
<1> SUFFICES ASSUME BudgetsInit PROVE BudgetsInv
  OBVIOUS
<1>1. BudgetsShape
  BY BudgetConstants, OneRecordHas DEF BudgetsInit, BudgetsShape, Windows, Phases
<1>2. OnItsWay /\ Redeeming
  BY BudgetConstants DEF BudgetsInit, OnItsWay, Redeeming, Gone
<1>3. Counted
  BY OneRecordHas DEF BudgetsInit, Counted, CountedOf, Out
<1>4. WindowsBounded
  <2>1. /\ Overspend(Cardinality(SpentCalls) + Cardinality(SpentTickets)) \in Nat
        /\ Overspend(Cardinality(Calls) + Cardinality(Tickets)) \in Nat
    BY SpendersCounted, OverspendGrows
  <2>2. \A w \in Windows : used[w] = 0
    BY DEF BudgetsInit, Windows
  <2> QED
    BY <1>1, <2>1, <2>2, PeriodIsAWindow DEF WindowsBounded
<1> QED
  BY <1>1, <1>2, <1>3, <1>4 DEF BudgetsInv

LEMMA BudgetsStep == BudgetsInv /\ [BudgetsNext]_budgetVars => BudgetsInv'
<1> SUFFICES ASSUME BudgetsInv, [BudgetsNext]_budgetVars PROVE BudgetsInv'
  OBVIOUS
<1>1. GatewayInv /\ WindowsBounded
  BY DEF BudgetsInv, GatewayInv
<1>2. CASE UNCHANGED budgetVars
  <2>1. UNCHANGED <<used, phase, finished, records, ticket, budgetNow, faults, sent, metered>>
    BY <1>2 DEF budgetVars, gateway
  <2>2. SpentCalls' = SpentCalls /\ SpentTickets' = SpentTickets
    BY <2>1 DEF SpentCalls, SpentTickets
  <2>3. WindowsBounded'
    BY <1>1, <2>1, <2>2, NothingSpent DEF GatewayInv
  <2>4. BudgetsShape' /\ OnItsWay' /\ Counted' /\ Redeeming'
    BY <2>1 DEF BudgetsInv, BudgetsShape, OnItsWay, Counted, CountedOf, Out, Redeeming
  <2> QED
    BY <2>3, <2>4 DEF BudgetsInv
<1>3. CASE BudgetsNext
  <2>1. GatewayInv' /\ WindowsBounded'
    BY <1>1, <1>3, AuthorizeKeeps, FallBackKeeps, BreaksOffKeeps, StreamsKeeps, RecordKeeps,
       RecordFailsKeeps, DoneKeeps, AnsweredKeeps, StreamOverKeeps, CheckKeeps, RecordTicketKeeps,
       TickKeeps DEF BudgetsNext
  <2> QED
    BY <2>1 DEF GatewayInv, BudgetsInv
<1> QED
  BY <1>2, <1>3

\* However many calls follow one another, a call is recorded once for each
\* attempt that was answered, a ticket once; and in no window is more spent
\* past the limit than the calls and tickets that may be out at once can use.
THEOREM SpendingIsBounded == BudgetsSpec => []SpendingHolds
<1>1. BudgetsSpec => []BudgetsInv
  BY BudgetsInitInv, BudgetsStep, PTL DEF BudgetsSpec
<1>2. ASSUME BudgetsInv PROVE SpendingHolds
  <2>1. GatewayInv /\ WindowsBounded
    BY <1>2 DEF BudgetsInv, GatewayInv
  <2>2. MeteredOnce
    <3> SUFFICES ASSUME NEW c \in Calls
                 PROVE  /\ metered[c] + Len(records[c]) <= sent[c]
                        /\ phase[c] \in {"cancelled", "ending"} =>
                             metered[c] + Len(records[c]) + faults >= sent[c]
      BY DEF MeteredOnce
    <3>1. /\ metered[c] \in Nat /\ Len(records[c]) \in Nat /\ sent[c] \in Nat /\ faults \in Nat
          /\ Out(c) \in {0, 1} /\ CountedOf(c)
      BY <2>1, CountedNumbers
    <3>2. phase[c] \in {"cancelled", "ending"} => Out(c) = 0
      BY DEF Out
    <3> QED
      BY <3>1, <3>2 DEF CountedOf
  <2>3. TicketOnce
    BY <2>1 DEF GatewayInv, BudgetsShape, Redeeming, TicketOnce
  <2>4. OverspendBounded
    <3> SUFFICES ASSUME NEW w \in Windows
                 PROVE  used[w] <= Overspend(Cardinality(Calls) + Cardinality(Tickets))
      BY <2>1 DEF OverspendBounded, Overspend, GatewayInv, BudgetsShape
    <3>1. Overspend(Cardinality(Calls) + Cardinality(Tickets)) \in Nat
      BY SpendersCounted, OverspendGrows
    <3>2. w < Period \/ w = Period \/ w > Period
      BY <2>1, PeriodIsAWindow DEF GatewayInv
    <3> QED
      BY <2>1, <3>1, <3>2, SpentIsBounded DEF GatewayInv, WindowsBounded
  <2> QED
    BY <2>2, <2>3, <2>4 DEF SpendingHolds, RecordedOnce
<1> QED
  BY <1>1, <1>2, PTL

(***************************************************************************)
(* The durable limiter.                                                    *)
(***************************************************************************)
Counters == [count : Nat, resetAt : Nat]
Permits == [at : Nat, ends : Nat]

RatesShape ==
  /\ row \in Counters \cup {NoRow}
  /\ asked \in [Attempts -> Nat \cup {NoRow}] /\ sweep \in [Sweeps -> Nat \cup {NoRow}]
  /\ ratesNow \in Nat
  /\ permitted \in Seq(Permits)

\* An attempt waits for a tick at most, a sweep's list is of some time before.
Waits ==
  /\ \A a \in Attempts : asked[a] # NoRow => asked[a] <= ratesNow /\ ratesNow <= asked[a] + 1
  /\ \A s \in Sweeps : sweep[s] # NoRow => sweep[s] <= ratesNow

\* The attempts counted in the window that ends then.
InWindow(ends) == {i \in DOMAIN permitted : permitted[i].ends = ends}

\* A window starts when those before it are over, give or take the tick that
\* an attempt waited.
WindowsApart ==
  /\ \A i \in DOMAIN permitted : permitted[i].at <= ratesNow /\ permitted[i].at <= permitted[i].ends
  /\ \A i, j \in DOMAIN permitted : permitted[i].ends < permitted[j].ends =>
       permitted[i].ends <= permitted[j].at /\ permitted[i].ends + RateWindow <= permitted[j].ends + 1

RowIsLast ==
  IF row = NoRow THEN \A i \in DOMAIN permitted : permitted[i].ends <= ratesNow
  ELSE \A i \in DOMAIN permitted : permitted[i].ends # row.resetAt =>
         permitted[i].ends <= ratesNow /\ permitted[i].ends + RateWindow <= row.resetAt + 1

\* No window takes more than the limit.  With a window of one tick the next
\* may end at the same time.
WindowsCounted ==
  RateWindow > 1 =>
    /\ \A ends \in Nat : Cardinality(InWindow(ends)) <= RateLimit
    /\ row # NoRow => Cardinality(InWindow(row.resetAt)) <= row.count /\ row.count <= RateLimit

RatesInv == RatesShape /\ Waits /\ WindowsApart /\ RowIsLast /\ WindowsCounted

LEMMA PermitsTyped == ASSUME RatesShape PROVE
  \A i \in DOMAIN permitted : permitted[i] \in Permits /\ permitted[i].at \in Nat /\ permitted[i].ends \in Nat
<1>1. \A i \in DOMAIN permitted : permitted[i] \in Permits
  BY DEF RatesShape
<1> QED
  BY <1>1 DEF Permits

LEMMA InWindowFinite == ASSUME RatesShape, NEW ends PROVE
  IsFiniteSet(InWindow(ends)) /\ Cardinality(InWindow(ends)) \in Nat
<1>1. IsFiniteSet(1..Len(permitted))
  BY FS_Interval DEF RatesShape
<1>2. InWindow(ends) \subseteq 1..Len(permitted)
  BY DEF InWindow, RatesShape
<1> QED
  BY <1>1, <1>2, FS_Subset, FS_CardinalityType

\* What a stretch takes in is of two windows.
LEMMA RatesImply == RatesInv => BurstBounded
<1> SUFFICES ASSUME RatesInv, NEW t \in 0..RatesMaxTime
             PROVE  Cardinality(PermittedFrom(t)) <= 2 * RateLimit
  BY DEF BurstBounded
<1> USE RatesAssumption
<1>0. /\ \A i \in DOMAIN permitted : permitted[i].at \in Nat /\ permitted[i].ends \in Nat
      /\ t \in Nat /\ RateWindow \in Nat \ {0} /\ RateLimit \in Nat \ {0}
  BY PermitsTyped DEF RatesInv
<1>1. CASE PermittedFrom(t) = {}
  BY <1>0, <1>1, FS_EmptySet
<1>2. CASE PermittedFrom(t) # {}
  <2>1. RateWindow > 1
    BY <1>0, <1>2 DEF PermittedFrom
  <2>2. \A i, j, k \in PermittedFrom(t) :
          ~(permitted[i].ends < permitted[j].ends /\ permitted[j].ends < permitted[k].ends)
    <3> SUFFICES ASSUME NEW i \in PermittedFrom(t), NEW j \in PermittedFrom(t), NEW k \in PermittedFrom(t),
                        permitted[i].ends < permitted[j].ends, permitted[j].ends < permitted[k].ends
                 PROVE  FALSE
      OBVIOUS
    <3>1. /\ permitted[i].at <= permitted[i].ends
          /\ permitted[i].ends + RateWindow <= permitted[j].ends + 1
          /\ permitted[j].ends <= permitted[k].at
      BY DEF PermittedFrom, RatesInv, WindowsApart
    <3>2. t <= permitted[i].at /\ permitted[k].at + 1 < t + RateWindow
      BY DEF PermittedFrom
    <3>3. {i, j, k} \subseteq DOMAIN permitted
      BY DEF PermittedFrom
    <3> QED
      BY <1>0, <3>1, <3>2, <3>3
  <2>3. PICK a, b \in Nat : PermittedFrom(t) \subseteq InWindow(a) \cup InWindow(b)
    <3>1. PermittedFrom(t) \subseteq DOMAIN permitted
      BY DEF PermittedFrom
    <3>2. PICK i \in PermittedFrom(t) : TRUE
      BY <1>2
    <3>3. CASE \A j \in PermittedFrom(t) : permitted[j].ends = permitted[i].ends
      BY <1>0, <3>1, <3>2, <3>3 DEF InWindow
    <3>4. CASE \E j \in PermittedFrom(t) : permitted[j].ends # permitted[i].ends
      <4> PICK j \in PermittedFrom(t) : permitted[j].ends # permitted[i].ends
        BY <3>4
      <4>1. ASSUME NEW k \in PermittedFrom(t)
            PROVE  permitted[k].ends = permitted[i].ends \/ permitted[k].ends = permitted[j].ends
        <5>1. /\ permitted[i].ends \in Nat /\ permitted[j].ends \in Nat /\ permitted[k].ends \in Nat
          BY <1>0, <3>1, <3>2
        <5> QED
          BY <2>2, <3>2, <5>1
      <4>2. \A k \in PermittedFrom(t) : k \in InWindow(permitted[i].ends) \/ k \in InWindow(permitted[j].ends)
        BY <3>1, <4>1 DEF InWindow
      <4> QED
        BY <1>0, <3>1, <3>2, <4>2
    <3> QED
      BY <3>3, <3>4
  <2>4. /\ Cardinality(InWindow(a)) <= RateLimit /\ Cardinality(InWindow(b)) <= RateLimit
        /\ IsFiniteSet(InWindow(a)) /\ IsFiniteSet(InWindow(b))
        /\ Cardinality(InWindow(a)) \in Nat /\ Cardinality(InWindow(b)) \in Nat
    BY <2>1, InWindowFinite DEF RatesInv, WindowsCounted
  <2> DEFINE both == InWindow(a) \cup InWindow(b)
  <2>5. /\ IsFiniteSet(both) /\ Cardinality(both) \in Nat
        /\ Cardinality(both) <= Cardinality(InWindow(a)) + Cardinality(InWindow(b))
    <3>1. /\ IsFiniteSet(both)
          /\ Cardinality(both) = Cardinality(InWindow(a)) + Cardinality(InWindow(b))
                                   - Cardinality(InWindow(a) \cap InWindow(b))
      BY <2>4, FS_Union
    <3>2. Cardinality(InWindow(a) \cap InWindow(b)) \in Nat
      BY <2>4, FS_Subset, FS_CardinalityType
    <3> QED
      BY <2>4, <3>1, <3>2, FS_CardinalityType
  <2>6. Cardinality(PermittedFrom(t)) <= Cardinality(both) /\ Cardinality(PermittedFrom(t)) \in Nat
    BY <2>3, <2>5, FS_Subset, FS_CardinalityType
  <2> HIDE DEF both
  <2> QED
    BY <1>0, <2>4, <2>5, <2>6
<1> QED
  BY <1>1, <1>2

LEMMA RatesInitInv == RatesInit => RatesInv
<1> SUFFICES ASSUME RatesInit PROVE RatesInv
  OBVIOUS
<1> USE RatesAssumption DEF RatesInit
<1>1. RatesShape /\ Waits /\ WindowsApart /\ RowIsLast
  BY DEF RatesShape, Waits, WindowsApart, RowIsLast
<1>2. \A ends \in Nat : InWindow(ends) = {}
  BY DEF InWindow
<1>3. \A ends \in Nat : Cardinality(InWindow(ends)) <= RateLimit
  <2>1. 0 <= RateLimit
    BY RatesAssumption
  <2> TAKE ends \in Nat
  <2>2. InWindow(ends) = {}
    BY <1>2
  <2> QED
    BY <2>1, <2>2, FS_EmptySet
<1>4. WindowsCounted
  BY <1>3 DEF WindowsCounted
<1> QED
  BY <1>1, <1>4 DEF RatesInv

\* Nothing is permitted and the row stays: whoever asks or waits.
LEMMA WaitingInv ==
  ASSUME RatesInv, UNCHANGED <<row, permitted>>, ratesNow' \in Nat, ratesNow <= ratesNow',
         asked' \in [Attempts -> Nat \cup {NoRow}], sweep' \in [Sweeps -> Nat \cup {NoRow}], Waits'
  PROVE  RatesInv'
<1>1. RatesShape'
  BY DEF RatesInv, RatesShape
<1>2. WindowsApart'
  BY PermitsTyped DEF RatesInv, RatesShape, WindowsApart
<1>3. RowIsLast'
  BY PermitsTyped DEF RatesInv, RatesShape, RowIsLast
<1>4. WindowsCounted'
  BY DEF RatesInv, WindowsCounted, InWindow
<1> QED
  BY <1>1, <1>2, <1>3, <1>4 DEF RatesInv

LEMMA AskInv == ASSUME RatesInv, NEW a \in Attempts, Ask(a) PROVE RatesInv'
<1>1. asked' \in [Attempts -> Nat \cup {NoRow}] /\ sweep' \in [Sweeps -> Nat \cup {NoRow}] /\ ratesNow' \in Nat
  BY DEF Ask, RatesInv, RatesShape
<1>2. Waits'
  BY RatesAssumption DEF Ask, RatesInv, RatesShape, Waits
<1> QED
  BY <1>1, <1>2, WaitingInv DEF Ask, RatesInv, RatesShape

LEMMA SweepListsInv == ASSUME RatesInv, NEW s \in Sweeps, SweepListsRow(s) PROVE RatesInv'
<1>1. asked' \in [Attempts -> Nat \cup {NoRow}] /\ sweep' \in [Sweeps -> Nat \cup {NoRow}] /\ ratesNow' \in Nat
  BY DEF SweepListsRow, RatesInv, RatesShape
<1>2. Waits'
  BY RatesAssumption DEF SweepListsRow, RatesInv, RatesShape, Waits
<1> QED
  BY <1>1, <1>2, WaitingInv DEF SweepListsRow, RatesInv, RatesShape

LEMMA RatesTickInv == ASSUME RatesInv, RatesTick PROVE RatesInv'
<1>1. asked' \in [Attempts -> Nat \cup {NoRow}] /\ sweep' \in [Sweeps -> Nat \cup {NoRow}] /\ ratesNow' \in Nat
  BY DEF RatesTick, RatesInv, RatesShape
<1>2. Waits'
  BY RatesAssumption DEF RatesTick, RatesInv, RatesShape, Waits
<1> QED
  BY <1>1, <1>2, WaitingInv DEF RatesTick, RatesInv, RatesShape

\* A row that is deleted had ended.
LEMMA SweepDeletesInv == ASSUME RatesInv, NEW s \in Sweeps, SweepDeletesRow(s) PROVE RatesInv'
<1>1. asked' \in [Attempts -> Nat \cup {NoRow}] /\ sweep' \in [Sweeps -> Nat \cup {NoRow}] /\ ratesNow' = ratesNow
  BY DEF SweepDeletesRow, RatesInv, RatesShape
<1>2. Waits'
  BY <1>1 DEF SweepDeletesRow, RatesInv, RatesShape, Waits
<1>3. CASE row' = row
  BY <1>1, <1>2, <1>3, WaitingInv DEF SweepDeletesRow, RatesInv, RatesShape
<1>4. CASE row' = NoRow /\ row # NoRow
  <2>1. row \in Counters /\ row.resetAt <= ratesNow
    BY <1>4 DEF SweepDeletesRow, StillExpired, StillCounts, RatesInv, RatesShape, Waits, Counters
  <2>2. RatesShape' /\ WindowsApart'
    BY <1>1, <1>4 DEF SweepDeletesRow, RatesInv, RatesShape, WindowsApart
  <2>3. RowIsLast'
    BY <1>1, <1>4, <2>1 DEF SweepDeletesRow, RatesInv, RowIsLast
  <2>4. WindowsCounted'
    BY <1>4 DEF SweepDeletesRow, RatesInv, WindowsCounted, InWindow
  <2> QED
    BY <1>2, <2>2, <2>3, <2>4 DEF RatesInv
<1> QED
  BY <1>3, <1>4 DEF SweepDeletesRow

LEMMA ResetInv == ASSUME RatesInv, Reset PROVE RatesInv'
<1>1. RatesShape' /\ Waits' /\ WindowsApart' /\ RowIsLast'
  BY RatesAssumption DEF Reset, RatesInv, RatesShape, Waits, WindowsApart, RowIsLast
<1>2. \A ends \in Nat : InWindow(ends)' = {}
  BY DEF InWindow, Reset
<1>3. \A ends \in Nat : Cardinality(InWindow(ends)') <= RateLimit
  <2>1. 0 <= RateLimit
    BY RatesAssumption
  <2> TAKE ends \in Nat
  <2>2. InWindow(ends)' = {}
    BY <1>2
  <2> QED
    BY <2>1, <2>2, FS_EmptySet
<1>4. WindowsCounted'
  BY <1>3 DEF WindowsCounted, Reset
<1> QED
  BY <1>1, <1>4 DEF RatesInv

\* Either the counter of a window that runs, or a new one after all others.
LEMMA ConsumeInv == ASSUME RatesInv, NEW a \in Attempts, Consume(a) PROVE RatesInv'
<1> USE RatesAssumption
<1> DEFINE counter == CounterAt(asked[a])
           entry == [at |-> ratesNow, ends |-> counter.resetAt]
<1>1. /\ asked' \in [Attempts -> Nat \cup {NoRow}] /\ UNCHANGED <<sweep, ratesNow>> /\ ratesNow \in Nat
      /\ asked[a] \in Nat /\ asked[a] <= ratesNow /\ ratesNow <= asked[a] + 1
  BY DEF Consume, RatesInv, RatesShape, Waits
<1>2. Waits'
  BY <1>1 DEF Consume, RatesInv, RatesShape, Waits
<1>3. CASE Exceeded(counter)
  <2>1. UNCHANGED <<row, permitted>>
    BY <1>3 DEF Consume
  <2> QED
    BY <1>1, <1>2, <2>1, WaitingInv DEF RatesInv, RatesShape
<1>4. CASE ~Exceeded(counter)
  <2>1. counter \in Counters /\ counter.count < RateLimit
    BY <1>1, <1>4 DEF CounterAt, StillCounts, Exceeded, Counters, RatesInv, RatesShape
  <2>2. row' = [counter EXCEPT !.count = @ + 1] /\ permitted' = Append(permitted, entry)
    BY <1>4 DEF Consume
  <2>3. row' \in Counters /\ row' # NoRow /\ row'.resetAt = counter.resetAt /\ row'.count = counter.count + 1
    BY <2>1, <2>2 DEF Counters
  <2> DEFINE n == Len(permitted)
  <2>4. /\ permitted \in Seq(Permits) /\ permitted' \in Seq(Permits)
        /\ n \in Nat /\ DOMAIN permitted = 1..n /\ DOMAIN permitted' = 1..(n + 1)
        /\ \A i \in 1..n : /\ permitted'[i] = permitted[i] /\ permitted[i] \in Permits
                           /\ permitted[i].at \in Nat /\ permitted[i].ends \in Nat
        /\ permitted'[n + 1] = entry
    <3>1. permitted \in Seq(Permits) /\ entry \in Permits
      BY <1>1, <2>1 DEF RatesInv, RatesShape, Counters, Permits
    <3>2. \A i \in DOMAIN permitted : permitted[i].at \in Nat /\ permitted[i].ends \in Nat
      BY PermitsTyped DEF RatesInv
    <3> QED
      BY <2>2, <3>1, <3>2
  <2>over. ~StillCounts(asked[a]) => \A i \in 1..n : permitted[i].ends <= ratesNow
    <3> SUFFICES ASSUME ~StillCounts(asked[a]), NEW i \in 1..n PROVE permitted[i].ends <= ratesNow
      OBVIOUS
    <3>1. CASE row = NoRow
      BY <2>4, <3>1 DEF RatesInv, RowIsLast
    <3>2. CASE row # NoRow
      <4>1. row \in Counters /\ row.resetAt <= asked[a] /\ row.resetAt \in Nat
        BY <1>1, <3>2 DEF StillCounts, RatesInv, RatesShape, Counters
      <4>2. permitted[i].ends # row.resetAt => permitted[i].ends <= ratesNow
        BY <2>4, <3>2 DEF RatesInv, RowIsLast
      <4> QED
        BY <1>1, <2>4, <4>1, <4>2
    <3> QED
      BY <3>1, <3>2
  \* Where the counter is about, with respect to the windows before it.
  <2>5. \A i \in 1..n : permitted[i].ends # counter.resetAt =>
          permitted[i].ends <= ratesNow /\ permitted[i].ends + RateWindow <= counter.resetAt + 1
    <3>1. CASE StillCounts(asked[a])
      BY <2>4, <3>1 DEF CounterAt, StillCounts, RatesInv, RowIsLast
    <3>2. CASE ~StillCounts(asked[a])
      <4>1. counter.resetAt = asked[a] + RateWindow
        BY <3>2 DEF CounterAt
      <4>2. \A i \in 1..n : permitted[i].ends <= ratesNow
        BY <2>over, <3>2
      <4> QED
        BY <1>1, <2>4, <4>1, <4>2
    <3> QED
      BY <3>1, <3>2
  <2>6. ratesNow <= counter.resetAt
    BY <1>1 DEF CounterAt, StillCounts, RatesInv, RatesShape, Counters
  <2> HIDE DEF counter, n
  <2>7. RatesShape'
    BY <1>1, <2>3, <2>4 DEF RatesShape, RatesInv
  <2>8. WindowsApart'
    <3>1. \A i \in 1..(n + 1) : permitted'[i].at <= ratesNow /\ permitted'[i].at <= permitted'[i].ends
      <4>1. \A i \in 1..n : permitted'[i].at <= ratesNow /\ permitted'[i].at <= permitted'[i].ends
        BY <2>4 DEF RatesInv, WindowsApart
      <4>2. entry.at <= ratesNow /\ entry.at <= entry.ends
        BY <1>1, <2>6
      <4>3. \A i \in 1..(n + 1) : i \in 1..n \/ i = n + 1
        BY <2>4
      <4> HIDE DEF entry
      <4> QED
        BY <2>4, <4>1, <4>2, <4>3
    <3>2. \A i, j \in 1..n : permitted'[i].ends < permitted'[j].ends =>
            permitted'[i].ends <= permitted'[j].at /\ permitted'[i].ends + RateWindow <= permitted'[j].ends + 1
      BY <2>4 DEF RatesInv, WindowsApart
    <3>3. \A i \in 1..n :
            /\ permitted'[i].ends < entry.ends =>
                 permitted'[i].ends <= entry.at /\ permitted'[i].ends + RateWindow <= entry.ends + 1
            /\ ~(entry.ends < permitted'[i].ends)
      <4> TAKE i \in 1..n
      <4>1. permitted'[i] = permitted[i] /\ permitted[i].ends \in Nat /\ permitted[i].at \in Nat
        BY <2>4
      <4>2. entry.at = ratesNow /\ entry.ends = counter.resetAt /\ counter.resetAt \in Nat
        BY <2>1 DEF Counters
      <4>3. permitted[i].ends # counter.resetAt =>
              permitted[i].ends <= ratesNow /\ permitted[i].ends + RateWindow <= counter.resetAt + 1
        BY <2>5
      <4> HIDE DEF entry
      <4> QED
        BY <1>1, <4>1, <4>2, <4>3
    <3>4. ~(entry.ends < entry.ends)
      BY <2>1 DEF Counters
    <3>5. \A i \in 1..(n + 1) : i \in 1..n \/ i = n + 1
      BY <2>4
    <3>6. \A i, j \in 1..(n + 1) : permitted'[i].ends < permitted'[j].ends =>
            permitted'[i].ends <= permitted'[j].at /\ permitted'[i].ends + RateWindow <= permitted'[j].ends + 1
      BY <2>4, <3>2, <3>3, <3>4, <3>5
    <3> QED
      BY <1>1, <2>4, <3>1, <3>6 DEF WindowsApart
  <2>9. RowIsLast'
    BY <1>1, <2>3, <2>4, <2>5 DEF RowIsLast
  <2>10. WindowsCounted'
    <3> SUFFICES ASSUME RateWindow > 1 PROVE WindowsCounted'
      BY DEF WindowsCounted
    <3>0. PICK e \in Nat : e = counter.resetAt
      BY <2>1 DEF Counters
    <3> DEFINE own == InWindow(e)
    <3> \A i \in 1..(n + 1) : i \in 1..n \/ i = n + 1
      BY <2>4
    <3> permitted'[n + 1].ends = e
      BY <2>4, <3>0
    <3>1. \A ends \in Nat \ {e} : InWindow(ends)' = InWindow(ends)
      BY <2>4, <3>0 DEF InWindow
    <3>2. InWindow(e)' = own \cup {n + 1} /\ n + 1 \notin own
      <4> HIDE DEF entry
      <4>1. InWindow(e)' = {i \in 1..(n + 1) : permitted'[i].ends = e}
        BY <2>4 DEF InWindow
      <4>2. own = {i \in 1..n : permitted[i].ends = e}
        BY <2>4 DEF InWindow
      <4> HIDE DEF own
      <4> QED
        BY <2>4, <4>1, <4>2
    <3>3. Cardinality(own) <= counter.count
      <4>1. CASE StillCounts(asked[a])
        BY <3>0, <4>1 DEF counter, CounterAt, StillCounts, RatesInv, WindowsCounted
      <4>2. CASE ~StillCounts(asked[a])
        <5>1. e = asked[a] + RateWindow /\ counter.count = 0
          BY <3>0, <4>2 DEF counter, CounterAt
        <5>2. \A i \in 1..n : permitted[i].ends <= ratesNow
          BY <2>over, <4>2
        <5>3. own = {}
          BY <1>1, <2>4, <5>1, <5>2 DEF InWindow
        <5> QED
          BY <5>1, <5>3, FS_EmptySet
      <4> QED
        BY <4>1, <4>2
    <3>4. IsFiniteSet(own) /\ Cardinality(own) \in Nat
      BY InWindowFinite DEF RatesInv
    <3>5. Cardinality(InWindow(e)') = Cardinality(own) + 1
      BY <3>2, <3>4, FS_AddElement
    <3> HIDE DEF own
    <3>6. Cardinality(InWindow(e)') <= RateLimit
          /\ Cardinality(InWindow(e)') <= row'.count /\ row'.count <= RateLimit
      BY <2>1, <2>3, <3>3, <3>4, <3>5 DEF Counters
    <3>7. \A ends \in Nat : Cardinality(InWindow(ends)') <= RateLimit
      <4>1. \A ends \in Nat : Cardinality(InWindow(ends)) <= RateLimit
        BY DEF RatesInv, WindowsCounted
      <4>2. \A ends \in Nat \ {e} : Cardinality(InWindow(ends)') <= RateLimit
        BY <3>1, <4>1
      <4> QED
        BY <3>6, <4>2
    <3>8. row'.resetAt = e /\ InWindow(row.resetAt)' = InWindow(e)'
      BY <2>3, <3>0 DEF InWindow
    <3> QED
      BY <2>3, <3>6, <3>7, <3>8 DEF WindowsCounted
  <2> QED
    BY <1>2, <2>7, <2>8, <2>9, <2>10 DEF RatesInv
<1> QED
  BY <1>3, <1>4

LEMMA RatesSame == ASSUME RatesInv, UNCHANGED ratesVars PROVE RatesInv'
BY DEF ratesVars, RatesInv, RatesShape, Waits, WindowsApart, RowIsLast, WindowsCounted, InWindow

LEMMA BurstsAlwaysBounded == RatesSpec => []BurstBounded
<1>1. RatesInit => RatesInv
  BY RatesInitInv
<1>2. RatesInv /\ [RatesNext]_ratesVars => RatesInv'
  BY AskInv, ConsumeInv, ResetInv, SweepListsInv, SweepDeletesInv, RatesTickInv, RatesSame DEF RatesNext
<1>3. RatesInv => BurstBounded
  BY RatesImply
<1> QED
  BY <1>1, <1>2, <1>3, PTL DEF RatesSpec

(***************************************************************************)
(* The limiter in memory.                                                  *)
(***************************************************************************)
Entries == [key : Keys, count : Nat, resetAt : Nat]

\* Entries as a map of the limiter has them: one of a key, those that end
\* first in front.
Tidy(s) ==
  /\ s \in Seq(Entries)
  /\ \A i, j \in DOMAIN s : s[i].key = s[j].key => i = j
  /\ \A i, j \in DOMAIN s : i <= j => s[i].resetAt <= s[j].resetAt
  /\ \A i \in DOMAIN s : s[i].resetAt <= memoryNow + MemoryWindow

MemoryInv == memoryNow \in Nat /\ Tidy(counters) /\ Len(counters) <= MaxKeys

LEMMA EntriesTyped == ASSUME NEW s, s \in Seq(Entries) PROVE
  /\ Len(s) \in Nat /\ DOMAIN s = 1..Len(s)
  /\ \A i \in DOMAIN s : s[i] \in Entries /\ s[i].key \in Keys /\ s[i].count \in Nat /\ s[i].resetAt \in Nat
<1>1. Len(s) \in Nat /\ DOMAIN s = 1..Len(s) /\ \A i \in DOMAIN s : s[i] \in Entries
  OBVIOUS
<1> QED
  BY <1>1 DEF Entries

\* What is left of a map when entries go from its front, or one of them.
FrontCut(s, a, c) ==
  /\ Tidy(c) /\ Len(c) = Len(s) - a + 1
  /\ \A i \in 1..Len(c) : i + a - 1 \in DOMAIN s /\ c[i] = s[i + a - 1]

LEMMA CutTidy == ASSUME NEW s, Tidy(s), NEW a \in 1..(Len(s) + 1) PROVE FrontCut(s, a, SubSeq(s, a, Len(s)))
<1> DEFINE c == SubSeq(s, a, Len(s))
<1>1. s \in Seq(Entries) /\ Len(s) \in Nat /\ DOMAIN s = 1..Len(s)
  BY EntriesTyped DEF Tidy
<1>2. Len(c) = Len(s) - a + 1 /\ \A i \in 1..Len(c) : i + a - 1 \in DOMAIN s /\ c[i] = s[i + a - 1]
  BY <1>1
<1>3. c \in Seq(Entries) /\ DOMAIN c = 1..Len(c) /\ Len(c) \in Nat
  BY <1>1
<1> HIDE DEF c
<1>4. \A i, j \in DOMAIN c : c[i].key = c[j].key => i = j
  <2> SUFFICES ASSUME NEW i \in 1..Len(c), NEW j \in 1..Len(c), c[i].key = c[j].key PROVE i = j
    BY <1>3
  <2>1. /\ i + a - 1 \in DOMAIN s /\ c[i] = s[i + a - 1]
        /\ j + a - 1 \in DOMAIN s /\ c[j] = s[j + a - 1]
    BY <1>2
  <2>2. i + a - 1 = j + a - 1
    BY <2>1 DEF Tidy
  <2> QED
    BY <2>2
<1>5. \A i, j \in DOMAIN c : i <= j => c[i].resetAt <= c[j].resetAt
  <2> SUFFICES ASSUME NEW i \in 1..Len(c), NEW j \in 1..Len(c), i <= j PROVE c[i].resetAt <= c[j].resetAt
    BY <1>3
  <2>1. /\ i + a - 1 \in DOMAIN s /\ c[i] = s[i + a - 1]
        /\ j + a - 1 \in DOMAIN s /\ c[j] = s[j + a - 1]
    BY <1>2
  <2>2. i + a - 1 <= j + a - 1
    BY <1>1
  <2> QED
    BY <2>1, <2>2 DEF Tidy
<1>6. \A i \in DOMAIN c : c[i].resetAt <= memoryNow + MemoryWindow
  BY <1>2, <1>3 DEF Tidy
<1>7. FrontCut(s, a, c)
  BY <1>2, <1>3, <1>4, <1>5, <1>6 DEF Tidy, FrontCut
<1> QED
  BY <1>7 DEF c

LEMMA RemovedTidy == ASSUME NEW s, Tidy(s), NEW n \in DOMAIN s, NEW c, c = RemoveAt(s, n) PROVE
  /\ Tidy(c) /\ Len(c) = Len(s) - 1
  /\ \A i \in DOMAIN s : i # n => \E j \in DOMAIN c : c[j] = s[i]
<1>1. s \in Seq(Entries) /\ Len(s) \in Nat /\ DOMAIN s = 1..Len(s) /\ n \in 1..Len(s)
  BY EntriesTyped DEF Tidy
<1> DEFINE front == SubSeq(s, 1, n - 1)
           back == SubSeq(s, n + 1, Len(s))
           from(i) == IF i < n THEN i ELSE i + 1
<1>2. /\ front \in Seq(Entries) /\ Len(front) = n - 1 /\ \A i \in 1..(n - 1) : front[i] = s[i]
      /\ back \in Seq(Entries) /\ Len(back) = Len(s) - n /\ \A i \in 1..(Len(s) - n) : back[i] = s[i + n]
  <2>1. \A i \in 1..Len(s) : s[i] \in Entries
    BY <1>1
  <2>2. \A i \in 1..(n - 1) : s[i] \in Entries
    BY <1>1, <2>1
  <2>3. \A i \in (n + 1)..Len(s) : s[i] \in Entries
    BY <1>1, <2>1
  <2>4. /\ front \in Seq(Entries) /\ Len(front) = IF 1 <= n - 1 THEN n - 1 - 1 + 1 ELSE 0
        /\ \A i \in 1..(n - 1 - 1 + 1) : front[i] = s[1 + i - 1]
    <3>1. n - 1 \in Int
      BY <1>1
    <3> QED
      BY <2>2, <3>1, SubSeqProperties
  <2>5. /\ back \in Seq(Entries) /\ Len(back) = IF n + 1 <= Len(s) THEN Len(s) - (n + 1) + 1 ELSE 0
        /\ \A i \in 1..(Len(s) - (n + 1) + 1) : back[i] = s[n + 1 + i - 1]
    <3>1. n + 1 \in Int /\ Len(s) \in Int
      BY <1>1
    <3> QED
      BY <2>3, <3>1, SubSeqProperties
  <2> HIDE DEF front, back
  <2>6. front \in Seq(Entries) /\ Len(front) = n - 1
    BY <1>1, <2>4
  <2>7. \A i \in 1..(n - 1) : i \in 1..(n - 1 - 1 + 1) /\ 1 + i - 1 = i
    BY <1>1
  <2>8. back \in Seq(Entries) /\ Len(back) = Len(s) - n
    <3>1. CASE n + 1 <= Len(s)
      BY <1>1, <2>5, <3>1
    <3>2. CASE ~(n + 1 <= Len(s))
      <4>1. Len(s) - n = 0
        BY <1>1, <3>2
      <4> QED
        BY <2>5, <3>2, <4>1
    <3> QED
      BY <3>1, <3>2
  <2>9. \A i \in 1..(Len(s) - n) : i \in 1..(Len(s) - (n + 1) + 1) /\ n + 1 + i - 1 = i + n
    BY <1>1
  <2>10. \A i \in 1..(n - 1) : front[i] = s[i]
    BY <2>4, <2>7
  <2>11. \A i \in 1..(Len(s) - n) : back[i] = s[i + n]
    BY <2>5, <2>9
  <2> QED
    BY <2>6, <2>8, <2>10, <2>11
<1>3. c = front \o back
  BY DEF RemoveAt
<1> HIDE DEF front, back
<1>4. /\ c \in Seq(Entries) /\ Len(c) = Len(s) - 1 /\ DOMAIN c = 1..(Len(s) - 1)
      /\ \A i \in 1..(Len(s) - 1) : c[i] = IF i <= n - 1 THEN front[i] ELSE back[i - (n - 1)]
  <2>1. /\ c \in Seq(Entries) /\ Len(c) = Len(front) + Len(back)
        /\ \A i \in 1..(Len(front) + Len(back)) :
             c[i] = IF i <= Len(front) THEN front[i] ELSE back[i - Len(front)]
    BY <1>2, <1>3, ConcatProperties
  <2>2. Len(front) + Len(back) = Len(s) - 1
    BY <1>1, <1>2
  <2>3. DOMAIN c = 1..Len(c)
    BY <2>1
  <2> QED
    BY <1>2, <2>1, <2>2, <2>3
<1>5. \A i \in DOMAIN c : c[i] = s[from(i)] /\ from(i) \in DOMAIN s
  <2> TAKE i \in DOMAIN c
  <2>1. CASE i < n
    <3>1. i \in 1..(n - 1) /\ i \in 1..(Len(s) - 1) /\ i <= n - 1
      BY <1>1, <1>4, <2>1
    <3> QED
      BY <1>1, <1>2, <1>4, <2>1, <3>1
  <2>2. CASE ~(i < n)
    <3>1. i \in 1..(Len(s) - 1) /\ ~(i <= n - 1) /\ i - (n - 1) \in 1..(Len(s) - n) /\ i - (n - 1) + n = i + 1
      BY <1>1, <1>4, <2>2
    <3>2. c[i] = back[i - (n - 1)] /\ back[i - (n - 1)] = s[i - (n - 1) + n]
      BY <1>2, <1>4, <3>1
    <3> QED
      BY <1>1, <2>2, <3>1, <3>2
  <2> QED
    BY <2>1, <2>2
<1>6. \A i, j \in DOMAIN c : (i <= j <=> from(i) <= from(j)) /\ (from(i) = from(j) => i = j)
  BY <1>1, <1>4
<1>7. \A i \in DOMAIN s : i # n => \E j \in DOMAIN c : from(j) = i
  <2> SUFFICES ASSUME NEW i \in DOMAIN s, i # n PROVE \E j \in DOMAIN c : from(j) = i
    OBVIOUS
  <2>1. CASE i < n
    BY <1>1, <1>4, <2>1
  <2>2. CASE ~(i < n)
    <3>1. i - 1 \in DOMAIN c /\ from(i - 1) = i
      BY <1>1, <1>4, <2>2
    <3> QED
      BY <3>1
  <2> QED
    BY <2>1, <2>2
<1> HIDE DEF from
<1>8. \A i, j \in DOMAIN c : c[i].key = c[j].key => i = j
  BY <1>5, <1>6 DEF Tidy
<1>9. \A i, j \in DOMAIN c : i <= j => c[i].resetAt <= c[j].resetAt
  BY <1>5, <1>6 DEF Tidy
<1>10. \A i \in DOMAIN c : c[i].resetAt <= memoryNow + MemoryWindow
  BY <1>5 DEF Tidy
<1>11. \A i \in DOMAIN s : i # n => \E j \in DOMAIN c : c[j] = s[i]
  BY <1>5, <1>7
<1> QED
  BY <1>4, <1>8, <1>9, <1>10, <1>11 DEF Tidy

LEMMA WithoutTidy == ASSUME NEW s, Tidy(s), NEW k PROVE
  /\ Tidy(Without(k, s)) /\ Len(Without(k, s)) <= Len(s)
  /\ \A i \in DOMAIN s : s[i].key # k => \E j \in DOMAIN Without(k, s) : Without(k, s)[j] = s[i]
<1>1. Len(s) \in Nat
  BY EntriesTyped DEF Tidy
<1>2. CASE At(k, s) = {}
  BY <1>1, <1>2 DEF Without
<1>3. CASE At(k, s) # {}
  <2>1. PICK n \in At(k, s) : Without(k, s) = RemoveAt(s, n)
    BY <1>3 DEF Without
  <2>2. n \in DOMAIN s /\ s[n].key = k
    BY DEF At
  <2> QED
    BY <1>1, <2>1, <2>2, RemovedTidy
<1> QED
  BY <1>2, <1>3

\* Pruning leaves the counters that are live, all of them and no others.
LEMMA PrunedTidy == ASSUME MemoryInv, NEW s, s = PrunedCounters PROVE
  /\ Tidy(s) /\ Len(s) <= Len(counters) /\ (Len(s) = Len(counters) => s = counters)
  /\ \A i \in DOMAIN s : Live(s[i])
  /\ \A i \in DOMAIN counters : Live(counters[i]) => \E j \in DOMAIN s : s[j] = counters[i]
<1> DEFINE live == {i \in DOMAIN counters : Live(counters[i])}
<1>1. /\ counters \in Seq(Entries) /\ Len(counters) \in Nat /\ DOMAIN counters = 1..Len(counters)
      /\ memoryNow \in Nat /\ \A i \in DOMAIN counters : counters[i].resetAt \in Nat
  BY EntriesTyped DEF MemoryInv, Tidy
<1>2. CASE live = {}
  <2>1. s = <<>>
    BY <1>2 DEF PrunedCounters
  <2>2. Tidy(s)
    BY <2>1 DEF Tidy
  <2> QED
    BY <1>1, <1>2, <2>1, <2>2
<1>3. CASE live # {}
  <2>1. \E i \in live : \A j \in live : i <= j
    <3>1. live \subseteq Nat
      BY <1>1
    <3> HIDE DEF live
    <3>2. PICK i \in live : \A j \in live : ~(<<j, i>> \in OpToRel(<, Nat))
      BY <1>3, <3>1, WFMin, NatLessThanWellFounded, Zenon
    <3>3. \A j \in live : ~(j < i)
      BY <3>1, <3>2, Zenon DEF OpToRel
    <3> QED
      BY <3>1, <3>3
  <2>2. PICK a \in live : (\A j \in live : a <= j) /\ s = SubSeq(counters, a, Len(counters))
    BY <1>3, <2>1 DEF PrunedCounters
  <2>3. a \in 1..Len(counters) /\ a \in 1..(Len(counters) + 1) /\ counters[a].resetAt > memoryNow
    BY <1>1 DEF Live
  <2>4. /\ Tidy(s) /\ Len(s) = Len(counters) - a + 1
        /\ \A i \in 1..Len(s) : i + a - 1 \in DOMAIN counters /\ s[i] = counters[i + a - 1]
    <3>1. Tidy(counters)
      BY DEF MemoryInv
    <3>2. FrontCut(counters, a, s)
      BY <2>2, <2>3, <3>1, CutTidy
    <3> QED
      BY <3>2 DEF FrontCut
  <2>5. DOMAIN s = 1..Len(s) /\ Len(s) \in Nat /\ s \in Seq(Entries)
    BY <2>4, EntriesTyped DEF Tidy
  <2>6. \A i \in DOMAIN s : Live(s[i])
    <3> TAKE i \in DOMAIN s
    <3>0. i \in 1..Len(s)
      BY <2>5
    <3>1. i + a - 1 \in DOMAIN counters /\ a <= i + a - 1 /\ s[i] = counters[i + a - 1]
      BY <2>3, <2>4, <3>0
    <3>2. counters[a].resetAt <= counters[i + a - 1].resetAt
      BY <1>1, <2>3, <3>1 DEF MemoryInv, Tidy
    <3> QED
      BY <1>1, <2>3, <3>1, <3>2 DEF Live
  <2>7. \A i \in DOMAIN counters : Live(counters[i]) => \E j \in DOMAIN s : s[j] = counters[i]
    <3> SUFFICES ASSUME NEW i \in DOMAIN counters, Live(counters[i])
                 PROVE  \E j \in DOMAIN s : s[j] = counters[i]
      OBVIOUS
    <3>1. a <= i
      BY <2>2
    <3>2. i - a + 1 \in DOMAIN s
      BY <1>1, <2>3, <2>4, <2>5, <3>1
    <3>3. (i - a + 1) + a - 1 = i
      BY <1>1, <2>3
    <3> WITNESS i - a + 1 \in DOMAIN s
    <3> QED
      BY <2>4, <2>5, <3>2, <3>3
  <2>8. Len(s) = Len(counters) => s = counters
    <3> SUFFICES ASSUME Len(s) = Len(counters) PROVE s = counters
      OBVIOUS
    <3>1. a = 1
      BY <1>1, <2>3, <2>4
    <3>2. \A i \in 1..Len(s) : s[i] = counters[i]
      BY <2>4, <3>1
    <3> QED
      BY <1>1, <2>5, <3>2
  <2> QED
    BY <1>1, <2>3, <2>4, <2>6, <2>7, <2>8
<1> QED
  BY <1>2, <1>3

\* Every counter that is live stays, by key.
Stay == \A i \in DOMAIN counters : Live(counters[i]) => At(counters[i].key, counters') # {}

LEMMA StayFair == Stay => DroppedFairly
BY DEF Stay, DroppedFairly

\* Tidy, as of a state in which only the entries are others.
LEMMA TidyNow == ASSUME memoryNow' = memoryNow, NEW s PROVE Tidy(s)' <=> Tidy(s')
BY DEF Tidy

LEMMA CountedStep ==
  ASSUME MemoryInv, NEW k \in Keys, ConsumeInMemory(k),
         \E i \in At(k, PrunedCounters) : Live(PrunedCounters[i])
  PROVE  MemoryInv' /\ Stay
<1> DEFINE p == PrunedCounters
<1>1. /\ Tidy(p) /\ Len(p) <= Len(counters) /\ \A i \in DOMAIN p : Live(p[i])
      /\ \A i \in DOMAIN counters : Live(counters[i]) => \E j \in DOMAIN p : p[j] = counters[i]
  BY PrunedTidy
<1>2. /\ memoryNow' = memoryNow
      /\ counters' = [i \in DOMAIN p |->
           IF p[i].key = k /\ p[i].count < MemoryLimit THEN [p[i] EXCEPT !.count = @ + 1] ELSE p[i]]
  BY DEF ConsumeInMemory
<1> HIDE DEF p
<1>3. /\ p \in Seq(Entries) /\ Len(p) \in Nat /\ DOMAIN p = 1..Len(p)
      /\ \A i \in DOMAIN p : p[i] \in Entries /\ p[i].count \in Nat
  BY <1>1, EntriesTyped DEF Tidy
<1>4. \A i \in DOMAIN p : counters'[i] \in Entries /\ counters'[i].key = p[i].key /\ counters'[i].resetAt = p[i].resetAt
  <2> TAKE i \in DOMAIN p
  <2>1. p[i] \in [key : Keys, count : Nat, resetAt : Nat]
    BY <1>3 DEF Entries
  <2>2. counters'[i] = p[i] \/ counters'[i] = [p[i] EXCEPT !.count = @ + 1]
    BY <1>2
  <2> QED
    BY <2>1, <2>2 DEF Entries
<1>5. counters' \in Seq(Entries) /\ DOMAIN counters' = DOMAIN p /\ Len(counters') = Len(p)
  <2>1. counters' \in [1..Len(p) -> Entries]
    BY <1>2, <1>3, <1>4
  <2> QED
    BY <1>3, <2>1
<1>6. Tidy(counters')
  BY <1>1, <1>4, <1>5 DEF Tidy
<1>7. MemoryInv'
  <2>1. Tidy(counters)'
    BY <1>2, <1>6, TidyNow
  <2>2. Len(counters) \in Nat /\ Len(counters) <= MaxKeys /\ memoryNow \in Nat
    BY EntriesTyped DEF MemoryInv, Tidy
  <2> QED
    BY <1>1, <1>2, <1>3, <1>5, <2>1, <2>2, MemoryAssumption DEF MemoryInv
<1>8. Stay
  BY <1>1, <1>4, <1>5 DEF Stay, At
<1> QED
  BY <1>7, <1>8

LEMMA StartedStep ==
  ASSUME MemoryInv, NEW k \in Keys, ConsumeInMemory(k),
         ~\E i \in At(k, PrunedCounters) : Live(PrunedCounters[i])
  PROVE  MemoryInv' /\ DroppedFairly
<1> USE MemoryAssumption
<1> DEFINE p == PrunedCounters
           new == [key |-> k, count |-> 1, resetAt |-> memoryNow + MemoryWindow]
<1>1. /\ Tidy(p) /\ Len(p) <= Len(counters) /\ (Len(p) = Len(counters) => p = counters)
      /\ \A i \in DOMAIN p : Live(p[i])
      /\ \A i \in DOMAIN counters : Live(counters[i]) => \E j \in DOMAIN p : p[j] = counters[i]
  BY PrunedTidy
<1>2. memoryNow \in Nat /\ Len(counters) \in Nat /\ Len(counters) <= MaxKeys
  BY EntriesTyped DEF MemoryInv, Tidy
<1>3. At(k, p) = {}
  BY <1>1 DEF At
<1>4. memoryNow' = memoryNow /\ counters' = Append(Fitting(p), new)
  BY <1>3 DEF ConsumeInMemory, Without
<1> HIDE DEF p
<1>5. p \in Seq(Entries) /\ Len(p) \in Nat /\ DOMAIN p = 1..Len(p)
  BY <1>1, EntriesTyped DEF Tidy
<1> DEFINE a == IF Len(p) < MaxKeys THEN 1 ELSE Len(p) - MaxKeys + 2
           c == Fitting(p)
<1>6. a \in 1..(Len(p) + 1) /\ c = SubSeq(p, a, Len(p))
  BY <1>2, <1>5 DEF Fitting
<1>7. /\ Tidy(c) /\ Len(c) = Len(p) - a + 1
      /\ \A i \in 1..Len(c) : i + a - 1 \in DOMAIN p /\ c[i] = p[i + a - 1]
  <2>1. FrontCut(p, a, c)
    BY <1>1, <1>6, CutTidy
  <2> QED
    BY <2>1 DEF FrontCut
<1>8. Len(c) + 1 <= MaxKeys
  BY <1>1, <1>2, <1>5, <1>7
<1> HIDE DEF c, a
<1>9. /\ c \in Seq(Entries) /\ Len(c) \in Nat /\ DOMAIN c = 1..Len(c)
      /\ \A i \in DOMAIN c : c[i].resetAt \in Nat
  BY <1>7, EntriesTyped DEF Tidy
<1>10. new \in Entries /\ new.key = k /\ new.resetAt = memoryNow + MemoryWindow
  BY <1>2 DEF Entries
<1> HIDE DEF new
<1>11. /\ counters' \in Seq(Entries) /\ Len(counters') = Len(c) + 1 /\ DOMAIN counters' = 1..(Len(c) + 1)
       /\ counters'[Len(c) + 1] = new /\ \A i \in 1..Len(c) : counters'[i] = c[i]
  BY <1>4, <1>9, <1>10 DEF c
<1>12. \A i \in 1..Len(c) : counters'[i].key # k
  BY <1>3, <1>7, <1>11 DEF At
<1>13. \A i \in 1..(Len(c) + 1) : i \in 1..Len(c) \/ i = Len(c) + 1
  BY <1>9
<1>14. \A i, j \in DOMAIN counters' : counters'[i].key = counters'[j].key => i = j
  BY <1>7, <1>9, <1>10, <1>11, <1>12, <1>13 DEF Tidy
<1>15. \A i \in DOMAIN counters' : counters'[i].resetAt <= memoryNow + MemoryWindow
  BY <1>2, <1>7, <1>9, <1>10, <1>11, <1>13 DEF Tidy
<1>16. \A i, j \in DOMAIN counters' : i <= j => counters'[i].resetAt <= counters'[j].resetAt
  <2> SUFFICES ASSUME NEW i \in DOMAIN counters', NEW j \in DOMAIN counters', i <= j
               PROVE  counters'[i].resetAt <= counters'[j].resetAt
    OBVIOUS
  <2>1. CASE j = Len(c) + 1
    BY <1>10, <1>11, <1>15, <2>1
  <2>2. CASE j # Len(c) + 1
    <3>1. i \in 1..Len(c) /\ j \in 1..Len(c)
      BY <1>9, <1>11, <2>2
    <3> QED
      BY <1>7, <1>9, <1>11, <3>1 DEF Tidy
  <2> QED
    BY <2>1, <2>2
<1>17. MemoryInv'
  BY <1>2, <1>4, <1>8, <1>11, <1>14, <1>15, <1>16 DEF MemoryInv, Tidy
<1>18. CASE Len(p) < MaxKeys
  <2>1. a = 1 /\ Len(c) = Len(p) /\ \A i \in 1..Len(p) : c[i] = p[i]
    BY <1>5, <1>7, <1>18 DEF a
  <2>2. \A j \in DOMAIN p : j \in DOMAIN counters' /\ counters'[j] = p[j]
    BY <1>5, <1>11, <2>1
  <2>3. Stay
    BY <1>1, <2>2 DEF Stay, At
  <2> QED
    BY <1>17, <2>3, StayFair
<1>19. CASE ~(Len(p) < MaxKeys)
  <2>1. Len(counters) = MaxKeys /\ p = counters
    BY <1>1, <1>2, <1>5, <1>19
  <2>2. {j \in DOMAIN counters : Live(counters[j])} = 1..MaxKeys
    BY <1>1, <1>5, <2>1
  <2>3. Cardinality(1..MaxKeys) = MaxKeys
    BY FS_Interval
  <2> QED
    BY <1>17, <2>2, <2>3 DEF DroppedFairly
<1> QED
  BY <1>18, <1>19

LEMMA ResetStep ==
  ASSUME MemoryInv, NEW k \in Keys, ResetInMemory(k) PROVE MemoryInv' /\ DroppedFairly
<1>1. /\ Tidy(Without(k, counters)) /\ Len(Without(k, counters)) <= Len(counters)
      /\ \A i \in DOMAIN counters : counters[i].key # k =>
           \E j \in DOMAIN Without(k, counters) : Without(k, counters)[j] = counters[i]
  BY WithoutTidy DEF MemoryInv
<1>2. counters' = Without(k, counters) /\ memoryNow' = memoryNow
  BY DEF ResetInMemory
<1>3. MemoryInv'
  <2>1. Tidy(counters')
    BY <1>1, <1>2
  <2>2. Len(counters') \in Nat /\ Len(counters) \in Nat
    BY <2>1, EntriesTyped DEF MemoryInv, Tidy
  <2> QED
    BY <1>1, <1>2, <2>1, <2>2, MemoryAssumption DEF MemoryInv, Tidy
<1>4. DroppedFairly
  <2> SUFFICES ASSUME NEW i \in DOMAIN counters, At(counters[i].key, counters') = {}
               PROVE  counters' = Without(counters[i].key, counters)
    BY DEF DroppedFairly
  <2>1. counters[i].key = k
    BY <1>1, <1>2 DEF At
  <2> QED
    BY <1>2, <2>1
<1> QED
  BY <1>3, <1>4

LEMMA SameCountersStep ==
  ASSUME MemoryInv, counters' = counters, memoryNow' \in Nat, memoryNow <= memoryNow' PROVE MemoryInv' /\ Stay
<1>1. \A i \in DOMAIN counters : counters[i].resetAt \in Nat
  BY EntriesTyped DEF MemoryInv, Tidy
<1>2. \A i \in DOMAIN counters : counters[i].resetAt <= memoryNow' + MemoryWindow
  BY <1>1, MemoryAssumption DEF MemoryInv, Tidy
<1>3. Stay
  BY DEF Stay, At
<1> QED
  BY <1>2, <1>3 DEF MemoryInv, Tidy

LEMMA LiveKeptFairly == MemorySpec => LiveDroppedOnlyWhenFull
<1>1. MemoryInit => MemoryInv
  BY MemoryAssumption DEF MemoryInit, MemoryInv, Tidy
<1>2. MemoryInv /\ [MemoryNext]_memoryVars => MemoryInv' /\ [DroppedFairly]_memoryVars
  <2> SUFFICES ASSUME MemoryInv, [MemoryNext]_memoryVars PROVE MemoryInv' /\ DroppedFairly
    OBVIOUS
  <2>1. ASSUME NEW k \in Keys, ConsumeInMemory(k) PROVE MemoryInv' /\ DroppedFairly
    BY <2>1, CountedStep, StartedStep, StayFair
  <2>2. CASE MemoryTick \/ UNCHANGED memoryVars
    BY <2>2, SameCountersStep, StayFair DEF MemoryTick, memoryVars, MemoryInv
  <2> QED
    BY <2>1, <2>2, ResetStep DEF MemoryNext
<1> QED
  BY <1>1, <1>2, PTL DEF MemorySpec, LiveDroppedOnlyWhenFull

(***************************************************************************)
(* Quotas.                                                                 *)
(***************************************************************************)
LEMMA Products == \A a, b, c \in Nat :
  /\ a * b \in Nat /\ (a + 1) * b = a * b + b /\ 0 * b = 0
  /\ (a <= c => a * b <= c * b)
OBVIOUS

\* A bucket is full after that many ticks.
LEMMA FullByThen ==
  ASSUME NEW b \in Nat, NEW r \in Nat \ {0}, NEW d \in Nat, (b + r - 1) \div r <= d
  PROVE  b <= d * r
<1> DEFINE q == (b + r - 1) \div r
<1>0. PICK x \in Nat : x = b + r - 1
  OBVIOUS
<1>1. q \in Nat /\ b <= q * r
  <2>1. \A y \in Nat, z \in Nat \ {0} : y \div z \in Nat
    OBVIOUS
  <2>2. \A y \in Nat, z \in Nat \ {0} : y % z \in Nat /\ y % z < z
    OBVIOUS
  <2>3. \A y \in Nat, z \in Nat \ {0} : y = z * (y \div z) + (y % z)
    OBVIOUS
  <2> QED
    BY <1>0, <2>1, <2>2, <2>3
<1> HIDE DEF q
<1>2. q * r \in Nat /\ d * r \in Nat /\ (q <= d => q * r <= d * r)
  BY <1>1, Products
<1> QED
  BY <1>1, <1>2 DEF q

Buckets == [tokens : Nat, at : Nat, expires : Nat]

QuotasShape ==
  /\ plan \in [rate : Nat \ {0}, burst : Nat \ {0}, limit : Nat]
  /\ bucket \in Buckets \cup {NoBucket} /\ window \in [Times -> Nat]
  /\ quotaNow \in Times /\ spent \in [Times -> Nat] /\ settled \in Nat /\ highest \in Nat

\* What was allowed adds up over time, and nothing after now.
SpentGrows ==
  /\ \A s, t \in Times : s <= t => spent[s] <= spent[t]
  /\ \A t \in Times : quotaNow <= t => spent[t] = spent[quotaNow]
  /\ settled <= spent[quotaNow] /\ plan.limit <= highest

\* The bucket was written under this plan, unless nothing was allowed since
\* the plan is in force.
BucketKnown ==
  bucket # NoBucket =>
    /\ bucket.at <= quotaNow
    /\ bucket.expires = FullAfter(bucket.at) + Spare \/ spent[quotaNow] = settled

\* What a stretch up to now has let through and what is left in the bucket.
BucketPays ==
  \A from \in 0..quotaNow :
    spent[quotaNow] - Larger(SpentBefore(from), settled) + Tokens(bucket, quotaNow)
      <= plan.burst + (quotaNow - from) * plan.rate

\* The counter of the window that runs.
WindowCounts == spent[quotaNow] - SpentBefore(StartOf(quotaNow)) <= window[StartOf(quotaNow)]

QuotasInv == QuotasShape /\ SpentGrows /\ BucketKnown /\ BucketPays /\ WindowCounts /\ Throttled /\ WindowKept

LEMMA StartsOf == ASSUME NEW t \in Nat PROVE
  /\ StartOf(t) \in WindowStarts /\ StartOf(t) \in Nat /\ StartOf(t) <= t
  /\ \A u \in WindowStarts : u <= t => u <= StartOf(t)
<1> DEFINE ages == {a \in 0..t : t - a \in WindowStarts}
<1>1. t - t \in WindowStarts /\ t \in 0..t /\ WindowStarts \subseteq Nat
  BY QuotasAssumption
<1>2. ages # {} /\ ages \subseteq Nat
  BY <1>1
<1> HIDE DEF ages
<1>3. PICK a \in ages : \A b \in ages : ~(<<b, a>> \in OpToRel(<, Nat))
  BY <1>2, WFMin, NatLessThanWellFounded, Zenon
<1>4. \A b \in ages : ~(b < a)
  BY <1>2, <1>3, Zenon DEF OpToRel
<1>5. t - a \in WindowStarts /\ t - a <= t
  BY <1>2 DEF ages
<1>6. ASSUME NEW u \in WindowStarts, u <= t PROVE u <= t - a
  <2>1. u \in Nat /\ t - u \in 0..t /\ t - (t - u) = u
    BY <1>1, <1>6
  <2>2. t - u \in ages
    BY <2>1 DEF ages
  <2>3. ~(t - u < a) /\ a \in Nat
    BY <1>2, <1>4, <2>2
  <2> QED
    BY <2>1, <2>3
<1>7. \E s \in WindowStarts : s <= t /\ \A u \in WindowStarts : u <= t => u <= s
  BY <1>5, <1>6
<1>8. /\ StartOf(t) \in WindowStarts /\ StartOf(t) <= t
      /\ \A u \in WindowStarts : u <= t => u <= StartOf(t)
  BY <1>7 DEF StartOf
<1> QED
  BY <1>1, <1>8

LEMMA SpentBeforeType == ASSUME QuotasShape, NEW t \in Nat, t <= quotaNow PROVE SpentBefore(t) \in Nat
<1>1. CASE t = 0
  BY <1>1 DEF SpentBefore
<1>2. CASE t # 0
  <2>1. t - 1 \in Times
    BY QuotasAssumption, <1>2 DEF QuotasShape, Times
  <2> QED
    BY <1>2, <2>1 DEF SpentBefore, QuotasShape
<1> QED
  BY <1>1, <1>2

\* What was allowed before a moment that is past does not change any more.
LEMMA SpentBeforeStays ==
  ASSUME QuotasShape, NEW t \in Nat, t <= quotaNow, \A s \in Times : s < quotaNow => spent'[s] = spent[s]
  PROVE  SpentBefore(t)' = SpentBefore(t)
<1>1. CASE t = 0
  BY <1>1 DEF SpentBefore
<1>2. CASE t # 0
  <2>1. t - 1 \in Times /\ t - 1 < quotaNow
    BY QuotasAssumption, <1>2 DEF QuotasShape, Times
  <2> QED
    BY <1>2, <2>1 DEF SpentBefore
<1> QED
  BY <1>1, <1>2

LEMMA TokensType == ASSUME QuotasShape, BucketKnown PROVE
  Tokens(bucket, quotaNow) \in Nat /\ Tokens(bucket, quotaNow) <= plan.burst
<1>1. CASE bucket = NoBucket
  BY <1>1 DEF Tokens, QuotasShape
<1>2. CASE bucket # NoBucket
  <2>1. bucket \in Buckets /\ quotaNow \in Nat /\ bucket.at <= quotaNow
    BY <1>2 DEF QuotasShape, BucketKnown, Times
  <2>2. quotaNow - bucket.at \in Nat /\ bucket.tokens \in Nat /\ plan.rate \in Nat /\ plan.burst \in Nat
    BY <2>1 DEF Buckets, QuotasShape
  <2>3. (quotaNow - bucket.at) * plan.rate \in Nat
    BY <2>2, Products
  <2> QED
    BY <1>2, <2>2, <2>3 DEF Tokens, Smaller
<1> QED
  BY <1>1, <1>2

\* Over any stretch up to now what is in the bucket covers what went through.
LEMMA ThrottledNow ==
  ASSUME QuotasShape, BucketKnown, BucketPays, NEW from \in 0..quotaNow
  PROVE  spent[quotaNow] - Larger(SpentBefore(from), settled) <= plan.burst + (quotaNow - from) * plan.rate
<1>1. Tokens(bucket, quotaNow) \in Nat
  BY TokensType
<1>2. /\ spent[quotaNow] \in Nat /\ settled \in Nat /\ plan.burst \in Nat /\ plan.rate \in Nat
      /\ from \in Nat /\ from <= quotaNow /\ quotaNow - from \in Nat
  BY DEF QuotasShape, Times
<1>3. SpentBefore(from) \in Nat
  BY <1>2, SpentBeforeType
<1>4. Larger(SpentBefore(from), settled) \in Nat
  BY <1>2, <1>3 DEF Larger
<1>5. (quotaNow - from) * plan.rate \in Nat
  BY <1>2, Products
<1> QED
  BY <1>1, <1>2, <1>4, <1>5 DEF BucketPays

NowThrottled ==
  \A from \in 0..quotaNow :
    spent[quotaNow] - Larger(SpentBefore(from), settled) <= plan.burst + (quotaNow - from) * plan.rate

LEMMA PaysThrottled == QuotasShape /\ BucketKnown /\ BucketPays => NowThrottled
BY ThrottledNow DEF NowThrottled

\* A step keeps the throttle if it keeps what it is up to now.
LEMMA ThrottledStep ==
  ASSUME QuotasInv, QuotasShape', BucketKnown', BucketPays',
         UNCHANGED <<plan, settled>>, quotaNow <= quotaNow', quotaNow' <= quotaNow + 1,
         quotaNow' > quotaNow => spent' = spent,
         \A t \in Times : t < quotaNow => spent'[t] = spent[t]
  PROVE  Throttled'
<1>1. NowThrottled'
  BY PaysThrottled, PTL
<1>2. quotaNow \in Nat /\ quotaNow' \in Nat /\ quotaNow <= QuotasMaxTime /\ QuotasMaxTime \in Nat
  BY QuotasAssumption DEF QuotasInv, QuotasShape, Times
<1> SUFFICES ASSUME NEW from \in 0..quotaNow', NEW to \in 0..quotaNow', from <= to
             PROVE  spent'[to] - Larger(SpentBefore(from)', settled') <= plan'.burst + (to - from) * plan'.rate
  BY DEF Throttled, Larger
<1>3. CASE to = quotaNow'
  BY <1>1, <1>3 DEF NowThrottled, Larger
<1>4. CASE to # quotaNow'
  <2>1. from \in 0..quotaNow /\ to \in 0..quotaNow /\ to \in Times /\ from \in Nat /\ from <= quotaNow
    BY <1>2, <1>4 DEF Times
  <2>2. spent'[to] = spent[to]
    BY <1>2, <1>4, <2>1
  <2>3. SpentBefore(from)' = SpentBefore(from)
    BY <1>2, <2>1, SpentBeforeStays DEF QuotasInv
  <2>4. spent[to] - Larger(SpentBefore(from), settled) <= plan.burst + (to - from) * plan.rate
    BY <2>1 DEF QuotasInv, Throttled
  <2> QED
    BY <2>2, <2>3, <2>4
<1> QED
  BY <1>3, <1>4

\* So with the windows.
LEMMA WindowsStep ==
  ASSUME QuotasInv, QuotasShape', highest <= highest',
         quotaNow <= quotaNow', quotaNow' <= quotaNow + 1, quotaNow' > quotaNow => spent' = spent,
         \A t \in Times : t < quotaNow => spent'[t] = spent[t],
         spent'[quotaNow'] - SpentBefore(StartOf(quotaNow))' <= highest'
  PROVE  WindowKept'
<1>2. quotaNow \in Nat /\ quotaNow' \in Nat /\ quotaNow <= QuotasMaxTime /\ QuotasMaxTime \in Nat
  BY QuotasAssumption DEF QuotasInv, QuotasShape, Times
<1> SUFFICES ASSUME NEW t \in 0..quotaNow' PROVE spent'[t] - SpentBefore(StartOf(t))' <= highest'
  BY DEF WindowKept
<1>3. CASE t = quotaNow'
  BY <1>3
<1>4. CASE t # quotaNow'
  <2>1. t \in 0..quotaNow /\ t \in Nat /\ t \in Times
    BY <1>2, <1>4 DEF Times
  <2>2. spent'[t] = spent[t]
    BY <1>2, <1>4, <2>1
  <2>3. StartOf(t) \in Nat /\ StartOf(t) <= quotaNow
    BY <1>2, <2>1, StartsOf
  <2>4. SpentBefore(StartOf(t))' = SpentBefore(StartOf(t)) /\ SpentBefore(StartOf(t)) \in Nat
    BY <1>2, <2>3, SpentBeforeStays, SpentBeforeType DEF QuotasInv
  <2>5. spent[t] - SpentBefore(StartOf(t)) <= highest
    BY <2>1 DEF QuotasInv, WindowKept
  <2>6. spent[t] \in Nat /\ highest \in Nat /\ highest' \in Nat
    BY <2>1 DEF QuotasInv, QuotasShape
  <2> QED
    BY <2>2, <2>4, <2>5, <2>6
<1> QED
  BY <1>3, <1>4

LEMMA FullAfterType == ASSUME QuotasShape, NEW t \in Nat PROVE FullAfter(t) \in Nat
<1>1. \A x \in Nat, r \in Nat \ {0} : x \div r \in Nat
  OBVIOUS
<1>2. plan.burst + plan.rate - 1 \in Nat /\ plan.rate \in Nat \ {0}
  BY DEF QuotasShape
<1> QED
  BY <1>1, <1>2 DEF FullAfter

LEMMA ConsumeQuotaInv == ASSUME QuotasInv, NEW cost \in Costs, ConsumeQuota(cost) PROVE QuotasInv'
<1> DEFINE tokens == Tokens(bucket, quotaNow)
           start == StartOf(quotaNow)
<1>1. /\ cost \in Nat /\ tokens \in Nat /\ tokens <= plan.burst /\ cost <= tokens
      /\ plan.burst \in Nat /\ plan.rate \in Nat /\ plan.limit \in Nat
  BY QuotasAssumption, TokensType DEF QuotasInv, QuotasShape, ConsumeQuota
<1>2. quotaNow \in Times /\ quotaNow \in Nat /\ quotaNow <= QuotasMaxTime /\ QuotasMaxTime \in Nat
  BY QuotasAssumption DEF QuotasInv, QuotasShape, Times
<1>3. start \in Nat /\ start <= quotaNow /\ start \in Times
  BY <1>2, StartsOf DEF Times
<1> HIDE DEF tokens, start
<1>4. /\ UNCHANGED <<plan, quotaNow, replans, settled, highest>>
      /\ bucket' = [tokens |-> tokens - cost, at |-> quotaNow, expires |-> FullAfter(quotaNow) + Spare]
      /\ window' = [window EXCEPT ![start] = @ + cost]
      /\ spent' = [t \in Times |-> IF t >= quotaNow THEN spent[t] + cost ELSE spent[t]]
      /\ window[start] + cost <= plan.limit
  BY DEF ConsumeQuota, Fits, tokens, start
<1>5. /\ \A t \in Times : t < quotaNow => spent'[t] = spent[t]
      /\ \A t \in Times : quotaNow <= t => spent'[t] = spent[t] + cost
      /\ \A t \in Times : spent[t] \in Nat /\ t \in Nat
  BY <1>2, <1>4 DEF QuotasInv, QuotasShape, Times
<1>6. QuotasShape'
  <2>1. tokens - cost \in Nat /\ FullAfter(quotaNow) + Spare \in Nat
    BY <1>1, <1>2, FullAfterType, QuotasAssumption DEF QuotasInv
  <2>2. bucket' \in Buckets
    BY <1>2, <1>4, <2>1 DEF Buckets
  <2>3. window' \in [Times -> Nat] /\ spent' \in [Times -> Nat]
    BY <1>1, <1>3, <1>4 DEF QuotasInv, QuotasShape
  <2> QED
    BY <1>4, <2>2, <2>3 DEF QuotasInv, QuotasShape
<1>7. SpentGrows'
  <2>1. \A s, t \in Times : s <= t => spent'[s] <= spent'[t]
    BY <1>1, <1>2, <1>5 DEF QuotasInv, SpentGrows
  <2>2. \A t \in Times : quotaNow <= t => spent'[t] = spent'[quotaNow]
    BY <1>2, <1>5 DEF QuotasInv, SpentGrows
  <2>3. settled <= spent'[quotaNow]
    BY <1>1, <1>2, <1>5 DEF QuotasInv, QuotasShape, SpentGrows
  <2> QED
    BY <1>4, <2>1, <2>2, <2>3 DEF QuotasInv, SpentGrows
<1>8. BucketKnown'
  BY <1>2, <1>4 DEF BucketKnown, FullAfter
<1>9. Tokens(bucket, quotaNow)' = tokens - cost
  <2>1. bucket' \in Buckets /\ bucket' # NoBucket
    <3>1. tokens - cost \in Nat /\ FullAfter(quotaNow) + Spare \in Nat
      BY <1>1, <1>2, FullAfterType, QuotasAssumption DEF QuotasInv
    <3> QED
      BY <1>2, <1>4, <3>1, QuotasAssumption DEF Buckets
  <2>2. Tokens(bucket, quotaNow)' = Smaller(plan.burst, tokens - cost + (quotaNow - quotaNow) * plan.rate)
    BY <1>4, <2>1 DEF Tokens, Smaller
  <2>3. (quotaNow - quotaNow) * plan.rate = 0
    BY <1>1, <1>2, Products
  <2> QED
    BY <1>1, <2>2, <2>3 DEF Smaller
<1>10. \A from \in Nat : from <= quotaNow => SpentBefore(from)' = SpentBefore(from) /\ SpentBefore(from) \in Nat
  BY <1>5, SpentBeforeStays, SpentBeforeType DEF QuotasInv
<1>11. BucketPays'
  <2> SUFFICES ASSUME NEW from \in 0..quotaNow
               PROVE  spent'[quotaNow] - Larger(SpentBefore(from), settled) + (tokens - cost)
                        <= plan.burst + (quotaNow - from) * plan.rate
    BY <1>2, <1>4, <1>9, <1>10 DEF BucketPays, Larger
  <2>1. from \in Nat /\ from <= quotaNow /\ quotaNow - from \in Nat
    BY <1>2
  <2>2. Larger(SpentBefore(from), settled) \in Nat
    BY <1>10, <2>1 DEF Larger, QuotasInv, QuotasShape
  <2>3. spent[quotaNow] - Larger(SpentBefore(from), settled) + tokens <= plan.burst + (quotaNow - from) * plan.rate
    BY DEF QuotasInv, BucketPays, tokens
  <2>4. (quotaNow - from) * plan.rate \in Nat
    BY <1>1, <2>1, Products
  <2>5. spent'[quotaNow] = spent[quotaNow] + cost /\ spent[quotaNow] \in Nat
    BY <1>2, <1>5
  <2> QED
    BY <1>1, <2>2, <2>3, <2>4, <2>5
<1>12. spent'[quotaNow] - SpentBefore(start)' <= window'[start] /\ window'[start] <= highest
  <2>1. spent[quotaNow] - SpentBefore(start) <= window[start]
    BY DEF QuotasInv, WindowCounts, start
  <2>2. window'[start] = window[start] + cost /\ window[start] \in Nat
    BY <1>3, <1>4 DEF QuotasInv, QuotasShape
  <2>3. plan.limit <= highest /\ highest \in Nat
    BY DEF QuotasInv, QuotasShape, SpentGrows
  <2>4. spent'[quotaNow] = spent[quotaNow] + cost /\ spent[quotaNow] \in Nat
    BY <1>2, <1>5
  <2>5. SpentBefore(start)' = SpentBefore(start) /\ SpentBefore(start) \in Nat
    <3>1. PICK s \in Nat : s = start
      BY <1>3
    <3>2. SpentBefore(s)' = SpentBefore(s) /\ SpentBefore(s) \in Nat
      BY <1>3, <1>10, <3>1
    <3>3. SpentBefore(start)' = SpentBefore(s)'
      BY <1>4, <3>1 DEF SpentBefore, start
    <3> QED
      BY <3>1, <3>2, <3>3
  <2> QED
    BY <1>1, <1>4, <2>1, <2>2, <2>3, <2>4, <2>5
<1>13. WindowCounts'
  BY <1>4, <1>12 DEF WindowCounts, start
<1>14. Throttled'
  BY <1>2, <1>4, <1>5, <1>6, <1>8, <1>11, ThrottledStep
<1>15. WindowKept'
  <2>1. spent'[quotaNow'] - SpentBefore(StartOf(quotaNow))' <= highest'
    <3>1. window'[start] \in Nat /\ highest \in Nat /\ spent'[quotaNow] \in Nat
      BY <1>2, <1>3, <1>6 DEF QuotasShape, QuotasInv
    <3>2. SpentBefore(start)' = SpentBefore(StartOf(quotaNow))'
      BY <1>4 DEF start
    <3>3. SpentBefore(start)' \in Nat
      <4>1. PICK s \in Nat : s = start
        BY <1>3
      <4>2. SpentBefore(s)' \in Nat
        BY <1>3, <1>10, <4>1
      <4> QED
        BY <1>4, <4>1, <4>2 DEF SpentBefore, start
    <3> QED
      BY <1>4, <1>12, <3>1, <3>2, <3>3
  <2> QED
    BY <1>2, <1>4, <1>5, <1>6, <2>1, WindowsStep DEF QuotasInv, QuotasShape
<1> QED
  BY <1>6, <1>7, <1>8, <1>11, <1>13, <1>14, <1>15 DEF QuotasInv

\* When nothing was let through since the plan is in force, a full bucket is right.
NothingTaken == QuotasShape /\ BucketKnown /\ SpentGrows /\ spent[quotaNow] = settled

LEMMA NothingTakenPays == ASSUME NothingTaken PROVE BucketPays
<1> USE DEF NothingTaken
<1>1. /\ quotaNow \in Nat /\ quotaNow \in Times /\ settled \in Nat
      /\ plan.rate \in Nat /\ plan.burst \in Nat /\ plan \in [rate : Nat \ {0}, burst : Nat \ {0}, limit : Nat]
  BY QuotasAssumption DEF QuotasShape, Times
<1> SUFFICES ASSUME NEW from \in 0..quotaNow
             PROVE  spent[quotaNow] - Larger(SpentBefore(from), settled) + Tokens(bucket, quotaNow)
                      <= plan.burst + (quotaNow - from) * plan.rate
  BY DEF BucketPays, Larger
<1>2. (quotaNow - from) * plan.rate \in Nat
  <2>1. quotaNow - from \in Nat
    BY <1>1
  <2> QED
    BY <1>1, <2>1, Products
<1>3. SpentBefore(from) \in Nat
  <2>1. CASE from = 0
    BY <2>1 DEF SpentBefore
  <2>2. CASE from # 0
    <3>1. from - 1 \in Times
      BY <1>1, <2>2, QuotasAssumption DEF Times
    <3> QED
      BY <2>2, <3>1 DEF SpentBefore, QuotasShape
  <2> QED
    BY <2>1, <2>2
<1>4. Larger(SpentBefore(from), settled) \in Nat /\ settled <= Larger(SpentBefore(from), settled)
  BY <1>1, <1>3 DEF Larger
<1>5. Tokens(bucket, quotaNow) \in Nat /\ Tokens(bucket, quotaNow) <= plan.burst
  BY TokensType
<1> QED
  BY <1>1, <1>2, <1>4, <1>5

LEMMA NothingTakenPaysNext == NothingTaken' => BucketPays'
<1>1. NothingTaken => BucketPays
  BY NothingTakenPays
<1> QED
  BY <1>1, PTL

LEMMA UpdatePlanInv == ASSUME QuotasInv, NEW new \in Plans, UpdatePlan(new) PROVE QuotasInv'
<1>0. quotaNow \in Times /\ quotaNow \in Nat /\ quotaNow <= QuotasMaxTime /\ QuotasMaxTime \in Nat
  BY QuotasAssumption DEF QuotasInv, QuotasShape, Times
<1>1. /\ plan' = new /\ new \in [rate : Nat \ {0}, burst : Nat \ {0}, limit : Nat]
      /\ settled' = spent[quotaNow] /\ highest' = Larger(highest, new.limit)
      /\ UNCHANGED <<bucket, window, quotaNow, spent>>
  BY QuotasAssumption DEF UpdatePlan
<1>2. new.limit \in Nat /\ highest \in Nat /\ spent[quotaNow] \in Nat
  BY <1>0, <1>1 DEF QuotasInv, QuotasShape
<1>3. highest' \in Nat /\ highest <= highest' /\ new.limit <= highest'
  BY <1>1, <1>2 DEF Larger
<1>4. QuotasShape'
  BY <1>1, <1>2, <1>3 DEF QuotasInv, QuotasShape
<1>5. SpentGrows'
  BY <1>1, <1>2, <1>3 DEF QuotasInv, SpentGrows
<1>6. BucketKnown'
  BY <1>1 DEF QuotasInv, BucketKnown
<1>7. BucketPays'
  BY <1>1, <1>4, <1>5, <1>6, NothingTakenPaysNext DEF NothingTaken
<1>8. WindowCounts'
  BY <1>1 DEF QuotasInv, WindowCounts, SpentBefore
<1>9. Throttled'
  <2> SUFFICES ASSUME NEW from \in 0..quotaNow, NEW to \in 0..quotaNow, from <= to
               PROVE  spent[to] - Larger(SpentBefore(from), settled') <= new.burst + (to - from) * new.rate
    BY <1>1 DEF Throttled, SpentBefore
  <2>1. spent[to] <= settled' /\ spent[to] \in Nat /\ settled' \in Nat
    BY <1>0, <1>1, <1>2 DEF QuotasInv, SpentGrows, Times, QuotasShape
  <2>2. SpentBefore(from) \in Nat
    BY <1>0, SpentBeforeType DEF QuotasInv
  <2>3. Larger(SpentBefore(from), settled') \in Nat /\ settled' <= Larger(SpentBefore(from), settled')
    BY <2>1, <2>2 DEF Larger
  <2>4. new.burst \in Nat /\ new.rate \in Nat /\ to - from \in Nat
    BY <1>0, <1>1
  <2>5. (to - from) * new.rate \in Nat
    BY <2>4, Products
  <2> QED
    BY <2>1, <2>3, <2>4, <2>5
<1>10. WindowKept'
  <2> SUFFICES ASSUME NEW t \in 0..quotaNow PROVE spent[t] - SpentBefore(StartOf(t)) <= highest'
    BY <1>1 DEF WindowKept, SpentBefore
  <2>1. spent[t] - SpentBefore(StartOf(t)) <= highest
    BY DEF QuotasInv, WindowKept
  <2>2. spent[t] \in Nat
    BY <1>0 DEF QuotasInv, QuotasShape, Times
  <2>3. SpentBefore(StartOf(t)) \in Nat
    BY <1>0, StartsOf, SpentBeforeType DEF QuotasInv
  <2> QED
    BY <1>2, <1>3, <2>1, <2>2, <2>3
<1> QED
  BY <1>4, <1>5, <1>6, <1>7, <1>8, <1>9, <1>10 DEF QuotasInv

Fresh ==
  /\ QuotasShape /\ bucket = NoBucket /\ plan.limit <= highest
  /\ spent = [t \in Times |-> 0] /\ settled = 0 /\ window = [t \in Times |-> 0]

LEMMA FreshInv == ASSUME Fresh PROVE QuotasInv
<1> USE DEF Fresh
<1>1. quotaNow \in Nat /\ quotaNow <= QuotasMaxTime /\ QuotasMaxTime \in Nat /\ quotaNow \in Times
  BY QuotasAssumption DEF Times, QuotasShape
<1>2. SpentGrows /\ BucketKnown
  BY <1>1 DEF SpentGrows, BucketKnown
<1>3. BucketPays
  BY <1>1, <1>2, NothingTakenPays DEF NothingTaken
<1>4. \A t \in Nat : t <= quotaNow => SpentBefore(t) = 0
  <2> SUFFICES ASSUME NEW t \in Nat, t <= quotaNow, t # 0 PROVE spent[t - 1] = 0
    BY DEF SpentBefore
  <2>1. t - 1 \in Times
    BY <1>1 DEF Times
  <2> QED
    BY <2>1
<1>5. \A t \in 0..quotaNow : spent[t] = 0 /\ t \in Nat /\ t \in Times
  BY <1>1 DEF Times
<1>6. \A t \in 0..quotaNow : SpentBefore(StartOf(t)) = 0 /\ StartOf(t) \in Times
  <2> TAKE t \in 0..quotaNow
  <2>1. t \in Nat /\ t <= quotaNow /\ StartOf(t) \in Nat /\ StartOf(t) <= t
    BY <1>1, StartsOf
  <2>2. StartOf(t) <= quotaNow /\ StartOf(t) \in Times
    BY <1>1, <2>1 DEF Times
  <2> QED
    BY <1>4, <2>1, <2>2
<1>7. WindowKept
  <2>1. highest \in Nat
    BY DEF QuotasShape
  <2> QED
    BY <1>5, <1>6, <2>1 DEF WindowKept
<1>8. WindowCounts
  <2>1. PICK n \in 0..quotaNow : n = quotaNow
    BY <1>1
  <2>2. StartOf(quotaNow) = StartOf(n) /\ SpentBefore(StartOf(quotaNow)) = SpentBefore(StartOf(n))
    BY <2>1 DEF StartOf
  <2>3. window[StartOf(n)] = 0 /\ spent[n] = 0
    BY <1>5, <1>6
  <2> QED
    BY <1>6, <2>1, <2>2, <2>3 DEF WindowCounts
<1>9. Throttled
  <2>1. plan.rate \in Nat /\ plan.burst \in Nat
    BY DEF QuotasShape
  <2> SUFFICES ASSUME NEW from \in 0..quotaNow, NEW to \in 0..quotaNow, from <= to
               PROVE  spent[to] - Larger(SpentBefore(from), settled) <= plan.burst + (to - from) * plan.rate
    BY DEF Throttled, Larger
  <2>2. spent[to] = 0 /\ SpentBefore(from) = 0
    BY <1>1, <1>4, <1>5
  <2>3. to - from \in Nat
    BY <1>1
  <2>4. (to - from) * plan.rate \in Nat
    BY <2>1, <2>3, Products
  <2> QED
    BY <2>1, <2>2, <2>4 DEF Larger
<1> QED
  BY <1>2, <1>3, <1>7, <1>8, <1>9 DEF QuotasInv

LEMMA FreshInvNext == Fresh' => QuotasInv'
<1>1. Fresh => QuotasInv
  BY FreshInv
<1> QED
  BY <1>1, PTL

LEMMA ResetQuotaInv == ASSUME QuotasInv, ResetQuota PROVE QuotasInv'
<1>1. QuotasShape' /\ plan'.limit <= highest'
  BY DEF ResetQuota, QuotasInv, QuotasShape
<1>2. Fresh'
  BY <1>1 DEF ResetQuota, Fresh
<1> QED
  BY <1>2, FreshInvNext

\* Only a bucket that is full goes, or one that nothing was taken from.
LEMMA SweepBucketInv == ASSUME QuotasInv, SweepBucket PROVE QuotasInv'
<1>0. /\ quotaNow \in Times /\ quotaNow \in Nat /\ Spare \in Nat
      /\ plan.burst \in Nat /\ plan.rate \in Nat \ {0}
  BY QuotasAssumption DEF QuotasInv, QuotasShape, Times
<1>1. /\ bucket' = NoBucket /\ bucket # NoBucket /\ bucket.expires <= quotaNow
      /\ UNCHANGED <<plan, window, quotaNow, spent, settled, highest>>
  BY DEF SweepBucket
<1>2. QuotasShape' /\ SpentGrows' /\ BucketKnown' /\ WindowCounts' /\ Throttled' /\ WindowKept'
  BY <1>1 DEF QuotasInv, QuotasShape, SpentGrows, BucketKnown, WindowCounts, Throttled, WindowKept, SpentBefore
<1>3. CASE spent[quotaNow] = settled
  <2>1. BucketPays'
    BY <1>1, <1>2, <1>3, NothingTakenPaysNext DEF NothingTaken
  <2> QED
    BY <1>2, <2>1 DEF QuotasInv
<1>4. CASE spent[quotaNow] # settled
  <2>1. bucket \in Buckets /\ bucket.at <= quotaNow /\ bucket.expires = FullAfter(bucket.at) + Spare
    BY <1>1, <1>4 DEF QuotasInv, QuotasShape, BucketKnown
  <2>2. bucket.at \in Nat /\ bucket.tokens \in Nat
    BY <2>1 DEF Buckets
  <2>3. (plan.burst + plan.rate - 1) \div plan.rate <= quotaNow - bucket.at
    <3>1. (plan.burst + plan.rate - 1) \div plan.rate \in Nat
      <4>1. \A x \in Nat, r \in Nat \ {0} : x \div r \in Nat
        OBVIOUS
      <4>2. plan.burst + plan.rate - 1 \in Nat
        BY <1>0
      <4> QED
        BY <1>0, <4>1, <4>2
    <3> DEFINE refill == (plan.burst + plan.rate - 1) \div plan.rate
    <3>2. bucket.at + refill + Spare <= quotaNow
      BY <1>1, <2>1 DEF FullAfter
    <3> HIDE DEF refill
    <3>3. refill <= quotaNow - bucket.at
      BY <1>0, <2>2, <3>1, <3>2 DEF refill
    <3> QED
      BY <3>3 DEF refill
  <2>4. plan.burst <= (quotaNow - bucket.at) * plan.rate
    <3>1. quotaNow - bucket.at \in Nat
      BY <1>0, <2>1, <2>2
    <3> QED
      BY <1>0, <2>3, <3>1, FullByThen
  <2>5. (quotaNow - bucket.at) * plan.rate \in Nat
    BY <1>0, <2>1, <2>2, Products
  <2>6. Tokens(bucket, quotaNow) = plan.burst
    <3>1. Tokens(bucket, quotaNow) = Smaller(plan.burst, bucket.tokens + (quotaNow - bucket.at) * plan.rate)
      BY <1>1 DEF Tokens
    <3> QED
      BY <1>0, <2>2, <2>4, <2>5, <3>1 DEF Smaller
  <2>7. Tokens(bucket, quotaNow)' = plan.burst
    BY <1>1 DEF Tokens
  <2>8. BucketPays'
    BY <1>1, <2>6, <2>7 DEF QuotasInv, BucketPays, SpentBefore
  <2> QED
    BY <1>2, <2>8 DEF QuotasInv
<1> QED
  BY <1>2, <1>3, <1>4 DEF QuotasInv

\* A window that runs is not over.
LEMMA SweepWindowInv == ASSUME QuotasInv, NEW s \in Times, SweepWindow(s) PROVE QuotasInv'
<1>0. quotaNow \in Times /\ quotaNow \in Nat /\ Spare \in Nat /\ s \in Nat /\ WindowStarts \subseteq Nat
  BY QuotasAssumption DEF QuotasInv, QuotasShape, Times
<1>1. /\ window' = [window EXCEPT ![s] = 0] /\ Over(s)
      /\ UNCHANGED <<plan, bucket, quotaNow, spent, settled, highest>>
  BY DEF SweepWindow
<1>2. /\ QuotasShape' /\ SpentGrows' /\ BucketKnown' /\ BucketPays' /\ Throttled' /\ WindowKept'
  BY <1>1 DEF QuotasInv, QuotasShape, SpentGrows, BucketKnown, BucketPays, Throttled, WindowKept, SpentBefore,
              FullAfter, Tokens
<1>3. StartOf(quotaNow) # s
  <2>1. PICK end \in WindowStarts : s < end /\ end + Spare <= quotaNow
    BY <1>1 DEF Over
  <2>2. end \in Nat /\ end <= quotaNow
    BY <1>0, <2>1
  <2>3. end <= StartOf(quotaNow) /\ StartOf(quotaNow) \in Nat
    BY <1>0, <2>2, StartsOf
  <2> QED
    BY <1>0, <2>1, <2>2, <2>3
<1>4. window'[StartOf(quotaNow)] = window[StartOf(quotaNow)]
  <2>1. StartOf(quotaNow) \in Times
    BY <1>0, StartsOf, QuotasAssumption DEF Times
  <2> QED
    BY <1>1, <1>3, <2>1 DEF QuotasInv, QuotasShape
<1>5. WindowCounts'
  BY <1>1, <1>4 DEF QuotasInv, WindowCounts, SpentBefore
<1> QED
  BY <1>2, <1>5 DEF QuotasInv

LEMMA QuotasTickInv == ASSUME QuotasInv, QuotasTick PROVE QuotasInv'
<1> DEFINE next == quotaNow + 1
<1>0. /\ quotaNow \in Times /\ quotaNow \in Nat /\ next \in Times /\ next \in Nat
      /\ plan.burst \in Nat /\ plan.rate \in Nat /\ settled \in Nat /\ QuotasMaxTime \in Nat
  BY QuotasAssumption DEF QuotasInv, QuotasShape, Times, QuotasTick
<1>1. quotaNow' = next /\ UNCHANGED <<plan, bucket, window, spent, settled, highest>>
  BY DEF QuotasTick
<1>2. spent[next] = spent[quotaNow] /\ spent[quotaNow] \in Nat
  BY <1>0 DEF QuotasInv, QuotasShape, SpentGrows
<1>3. QuotasShape'
  BY <1>0, <1>1 DEF QuotasInv, QuotasShape
<1>4. SpentGrows'
  BY <1>0, <1>1, <1>2 DEF QuotasInv, SpentGrows, Times
<1>5. BucketKnown'
  <2>1. bucket # NoBucket => bucket.at \in Nat
    BY DEF QuotasInv, QuotasShape, Buckets
  <2> QED
    BY <1>0, <1>1, <1>2, <2>1 DEF QuotasInv, BucketKnown, FullAfter
<1>6. SpentBefore(next) = spent[quotaNow]
  BY <1>0 DEF SpentBefore
<1> DEFINE tokens == Tokens(bucket, quotaNow)
           more == Tokens(bucket, next)
<1>7. /\ tokens \in Nat /\ more \in Nat /\ more <= plan.burst /\ more <= tokens + plan.rate
  <2>1. tokens \in Nat /\ tokens <= plan.burst
    BY TokensType DEF QuotasInv
  <2>2. CASE bucket = NoBucket
    BY <1>0, <2>1, <2>2 DEF Tokens
  <2>3. CASE bucket # NoBucket
    <3>1. bucket.at \in Nat /\ bucket.tokens \in Nat /\ bucket.at <= quotaNow
      BY <2>3 DEF QuotasInv, QuotasShape, Buckets, BucketKnown
    <3>2. quotaNow - bucket.at \in Nat /\ next - bucket.at = quotaNow - bucket.at + 1
      BY <1>0, <3>1
    <3>3. /\ (quotaNow - bucket.at) * plan.rate \in Nat
          /\ (next - bucket.at) * plan.rate = (quotaNow - bucket.at) * plan.rate + plan.rate
      BY <1>0, <3>2, Products
    <3> HIDE DEF next
    <3> QED
      BY <1>0, <2>3, <3>1, <3>3 DEF Tokens, Smaller
  <2> QED
    BY <2>2, <2>3
<1>8. BucketPays'
  <2>1. Tokens(bucket, quotaNow)' = more
    BY <1>1 DEF Tokens
  <2> SUFFICES ASSUME NEW from \in 0..next
               PROVE  spent[next] - Larger(SpentBefore(from), settled) + more <= plan.burst + (next - from) * plan.rate
    BY <1>1, <2>1 DEF BucketPays, SpentBefore
  <2> HIDE DEF tokens, more
  <2>2. CASE from = next
    <3>1. (next - from) * plan.rate = 0
      BY <1>0, <2>2, Products
    <3>2. Larger(SpentBefore(from), settled) \in Nat /\ spent[next] <= Larger(SpentBefore(from), settled)
      BY <1>0, <1>2, <1>6, <2>2 DEF Larger
    <3> QED
      BY <1>0, <1>2, <1>7, <3>1, <3>2
  <2>3. CASE from # next
    <3>1. from \in 0..quotaNow /\ from \in Nat /\ quotaNow - from \in Nat /\ next - from = quotaNow - from + 1
      BY <1>0, <2>3
    <3>2. /\ (quotaNow - from) * plan.rate \in Nat
          /\ (next - from) * plan.rate = (quotaNow - from) * plan.rate + plan.rate
      BY <1>0, <3>1, Products
    <3>3. spent[quotaNow] - Larger(SpentBefore(from), settled) + tokens <= plan.burst + (quotaNow - from) * plan.rate
      BY <3>1 DEF QuotasInv, BucketPays, tokens
    <3>4. Larger(SpentBefore(from), settled) \in Nat
      <4>1. SpentBefore(from) \in Nat
        BY <1>0, <3>1, SpentBeforeType DEF QuotasInv
      <4> QED
        BY <1>0, <4>1 DEF Larger
    <3> HIDE DEF next
    <3> QED
      BY <1>0, <1>2, <1>7, <3>2, <3>3, <3>4
  <2> QED
    BY <2>2, <2>3
<1>9. Throttled'
  <2>1. quotaNow <= quotaNow' /\ quotaNow' <= quotaNow + 1
    BY <1>0, <1>1
  <2> HIDE DEF next
  <2> QED
    BY <1>1, <1>3, <1>5, <1>8, <2>1, ThrottledStep
\* The window goes on, or a new one starts at this moment.
<1>10. spent[next] - SpentBefore(StartOf(next)) <= window[StartOf(next)] /\ spent[next] - SpentBefore(StartOf(next)) <= highest
  <2>1. /\ StartOf(next) \in WindowStarts /\ StartOf(next) \in Nat /\ StartOf(next) <= next
        /\ \A u \in WindowStarts : u <= next => u <= StartOf(next)
    BY <1>0, StartsOf
  <2>2. /\ StartOf(quotaNow) \in WindowStarts /\ StartOf(quotaNow) \in Nat /\ StartOf(quotaNow) <= quotaNow
        /\ \A u \in WindowStarts : u <= quotaNow => u <= StartOf(quotaNow)
    BY <1>0, StartsOf
  <2>3. window[StartOf(next)] \in Nat /\ highest \in Nat
    <3>1. StartOf(next) \in Times
      BY <1>0, <2>1 DEF Times
    <3> QED
      BY <3>1 DEF QuotasInv, QuotasShape
  <2>4. CASE StartOf(next) = next
    BY <1>2, <1>6, <2>3, <2>4
  <2>5. CASE StartOf(next) # next
    <3>1. StartOf(next) = StartOf(quotaNow)
      BY <1>0, <2>1, <2>2, <2>5
    <3>2. spent[quotaNow] - SpentBefore(StartOf(quotaNow)) <= window[StartOf(quotaNow)]
      BY DEF QuotasInv, WindowCounts
    <3>3. spent[quotaNow] - SpentBefore(StartOf(quotaNow)) <= highest
      BY <1>0 DEF QuotasInv, WindowKept
    <3> HIDE DEF next
    <3> QED
      BY <1>2, <3>1, <3>2, <3>3
  <2> QED
    BY <2>4, <2>5
<1>11. StartOf(quotaNow)' = StartOf(next) /\ SpentBefore(StartOf(quotaNow))' = SpentBefore(StartOf(next))
  BY <1>1 DEF StartOf, SpentBefore
<1> HIDE DEF next
<1>12. WindowCounts'
  BY <1>1, <1>10, <1>11 DEF WindowCounts
<1>13. WindowKept'
  <2>1. spent'[quotaNow'] - SpentBefore(StartOf(quotaNow))' <= highest'
    BY <1>1, <1>10, <1>11
  <2>2. quotaNow <= quotaNow' /\ quotaNow' <= quotaNow + 1 /\ highest <= highest'
    BY <1>0, <1>1 DEF next, QuotasInv, QuotasShape
  <2> QED
    BY <1>1, <1>3, <2>1, <2>2, WindowsStep
<1> QED
  BY <1>3, <1>4, <1>5, <1>8, <1>9, <1>12, <1>13 DEF QuotasInv

LEMMA QuotasInitInv == ASSUME QuotasInit PROVE QuotasInv
<1>1. QuotasShape /\ quotaNow \in Times /\ plan.limit <= highest
  BY QuotasAssumption DEF QuotasInit, QuotasShape, Times
<1> QED
  BY <1>1, FreshInv DEF QuotasInit, Fresh

LEMMA QuotasSame == ASSUME QuotasInv, UNCHANGED quotaVars PROVE QuotasInv'
BY DEF quotaVars, QuotasInv, QuotasShape, SpentGrows, BucketKnown, BucketPays, WindowCounts, Throttled, WindowKept,
       SpentBefore, FullAfter, Tokens

LEMMA QuotasAlwaysKept == QuotasSpec => []WithinQuota
<1>1. QuotasInit => QuotasInv
  BY QuotasInitInv
<1>2. QuotasInv /\ [QuotasNext]_quotaVars => QuotasInv'
  BY ConsumeQuotaInv, UpdatePlanInv, ResetQuotaInv, SweepBucketInv, SweepWindowInv, QuotasTickInv, QuotasSame
  DEF QuotasNext
<1>3. QuotasInv => WithinQuota
  BY DEF QuotasInv, WithinQuota
<1> QED
  BY <1>1, <1>2, <1>3, PTL DEF QuotasSpec

(***************************************************************************)
(* Seats.                                                                  *)
(***************************************************************************)
FrontOf(C, B, n) == {p \in C : Cardinality({q \in C : <<q, p>> \in B}) < n}

\* Whoever ranks below n in a finite line: n of them, if so many stand there.
LEMMA InLine ==
  ASSUME NEW C, IsFiniteSet(C), NEW B,
         \A p \in C : <<p, p>> \notin B,
         \A p, q, r \in C : <<p, q>> \in B /\ <<q, r>> \in B => <<p, r>> \in B,
         \A p, q \in C : p = q \/ <<p, q>> \in B \/ <<q, p>> \in B,
         NEW n \in Nat
  PROVE  Cardinality(FrontOf(C, B, n)) = IF Cardinality(C) < n THEN Cardinality(C) ELSE n
<1> DEFINE Ahead(p) == {q \in C : <<q, p>> \in B}
           rank == [p \in C |-> Cardinality(Ahead(p))]
           size == Cardinality(C)
<1>1. size \in Nat
  BY FS_CardinalityType
<1>2. ASSUME NEW p \in C PROVE IsFiniteSet(Ahead(p)) /\ rank[p] \in Nat
  BY FS_Subset, FS_CardinalityType
<1>3. ASSUME NEW p \in C PROVE rank[p] < size
  <2>1. Ahead(p) \in SUBSET (C \ {p})
    OBVIOUS
  <2>2. IsFiniteSet(C \ {p}) /\ Cardinality(C \ {p}) = size - 1
    BY FS_RemoveElement
  <2>3. Cardinality(Ahead(p)) <= Cardinality(C \ {p})
    BY <2>1, <2>2, FS_Subset
  <2>4. rank[p] = Cardinality(Ahead(p))
    OBVIOUS
  <2> HIDE DEF rank, Ahead
  <2> QED
    BY <1>1, <1>2, <2>2, <2>3, <2>4
<1>4. ASSUME NEW p \in C, NEW q \in C, <<q, p>> \in B PROVE rank[q] < rank[p]
  <2>1. Ahead(q) \cup {q} \in SUBSET Ahead(p) /\ q \notin Ahead(q)
    BY <1>4
  <2>2. Cardinality(Ahead(q) \cup {q}) = Cardinality(Ahead(q)) + 1
    BY <1>2, <2>1, FS_AddElement
  <2>3. Cardinality(Ahead(q) \cup {q}) <= Cardinality(Ahead(p))
    BY <1>2, <2>1, FS_Subset
  <2> QED
    BY <1>2, <2>2, <2>3
<1> HIDE DEF rank, size
<1>5. \A p \in C : rank[p] \in 0..(size - 1)
  <2>1. \A p \in C : rank[p] \in Nat /\ rank[p] < size
    BY <1>2, <1>3
  <2> HIDE DEF Ahead
  <2> QED
    BY <1>1, <2>1
<1>6. \A p, q \in C : rank[p] = rank[q] => p = q
  <2>1. \A p \in C : rank[p] \in Nat
    BY <1>2
  <2>2. \A p, q \in C : <<q, p>> \in B => rank[q] < rank[p]
    BY <1>4
  <2> HIDE DEF Ahead
  <2> SUFFICES ASSUME NEW p \in C, NEW q \in C, rank[p] = rank[q], p # q PROVE FALSE
    OBVIOUS
  <2>3. <<p, q>> \in B \/ <<q, p>> \in B
    OBVIOUS
  <2>4. rank[p] < rank[q] \/ rank[q] < rank[p]
    BY <2>2, <2>3
  <2>5. rank[p] \in Nat /\ rank[q] \in Nat
    BY <2>1
  <2> QED
    BY <2>4, <2>5
<1>7. \A i \in 0..(size - 1) : \E p \in C : rank[p] = i
  <2>1. rank \in Injection(C, 0..(size - 1))
    BY <1>5, <1>6 DEF Injection, IsInjective, rank
  <2>2. IsFiniteSet(0..(size - 1)) /\ Cardinality(0..(size - 1)) = size
    <3>1. size - 1 \in Int /\ (0 > size - 1 => size = 0) /\ size - 1 - 0 + 1 = size
      BY <1>1
    <3>2. IsFiniteSet(0..(size - 1)) /\ Cardinality(0..(size - 1)) = IF 0 > size - 1 THEN 0 ELSE size - 1 - 0 + 1
      BY <3>1, FS_Interval
    <3> QED
      BY <3>1, <3>2
  <2>3. rank \in Surjection(C, 0..(size - 1))
    BY <2>1, <2>2, FS_Injection DEF size
  <2> QED
    BY <2>3 DEF Surjection
<1> DEFINE m == IF size < n THEN size ELSE n
           ahead == {p \in C : rank[p] < n}
           place == [p \in ahead |-> rank[p]]
<1>8. m \in Nat /\ IsFiniteSet(0..(m - 1)) /\ Cardinality(0..(m - 1)) = m
  <2>1. m \in Nat
    BY <1>1
  <2> HIDE DEF m
  <2>2. m - 1 \in Int /\ (0 > m - 1 => m = 0) /\ m - 1 - 0 + 1 = m
    BY <2>1
  <2>3. IsFiniteSet(0..(m - 1)) /\ Cardinality(0..(m - 1)) = IF 0 > m - 1 THEN 0 ELSE m - 1 - 0 + 1
    BY <2>2, FS_Interval
  <2> QED
    BY <2>1, <2>2, <2>3
<1>9. place \in Injection(ahead, 0..(m - 1))
  <2>1. \A p \in ahead : place[p] \in 0..(m - 1)
    BY <1>1, <1>5
  <2> QED
    BY <1>6, <2>1 DEF Injection, IsInjective
<1>10. \A i \in 0..(m - 1) : \E p \in ahead : place[p] = i
  <2> TAKE i \in 0..(m - 1)
  <2>1. i \in 0..(size - 1) /\ i < n
    BY <1>1
  <2>2. PICK p \in C : rank[p] = i
    BY <1>7, <2>1
  <2> QED
    BY <2>1, <2>2
<1>11. place \in Surjection(ahead, 0..(m - 1))
  BY <1>9, <1>10 DEF Surjection, Injection
<1>12. Cardinality(ahead) = m
  BY <1>8, <1>9, <1>11, FS_Injection
<1>13. ahead = FrontOf(C, B, n)
  BY DEF rank, FrontOf
<1> QED
  BY <1>12, <1>13 DEF size
LicensesShape ==
  /\ product \in {"active", "retired"} /\ visible \in BOOLEAN
  /\ pool \in [Pools -> [quantity : Nat, ends : Nat \cup {Forever}]]
  /\ direct \subseteq People /\ group \in BOOLEAN
  /\ member \in [People -> Nat \cup {Forever}]
  /\ status \in [People -> {"active", "disabled", "deleted"}]
  /\ seat \in [People -> {"none", "active", "waiting"}]
  /\ since \in [People -> Nat] /\ sources \in [People -> BOOLEAN]
  /\ seatsNow \in Nat /\ stale \in BOOLEAN

SinceThen == \A p \in People : since[p] <= seatsNow

\* What a seat was given for, as far as it is still there.
Due == \A p \in People : (sources[p] => p \in direct) /\ (seat[p] # "none" /\ ~sources[p] => group)

\* Nobody has just come.
AllPlaced == ~stale => \A p \in Claimants : seat[p] # "none"

LicensesInv == LicensesShape /\ SinceThen /\ Due /\ AllPlaced /\ SeniorFirst /\ SeatsFilled

LEMMA SeatsCounted ==
  ASSUME NEW pools \in [Pools -> [quantity : Nat, ends : Nat \cup {Forever}]], NEW P \in SUBSET Pools
  PROVE  Cardinality(UNION {{p} \X (1..pools[p].quantity) : p \in P}) \in Nat
<1> DEFINE of == [p \in P |-> {p} \X (1..pools[p].quantity)]
           all == {{p} \X (1..pools[p].quantity) : p \in P}
<1>1. IsFiniteSet(P)
  BY LicensesAssumption, FS_Subset
<1>2. of \in Surjection(P, all)
  BY DEF Surjection
<1>3. IsFiniteSet(all)
  BY <1>1, <1>2, FS_Surjection
<1>4. ASSUME NEW p \in P PROVE IsFiniteSet({p} \X (1..pools[p].quantity))
  <2>1. pools[p].quantity \in Int
    OBVIOUS
  <2>2. IsFiniteSet(1..pools[p].quantity)
    BY <2>1, FS_Interval
  <2> QED
    BY <2>2, FS_Singleton, FS_Product
<1>5. \A T \in all : IsFiniteSet(T)
  BY <1>4
<1> HIDE DEF all
<1>6. IsFiniteSet(UNION all)
  BY <1>3, <1>5, FS_UNION
<1> QED
  BY <1>6, FS_CardinalityType DEF all

\* Claims stand in a line.
LEMMA InTurn == ASSUME LicensesShape PROVE
  /\ \A p \in People : ~Before(p, p)
  /\ \A p, q, r \in People : Before(p, q) /\ Before(q, r) => Before(p, r)
  /\ \A p, q \in People : p = q \/ Before(p, q) \/ Before(q, p)
<1>1. \A p \in People : p \in Nat /\ Seniority(p) \in Nat /\ Standing(p) \in Nat
  BY LicensesAssumption DEF LicensesShape, Seniority, Standing
<1> QED
  BY <1>1 DEF Before

\* The seats a reconciliation gives out.
LEMMA Placed ==
  ASSUME LicensesInv, NEW C \in SUBSET People, NEW n \in Nat
  PROVE  /\ Cardinality({p \in People : p \in C /\ Seated(p, C, n)}) = IF Cardinality(C) < n THEN Cardinality(C) ELSE n
         /\ \A p, q \in C : Seated(p, C, n) /\ ~Seated(q, C, n) => Seniority(p) <= Seniority(q)
         /\ \A p \in C : seat[p] = "active" /\ ~Seated(p, C, n) => n < Cardinality(Holders)
<1> DEFINE B == {x \in C \X C : Before(x[1], x[2])}
           Ahead(p) == {q \in C : Before(q, p)}
<1>0. IsFiniteSet(C) /\ LicensesShape
  BY LicensesAssumption, FS_Subset DEF LicensesInv
<1>1. \A p, q \in C : <<p, q>> \in B <=> Before(p, q)
  OBVIOUS
<1>2. /\ \A p \in C : <<p, p>> \notin B
      /\ \A p, q, r \in C : <<p, q>> \in B /\ <<q, r>> \in B => <<p, r>> \in B
      /\ \A p, q \in C : p = q \/ <<p, q>> \in B \/ <<q, p>> \in B
  <2> HIDE DEF B
  <2> QED
    BY <1>0, <1>1, InTurn
<1>3. Cardinality({p \in People : p \in C /\ Seated(p, C, n)}) = IF Cardinality(C) < n THEN Cardinality(C) ELSE n
  <2>1. \A p \in C : {q \in C : <<q, p>> \in B} = Ahead(p)
    BY <1>1
  <2>2. {p \in People : p \in C /\ Seated(p, C, n)} = {p \in C : Cardinality({q \in C : <<q, p>> \in B}) < n}
    BY <2>1 DEF Seated
  <2> HIDE DEF B
  <2>3. Cardinality(FrontOf(C, B, n)) = IF Cardinality(C) < n THEN Cardinality(C) ELSE n
    BY <1>0, <1>2, InLine
  <2> QED
    BY <2>2, <2>3 DEF FrontOf
<1>4. ASSUME NEW p \in C PROVE IsFiniteSet(Ahead(p)) /\ Cardinality(Ahead(p)) \in Nat
  BY <1>0, FS_Subset, FS_CardinalityType
<1>5. ASSUME NEW p \in C, NEW q \in C, Seated(p, C, n), ~Seated(q, C, n) PROVE Seniority(p) <= Seniority(q)
  <2> SUFFICES ASSUME ~(Seniority(p) <= Seniority(q)) PROVE FALSE
    OBVIOUS
  <2>1. Before(q, p)
    BY <1>0 DEF Before, Seniority, LicensesShape
  <2>2. Ahead(q) \in SUBSET Ahead(p)
    BY <1>0, <2>1, InTurn
  <2>3. Cardinality(Ahead(q)) <= Cardinality(Ahead(p))
    BY <1>4, <2>2, FS_Subset
  <2>4. Cardinality(Ahead(p)) < n /\ ~(Cardinality(Ahead(q)) < n)
    BY <1>5 DEF Seated
  <2> QED
    BY <1>4, <2>3, <2>4
<1>6. ASSUME NEW p \in C, seat[p] = "active", ~Seated(p, C, n) PROVE n < Cardinality(Holders)
  <2>1. Ahead(p) \in SUBSET (Holders \ {p})
    <3> SUFFICES ASSUME NEW q \in C, Before(q, p) PROVE seat[q] = "active" /\ q # p
      BY DEF Holders
    <3>1. q # p
      BY <1>0, InTurn
    <3>2. seat[q] # "none"
      BY <1>0, <1>6 DEF Before, Seniority, Standing, LicensesShape, LicensesInv, SinceThen
    <3>3. seat[q] # "waiting"
      <4> SUFFICES ASSUME seat[q] = "waiting" PROVE FALSE
        OBVIOUS
      <4>1. since[p] <= since[q] /\ since[p] \in Nat /\ since[q] \in Nat
        BY <1>6 DEF LicensesInv, SeniorFirst, Holders, Waiting, LicensesShape
      <4> QED
        BY <1>6, <4>1 DEF Before, Seniority, Standing
    <3> QED
      BY <1>0, <3>1, <3>2, <3>3 DEF LicensesShape
  <2>2. IsFiniteSet(Holders) /\ p \in Holders /\ Cardinality(Holders) \in Nat
    BY <1>6, LicensesAssumption, FS_Subset, FS_CardinalityType DEF Holders
  <2>3. IsFiniteSet(Holders \ {p}) /\ Cardinality(Holders \ {p}) = Cardinality(Holders) - 1
    BY <2>2, FS_RemoveElement
  <2>4. Cardinality(Ahead(p)) <= Cardinality(Holders \ {p})
    BY <2>1, <2>3, FS_Subset
  <2>5. ~(Cardinality(Ahead(p)) < n)
    BY <1>6 DEF Seated
  <2> QED
    BY <1>4, <2>2, <2>3, <2>4, <2>5
<1> QED
  BY <1>3, <1>5, <1>6

RulesShape ==
  /\ product \in {"active", "retired"} /\ visible \in BOOLEAN
  /\ pool \in [Pools -> [quantity : Nat, ends : Nat \cup {Forever}]]
  /\ direct \subseteq People /\ group \in BOOLEAN
  /\ member \in [People -> Nat \cup {Forever}]
  /\ status \in [People -> {"active", "disabled", "deleted"}]

LEMMA ReconcileInv == ASSUME LicensesInv, RulesShape', Reconcile PROVE LicensesInv' /\ SeatKept
<1> PICK C : C = Claimants'
  OBVIOUS
<1> PICK n : n = IF product' = "active" /\ visible' THEN Capacity' ELSE 0
  OBVIOUS
<1>1. /\ seatsNow' = seatsNow /\ stale' = FALSE
      /\ seat' = [p \in People |-> IF p \notin C THEN "none" ELSE IF Seated(p, C, n) THEN "active" ELSE "waiting"]
      /\ since' = [p \in People |-> IF p \in C THEN Seniority(p) ELSE 0]
      /\ sources' = [p \in People |-> p \in C /\ p \in direct']
  BY DEF Reconcile
<1>2. C \in SUBSET People
  BY DEF Claimants
<1>3. n \in Nat
  <2>1. Capacity' = Cardinality(UNION {{p} \X (1..pool'[p].quantity) : p \in {p \in Pools : Runs(pool[p].ends)'}})
    BY DEF Capacity
  <2>2. {p \in Pools : Runs(pool[p].ends)'} \in SUBSET Pools
    OBVIOUS
  <2>3. pool' \in [Pools -> [quantity : Nat, ends : Nat \cup {Forever}]]
    BY DEF RulesShape
  <2>4. Capacity' \in Nat
    BY <2>1, <2>2, <2>3, SeatsCounted
  <2> QED
    BY <2>4
<1>4. /\ Cardinality({p \in People : p \in C /\ Seated(p, C, n)}) = IF Cardinality(C) < n THEN Cardinality(C) ELSE n
      /\ \A p, q \in C : Seated(p, C, n) /\ ~Seated(q, C, n) => Seniority(p) <= Seniority(q)
      /\ \A p \in C : seat[p] = "active" /\ ~Seated(p, C, n) => n < Cardinality(Holders)
  BY <1>2, <1>3, Placed
<1>5. LicensesShape'
  <2>1. \A p \in People : Seniority(p) \in Nat
    BY DEF LicensesInv, LicensesShape, Seniority
  <2> QED
    BY <1>1, <2>1 DEF LicensesInv, LicensesShape, RulesShape
<1>6. SinceThen'
  BY <1>1 DEF LicensesInv, LicensesShape, SinceThen, Seniority
<1>7. Due'
  BY <1>1 DEF Due, Claimants
<1>8. AllPlaced'
  BY <1>1 DEF AllPlaced, Claimants
<1>9. SeniorFirst'
  <2>1. Holders' = {p \in People : p \in C /\ Seated(p, C, n)}
    BY <1>1 DEF Holders
  <2>2. Waiting' = {p \in People : p \in C /\ ~Seated(p, C, n)}
    BY <1>1 DEF Waiting
  <2> QED
    BY <1>1, <1>4, <2>1, <2>2 DEF SeniorFirst
<1>10. SeatsFilled'
  <2>1. Holders' = {p \in People : p \in C /\ Seated(p, C, n)}
    BY <1>1 DEF Holders
  <2> QED
    BY <1>4, <2>1 DEF SeatsFilled
<1>11. SeatKept
  <2> SUFFICES ASSUME NEW p \in Holders, seat'[p] = "waiting" PROVE Capacity' < Cardinality(Holders)
    BY DEF SeatKept
  <2>1. p \in C /\ ~Seated(p, C, n) /\ seat[p] = "active"
    BY <1>1 DEF Holders
  <2>2. product' = "active" /\ visible'
    BY <2>1 DEF Claimants
  <2> QED
    BY <1>4, <2>1, <2>2
<1> QED
  BY <1>5, <1>6, <1>7, <1>8, <1>9, <1>10, <1>11 DEF LicensesInv

LEMMA SeatsStayKept == ASSUME seat' = seat PROVE SeatKept
BY DEF SeatKept, Holders

\* Nothing that reconciles later lets the seats be counted against the rules.
LEMMA StaleInv ==
  ASSUME LicensesInv, RulesShape', UNCHANGED <<seats, direct, group>>, stale' = TRUE,
         seatsNow' \in Nat, seatsNow <= seatsNow'
  PROVE  LicensesInv'
<1>1. LicensesShape' /\ SinceThen'
  BY DEF LicensesInv, LicensesShape, RulesShape, SinceThen, seats
<1>2. Due' /\ SeniorFirst'
  BY DEF LicensesInv, Due, SeniorFirst, Holders, Waiting, seats
<1>3. AllPlaced' /\ SeatsFilled'
  BY DEF AllPlaced, SeatsFilled
<1> QED
  BY <1>1, <1>2, <1>3 DEF LicensesInv

\* A change that touches no claim.
LEMMA SameClaimsInv ==
  ASSUME LicensesInv, RulesShape', UNCHANGED <<seats, seatsNow, stale, product, visible, pool, direct, group>>,
         ~stale => Claimants' = Claimants
  PROVE  LicensesInv'
<1>1. LicensesShape' /\ SinceThen'
  BY DEF LicensesInv, LicensesShape, RulesShape, SinceThen, seats
<1>2. Due' /\ SeniorFirst'
  BY DEF LicensesInv, Due, SeniorFirst, Holders, Waiting, seats
<1>3. AllPlaced'
  BY DEF LicensesInv, AllPlaced, seats
<1>4. SeatsFilled'
  <2>1. Capacity' = Capacity
    BY DEF Capacity, Runs
  <2>2. Holders' = Holders
    BY DEF Holders, seats
  <2> QED
    BY <2>1, <2>2 DEF LicensesInv, SeatsFilled
<1> QED
  BY <1>1, <1>2, <1>3, <1>4 DEF LicensesInv

LEMMA SetPoolInv == ASSUME LicensesInv, NEW p \in Pools, SetPool(p) PROVE LicensesInv' /\ SeatKept
<1>1. PICK r \in [quantity : Nat, ends : Nat \cup {Forever}] : pool' = [pool EXCEPT ![p] = r]
  BY LicensesAssumption DEF SetPool, NoPool, LicensesInv, LicensesShape
<1>2. RulesShape'
  BY <1>1 DEF SetPool, LicensesInv, LicensesShape, RulesShape
<1> QED
  BY <1>2, ReconcileInv DEF SetPool

LEMMA PeopleInv ==
  ASSUME LicensesInv, NEW p \in People, Assign(p) \/ Unassign(p) PROVE LicensesInv' /\ SeatKept
<1>1. RulesShape' /\ Reconcile
  BY DEF Assign, Unassign, LicensesInv, LicensesShape, RulesShape
<1> QED
  BY <1>1, ReconcileInv

LEMMA GroupInv == ASSUME LicensesInv, AssignGroup \/ Retire PROVE LicensesInv' /\ SeatKept
<1>1. RulesShape' /\ Reconcile
  BY DEF AssignGroup, Retire, LicensesInv, LicensesShape, RulesShape
<1> QED
  BY <1>1, ReconcileInv

LEMMA JobInv == ASSUME LicensesInv, ReconcileJob PROVE LicensesInv' /\ SeatKept
<1>1. RulesShape' /\ Reconcile
  BY DEF ReconcileJob, rules, LicensesInv, LicensesShape, RulesShape
<1> QED
  BY <1>1, ReconcileInv

LEMMA SetMemberInv == ASSUME LicensesInv, NEW p \in People, SetMember(p) PROVE LicensesInv' /\ SeatKept
<1>1. RulesShape'
  <2>1. PICK ends \in Nat \cup {Forever} : member' = [member EXCEPT ![p] = ends]
    <3>1. PICK ends \in {0} \cup ((seatsNow + 1)..LicensesMaxTime) \cup {Forever} : member' = [member EXCEPT ![p] = ends]
      BY DEF SetMember
    <3>2. ends \in Nat \cup {Forever}
      BY DEF LicensesInv, LicensesShape
    <3> QED
      BY <3>1, <3>2
  <2> QED
    BY <2>1 DEF SetMember, LicensesInv, LicensesShape, RulesShape
<1>2. CASE group
  BY <1>1, <1>2, ReconcileInv DEF SetMember
<1>3. CASE ~group
  <2>1. UNCHANGED <<seats, seatsNow, stale, product, visible, pool, direct, group, status>>
    BY <1>3 DEF SetMember
  <2>2. Claimants' = Claimants
    BY <1>3, <2>1 DEF Claimants
  <2> QED
    BY <1>1, <2>1, <2>2, SameClaimsInv, SeatsStayKept DEF seats
<1> QED
  BY <1>2, <1>3

LEMMA DeletePersonInv == ASSUME LicensesInv, NEW p \in People, DeletePerson(p) PROVE LicensesInv' /\ SeatKept
<1>1. RulesShape'
  BY DEF DeletePerson, LicensesInv, LicensesShape, RulesShape
<1>2. CASE p \in direct \/ seat[p] # "none"
  BY <1>1, <1>2, ReconcileInv DEF DeletePerson
<1>3. CASE ~(p \in direct \/ seat[p] # "none")
  <2>1. UNCHANGED <<seats, seatsNow, stale, product, visible, pool, direct, group>>
    BY <1>3 DEF DeletePerson
  <2>2. /\ status' = [status EXCEPT ![p] = "deleted"] /\ member' = [member EXCEPT ![p] = 0]
    BY DEF DeletePerson
  <2>3. ASSUME ~stale PROVE Claimants' = Claimants
    <3>1. p \notin Claimants
      BY <1>3, <2>3 DEF LicensesInv, AllPlaced
    <3>2. p \notin Claimants'
      BY <2>2 DEF Claimants, LicensesInv, LicensesShape
    <3>3. \A q \in People \ {p} : status'[q] = status[q] /\ member'[q] = member[q] /\ (LiveMember(q)' <=> LiveMember(q))
      BY <2>1, <2>2 DEF LiveMember, Runs, LicensesInv, LicensesShape
    <3>4. \A q \in People \ {p} : q \in Claimants' <=> q \in Claimants
      BY <2>1, <3>3 DEF Claimants
    <3>5. Claimants \subseteq People /\ Claimants' \subseteq People
      BY DEF Claimants
    <3> QED
      BY <3>1, <3>2, <3>4, <3>5
  <2> QED
    BY <1>1, <2>1, <2>3, SameClaimsInv, SeatsStayKept DEF seats
<1> QED
  BY <1>2, <1>3

LEMMA LaterInv ==
  ASSUME LicensesInv, Reparent \/ LicensesTick \/ \E p \in People : SetStatus(p)
  PROVE  LicensesInv' /\ SeatKept
<1>1. CASE \E p \in People : SetStatus(p)
  <2> PICK p \in People : SetStatus(p)
    BY <1>1
  <2>1. RulesShape'
    BY DEF SetStatus, LicensesInv, LicensesShape, RulesShape
  <2> QED
    BY <2>1, StaleInv, SeatsStayKept DEF SetStatus, seats, LicensesInv, LicensesShape
<1>2. CASE Reparent
  <2>1. RulesShape'
    BY <1>2 DEF Reparent, LicensesInv, LicensesShape, RulesShape
  <2> QED
    BY <1>2, <2>1, StaleInv, SeatsStayKept DEF Reparent, seats, LicensesInv, LicensesShape
<1>3. CASE LicensesTick
  <2>1. RulesShape'
    BY <1>3 DEF LicensesTick, rules, LicensesInv, LicensesShape, RulesShape
  <2> QED
    BY <1>3, <2>1, StaleInv, SeatsStayKept DEF LicensesTick, rules, seats, LicensesInv, LicensesShape
<1> QED
  BY <1>1, <1>2, <1>3

LEMMA LicensesSame == ASSUME LicensesInv, UNCHANGED licenseVars PROVE LicensesInv' /\ SeatKept
<1>1. RulesShape'
  BY DEF licenseVars, rules, LicensesInv, LicensesShape, RulesShape
<1>2. UNCHANGED <<seats, seatsNow, stale, product, visible, pool, direct, group>> /\ seat' = seat
  BY DEF licenseVars, rules, seats
<1>3. Claimants' = Claimants
  BY DEF licenseVars, rules, Claimants, LiveMember, Runs
<1> QED
  BY <1>1, <1>2, <1>3, SameClaimsInv, SeatsStayKept

LEMMA LicensesInitInv == ASSUME LicensesInit PROVE LicensesInv
<1> USE LicensesAssumption DEF LicensesInit
<1>1. LicensesShape /\ SinceThen /\ Due /\ SeniorFirst
  <2>1. LicensesShape
    BY DEF LicensesShape, NoPool
  <2>2. SinceThen /\ Due
    BY DEF SinceThen, Due
  <2>3. SeniorFirst
    BY DEF SeniorFirst, Holders
  <2> QED
    BY <2>1, <2>2, <2>3
<1>2. Claimants = {} /\ Holders = {}
  BY DEF Claimants, LiveMember, Holders
<1>3. Capacity \in Nat
  <2>1. pool \in [Pools -> [quantity : Nat, ends : Nat \cup {Forever}]]
    BY <1>1 DEF LicensesShape
  <2>2. {p \in Pools : Runs(pool[p].ends)} \in SUBSET Pools
    OBVIOUS
  <2> HIDE DEF LicensesInit
  <2> QED
    BY <2>1, <2>2, SeatsCounted DEF Capacity
<1>4. AllPlaced /\ SeatsFilled
  BY <1>2, <1>3, FS_EmptySet DEF AllPlaced, SeatsFilled
<1> QED
  BY <1>1, <1>4 DEF LicensesInv

LEMMA SeatsAreRight == LicensesInv => SeatsRight
<1> SUFFICES ASSUME LicensesInv PROVE HeldIsDue
  BY DEF SeatsRight, LicensesInv
<1> QED
  BY DEF LicensesInv, LicensesShape, Due, HeldIsDue, Held

LEMMA SeatsAlwaysRight == LicensesSpec => []SeatsRight /\ HoldersKeep
<1>1. LicensesInit => LicensesInv
  BY LicensesInitInv
<1>2. LicensesInv /\ [LicensesNext]_licenseVars => LicensesInv' /\ [SeatKept]_licenseVars
  BY SetPoolInv, PeopleInv, GroupInv, JobInv, SetMemberInv, DeletePersonInv, LaterInv, LicensesSame
  DEF LicensesNext
<1>3. LicensesInv => SeatsRight
  BY SeatsAreRight
<1> QED
  BY <1>1, <1>2, <1>3, PTL DEF LicensesSpec, HoldersKeep

(***************************************************************************)
(* The four together.                                                      *)
(***************************************************************************)
\* Nobody gets past a limit: no stretch of a window's length permits more than
\* two windows' worth of attempts, whatever sweeps delete and processes wait;
\* a live counter in memory only goes when the map is full; a quota lets
\* through one burst and its rate, and a window its limit; seats are given out
\* to the senior claimants, all of them and no more, and a holder keeps one.
THEOREM NobodyGetsPastALimit == LimitsSpec => LimitsHold
BY BurstsAlwaysBounded, LiveKeptFairly, QuotasAlwaysKept, SeatsAlwaysRight, PTL DEF LimitsSpec, LimitsHold
=============================================================================
