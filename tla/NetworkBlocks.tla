--------------------------- MODULE NetworkBlocks ----------------------------
(***************************************************************************)
(* Network blocks and the cache in front of them: blockNetwork and         *)
(* unblockNetwork (packages/server/src/api/security.ts), networkBlocks and *)
(* blockedNetwork (packages/auth/src/service/base.ts), and the sweep of    *)
(* lapsed blocks (packages/server/src/lifecycle.ts).  One address and one  *)
(* tenant; the checks are those of sign-ins, which read outside of a       *)
(* transaction (rateClient), on the pool of the PostgreSQL adapter.        *)
(***************************************************************************)
EXTENDS Naturals, FiniteSets

CONSTANTS
  Processes,
  Kinds,       \* of blocks: the tenant's own and platform-wide ones
  Checks,      \* sign-in attempts from the address
  CheckIn,     \* check -> its process
  BlocksWindow,  \* BLOCK_CACHE_MS
  Durations,   \* what blocks last
  BlocksMaxTime,     \* bound on the clock
  BlocksMaxChanges,  \* bound on changes by administrators
  None

ASSUME BlocksAssumption ==
  /\ CheckIn \in [Checks -> Processes]
  /\ BlocksWindow \in Nat \ {0} /\ Durations \subseteq Nat
  /\ BlocksMaxTime \in Nat /\ BlocksMaxChanges \in Nat
  /\ None \notin Nat \cup Processes \cup Kinds \cup [at : Nat, list : [Kinds -> Nat]]

VARIABLES
  until,     \* kind -> expiresAt of the block that covers the address, 0 for none
  change,    \* the administrator's operation that runs: open, committed or none
  cache,     \* process -> the list it cached and when, or None
  check,     \* check -> idle, reading, or its verdict: passed or refused
  started,   \* check -> when it started
  read,      \* check -> the kinds it has read
  swept,     \* kinds the sweep listed as lapsed
  now,
  changes,
  \* history
  promised,  \* kind -> what the last administrator's change set
  changed    \* kind -> when that was committed

blocks == <<until, promised, changed>>
checking == <<check, started, read>>
networkVars == <<blocks, change, cache, checking, swept, now, changes>>

NoChange == [in |-> None, kind |-> None, until |-> 0, phase |-> "none"]

BlocksInit ==
  /\ until = [k \in Kinds |-> 0]
  /\ change = NoChange
  /\ cache = [p \in Processes |-> None]
  /\ check = [c \in Checks |-> "idle"]
  /\ started = [c \in Checks |-> 0]
  /\ read = [c \in Checks |-> [k \in Kinds |-> None]]
  /\ swept = {} /\ now = 0 /\ changes = 0
  /\ promised = [k \in Kinds |-> 0]
  /\ changed = [k \in Kinds |-> 0]

-----------------------------------------------------------------------------
(* Administrators *)

\* The write and the first invalidation, inside the transaction.
ChangeBlock(p, k, u) ==
  /\ change.phase = "none" /\ changes < BlocksMaxChanges
  /\ changes' = changes + 1
  /\ change' = [in |-> p, kind |-> k, until |-> u, phase |-> "open"]
  /\ cache' = [cache EXCEPT ![p] = None]
  /\ UNCHANGED <<blocks, checking, swept, now>>

BlockNetwork(p, k) == \E d \in Durations : ChangeBlock(p, k, now + d)

UnblockNetwork(p, k) == until[k] > 0 /\ ChangeBlock(p, k, 0)

ChangeCommits ==
  /\ change.phase = "open"
  /\ change' = [change EXCEPT !.phase = "committed"]
  /\ until' = [until EXCEPT ![change.kind] = change.until]
  /\ promised' = [promised EXCEPT ![change.kind] = change.until]
  /\ changed' = [changed EXCEPT ![change.kind] = now]
  /\ UNCHANGED <<cache, checking, swept, now, changes>>

\* blockChange: the second invalidation, whether it committed or not.
ChangeReturns ==
  /\ change.phase # "none"
  /\ change' = NoChange
  /\ cache' = [cache EXCEPT ![change.in] = None]
  /\ UNCHANGED <<blocks, checking, swept, now, changes>>

-----------------------------------------------------------------------------
(* Checks *)

Covers(list) == \E k \in Kinds : list[k] > now

Verdict(c, list) ==
  check' = [check EXCEPT ![c] = IF Covers(list) THEN "refused" ELSE "passed"]

CacheHit(p) ==
  /\ cache[p] # None
  /\ now - cache[p].at < BlocksWindow

CheckCached(c) ==
  /\ check[c] = "idle" /\ CacheHit(CheckIn[c])
  /\ Verdict(c, cache[CheckIn[c]].list)
  /\ UNCHANGED <<blocks, change, cache, started, read, swept, now, changes>>

CheckUncached(c) ==
  /\ check[c] = "idle" /\ ~CacheHit(CheckIn[c])
  /\ check' = [check EXCEPT ![c] = "reading"]
  /\ started' = [started EXCEPT ![c] = now]
  /\ UNCHANGED <<blocks, change, cache, read, swept, now, changes>>

\* Two finds that run side by side, each on its own connection.
ReadBlocks(c, k) ==
  /\ check[c] = "reading" /\ read[c][k] = None
  /\ read' = [read EXCEPT ![c][k] = until[k]]
  /\ UNCHANGED <<blocks, change, cache, check, started, swept, now, changes>>

\* Mutant of FilledAt: the clock is read when the answers are there.
FilledAtEnd(c) == now

\* `at` is taken before the rows are read.
FilledAt(c) == started[c]

FillCache(c) ==
  /\ check[c] = "reading" /\ \A k \in Kinds : read[c][k] # None
  /\ cache' = [cache EXCEPT ![CheckIn[c]] = [at |-> FilledAt(c), list |-> read[c]]]
  /\ Verdict(c, read[c])
  /\ read' = [read EXCEPT ![c] = [k \in Kinds |-> None]]
  /\ started' = [started EXCEPT ![c] = 0]
  /\ UNCHANGED <<blocks, change, swept, now, changes>>

-----------------------------------------------------------------------------
(* The sweep *)

Lapsed(k) == until[k] # 0 /\ until[k] <= now

SweepLists ==
  /\ swept = {}
  /\ swept' = {k \in Kinds : Lapsed(k)}
  /\ swept' # {}
  /\ UNCHANGED <<blocks, change, cache, checking, now, changes>>

StillLapsed(k) == Lapsed(k)

\* A transaction of its own; then every process' worker clears its cache.
SweepDeletes(p) ==
  /\ swept # {} /\ change.phase # "open"
  /\ until' = [k \in Kinds |-> IF k \in swept /\ StillLapsed(k) THEN 0 ELSE until[k]]
  /\ swept' = {}
  /\ cache' = [cache EXCEPT ![p] = None]
  /\ UNCHANGED <<promised, changed, change, checking, now, changes>>

BlocksTick ==
  /\ now < BlocksMaxTime
  /\ now' = now + 1
  /\ UNCHANGED <<blocks, change, cache, checking, swept, changes>>

BlocksNext ==
  \/ \E p \in Processes, k \in Kinds : BlockNetwork(p, k) \/ UnblockNetwork(p, k)
  \/ ChangeCommits \/ ChangeReturns
  \/ \E c \in Checks : CheckCached(c) \/ CheckUncached(c) \/ FillCache(c)
  \/ \E c \in Checks, k \in Kinds : ReadBlocks(c, k)
  \/ SweepLists
  \/ \E p \in Processes : SweepDeletes(p)
  \/ BlocksTick

BlocksSpec == BlocksInit /\ [][BlocksNext]_networkVars

-----------------------------------------------------------------------------

InForce(k) == until[k] > now

Verdicts == {"passed", "refused"}

\* The step in which a check is decided, and when that check started.
Decided(c) == check[c] \notin Verdicts /\ check'[c] \in Verdicts

Started(c) == IF check[c] = "idle" THEN now ELSE started[c]

\* A change reaches every process within BLOCK_CACHE_MS (docs/security.md:37):
\* a check that starts that long after a block was set is refused, and one
\* that starts that long after a block was lifted is not refused for it,
\* however long its reads take and whatever they overlap with.
StaleForWindowOnly ==
  [][\A c \in Checks : Decided(c) =>
       IF check'[c] = "passed"
         THEN \A k \in Kinds : ~(InForce(k) /\ changed[k] + BlocksWindow <= Started(c))
         ELSE \E k \in Kinds : InForce(k) \/ changed[k] + BlocksWindow > Started(c)]_networkVars

\* A block stays until it lapses or is lifted: the sweep, which lists first
\* and deletes later, never takes one that was renewed in between.
PromisedBlockStays ==
  \A k \in Kinds : promised[k] > now => until[k] = promised[k]

\* A block is there for as long as it was promised, and seen in time.
BlocksHold == []PromisedBlockStays /\ StaleForWindowOnly
=============================================================================
