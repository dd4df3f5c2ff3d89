--------------------------- MODULE MemoryLimiter ----------------------------
(***************************************************************************)
(* createMemoryRateLimiter (packages/auth/src/rate-limit.ts): counters in  *)
(* the insertion order of a JavaScript Map, pruned from the front and      *)
(* bounded by maxKeys.  A call runs to its end at once.                    *)
(***************************************************************************)
EXTENDS Naturals, Sequences, FiniteSets, SequencesExt

CONSTANTS
  Keys, MaxKeys, MemoryLimit, MemoryWindow,
  MemoryMaxTime  \* bound on the clock

ASSUME MemoryAssumption ==
  /\ MaxKeys \in Nat \ {0} /\ MemoryLimit \in Nat \ {0} /\ MemoryWindow \in Nat \ {0}
  /\ MemoryMaxTime \in Nat

VARIABLES
  counters,  \* the entries of the Map: key, count, resetAt
  memoryNow  \* the time

memoryVars == <<counters, memoryNow>>

MemoryInit == counters = <<>> /\ memoryNow = 0

Live(entry) == entry.resetAt > memoryNow

\* Where a key is: a Map has one entry of it at most.
At(key, entries) == {i \in DOMAIN entries : entries[i].key = key}

Without(key, entries) ==
  IF At(key, entries) = {} THEN entries ELSE RemoveAt(entries, CHOOSE i \in At(key, entries) : TRUE)

\* From the front, up to the first live counter.
PrunedCounters ==
  LET first == {i \in DOMAIN counters : Live(counters[i])}
  IN  IF first = {} THEN <<>>
      ELSE SubSeq(counters, CHOOSE i \in first : \A j \in first : i <= j, Len(counters))

\* The newest entries that leave room for one more.
Fitting(entries) ==
  SubSeq(entries, IF Len(entries) < MaxKeys THEN 1 ELSE Len(entries) - MaxKeys + 2, Len(entries))

\* consume: permitted, or refused with the map only pruned.
ConsumeInMemory(key) ==
  /\ IF \E i \in At(key, PrunedCounters) : Live(PrunedCounters[i])
       THEN counters' = [i \in DOMAIN PrunedCounters |->
              IF PrunedCounters[i].key = key /\ PrunedCounters[i].count < MemoryLimit
                THEN [PrunedCounters[i] EXCEPT !.count = @ + 1] ELSE PrunedCounters[i]]
       ELSE counters' = Append(Fitting(Without(key, PrunedCounters)),
                               [key |-> key, count |-> 1, resetAt |-> memoryNow + MemoryWindow])
  /\ UNCHANGED memoryNow

ResetInMemory(key) ==
  /\ counters' = Without(key, counters)
  /\ UNCHANGED memoryNow

MemoryTick == memoryNow < MemoryMaxTime /\ memoryNow' = memoryNow + 1 /\ UNCHANGED counters

MemoryNext == (\E k \in Keys : ConsumeInMemory(k) \/ ResetInMemory(k)) \/ MemoryTick

MemorySpec == MemoryInit /\ [][MemoryNext]_memoryVars

-----------------------------------------------------------------------------
\* "Expired counters are dropped first": a live counter is only dropped, and
\* its key permitted afresh, for another key when the map is full of live ones.
DroppedFairly ==
  \A i \in DOMAIN counters :
    Live(counters[i]) /\ At(counters[i].key, counters') = {} =>
      \/ counters' = Without(counters[i].key, counters)
      \/ Cardinality({j \in DOMAIN counters : Live(counters[j])}) = MaxKeys

LiveDroppedOnlyWhenFull == [][DroppedFairly]_memoryVars
=============================================================================
