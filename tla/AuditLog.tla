------------------------------ MODULE AuditLog ------------------------------
(***************************************************************************)
(* One tenant's audit chain: appending (packages/core/src/audit.ts),       *)
(* continuous archiving (packages/server/src/audit-archive.ts) and         *)
(* retention pruning (pruneAudit, packages/server/src/lifecycle.ts).       *)
(*                                                                         *)
(* An event is its sequence number.  The chain is append-only, so a hash   *)
(* is determined by the sequence it belongs to and the links between       *)
(* hashes reduce to the sequences being contiguous.  Lease time is         *)
(* relative, as in Outbox.                                                 *)
(***************************************************************************)
EXTENDS Naturals

CONSTANTS
  Archivers,   \* archiveAudit runs, in any process
  NoOne,       \* "no lease"
  Lost,        \* the lease of a run that died: no later run has its id
  BatchSize,   \* auditArchive.batchSize
  LeaseTerm,   \* auditArchive.leaseMs, in ticks
  MaxEvents,   \* bound on the length of the chain
  MaxFaults    \* bound on crashes, failed writes and overrun leases

ASSUME AuditAssumption ==
  /\ NoOne \notin Archivers /\ Lost \notin Archivers \cup {NoOne}
  /\ BatchSize \in Nat \ {0} /\ LeaseTerm \in Nat \ {0}
  /\ MaxEvents \in Nat /\ MaxFaults \in Nat

VARIABLES
  \* collections audit and auditChains
  head,         \* sequence of the chain head, 0 before the first event
  stored,       \* sequences present in the collection
  checkpoints,  \* audit:prune events: [at, through]
  \* collection auditArchiveCursors
  started,      \* does the tenant have a cursor row?
  cursor,       \* its sequence: archived up to here
  holder,       \* its leaseId
  leaseLeft,    \* ticks until its leaseUntil
  \* the sink
  archive,      \* sequences durably written
  \* local variables of archiveTenant
  phase,        \* archiver -> where its run is
  after,        \* archiver -> the cursor sequence its claim returned
  from, to,     \* archiver -> the batch it verified
  \* history
  pruned,       \* highest sequence deleted
  forgone,      \* highest sequence deleted before the tenant had a cursor
  faults        \* faults so far

chain == <<head, stored, checkpoints>>
cursorRow == <<started, cursor, holder, leaseLeft>>
locals == <<phase, after, from, to>>
pruning == <<pruned, forgone>>
vars == <<chain, cursorRow, archive, locals, pruning, faults>>

Phases == {"idle", "claim", "read", "write", "advance", "release"}

Init ==
  /\ head = 0 /\ stored = {} /\ checkpoints = {}
  /\ started = FALSE /\ cursor = 0 /\ holder = NoOne /\ leaseLeft = 0
  /\ archive = {}
  /\ phase = [a \in Archivers |-> "idle"]
  /\ after = [a \in Archivers |-> 0]
  /\ from = [a \in Archivers |-> 0]
  /\ to = [a \in Archivers |-> 0]
  /\ pruned = 0 /\ forgone = 0
  /\ faults = 0

-----------------------------------------------------------------------------
(* The chain *)

\* chainAuditEvent and appendAuditEvent, in the recording transaction: the
\* next position is taken and the head moves with it.
AppendAuditEvent ==
  /\ head < MaxEvents
  /\ head' = head + 1
  /\ stored' = stored \cup {head + 1}
  /\ UNCHANGED <<checkpoints, cursorRow, archive, locals, pruning, faults>>

\* Mutant of MayPrune: a worker without the auditArchive option ignores the cursor.
MayPruneAnything(k, configured) == configured => k <= cursor

\* archivedThrough: once the tenant has a cursor, or where an archive is
\* configured, only archived events may leave the database.
MayPrune(k, configured) == (started \/ configured) => k <= cursor

\* Mutant of Checkpoint: it names the event before the last one deleted.
CheckpointOffByOne(k) == [at |-> head + 1, through |-> k - 1]

\* The audit:prune event's prunedThroughSequence.
Checkpoint(k) == [at |-> head + 1, through |-> k]

\* pruneAudit: the prefix up to k is older than the cutoff and goes; the
\* checkpoint that explains the gap is appended in the same transaction.
\* `configured` tells whether the pruning process has an archive.
Prune(k, configured) ==
  /\ k \in stored
  /\ MayPrune(k, configured)
  /\ head < MaxEvents
  /\ head' = head + 1
  /\ stored' = {s \in stored : s > k} \cup {head + 1}
  /\ checkpoints' = checkpoints \cup {Checkpoint(k)}
  /\ pruned' = k
  /\ forgone' = IF started THEN forgone ELSE k
  /\ UNCHANGED <<cursorRow, archive, locals, faults>>

\* verifyAuditChain over the whole stored chain with its head: contiguous up
\* to the head, from 1 or from right after a checkpoint it still contains.
ChainValid ==
  head > 0 =>
    /\ head \in stored
    /\ \A s \in stored : s = head \/ s + 1 \in stored
    /\ \A s \in stored :
         \/ s = 1
         \/ s - 1 \in stored
         \/ \E c \in checkpoints : c.at \in stored /\ c.through = s - 1

-----------------------------------------------------------------------------
(* archiveTenant, one action per transaction, read or external call *)

Reach(a, next) == phase' = [phase EXCEPT ![a] = next]

\* The run is over or dead: its local variables are gone.
Stop(a) ==
  /\ Reach(a, "idle")
  /\ after' = [after EXCEPT ![a] = 0]
  /\ from' = [from EXCEPT ![a] = 0]
  /\ to' = [to EXCEPT ![a] = 0]

Fault == faults < MaxFaults /\ faults' = faults + 1

\* Another live run holds the tenant.
Leased(a) == holder \notin {a, NoOne} /\ leaseLeft > 0

\* claim: takes or renews the lease, creating the cursor row on first use.
Claim(a) ==
  /\ phase[a] \in {"idle", "claim"}
  /\ ~Leased(a)
  /\ started' = TRUE
  /\ holder' = a
  /\ leaseLeft' = LeaseTerm
  /\ after' = [after EXCEPT ![a] = cursor]
  /\ Reach(a, "read")
  /\ UNCHANGED <<chain, cursor, archive, from, to, pruning, faults>>

\* claim returns nothing: the tenant is reported busy.  A run that has not
\* claimed anything yet just ends.
Busy(a) ==
  /\ phase[a] = "claim"
  /\ Leased(a)
  /\ Reach(a, "release")
  /\ UNCHANGED <<chain, cursorRow, archive, after, from, to, pruning, faults>>

\* Mutant of Batch: it starts with the event at the cursor.
BatchFromCursor(a, f, t) ==
  /\ f \in stored /\ f >= after[a] /\ \A s \in stored : s >= after[a] => f <= s
  /\ t \in stored /\ f <= t /\ t < f + BatchSize

\* The first events after the cursor, at most BatchSize of them: fewer where
\* the chain ends, or where the run's limit does.
Batch(a, f, t) ==
  /\ f \in stored /\ f > after[a] /\ \A s \in stored : s > after[a] => f <= s
  /\ t \in stored /\ f <= t /\ t < f + BatchSize

\* The unlocked read of the next events.  Nothing to archive ends the run; a
\* batch that does not verify is reported and ends it too.
Read(a) ==
  /\ phase[a] = "read"
  /\ \/ /\ \A s \in stored : s <= after[a]
        /\ Reach(a, "release")
        /\ UNCHANGED <<from, to>>
     \/ \E f, t \in stored :
          /\ Batch(a, f, t)
          /\ Reach(a, IF f..t \subseteq stored THEN "write" ELSE "release")
          /\ from' = [from EXCEPT ![a] = f]
          /\ to' = [to EXCEPT ![a] = t]
  /\ UNCHANGED <<chain, cursorRow, archive, after, pruning, faults>>

\* sink.write resolves: the batch is durable.
Write(a) ==
  /\ phase[a] = "write"
  /\ archive' = archive \cup (from[a]..to[a])
  /\ Reach(a, "advance")
  /\ UNCHANGED <<chain, cursorRow, after, from, to, pruning, faults>>

\* A failed write ends the run with the cursor where it was.
AfterFailedWrite == "release"

\* sink.write rejects; the batch may have been stored all the same.
WriteFails(a) ==
  /\ phase[a] = "write"
  /\ Fault
  /\ archive' \in {archive, archive \cup (from[a]..to[a])}
  /\ Reach(a, AfterFailedWrite)
  /\ UNCHANGED <<chain, cursorRow, after, from, to, pruning>>

\* Mutant of MayAdvance: nothing is checked.
MayAdvanceAlways(a) == TRUE

\* Only the lease holder moves the cursor, and only from where it read.
MayAdvance(a) == holder = a /\ cursor = after[a]

\* The cursor transaction.  A full batch goes on with the next one, unless
\* the run's limit is used up; a run that lost its lease reports busy.
Advance(a) ==
  /\ phase[a] = "advance"
  /\ IF MayAdvance(a)
     THEN /\ cursor' = to[a]
          /\ Reach(a, "release") \/ (to[a] - from[a] + 1 = BatchSize /\ Reach(a, "claim"))
     ELSE /\ UNCHANGED cursor
          /\ Reach(a, "release")
  /\ UNCHANGED <<chain, started, holder, leaseLeft, archive, after, from, to, pruning, faults>>

\* release, in the finally block: only the run's own lease is removed.
Release(a) ==
  /\ phase[a] = "release"
  /\ IF holder = a
     THEN holder' = NoOne /\ leaseLeft' = 0
     ELSE UNCHANGED <<holder, leaseLeft>>
  /\ Stop(a)
  /\ UNCHANGED <<chain, started, cursor, archive, pruning, faults>>

\* The process dies; its lease stays on the cursor row until it ends, also for
\* the next run of the same worker, which has a lease id of its own.
Crash(a) ==
  /\ phase[a] # "idle"
  /\ Fault
  /\ holder' = IF holder = a THEN Lost ELSE holder
  /\ Stop(a)
  /\ UNCHANGED <<chain, started, cursor, leaseLeft, archive, pruning>>

\* A run is between its claim and the cursor transaction.
Working(a) == phase[a] \in {"read", "write", "advance"}

\* Time passes for the lease.  One that ends while its run is still working
\* is a fault: leaseMs must stay well above the slowest write.
Tick ==
  /\ leaseLeft > 0
  /\ leaseLeft' = leaseLeft - 1
  /\ IF leaseLeft = 1 /\ \E a \in Archivers : holder = a /\ Working(a)
     THEN Fault ELSE UNCHANGED faults
  /\ UNCHANGED <<chain, started, cursor, holder, archive, locals, pruning>>

-----------------------------------------------------------------------------
ArchiverStep(a) ==
  Claim(a) \/ Busy(a) \/ Read(a) \/ Write(a) \/ Advance(a) \/ Release(a)

Next ==
  \/ AppendAuditEvent
  \/ \E k \in stored, configured \in BOOLEAN : Prune(k, configured)
  \/ \E a \in Archivers : ArchiverStep(a) \/ WriteFails(a) \/ Crash(a)
  \/ Tick

Spec == Init /\ [][Next]_vars

\* archiveAudit is scheduled again and again, its runs go on, time passes.
FairSpec == Spec /\ WF_vars(Tick) /\ \A a \in Archivers : WF_vars(ArchiverStep(a))
=============================================================================
