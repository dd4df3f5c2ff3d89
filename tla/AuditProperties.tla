-------------------------- MODULE AuditProperties ---------------------------
(* What the audit log and its archive must guarantee. *)
EXTENDS AuditLog

\* Every variable keeps its shape.
TypeOK ==
  /\ head \in Nat /\ stored \subseteq 1..head
  /\ checkpoints \subseteq [at : Nat, through : Nat]
  /\ started \in BOOLEAN /\ cursor \in Nat
  /\ holder \in Archivers \cup {NoOne, Lost} /\ leaseLeft \in Nat
  /\ archive \subseteq Nat
  /\ phase \in [Archivers -> Phases]
  /\ after \in [Archivers -> Nat]
  /\ from \in [Archivers -> Nat] /\ to \in [Archivers -> Nat]
  /\ pruned \in Nat /\ forgone \in Nat /\ faults \in Nat

\* After any sequence of appends and prunes the stored chain verifies against
\* its head: pruning again never removes the checkpoint it needs.
ChainVerifies == ChainValid

\* "the database never drops an event the archive lacks" (docs/deployment.md:172):
\* from the first claim on, whatever is missing from the database is archived,
\* also when runs overlap after a lease ended, crash, or fail to write.
NothingDroppedUnarchived ==
  \A s \in 1..head : s \in stored \/ s \in archive \/ s <= forgone

\* "The cursor moves only after write resolves" (docs/deployment.md:159): all
\* up to the cursor is archived, but for what was pruned before archiving began.
CursorCoversArchive ==
  \A s \in 1..cursor : s \in archive \/ s <= forgone

\* "One run at a time holds a tenant" (audit-archive.ts:72) as long as nothing
\* crashed, failed or outlasted its lease.
OneArchiverWithoutFaults ==
  faults = 0 => \A a, b \in Archivers : Working(a) /\ Working(b) => a = b

\* The archive position never moves back.
CursorMonotone == [][cursor' >= cursor]_vars

\* Appending, pruning and overlapping archiveAudit runs together implement
\* Archiving.  In particular a run whose lease was taken over can write its
\* batch again, but neither moves the cursor back nor past what others have
\* pruned meanwhile.
Promised == INSTANCE Archiving WITH
  recorded <- head,
  present <- stored,
  begun <- started,
  copied <- archive,
  position <- cursor
ImplementsArchiving == Promised!Spec

\* With a scheduler that keeps archiving and finitely many faults, every
\* event reaches the archive position: no lease blocks a tenant for good.
ArchiveCatchesUp == \A n \in 1..MaxEvents : head >= n ~> cursor >= n
=============================================================================
