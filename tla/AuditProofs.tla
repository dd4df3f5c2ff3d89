---------------------------- MODULE AuditProofs -----------------------------
(* Proofs about AuditLog, for chains of any length and any number of       *)
(* overlapping archive runs.                                               *)
EXTENDS AuditProperties, TLAPS

USE AuditAssumption DEF Phases, chain, cursorRow, locals, pruning

(***************************************************************************)
(* Type correctness of the chain, the cursor row and the archive runs.     *)
(***************************************************************************)
THEOREM TypeCorrect == Spec => []TypeOK
<1>1. Init => TypeOK
  <2> SUFFICES ASSUME Init PROVE TypeOK
    OBVIOUS
  <2>1. stored \subseteq 1..head
    BY DEF Init
  <2>2. checkpoints \subseteq [at : Nat, through : Nat]
    BY DEF Init
  <2> QED
    BY <2>1, <2>2 DEF Init, TypeOK
<1>2. TypeOK /\ [Next]_vars => TypeOK'
  <2> SUFFICES ASSUME TypeOK, [Next]_vars PROVE TypeOK'
    OBVIOUS
  <2> USE DEF TypeOK, Reach, Stop
  <2>1. CASE AppendAuditEvent
    <3>1. stored' \subseteq 1..head'
      BY <2>1 DEF AppendAuditEvent
    <3> QED
      BY <2>1, <3>1 DEF AppendAuditEvent
  <2>2. ASSUME NEW k \in stored, NEW configured \in BOOLEAN, Prune(k, configured) PROVE TypeOK'
    <3>1. stored' = {s \in stored : s > k} \cup {head + 1} /\ head' = head + 1
      BY <2>2 DEF Prune
    <3>2. stored' \subseteq 1..head'
      <4>1. ASSUME NEW s \in stored' PROVE s \in 1..head'
        BY <3>1, <4>1
      <4> QED
        BY <4>1
    <3>3. k \in Nat
      OBVIOUS
    <3>4. checkpoints' \subseteq [at : Nat, through : Nat]
      BY <2>2, <3>3 DEF Prune, Checkpoint
    <3> QED
      BY <2>2, <3>2, <3>3, <3>4 DEF Prune
  <2>3. ASSUME NEW a \in Archivers, Claim(a) PROVE TypeOK'
    BY <2>3 DEF Claim
  <2>4. ASSUME NEW a \in Archivers, Busy(a) PROVE TypeOK'
    BY <2>4 DEF Busy
  <2>5. ASSUME NEW a \in Archivers, Read(a) PROVE TypeOK'
    <3>1. from' \in [Archivers -> Nat] /\ to' \in [Archivers -> Nat]
      <4>1. CASE UNCHANGED <<from, to>>
        BY <4>1
      <4>2. CASE \E f, t \in stored : from' = [from EXCEPT ![a] = f] /\ to' = [to EXCEPT ![a] = t]
        BY <4>2
      <4> QED
        BY <2>5, <4>1, <4>2 DEF Read
    <3>2. phase' \in [Archivers -> Phases]
      BY <2>5 DEF Read
    <3>3. UNCHANGED <<chain, cursorRow, archive, after, pruning, faults>>
      BY <2>5 DEF Read
    <3>4. stored' \subseteq 1..head' /\ checkpoints' \subseteq [at : Nat, through : Nat]
      BY <3>3
    <3>5. head' \in Nat /\ started' \in BOOLEAN /\ cursor' \in Nat
          /\ holder' \in Archivers \cup {NoOne, Lost} /\ leaseLeft' \in Nat
      BY <3>3
    <3>6. archive' \subseteq Nat /\ after' \in [Archivers -> Nat]
          /\ pruned' \in Nat /\ forgone' \in Nat /\ faults' \in Nat
      BY <3>3
    <3> QED
      BY <3>1, <3>2, <3>4, <3>5, <3>6
  <2>6. ASSUME NEW a \in Archivers, Write(a) PROVE TypeOK'
    <3>1. from[a] \in Nat /\ to[a] \in Nat
      OBVIOUS
    <3>2. \A s \in from[a]..to[a] : s \in Nat
      BY <3>1
    <3>3. archive' = archive \cup (from[a]..to[a])
      BY <2>6 DEF Write
    <3>4. archive' \subseteq Nat
      BY <3>2, <3>3
    <3> QED
      BY <2>6, <3>4 DEF Write
  <2>7. ASSUME NEW a \in Archivers, WriteFails(a) PROVE TypeOK'
    <3>1. from[a] \in Nat /\ to[a] \in Nat
      OBVIOUS
    <3>2. archive' \subseteq Nat
      BY <2>7, <3>1 DEF WriteFails
    <3> QED
      BY <2>7, <3>2 DEF WriteFails, AfterFailedWrite, Fault
  <2>8. ASSUME NEW a \in Archivers, Advance(a) PROVE TypeOK'
    BY <2>8 DEF Advance
  <2>9. ASSUME NEW a \in Archivers, Release(a) PROVE TypeOK'
    BY <2>9 DEF Release
  <2>10. ASSUME NEW a \in Archivers, Crash(a) PROVE TypeOK'
    BY <2>10 DEF Crash, Fault
  <2>11. CASE Tick
    BY <2>11 DEF Tick, Fault
  <2>12. CASE UNCHANGED vars
    BY <2>12 DEF vars
  <2> QED
    BY <2>1, <2>2, <2>3, <2>4, <2>5, <2>6, <2>7, <2>8, <2>9, <2>10, <2>11, <2>12
       DEF Next, ArchiverStep
<1> QED
  BY <1>1, <1>2, PTL DEF Spec

(***************************************************************************)
(* The chain.  What is stored is exactly the part of the chain after the   *)
(* last prune, and the checkpoint of that prune is still part of it.       *)
(***************************************************************************)
ChainInv ==
  /\ stored = {s \in 1..head : s > pruned}
  /\ head > 0 => pruned < head
  /\ head = 0 => pruned = 0
  /\ pruned > 0 => \E c \in checkpoints : c.at \in stored /\ c.through = pruned

LEMMA ChainStep == TypeOK /\ ChainInv /\ [Next]_vars => ChainInv'
<1> SUFFICES ASSUME TypeOK, ChainInv, [Next]_vars PROVE ChainInv'
  OBVIOUS
<1> USE DEF TypeOK, ChainInv
<1>1. CASE AppendAuditEvent
  BY <1>1 DEF AppendAuditEvent
<1>2. ASSUME NEW k \in stored, NEW configured \in BOOLEAN, Prune(k, configured) PROVE ChainInv'
  <2>1. Checkpoint(k).at \in stored' /\ Checkpoint(k).through = pruned'
    BY <1>2 DEF Prune, Checkpoint
  <2>2. Checkpoint(k) \in checkpoints'
    BY <1>2 DEF Prune
  <2> QED
    BY <1>2, <2>1, <2>2 DEF Prune
<1>3. CASE \/ \E a \in Archivers : ArchiverStep(a) \/ WriteFails(a) \/ Crash(a)
           \/ Tick \/ UNCHANGED vars
  BY <1>3 DEF ArchiverStep, Claim, Busy, Read, Write, WriteFails, Advance, Release, Crash,
              Tick, vars
<1> QED
  BY <1>1, <1>2, <1>3 DEF Next

(* The stored chain verifies in every reachable state.                     *)
THEOREM ChainAlwaysVerifies == Spec => []ChainVerifies
<1>1. Init => ChainInv
  BY DEF Init, ChainInv
<1>2. TypeOK /\ ChainInv => ChainVerifies
  BY DEF TypeOK, ChainInv, ChainVerifies, ChainValid
<1> QED
  BY <1>1, <1>2, ChainStep, TypeCorrect, PTL DEF Spec

(***************************************************************************)
(* The archive.  The delicate part is a run that lost its lease: between   *)
(* its claim and its cursor transaction other runs may archive and others  *)
(* again may prune.  Its batch covers the gap to its own claim unless the  *)
(* cursor has moved on since, and then the cursor transaction refuses it.  *)
(***************************************************************************)
BatchInv(a) ==
  /\ Working(a) => started /\ after[a] <= cursor
  /\ phase[a] \in {"write", "advance"} =>
       /\ after[a] < from[a] /\ from[a] <= to[a]
       /\ \A s \in Nat : after[a] < s /\ s < from[a] => s <= forgone \/ cursor > after[a]
  /\ phase[a] = "advance" => from[a]..to[a] \subseteq archive

ArchiveInv ==
  /\ CursorCoversArchive
  /\ pruned <= cursor \/ pruned <= forgone
  /\ ~started => forgone = pruned /\ cursor = 0
  /\ \A a \in Archivers : BatchInv(a)

LEMMA ArchiveStep ==
  TypeOK /\ ChainInv /\ ArchiveInv /\ [Next]_vars => ArchiveInv' /\ cursor' >= cursor
<1> SUFFICES ASSUME TypeOK, ChainInv, ArchiveInv, [Next]_vars
             PROVE  ArchiveInv' /\ cursor' >= cursor
  OBVIOUS
<1> USE DEF TypeOK, ArchiveInv, CursorCoversArchive, BatchInv, Working
<1>1. CASE AppendAuditEvent
  BY <1>1 DEF AppendAuditEvent
<1>2. ASSUME NEW k \in stored, NEW configured \in BOOLEAN, Prune(k, configured)
      PROVE  ArchiveInv' /\ cursor' >= cursor
  BY <1>2 DEF Prune, MayPrune, ChainInv
<1>3. ASSUME NEW a \in Archivers, Claim(a) PROVE ArchiveInv' /\ cursor' >= cursor
  BY <1>3 DEF Claim, Reach
<1>4. ASSUME NEW a \in Archivers, Busy(a) PROVE ArchiveInv' /\ cursor' >= cursor
  BY <1>4 DEF Busy, Reach
<1>5. ASSUME NEW a \in Archivers, Read(a) PROVE ArchiveInv' /\ cursor' >= cursor
  BY <1>5 DEF Read, Batch, Reach, ChainInv
<1>6. ASSUME NEW a \in Archivers, Write(a) PROVE ArchiveInv' /\ cursor' >= cursor
  BY <1>6 DEF Write, Reach
<1>7. ASSUME NEW a \in Archivers, WriteFails(a) PROVE ArchiveInv' /\ cursor' >= cursor
  BY <1>7 DEF WriteFails, AfterFailedWrite, Reach
<1>8. ASSUME NEW a \in Archivers, Advance(a) PROVE ArchiveInv' /\ cursor' >= cursor
  BY <1>8 DEF Advance, MayAdvance, Reach
<1>9. ASSUME NEW a \in Archivers, Release(a) PROVE ArchiveInv' /\ cursor' >= cursor
  BY <1>9 DEF Release, Reach, Stop
<1>10. ASSUME NEW a \in Archivers, Crash(a) PROVE ArchiveInv' /\ cursor' >= cursor
  BY <1>10 DEF Crash, Reach, Stop
<1>11. CASE Tick
  BY <1>11 DEF Tick
<1>12. CASE UNCHANGED vars
  BY <1>12 DEF vars
<1> QED
  BY <1>1, <1>2, <1>3, <1>4, <1>5, <1>6, <1>7, <1>8, <1>9, <1>10, <1>11, <1>12
     DEF Next, ArchiverStep

LEMMA ArchiveInit == Init => ChainInv /\ ArchiveInv
  BY DEF Init, ChainInv, ArchiveInv, CursorCoversArchive, BatchInv, Working

(* Everything up to the archive position is archived, but for what was     *)
(* pruned before the tenant's archiving began.                             *)
THEOREM CursorCovered == Spec => []CursorCoversArchive
<1>1. ArchiveInv => CursorCoversArchive
  BY DEF ArchiveInv
<1> QED
  BY <1>1, ArchiveInit, ChainStep, ArchiveStep, TypeCorrect, PTL DEF Spec

(* The database never drops an event the archive lacks.                    *)
THEOREM NothingDropped == Spec => []NothingDroppedUnarchived
<1>1. TypeOK /\ ChainInv /\ ArchiveInv => NothingDroppedUnarchived
  BY DEF TypeOK, ChainInv, ArchiveInv, CursorCoversArchive, NothingDroppedUnarchived
<1> QED
  BY <1>1, ArchiveInit, ChainStep, ArchiveStep, TypeCorrect, PTL DEF Spec

(* The archive position never moves back.                                  *)
THEOREM CursorNeverMovesBack == Spec => CursorMonotone
<1>1. TypeOK /\ ChainInv /\ ArchiveInv /\ [Next]_vars => [cursor' >= cursor]_vars
  BY ArchiveStep
<1> QED
  BY <1>1, ArchiveInit, ChainStep, ArchiveStep, TypeCorrect, PTL DEF Spec, CursorMonotone

(***************************************************************************)
(* The contract.  A cursor that has moved is past what was lost before     *)
(* archiving began, and so is every batch: what is missing from the        *)
(* archive below one was therefore already gone at the first move.         *)
(***************************************************************************)
BatchBounds(a) ==
  phase[a] \in {"write", "advance"} => forgone < from[a] /\ to[a] <= head

BoundsInv ==
  /\ forgone <= pruned
  /\ cursor > 0 => forgone <= cursor
  /\ \A a \in Archivers : BatchBounds(a)

LEMMA BoundsStep ==
  TypeOK /\ ChainInv /\ ArchiveInv /\ BoundsInv /\ [Next]_vars => BoundsInv'
<1> SUFFICES ASSUME TypeOK, ChainInv, ArchiveInv, BoundsInv, [Next]_vars PROVE BoundsInv'
  OBVIOUS
<1> USE DEF TypeOK, BoundsInv, BatchBounds, Reach
<1>1. CASE AppendAuditEvent
  BY <1>1 DEF AppendAuditEvent
<1>2. ASSUME NEW k \in stored, NEW configured \in BOOLEAN, Prune(k, configured) PROVE BoundsInv'
  <2>1. k > pruned
    BY DEF ChainInv
  <2>2. forgone' <= pruned'
    BY <1>2, <2>1 DEF Prune
  <2>3. ASSUME ~started PROVE cursor = 0 /\ \A a \in Archivers : phase[a] \notin {"write", "advance"}
    BY <2>3 DEF ArchiveInv, BatchInv, Working
  <2> QED
    BY <1>2, <2>2, <2>3 DEF Prune
<1>3. ASSUME NEW a \in Archivers, Claim(a) PROVE BoundsInv'
  BY <1>3 DEF Claim
<1>4. ASSUME NEW a \in Archivers, Busy(a) PROVE BoundsInv'
  BY <1>4 DEF Busy
<1>5. ASSUME NEW a \in Archivers, Read(a) PROVE BoundsInv'
  BY <1>5 DEF Read, Batch, ChainInv
<1>6. ASSUME NEW a \in Archivers, Write(a) PROVE BoundsInv'
  BY <1>6 DEF Write
<1>7. ASSUME NEW a \in Archivers, WriteFails(a) PROVE BoundsInv'
  BY <1>7 DEF WriteFails, AfterFailedWrite
<1>8. ASSUME NEW a \in Archivers, Advance(a) PROVE BoundsInv'
  <2>1. forgone < from[a] /\ from[a] <= to[a]
    BY <1>8 DEF Advance, ArchiveInv, BatchInv
  <2> QED
    BY <1>8, <2>1 DEF Advance
<1>9. ASSUME NEW a \in Archivers, Release(a) PROVE BoundsInv'
  BY <1>9 DEF Release, Stop
<1>10. ASSUME NEW a \in Archivers, Crash(a) PROVE BoundsInv'
  BY <1>10 DEF Crash, Stop
<1>11. CASE Tick \/ UNCHANGED vars
  BY <1>11 DEF Tick, vars
<1> QED
  BY <1>1, <1>2, <1>3, <1>4, <1>5, <1>6, <1>7, <1>8, <1>9, <1>10, <1>11 DEF Next, ArchiverStep

(* A prune lets go the events up to k.                                     *)
LEMMA PruneLetsGo ==
  ASSUME TypeOK, ChainInv, ArchiveInv, BoundsInv,
         NEW k \in stored, NEW configured \in BOOLEAN, Prune(k, configured)
  PROVE  Promised!LetGo(k)
<1>1. ASSUME started, NEW e \in stored, e <= k PROVE e \in archive
  <2>1. k <= cursor /\ e \in 1..cursor
    BY <1>1 DEF Prune, MayPrune, TypeOK
  <2>2. e > forgone
    BY DEF ChainInv, BoundsInv, TypeOK
  <2> QED
    BY <2>1, <2>2 DEF ArchiveInv, CursorCoversArchive, TypeOK
<1>2. started => k <= cursor /\ {e \in stored : e <= k} \subseteq archive
  BY <1>1 DEF Prune, MayPrune
<1> QED
  BY <1>2 DEF Prune, Promised!LetGo, TypeOK

(* What a run writes are events that were recorded.                        *)
LEMMA WriteCopies ==
  ASSUME TypeOK, ArchiveInv, BoundsInv, NEW a \in Archivers, phase[a] = "write",
         archive' = archive \cup (from[a]..to[a]), UNCHANGED <<chain, cursorRow>>
  PROVE  \E events \in SUBSET (1..head) : Promised!Copy(events)
<1>1. started
  BY DEF ArchiveInv, BatchInv, Working
<1>2. after[a] < from[a] /\ to[a] <= head
  BY DEF ArchiveInv, BatchInv, BoundsInv, BatchBounds
<1>3. from[a]..to[a] \subseteq 1..head
  BY <1>2 DEF TypeOK
<1>4. Promised!Copy(from[a]..to[a])
  BY <1>1 DEF Promised!Copy
<1> QED
  BY <1>3, <1>4

(* The cursor moves over what is in the archive or was lost before.        *)
LEMMA AdvanceMoves ==
  ASSUME TypeOK, ChainInv, ArchiveInv, BoundsInv,
         NEW a \in Archivers, Advance(a), MayAdvance(a)
  PROVE  to[a] \in 1..head /\ Promised!MoveTo(to[a])
<1>1. phase[a] = "advance" /\ cursor = after[a] /\ cursor' = to[a]
      /\ UNCHANGED <<chain, started, archive>>
  BY DEF Advance, MayAdvance
<1>2. cursor < from[a] /\ from[a] <= to[a] /\ to[a] <= head /\ from[a]..to[a] \subseteq archive
  BY <1>1 DEF ArchiveInv, BatchInv, BoundsInv, BatchBounds
<1>3. ASSUME NEW e \in (cursor + 1)..to[a], e \notin archive PROVE cursor = 0 /\ e \notin stored
  <2>1. after[a] < e /\ e < from[a] /\ e \in Nat
    BY <1>1, <1>2, <1>3 DEF TypeOK
  <2>2. e <= forgone
    <3>1. BatchInv(a)
      BY DEF ArchiveInv
    <3> QED
      BY <1>1, <2>1, <3>1 DEF BatchInv, TypeOK
  <2>3. cursor = 0
    BY <1>1, <2>1, <2>2 DEF BoundsInv, TypeOK
  <2>4. e \notin stored
    BY <2>1, <2>2 DEF ChainInv, BoundsInv, TypeOK
  <2> QED
    BY <2>3, <2>4
<1>4. to[a] \in 1..head /\ to[a] > cursor
  BY <1>2 DEF TypeOK
<1> QED
  BY <1>1, <1>3, <1>4 DEF Promised!MoveTo

(* Every step of the chain and its archive is one of the contract or none. *)
LEMMA ArchivingStep ==
  TypeOK /\ ChainInv /\ ArchiveInv /\ BoundsInv /\ [Next]_vars => [Promised!Next]_(Promised!avars)
<1> SUFFICES ASSUME TypeOK, ChainInv, ArchiveInv, BoundsInv, [Next]_vars
             PROVE  Promised!Next \/ UNCHANGED Promised!avars
  OBVIOUS
<1>1. CASE AppendAuditEvent
  BY <1>1 DEF AppendAuditEvent, Promised!Next, Promised!Record
<1>2. ASSUME NEW k \in stored, NEW configured \in BOOLEAN, Prune(k, configured) PROVE Promised!Next
  BY <1>2, PruneLetsGo DEF Promised!Next
<1>3. ASSUME NEW a \in Archivers, Claim(a) PROVE Promised!Next \/ UNCHANGED Promised!avars
  BY <1>3 DEF Claim, Promised!Next, Promised!Begin, Promised!avars, TypeOK
<1>4. ASSUME NEW a \in Archivers, Busy(a) \/ Read(a) \/ Release(a) \/ Crash(a)
      PROVE  UNCHANGED Promised!avars
  BY <1>4 DEF Busy, Read, Release, Crash, Promised!avars
<1>5. ASSUME NEW a \in Archivers, Write(a) PROVE Promised!Next
  BY <1>5, WriteCopies DEF Write, Promised!Next
<1>6. ASSUME NEW a \in Archivers, WriteFails(a) PROVE Promised!Next \/ UNCHANGED Promised!avars
  <2>1. CASE archive' = archive
    BY <1>6, <2>1 DEF WriteFails, Promised!avars
  <2>2. CASE archive' = archive \cup (from[a]..to[a])
    BY <1>6, <2>2, WriteCopies DEF WriteFails, Promised!Next
  <2> QED
    BY <1>6, <2>1, <2>2 DEF WriteFails
<1>7. ASSUME NEW a \in Archivers, Advance(a) PROVE Promised!Next \/ UNCHANGED Promised!avars
  <2>1. CASE MayAdvance(a)
    BY <1>7, <2>1, AdvanceMoves DEF Promised!Next
  <2>2. CASE ~MayAdvance(a)
    BY <1>7, <2>2 DEF Advance, Promised!avars
  <2> QED
    BY <2>1, <2>2
<1>8. CASE Tick \/ UNCHANGED vars
  BY <1>8 DEF Tick, vars, Promised!avars
<1> QED
  BY <1>1, <1>2, <1>3, <1>4, <1>5, <1>6, <1>7, <1>8 DEF Next, ArchiverStep

(* The chain, its pruning and its archive implement the Archiving contract. *)
THEOREM LogImplementsArchiving == Spec => ImplementsArchiving
<1>1. Init => Promised!Init /\ BoundsInv
  BY DEF Init, Promised!Init, BoundsInv, BatchBounds
<1> QED
  BY <1>1, ArchiveInit, ChainStep, ArchiveStep, BoundsStep, ArchivingStep, TypeCorrect, PTL
     DEF Spec, ImplementsArchiving, Promised!Spec

(***************************************************************************)
(* One run at a time: as long as no fault happened, a working run holds    *)
(* the lease and the lease has time left.                                  *)
(***************************************************************************)
SoleInv ==
  faults = 0 => \A a \in Archivers : Working(a) => holder = a /\ leaseLeft > 0

LEMMA SoleStep == TypeOK /\ SoleInv /\ [Next]_vars => SoleInv'
<1> SUFFICES ASSUME TypeOK, SoleInv, [Next]_vars PROVE SoleInv'
  OBVIOUS
<1> USE DEF TypeOK, SoleInv, Working, Reach
<1>1. ASSUME NEW a \in Archivers, Claim(a) PROVE SoleInv'
  BY <1>1 DEF Claim, Leased
<1>2. ASSUME NEW a \in Archivers, Busy(a) \/ Read(a) \/ Write(a) \/ Advance(a) PROVE SoleInv'
  BY <1>2 DEF Busy, Read, Write, Advance
<1>3. ASSUME NEW a \in Archivers, Release(a) PROVE SoleInv'
  BY <1>3 DEF Release, Stop
<1>4. ASSUME NEW a \in Archivers, WriteFails(a) \/ Crash(a) PROVE SoleInv'
  BY <1>4 DEF WriteFails, Crash, Fault
<1>5. CASE Tick
  BY <1>5 DEF Tick, Fault
<1>6. CASE AppendAuditEvent \/ UNCHANGED vars
  BY <1>6 DEF AppendAuditEvent, vars
<1>7. ASSUME NEW k \in stored, NEW configured \in BOOLEAN, Prune(k, configured) PROVE SoleInv'
  BY <1>7 DEF Prune
<1> QED
  BY <1>1, <1>2, <1>3, <1>4, <1>5, <1>6, <1>7 DEF Next, ArchiverStep

(* Without faults, one archive run at a time works on a tenant.            *)
THEOREM SoleArchiver == Spec => []OneArchiverWithoutFaults
<1>1. Init => SoleInv
  BY DEF Init, SoleInv, Working
<1>2. SoleInv => OneArchiverWithoutFaults
  BY DEF SoleInv, OneArchiverWithoutFaults
<1> QED
  BY <1>1, <1>2, SoleStep, TypeCorrect, PTL DEF Spec
=============================================================================
