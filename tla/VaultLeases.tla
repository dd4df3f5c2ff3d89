---------------------------- MODULE VaultLeases ----------------------------
(***************************************************************************)
(* The leases of one dynamic secret of the vault:                          *)
(* packages/server/src/api/vault.ts.  A lease is a credential that an      *)
(* engine mints for the caller; it has to be taken back at the engine when *)
(* the lease ends, and the engine is only ever called outside of a         *)
(* transaction.  So every ending has three steps: the lease is marked as   *)
(* revoking, the engine is asked, and its answer is recorded; an issue has *)
(* three as well, and all of them interleave.                              *)
(*                                                                         *)
(* Times are left out: what waits for a time (a lease that lapses, a retry *)
(* that comes due, a deletion whose window ends) may happen at any moment. *)
(* A renewal only defers the lapse.  A call of the engine that failed or   *)
(* timed out is still under way there: an issue may mint at any later time,*)
(* or never, and a revocation may have been carried out.                   *)
(***************************************************************************)
EXTENDS Naturals, FiniteSets

CONSTANTS
  Leases,       \* identifiers of leases
  Workers,      \* whoever ends leases: callers of revokeLease and delete, and the jobs
  Patience,     \* refusals in a row that span REVOKE_PATIENCE_MS, at least one
  MaxRefusals,  \* bound on the engine's refusals to revoke
  MaxHalts,     \* bound on the processes that stop half way
  MaxDeletes,   \* bound on the deletions of the secret
  None

LeaseRecords ==
  [state : {"issuing", "active", "revoking", "over", "givenUp"},
   lapsed : BOOLEAN, due : BOOLEAN, refusals : Nat]

Answers == [lease : Leases, ok : BOOLEAN]

ASSUME VaultLeasesAssumption ==
  /\ Leases \cap Workers = {} /\ Patience \in Nat \ {0}
  /\ MaxRefusals \in Nat /\ MaxHalts \in Nat /\ MaxDeletes \in Nat
  /\ None \notin LeaseRecords \cup Answers

VARIABLES
  secret,     \* "active", "pending" deletion, "due" for it, or "gone"
  lease,      \* id -> its record, or None
  alive,      \* the leases whose credential works at the engine
  late,       \* the leases that the engine may mint a credential for unawaited
  call,       \* how far the call that issues each lease is
  worker,     \* what each worker is doing
  answer,     \* the engine's answer that a call or worker has not recorded yet
  refusals, halts, deletes,
  writtenOff  \* history: leases nobody will take back, as they were given up, ended
              \* in place of an issuing call that did not get to it, or minted late

leaseVars == <<secret, lease, alive, late, call, worker, answer, refusals, halts, deletes, writtenOff>>

AtRest == [job |-> "idle", found |-> {}, todo |-> {}, clean |-> TRUE]

LeasesInit ==
  /\ secret = "active" /\ alive = {} /\ late = {} /\ writtenOff = {}
  /\ lease = [l \in Leases |-> None]
  /\ call = [l \in Leases |-> "none"]
  /\ worker = [w \in Workers |-> AtRest]
  /\ answer = [a \in Leases \cup Workers |-> None]
  /\ refusals = 0 /\ halts = 0 /\ deletes = 0

----------------------------------------------------------------------------
\* "over" stands for ended, expired, and failed with the engine's consent;
\* "givenUp" for failed without it.
State(l) == IF lease[l] = None THEN "none" ELSE lease[l].state

Live(l) == State(l) \in {"issuing", "active", "revoking"}

\* The call is between the transaction that opens the lease and the one that
\* stores what the engine answered.
InFlight(l) == call[l] \in {"called", "answered", "failed"}

\* Somebody will still take a credential back: its lease says so, or the call
\* that issues it has yet to look.
Accounted(l) == Live(l) \/ InFlight(l)

\* The engine confirmed a revocation, which is yet to be recorded.
Confirmed(l) ==
  \E a \in Leases \cup Workers : answer[a] # None /\ answer[a].lease = l /\ answer[a].ok

Put(l, state) == [lease EXCEPT ![l].state = state]

----------------------------------------------------------------------------
\* lease, in its first transaction.
Open(l) ==
  /\ secret = "active" /\ call[l] = "none"
  /\ lease' = [lease EXCEPT ![l] =
                 [state |-> "issuing", lapsed |-> FALSE, due |-> TRUE, refusals |-> 0]]
  /\ call' = [call EXCEPT ![l] = "called"]
  /\ UNCHANGED <<secret, alive, late, worker, answer, refusals, halts, deletes, writtenOff>>

\* The end of the engine's issue for the call, which waits for so long only
\* (withTimeout); the engine goes on.
Issue(l) ==
  /\ call[l] = "called"
  /\ \/ call' = [call EXCEPT ![l] = "answered"] /\ alive' = alive \cup {l} /\ UNCHANGED late
     \/ call' = [call EXCEPT ![l] = "failed"] /\ late' = late \cup {l} /\ UNCHANGED alive
  /\ UNCHANGED <<secret, lease, worker, answer, refusals, halts, deletes, writtenOff>>

\* The engine mints what nobody waits for any more.  If it does so after it
\* confirmed the revocation, or the lease ended without one, it is not asked
\* again.
MintLate(l) ==
  /\ l \in late
  /\ late' = late \ {l} /\ alive' = alive \cup {l}
  /\ writtenOff' = IF Accounted(l) /\ ~Confirmed(l) THEN writtenOff ELSE writtenOff \cup {l}
  /\ UNCHANGED <<secret, lease, call, worker, answer, refusals, halts, deletes>>

\* Mutant of StillIssuing: the answer is stored whatever became of the lease.
StillIssuingAnyway(l) == lease[l] # None

StillIssuing(l) == State(l) = "issuing"

\* lease, in its second transaction: the credential is handed out, or else
\* the lease, if there still is one, is to be revoked.
Store(l) ==
  /\ call[l] \in {"answered", "failed"}
  /\ IF call[l] = "answered" /\ StillIssuing(l)
     THEN lease' = Put(l, "active") /\ call' = [call EXCEPT ![l] = "done"]
     ELSE /\ lease' = IF lease[l] = None THEN lease ELSE Put(l, "revoking")
          /\ call' = [call EXCEPT ![l] = "taking back"]
  /\ UNCHANGED <<secret, alive, late, worker, answer, refusals, halts, deletes, writtenOff>>

----------------------------------------------------------------------------
\* revokeAndRecord, run by the issuing call on its own lease or by a worker on
\* the ones it has to do.
Revokes(a, l) ==
  IF a \in Leases
  THEN a = l /\ call[l] = "taking back"
  ELSE l \in worker[a].todo /\ worker[a].job \in {"revoke", "purge"}

\* What a purge keeps of the end of one of its leases.
Told(w, l, ok) == [worker[w] EXCEPT !.todo = @ \ {l}, !.clean = @ /\ ok]

\* The end of one revokeAndRecord for its caller.
Returns(a, l, ok) ==
  \/ a \in Leases /\ call' = [call EXCEPT ![a] = "done"] /\ UNCHANGED worker
  \/ /\ a \in Workers
     /\ worker' = [worker EXCEPT ![a] = IF worker[a].job = "purge" THEN Told(a, l, ok) ELSE AtRest]
     /\ UNCHANGED call

\* The lease is read, and revoked at the engine, which may refuse, or time out
\* with or without effect.
Ask(a, l) ==
  /\ Revokes(a, l) /\ answer[a] = None
  /\ \/ /\ State(l) # "revoking"
        /\ Returns(a, l, TRUE)
        /\ UNCHANGED <<alive, answer, refusals>>
     \/ /\ State(l) = "revoking"
        /\ alive' = alive \ {l}
        /\ answer' = [answer EXCEPT ![a] = [lease |-> l, ok |-> TRUE]]
        /\ UNCHANGED <<call, worker, refusals>>
     \/ /\ State(l) = "revoking" /\ refusals < MaxRefusals
        /\ refusals' = refusals + 1
        /\ alive' \in {alive, alive \ {l}}
        /\ answer' = [answer EXCEPT ![a] = [lease |-> l, ok |-> FALSE]]
        /\ UNCHANGED <<call, worker>>
  /\ UNCHANGED <<secret, lease, late, halts, deletes, writtenOff>>

\* The lease is over, or its revocation is retried later.
Outcome(l, ok) ==
  IF ok THEN Put(l, "over")
  ELSE [lease EXCEPT ![l] = [lease[l] EXCEPT !.refusals = lease[l].refusals + 1, !.due = FALSE]]

Record(a) ==
  /\ answer[a] # None
  /\ LET l == answer[a].lease IN
       /\ lease' = IF State(l) = "revoking" THEN Outcome(l, answer[a].ok) ELSE lease
       /\ Returns(a, l, answer[a].ok)
  /\ answer' = [answer EXCEPT ![a] = None]
  /\ UNCHANGED <<secret, alive, late, refusals, halts, deletes, writtenOff>>

----------------------------------------------------------------------------
\* revokeLease.  One that is being issued is only marked: its call sees that.
RevokeLease(w, l) ==
  /\ worker[w] = AtRest /\ Live(l)
  /\ IF State(l) = "issuing"
     THEN /\ lease' = Put(l, "over") /\ UNCHANGED worker
          /\ writtenOff' = IF call[l] = "stopped" THEN writtenOff \cup {l} ELSE writtenOff
     ELSE /\ lease' = Put(l, "revoking") /\ UNCHANGED writtenOff
          /\ worker' = [worker EXCEPT ![w] = [AtRest EXCEPT !.job = "revoke", !.todo = {l}]]
  /\ UNCHANGED <<secret, alive, late, call, answer, refusals, halts, deletes>>

\* Mutant of Abandoned: an issue that never completed is not looked for.
AbandonedNever(l) == FALSE

\* Ten minutes after it was opened; the calls it makes have ended by then.
Abandoned(l) == State(l) = "issuing" /\ call[l] = "stopped"

Candidates ==
  {l \in Leases : \/ State(l) = "active" /\ lease[l].lapsed
                  \/ State(l) = "revoking" /\ lease[l].due
                  \/ Abandoned(l)}

\* expireLeases lists its candidates, and takes them one by one.
List(w, l) ==
  /\ worker[w] = AtRest /\ l \in Candidates
  /\ worker' = [worker EXCEPT ![w] =
       [AtRest EXCEPT !.job = IF State(l) = "issuing" THEN "abandoned" ELSE "listed", !.todo = {l}]]
  /\ UNCHANGED <<secret, lease, alive, late, call, answer, refusals, halts, deletes, writtenOff>>

\* expireLeases reads a candidate again in a transaction: it is marked, or
\* given up after seven days of refusals, or left alone.
Mark(w, l) ==
  LET goesOn == worker' = [worker EXCEPT ![w].job = "revoke"]
      skips  == worker' = [worker EXCEPT ![w] = AtRest]
  IN
  /\ worker[w].todo = {l}
  /\ \/ /\ worker[w].job = "abandoned"
        /\ IF State(l) = "issuing"
           THEN lease' = Put(l, "revoking") /\ goesOn
           ELSE skips /\ UNCHANGED lease
     \/ /\ worker[w].job = "listed"
        /\ CASE State(l) = "active" -> lease' = Put(l, "revoking") /\ goesOn
             [] State(l) = "revoking" /\ lease[l].refusals >= Patience ->
                  lease' = Put(l, "givenUp") /\ skips
             [] State(l) = "revoking" /\ lease[l].refusals < Patience ->
                  goesOn /\ UNCHANGED lease
             [] OTHER -> skips /\ UNCHANGED lease
  /\ writtenOff' = IF State(l)' = "givenUp" THEN writtenOff \cup {l} ELSE writtenOff
  /\ UNCHANGED <<secret, alive, late, call, answer, refusals, halts, deletes>>

----------------------------------------------------------------------------
\* delete with a recovery window, or at once; restore.
Delete ==
  /\ deletes < MaxDeletes /\ deletes' = deletes + 1
  /\ \/ secret = "active" /\ secret' = "pending"
     \/ secret # "gone" /\ secret' = "due"
  /\ UNCHANGED <<lease, alive, late, call, worker, answer, refusals, halts, writtenOff>>

Restore ==
  /\ secret \in {"pending", "due"} /\ secret' = "active"
  /\ UNCHANGED <<lease, alive, late, call, worker, answer, refusals, halts, deletes, writtenOff>>

\* Leases whose call has not finished with them.  A purge may ask the engine
\* before it mints, and delete the lease before the call takes it back.
Unsettled == {l \in Leases : InFlight(l) \/ call[l] = "taking back"}

\* purgeSecret, by purgeDeleted or by the deletion at once.
Purge(w) ==
  /\ worker[w] = AtRest /\ secret = "due"
  /\ lease' = [l \in Leases |->
       IF Live(l) THEN [lease[l] EXCEPT !.state = "revoking"] ELSE lease[l]]
  /\ LET found == {l \in Leases : Live(l)} IN
       worker' = [worker EXCEPT ![w] =
         [job |-> "purge", found |-> found, todo |-> found, clean |-> TRUE]]
  /\ writtenOff' = writtenOff \cup {l \in Unsettled : State(l) = "issuing"}
  /\ UNCHANGED <<secret, alive, late, call, answer, refusals, halts, deletes>>

\* Mutant of Purges: it does not wait for the engine.
PurgesAnyway(w) == TRUE

\* Every revocation succeeded, and the deletion was not cancelled meanwhile.
Purges(w) == worker[w].clean

PurgeEnds(w) ==
  /\ worker[w].job = "purge" /\ worker[w].todo = {} /\ answer[w] = None
  /\ worker' = [worker EXCEPT ![w] = AtRest]
  /\ IF Purges(w) /\ secret \in {"pending", "due"}
     THEN /\ secret' = "gone" /\ lease' = [l \in Leases |-> None]
          /\ writtenOff' = writtenOff \cup Unsettled \cup {l \in Leases \ worker[w].found : Live(l)}
     ELSE UNCHANGED <<secret, lease, writtenOff>>
  /\ UNCHANGED <<alive, late, call, answer, refusals, halts, deletes>>

----------------------------------------------------------------------------
\* A process stops.  If the lease of a call was ended meanwhile, nobody else
\* takes back what was minted; a request may still be at the engine.
CallStops(l) ==
  /\ call[l] \notin {"none", "done", "stopped"} /\ halts < MaxHalts
  /\ halts' = halts + 1
  /\ call' = [call EXCEPT ![l] = "stopped"]
  /\ answer' = [answer EXCEPT ![l] = None]
  /\ late' = IF call[l] = "called" THEN late \cup {l} ELSE late
  /\ writtenOff' = IF InFlight(l) /\ ~Live(l) THEN writtenOff \cup {l} ELSE writtenOff
  /\ UNCHANGED <<secret, lease, alive, worker, refusals, deletes>>

WorkerStops(w) ==
  /\ worker[w] # AtRest /\ halts < MaxHalts
  /\ halts' = halts + 1
  /\ worker' = [worker EXCEPT ![w] = AtRest]
  /\ answer' = [answer EXCEPT ![w] = None]
  /\ UNCHANGED <<secret, lease, alive, late, call, refusals, deletes, writtenOff>>

\* A lease expires, or its holder may no longer have it.
Lapse(l) ==
  /\ State(l) = "active" /\ ~lease[l].lapsed
  /\ lease' = [lease EXCEPT ![l].lapsed = TRUE]
  /\ UNCHANGED <<secret, alive, late, call, worker, answer, refusals, halts, deletes, writtenOff>>

\* A retry comes due.
RetryDue(l) ==
  /\ State(l) = "revoking" /\ ~lease[l].due
  /\ lease' = [lease EXCEPT ![l].due = TRUE]
  /\ UNCHANGED <<secret, alive, late, call, worker, answer, refusals, halts, deletes, writtenOff>>

\* The recovery window ends.
DeletionDue ==
  /\ secret = "pending" /\ secret' = "due"
  /\ UNCHANGED <<lease, alive, late, call, worker, answer, refusals, halts, deletes, writtenOff>>

----------------------------------------------------------------------------
Steps(a) == Record(a) \/ \E l \in Leases : Ask(a, l)

LeasesNext ==
  \/ \E l \in Leases : Open(l) \/ Issue(l) \/ MintLate(l) \/ Store(l) \/ CallStops(l) \/ Lapse(l) \/ RetryDue(l)
  \/ \E a \in Leases \cup Workers : Steps(a)
  \/ \E w \in Workers : Purge(w) \/ PurgeEnds(w) \/ WorkerStops(w)
  \/ \E w \in Workers, l \in Leases : RevokeLease(w, l) \/ List(w, l) \/ Mark(w, l)
  \/ Delete \/ Restore \/ DeletionDue

LeasesSpec == LeasesInit /\ [][LeasesNext]_leaseVars

\* What has begun goes on unless its process stops, time passes, and a host
\* runs expireLeases every few minutes.
CallGoesOn(l) == Issue(l) \/ Store(l) \/ Steps(l)
WorkerGoesOn(w) == Steps(w) \/ PurgeEnds(w) \/ \E l \in Leases : Mark(w, l)
TimePasses(l) == Lapse(l) \/ RetryDue(l)
Expiring(l) == \E w \in Workers : List(w, l)

LeasesFairness ==
  /\ \A l \in Leases : WF_leaseVars(CallGoesOn(l)) /\ WF_leaseVars(TimePasses(l)) /\ WF_leaseVars(Expiring(l))
  /\ \A w \in Workers : WF_leaseVars(WorkerGoesOn(w))

----------------------------------------------------------------------------
CallStates == {"none", "called", "answered", "failed", "taking back", "done", "stopped"}

WorkerRecords ==
  [job : {"idle", "listed", "abandoned", "revoke", "purge"},
   found : SUBSET Leases, todo : SUBSET Leases, clean : BOOLEAN]

LeasesTypeOK ==
  /\ secret \in {"active", "pending", "due", "gone"}
  /\ lease \in [Leases -> {None} \cup LeaseRecords]
  /\ alive \subseteq Leases /\ late \subseteq Leases /\ writtenOff \subseteq Leases
  /\ call \in [Leases -> CallStates]
  /\ worker \in [Workers -> WorkerRecords]
  /\ answer \in [Leases \cup Workers -> {None} \cup Answers]

\* No credential works without somebody who answers for it, through refusals
\* timeouts and stops, revocations of what is being issued, purges and restores;
\* but for those given up on the record, for the issues that a purge overtook or
\* that revokeLease relied on although their process stopped, and for those that
\* timed out and that the engine minted after it had confirmed their revocation.
CredentialsAccounted == \A l \in alive : Accounted(l) \/ l \in writtenOff

\* What a lease was ended for is over: it is never active again.
EndedLeasesStay ==
  [][\A l \in Leases : State(l) \in {"revoking", "over", "givenUp"} => State(l)' # "active"]_leaseVars

\* Both of what is said of leases.
LeasesHold == []CredentialsAccounted /\ EndedLeasesStay

\* Every credential is taken back in the end, unless the engine refuses for
\* longer than the vault has patience, or it was written off as above.
CredentialsTakenBack ==
  \A l \in Leases : (l \in alive) ~> (l \notin alive \/ l \in writtenOff)
=============================================================================
