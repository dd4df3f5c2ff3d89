-------------------------- MODULE CredentialProofs --------------------------
(***************************************************************************)
(* Proofs about what is handed out and has to be taken back or replaced:   *)
(* the artifacts of the OAuth provider (OAuthGrants), for any number of    *)
(* artifacts, token requests and sessions, and the vault's leases and      *)
(* rotations (VaultLeases, VaultRotation), for any number of leases,       *)
(* workers, versions, check-outs and rotations; however often the engine   *)
(* refuses, a rotation fails or a process stops.                           *)
(***************************************************************************)
EXTENDS OAuthGrants, VaultLeases, VaultRotation, FiniteSetTheorems, TLAPS

(***************************************************************************)
(* Artifacts of the OAuth provider.                                        *)
(***************************************************************************)
RequestSteps == {"idle", "found", "consumed", "replayed", "over"}

\* What the proofs need of the shape of a state.
GrantShape ==
  /\ artifact \in [Artifacts -> {"unused", "live", "consumed", "gone"}]
  /\ request \in [Requests -> [step : RequestSteps, presented : Artifacts \cup {Nobody}]]
  /\ \A r \in Requests : At(r, "found") => request[r].presented \in Artifacts
  /\ winners \in [Artifacts -> SUBSET Requests]

\* What every step of the family is to its artifacts: nobody but Consume
\* touches winners, and nothing becomes live again.
NoWinner ==
  /\ winners' = winners
  /\ \A a \in Artifacts : artifact'[a] \in {"unused", "live"} => artifact[a] \in {"unused", "live"}

(***************************************************************************)
(* An artifact that may still be consumed has no winner, and one that was  *)
(* consumed has exactly the request that consumed it.                      *)
(***************************************************************************)
OneWinner ==
  \A a \in Artifacts :
    /\ artifact[a] \in {"unused", "live"} => winners[a] = {}
    /\ winners[a] = {} \/ \E r \in Requests : winners[a] = {r}

LEMMA GrantInitShape == Init => GrantShape /\ OneWinner
  BY OAuthAssumption DEF Init, GrantShape, OneWinner, Idle, RequestSteps, At

LEMMA UpsertKeeps ==
  ASSUME GrantShape, Upsert
  PROVE  /\ artifact' \in [Artifacts -> {"unused", "live", "consumed", "gone"}]
         /\ \A a \in Artifacts :
              artifact'[a] \in {"unused", "live"} => artifact[a] \in {"unused", "live"}
  BY DEF GrantShape, Upsert

LEMMA DeletedKeeps ==
  ASSUME GrantShape, artifact' = Deleted
  PROVE  /\ artifact' \in [Artifacts -> {"unused", "live", "consumed", "gone"}]
         /\ \A a \in Artifacts :
              artifact'[a] \in {"unused", "live"} => artifact[a] \in {"unused", "live"}
  BY DEF GrantShape, Deleted, Stored

LEMMA GotoKeeps ==
  ASSUME GrantShape, NEW r \in Requests, NEW s \in RequestSteps \ {"found"}, Goto(r, s)
  PROVE  /\ request' \in [Requests -> [step : RequestSteps, presented : Artifacts \cup {Nobody}]]
         /\ \A q \in Requests : request'[q].step = "found" => request'[q].presented \in Artifacts
  BY DEF GrantShape, Goto, RequestSteps, At

(* Every step but the consumption leaves the winners alone. *)
LEMMA OtherSteps ==
  ASSUME GrantShape, [Next]_vars, ~\E r \in Requests : Consume(r)
  PROVE  GrantShape' /\ NoWinner
<1> USE DEF NoWinner
<1>1. ASSUME NEW r \in Requests, RevokeReplayed(r) PROVE GrantShape' /\ NoWinner
  BY <1>1, DeletedKeeps, GotoKeeps DEF RevokeReplayed, RevokeByGrantId, GrantShape, RequestSteps, At
<1>2. ASSUME NEW r \in Requests, Replace(r) PROVE GrantShape' /\ NoWinner
  BY <1>2, UpsertKeeps, GotoKeeps DEF Replace, GrantShape, RequestSteps, At
<1>3. ASSUME NEW r \in Requests, RequestStops(r) PROVE GrantShape' /\ NoWinner
  BY <1>3, GotoKeeps DEF RequestStops, GrantShape, RequestSteps, At
<1>4. ASSUME NEW r \in Requests, NEW a \in Artifacts, Find(r, a) PROVE GrantShape' /\ NoWinner
  BY <1>4 DEF Find, GrantShape, RequestSteps, At
<1>5. ASSUME NEW a \in Artifacts, Expire(a) PROVE GrantShape' /\ NoWinner
  BY <1>5 DEF Expire, GrantShape, At
<1>6. CASE RevokeGrant
  BY <1>6, DeletedKeeps DEF RevokeGrant, RevokeByGrantId, GrantShape, At
<1>7. CASE PurgeClientArtifacts
  BY <1>7, DeletedKeeps DEF PurgeClientArtifacts, GrantShape, At
<1>8. CASE IssueCode
  BY <1>8, UpsertKeeps DEF IssueCode, GrantShape, At
<1>9. CASE LogoutRevoke
  BY <1>9, DeletedKeeps DEF LogoutRevoke, RevokeByGrantId, GrantShape, At
<1>10. CASE UNCHANGED <<artifact, request, winners>>
  BY <1>10 DEF GrantShape, At
<1>11. ASSUME \/ \E s \in Sessions : EndSession(s) \/ CompleteInteraction(s)
              \/ LogoutRead \/ LogoutJudge \/ LogoutUnbind \/ LogoutStops \/ UNCHANGED vars
       PROVE  UNCHANGED <<artifact, request, winners>>
  BY <1>11 DEF EndSession, CompleteInteraction, LogoutRead, LogoutJudge, LogoutUnbind,
               LogoutStops, vars
<1> QED
  BY <1>1, <1>2, <1>3, <1>4, <1>5, <1>6, <1>7, <1>8, <1>9, <1>10, <1>11 DEF Next, Logout

LEMMA ConsumeStep ==
  ASSUME GrantShape, OneWinner, NEW r \in Requests, Consume(r)
  PROVE  GrantShape' /\ OneWinner'
<1> DEFINE a == request[r].presented
<1>1. a \in Artifacts
  BY DEF Consume, GrantShape
<1>2. CASE Consumable(a)
  <2>1. /\ artifact' = [artifact EXCEPT ![a] = "consumed"]
        /\ winners' = [winners EXCEPT ![a] = @ \cup {r}]
        /\ Goto(r, "consumed")
    BY <1>2 DEF Consume
  <2>2. winners[a] = {}
    BY <1>1, <1>2 DEF OneWinner, Consumable
  <2>3. OneWinner'
    BY <1>1, <2>1, <2>2 DEF OneWinner, GrantShape
  <2>4. GrantShape'
    BY <1>1, <2>1, GotoKeeps DEF GrantShape, RequestSteps, At
  <2> QED
    BY <2>3, <2>4
<1>3. CASE ~Consumable(a)
  <2>1. UNCHANGED <<artifact, winners>>
    BY <1>3 DEF Consume
  <2>2. \E s \in {"replayed", "over"} : Goto(r, s)
    BY <1>3 DEF Consume
  <2> QED
    BY <2>1, <2>2, GotoKeeps DEF GrantShape, OneWinner, RequestSteps, At
<1> QED
  BY <1>2, <1>3

(***************************************************************************)
(* However many requests present an artifact, at most one consumes it.     *)
(***************************************************************************)
THEOREM SingleUse == Spec => []ConsumedOnce
<1>1. Init => GrantShape /\ OneWinner
  BY GrantInitShape
<1>2. GrantShape /\ OneWinner /\ [Next]_vars => (GrantShape /\ OneWinner)'
  <2> SUFFICES ASSUME GrantShape, OneWinner, [Next]_vars PROVE (GrantShape /\ OneWinner)'
    OBVIOUS
  <2>1. CASE \E r \in Requests : Consume(r)
    BY <2>1, ConsumeStep
  <2>2. CASE ~\E r \in Requests : Consume(r)
    BY <2>2, OtherSteps DEF NoWinner, OneWinner
  <2> QED
    BY <2>1, <2>2
<1>3. OneWinner => ConsumedOnce
  <2> SUFFICES ASSUME OneWinner, NEW a \in Artifacts PROVE Cardinality(winners[a]) <= 1
    BY DEF ConsumedOnce
  <2>1. CASE winners[a] = {}
    BY <2>1, FS_EmptySet
  <2>2. ASSUME NEW r \in Requests, winners[a] = {r} PROVE Cardinality(winners[a]) <= 1
    <3>1. Cardinality({r}) = 1
      BY FS_Singleton
    <3> QED
      BY <2>2, <3>1
  <2> QED
    BY <2>1, <2>2 DEF OneWinner
<1> QED
  BY <1>1, <1>2, <1>3, PTL DEF Spec

(***************************************************************************)
(* A family that was disowned stays dead.  What makes it so lasts: the     *)
(* marker is never taken back, a Grant row is never written again, and a   *)
(* binding is only moved by a consent that finds the grant valid.  That no *)
(* artifact is left does not last: a request under way may store one.      *)
(***************************************************************************)
DeadGrant == disowned => revoked \/ ~grantRow \/ binding = Nobody

THEOREM DisownedIsFinal == Spec => []DisownedStaysDead
<1>1. Init => DeadGrant
  BY DEF Init, DeadGrant
<1>2. DeadGrant /\ [Next]_vars => DeadGrant'
  <2> SUFFICES ASSUME DeadGrant, [Next]_vars PROVE DeadGrant'
    OBVIOUS
  <2> USE DEF DeadGrant
  <2>1. ASSUME NEW r \in Requests, Consume(r) PROVE DeadGrant'
    BY <2>1 DEF Consume
  <2>2. ASSUME NEW r \in Requests, RevokeReplayed(r) PROVE DeadGrant'
    BY <2>2 DEF RevokeReplayed, RevokeByGrantId
  <2>3. ASSUME NEW r \in Requests, Replace(r) PROVE DeadGrant'
    BY <2>3 DEF Replace
  <2>4. ASSUME NEW r \in Requests, RequestStops(r) PROVE DeadGrant'
    BY <2>4 DEF RequestStops
  <2>5. ASSUME NEW r \in Requests, NEW a \in Artifacts, Find(r, a) PROVE DeadGrant'
    BY <2>5 DEF Find
  <2>6. ASSUME NEW a \in Artifacts, Expire(a) PROVE DeadGrant'
    BY <2>6 DEF Expire
  <2>7. ASSUME NEW s \in Sessions, EndSession(s) PROVE DeadGrant'
    BY <2>7 DEF EndSession
  <2>8. ASSUME NEW s \in Sessions, CompleteInteraction(s) PROVE DeadGrant'
    BY <2>8 DEF CompleteInteraction, ValidGrantSession
  <2>9. CASE RevokeGrant
    BY <2>9 DEF RevokeGrant, RevokeByGrantId
  <2>10. CASE PurgeClientArtifacts
    BY <2>10 DEF PurgeClientArtifacts
  <2>11. CASE IssueCode
    BY <2>11 DEF IssueCode
  <2>12. CASE Logout
    BY <2>12 DEF Logout, LogoutRead, LogoutJudge, LogoutRevoke, RevokeByGrantId, LogoutUnbind
  <2>13. CASE LogoutStops
    BY <2>13 DEF LogoutStops
  <2>14. CASE UNCHANGED vars
    BY <2>14 DEF vars
  <2> QED
    BY <2>1, <2>2, <2>3, <2>4, <2>5, <2>6, <2>7, <2>8, <2>9, <2>10, <2>11, <2>12, <2>13, <2>14
       DEF Next
<1>3. DeadGrant => DisownedStaysDead
  BY DEF DeadGrant, DisownedStaysDead, Usable, ValidGrantSession
<1> QED
  BY <1>1, <1>2, <1>3, PTL DEF Spec

(***************************************************************************)
(* Leases.  What every lease, answer and worker has to remember for the    *)
(* credentials to stay accounted for.                                      *)
(***************************************************************************)

\* A lease leaves the hands of the call that issues it only by what the call
\* looks at when the engine answered, or on the record.
LeaseSound(l) ==
  /\ l \in alive => Live(l) \/ InFlight(l) \/ l \in writtenOff
  /\ lease[l] # None => call[l] # "none"
  /\ InFlight(l) => State(l) \in {"issuing", "over"} \/ l \in writtenOff
  /\ State(l) = "issuing" => InFlight(l) \/ call[l] = "stopped"

\* What the engine consented to end is over there, and stays so unless its
\* call was yet to reach the engine or is carried out late.
AnswerTrue(a) ==
  answer[a] # None =>
    /\ a \in Leases => call[a] = "taking back"
    /\ call[answer[a].lease] # "none"
    /\ call[answer[a].lease] = "called" => answer[a].lease \in writtenOff
    /\ answer[a].ok => answer[a].lease \notin alive \/ answer[a].lease \in writtenOff

\* A purge has seen to the end of the leases that it found and is through with.
Found(w, l) ==
  /\ State(l) \notin {"issuing", "active"} /\ call[l] # "none"
  /\ InFlight(l) => l \in writtenOff
  /\ l \notin worker[w].todo /\ worker[w].clean => ~Live(l) \/ l \in writtenOff

WorkerTrue(w) ==
  /\ worker[w].job = "abandoned" => \A l \in worker[w].todo : call[l] = "stopped"
  /\ \A l \in worker[w].found : Found(w, l)

LeasesInv ==
  /\ LeasesTypeOK
  /\ \A l \in Leases : LeaseSound(l)
  /\ \A a \in Leases \cup Workers : AnswerTrue(a)
  /\ \A w \in Workers : WorkerTrue(w)

LEMMA LeasesInitInv == LeasesInit => LeasesInv
<1> SUFFICES ASSUME LeasesInit PROVE LeasesInv
  OBVIOUS
<1> USE DEF LeasesInit
<1>1. LeasesTypeOK
  BY DEF LeasesTypeOK, AtRest, CallStates, WorkerRecords
<1>2. \A l \in Leases : LeaseSound(l)
  BY DEF LeaseSound, State, InFlight
<1>3. \A a \in Leases \cup Workers : AnswerTrue(a)
  BY DEF AnswerTrue
<1>4. \A w \in Workers : WorkerTrue(w)
  BY DEF WorkerTrue, AtRest
<1> QED
  BY <1>1, <1>2, <1>3, <1>4 DEF LeasesInv

LEMMA NoneIsNothing == None \notin LeaseRecords /\ None \notin Answers
  BY VaultLeasesAssumption

LeaseStates == {"issuing", "active", "revoking", "over", "givenUp"}

\* What Put does to the state of every lease.
LEMMA PutSets ==
  ASSUME LeasesTypeOK, NEW l \in Leases, lease[l] # None, NEW s \in LeaseStates, lease' = Put(l, s)
  PROVE  /\ lease' \in [Leases -> {None} \cup LeaseRecords]
         /\ lease'[l] # None /\ State(l)' = s
         /\ \A m \in Leases \ {l} : lease'[m] = lease[m] /\ State(m)' = State(m)
<1>1. lease[l] \in LeaseRecords
  BY DEF LeasesTypeOK
<1>2. [lease[l] EXCEPT !.state = s] \in LeaseRecords /\ [lease[l] EXCEPT !.state = s].state = s
  BY <1>1 DEF LeaseRecords, LeaseStates
<1>3. lease' = [lease EXCEPT ![l] = [lease[l] EXCEPT !.state = s]]
  BY DEF Put
<1>4. lease'[l] \in LeaseRecords /\ lease'[l].state = s /\ \A m \in Leases \ {l} : lease'[m] = lease[m]
  BY <1>2, <1>3 DEF LeasesTypeOK
<1>5. lease' \in [Leases -> {None} \cup LeaseRecords]
  BY <1>2, <1>3 DEF LeasesTypeOK
<1> QED
  BY <1>4, <1>5, NoneIsNothing DEF State

LEMMA StatesKnown ==
  ASSUME LeasesTypeOK
  PROVE  \A l \in Leases : /\ State(l) \in LeaseStates \cup {"none"}
                           /\ State(l) = "none" <=> lease[l] = None
  BY NoneIsNothing DEF LeasesTypeOK, LeaseRecords, LeaseStates, State

LEMMA AnswersKnown ==
  ASSUME LeasesTypeOK
  PROVE  \A a \in Leases \cup Workers :
           answer[a] # None => answer[a].lease \in Leases /\ answer[a].ok \in BOOLEAN
  BY DEF LeasesTypeOK, Answers

LEMMA WorkersKnown ==
  ASSUME LeasesTypeOK
  PROVE  \A w \in Workers : worker[w].found \subseteq Leases /\ worker[w].todo \subseteq Leases
  BY DEF LeasesTypeOK, WorkerRecords

(***************************************************************************)
(* What no step undoes: an issue begins once, and its credential appears   *)
(* while it is called, before the engine confirmed its revocation, or is   *)
(* written off; a call that stopped stays so; a lease that was ended is not*)
(* issued again, nor is it live again once its call has looked at it; and  *)
(* the record of what was written off grows.                               *)
(***************************************************************************)
Onward(l) ==
  /\ call[l] # "none" => call'[l] # "none"
  /\ call[l] = "stopped" => call'[l] = "stopped"
  /\ call'[l] = "called" => call[l] \in {"none", "called"}
  /\ InFlight(l)' => InFlight(l) \/ call[l] = "none"
  /\ l \in alive' => l \in alive \/ call[l] = "called" \/ l \in writtenOff' \/ ~Confirmed(l)
  /\ l \in writtenOff => l \in writtenOff'
  /\ call[l] # "none" /\ State(l) \notin {"issuing", "active"} => State(l)' \notin {"issuing", "active"}
  /\ call[l] # "none" /\ ~Live(l) /\ ~InFlight(l) => ~Live(l)'

\* Then an answer and a worker that are left alone remember what is true.
LEMMA AnswerStays ==
  ASSUME LeasesInv, \A l \in Leases : Onward(l),
         NEW a \in Leases \cup Workers, answer'[a] = answer[a], a \in Leases => call'[a] = call[a]
  PROVE  AnswerTrue(a)'
<1>1. CASE answer[a] = None
  BY <1>1 DEF AnswerTrue
<1>2. CASE answer[a] # None
  <2>1. AnswerTrue(a) /\ Onward(answer[a].lease)
    BY <1>2, AnswersKnown DEF LeasesInv
  <2> QED
    BY <1>2, <2>1 DEF AnswerTrue, Onward, Confirmed
<1> QED
  BY <1>1, <1>2

LEMMA WorkerStays ==
  ASSUME LeasesInv, \A l \in Leases : Onward(l), NEW w \in Workers, worker'[w] = worker[w]
  PROVE  WorkerTrue(w)'
<1>1. ASSUME worker[w].job = "abandoned", NEW l \in worker[w].todo
      PROVE  call'[l] = "stopped"
  BY <1>1, WorkersKnown DEF LeasesInv, WorkerTrue, Onward
<1>2. ASSUME NEW l \in worker[w].found
      PROVE  Found(w, l)'
  <2>1. Found(w, l) /\ Onward(l)
    BY WorkersKnown DEF LeasesInv, WorkerTrue
  <2> QED
    BY <2>1 DEF Found, Onward, InFlight, Live
<1> QED
  BY <1>1, <1>2 DEF WorkerTrue

\* A lease whose state and call are left alone stays sound.
Undisturbed(l) ==
  /\ State(l)' = State(l) /\ call'[l] = call[l]
  /\ lease'[l] # None => lease[l] # None
  /\ l \in alive' => l \in alive

LEMMA LeaseStays ==
  ASSUME NEW l \in Leases, LeaseSound(l), Onward(l), Undisturbed(l)
  PROVE  LeaseSound(l)'
  BY DEF LeaseSound, Onward, Undisturbed, Live, InFlight

AnswerKept(a) == answer'[a] = answer[a] /\ (a \in Leases => call'[a] = call[a])

StepKeeps == LeasesInv' /\ \A l \in Leases : Onward(l)

\* So only what a step does not leave alone has to be looked at.
LEMMA Keeps ==
  ASSUME LeasesInv, LeasesTypeOK',
         \A l \in Leases : Onward(l),
         \A l \in Leases : LeaseSound(l)' \/ Undisturbed(l),
         \A a \in Leases \cup Workers : AnswerTrue(a)' \/ AnswerKept(a),
         \A w \in Workers : WorkerTrue(w)' \/ worker'[w] = worker[w]
  PROVE  StepKeeps
<1>1. \A l \in Leases : LeaseSound(l)'
  BY LeaseStays DEF LeasesInv
<1>2. \A a \in Leases \cup Workers : AnswerTrue(a)'
  BY AnswerStays DEF AnswerKept
<1>3. \A w \in Workers : WorkerTrue(w)'
  BY WorkerStays
<1> QED
  BY <1>1, <1>2, <1>3 DEF LeasesInv, StepKeeps

\* A record keeps its state when another field of it changes.
LEMMA FieldSets ==
  ASSUME LeasesTypeOK, NEW l \in Leases, lease[l] # None, NEW r \in LeaseRecords,
         r.state = lease[l].state, lease' = [lease EXCEPT ![l] = r]
  PROVE  /\ lease' \in [Leases -> {None} \cup LeaseRecords]
         /\ \A m \in Leases : State(m)' = State(m) /\ (lease'[m] # None => lease[m] # None)
<1>1. lease'[l] = r /\ r # None /\ \A m \in Leases \ {l} : lease'[m] = lease[m]
  BY NoneIsNothing DEF LeasesTypeOK
<1>2. lease' \in [Leases -> {None} \cup LeaseRecords]
  BY DEF LeasesTypeOK
<1> QED
  BY <1>1, <1>2 DEF State

----------------------------------------------------------------------------
LEMMA OpenKeeps ==
  ASSUME LeasesInv, NEW l \in Leases, Open(l)
  PROVE  StepKeeps
<1> DEFINE new == [state |-> "issuing", lapsed |-> FALSE, due |-> TRUE, refusals |-> 0]
<1>1. new \in LeaseRecords /\ new.state = "issuing"
  BY DEF LeaseRecords
<1>2. LeasesTypeOK /\ call[l] = "none" /\ alive' = alive /\ answer' = answer /\ worker' = worker
  BY DEF LeasesInv, Open
<1>3. lease' = [lease EXCEPT ![l] = new] /\ call' = [call EXCEPT ![l] = "called"]
  BY DEF Open
<1> HIDE DEF new
<1>4. /\ lease'[l] # None /\ State(l)' = "issuing" /\ call'[l] = "called"
      /\ \A m \in Leases \ {l} : lease'[m] = lease[m] /\ call'[m] = call[m] /\ State(m)' = State(m)
  BY <1>1, <1>2, <1>3, NoneIsNothing DEF LeasesTypeOK, State
<1>5. \A m \in Leases : Onward(m)
  BY <1>2, <1>4 DEF Open, Onward, InFlight, Live
<1>6. LeasesTypeOK'
  <2>1. lease' \in [Leases -> {None} \cup LeaseRecords] /\ call' \in [Leases -> CallStates]
    BY <1>1, <1>2, <1>3 DEF LeasesTypeOK, CallStates
  <2> QED
    BY <1>2, <2>1 DEF LeasesTypeOK, Open
<1>7. \A m \in Leases : LeaseSound(m)' \/ Undisturbed(m)
  <2>1. LeaseSound(l)'
    BY <1>4 DEF LeaseSound, Live, InFlight
  <2> QED
    BY <1>2, <1>4, <2>1 DEF Undisturbed
<1>8. \A a \in Leases \cup Workers : AnswerTrue(a)' \/ AnswerKept(a)
  BY <1>2, <1>4 DEF LeasesInv, AnswerTrue, AnswerKept
<1>9. \A w \in Workers : WorkerTrue(w)' \/ worker'[w] = worker[w]
  BY <1>2
<1> QED
  BY <1>5, <1>6, <1>7, <1>8, <1>9, Keeps

LEMMA IssueKeeps ==
  ASSUME LeasesInv, NEW l \in Leases, Issue(l)
  PROVE  StepKeeps
<1>1. LeasesTypeOK /\ LeaseSound(l) /\ lease' = lease /\ answer' = answer /\ worker' = worker
  BY DEF LeasesInv, Issue
<1>2. /\ call[l] = "called" /\ call'[l] \in {"answered", "failed"}
      /\ \A m \in Leases \ {l} : call'[m] = call[m] /\ (m \in alive' => m \in alive)
  BY <1>1 DEF LeasesTypeOK, Issue
<1>3. \A m \in Leases : State(m)' = State(m)
  BY <1>1 DEF State
<1>4. \A m \in Leases : Onward(m)
  BY <1>2, <1>3 DEF Onward, InFlight, Live, Issue
<1>5. LeasesTypeOK'
  <2>1. alive' \in SUBSET Leases /\ late' \in SUBSET Leases
    BY <1>1 DEF LeasesTypeOK, Issue
  <2>2. call' \in [Leases -> CallStates]
    BY <1>1 DEF LeasesTypeOK, Issue, CallStates
  <2> QED
    BY <1>1, <2>1, <2>2 DEF LeasesTypeOK, Issue
<1>6. \A m \in Leases : LeaseSound(m)' \/ Undisturbed(m)
  <2>1. LeaseSound(l)'
    BY <1>1, <1>2, <1>3 DEF LeaseSound, InFlight, Issue
  <2> QED
    BY <1>1, <1>2, <1>3, <2>1 DEF Undisturbed
<1>7. \A a \in Leases \cup Workers : AnswerTrue(a)' \/ AnswerKept(a)
  BY <1>1, <1>2 DEF LeasesInv, AnswerTrue, AnswerKept
<1>8. \A w \in Workers : WorkerTrue(w)' \/ worker'[w] = worker[w]
  BY <1>1
<1> QED
  BY <1>4, <1>5, <1>6, <1>7, <1>8, Keeps

\* Nobody is waiting for what is minted late, so nothing else changes.
LEMMA MintLateKeeps ==
  ASSUME LeasesInv, NEW l \in Leases, MintLate(l)
  PROVE  StepKeeps
<1>1. /\ LeasesTypeOK /\ LeaseSound(l)
      /\ UNCHANGED <<secret, lease, call, worker, answer>>
      /\ alive' = alive \cup {l} /\ late' = late \ {l}
      /\ writtenOff \subseteq writtenOff' /\ writtenOff' \subseteq writtenOff \cup {l}
      /\ ((Live(l) \/ InFlight(l)) /\ ~Confirmed(l)) \/ l \in writtenOff'
  BY DEF LeasesInv, MintLate, Accounted
<1>2. \A m \in Leases : State(m)' = State(m)
  BY <1>1 DEF State
<1>3. \A m \in Leases : Onward(m)
  BY <1>1, <1>2 DEF Onward, InFlight, Live
<1>4. LeasesTypeOK'
  BY <1>1 DEF LeasesTypeOK
<1>5. \A m \in Leases : LeaseSound(m)' \/ Undisturbed(m)
  <2>1. LeaseSound(l)'
    BY <1>1, <1>2 DEF LeaseSound, Live, InFlight
  <2> QED
    BY <1>1, <1>2, <2>1 DEF Undisturbed
<1>6. \A a \in Leases \cup Workers : AnswerKept(a)
  BY <1>1 DEF AnswerKept
<1> QED
  BY <1>1, <1>3, <1>4, <1>5, <1>6, Keeps

LEMMA StoreKeeps ==
  ASSUME LeasesInv, NEW l \in Leases, Store(l)
  PROVE  StepKeeps
<1>1. /\ LeasesTypeOK /\ LeaseSound(l) /\ call[l] \in {"answered", "failed"}
      /\ alive' = alive /\ answer' = answer /\ worker' = worker /\ writtenOff' = writtenOff
  BY DEF LeasesInv, Store
<1>2. call[l] = "answered" /\ StillIssuing(l) =>
        /\ lease' \in [Leases -> {None} \cup LeaseRecords]
        /\ lease[l] # None /\ State(l) = "issuing" /\ State(l)' = "active" /\ call'[l] = "done"
        /\ \A m \in Leases \ {l} : lease'[m] = lease[m] /\ State(m)' = State(m)
  BY <1>1, StatesKnown, PutSets DEF Store, StillIssuing, LeaseStates, LeasesTypeOK
<1>3. ~(call[l] = "answered" /\ StillIssuing(l)) /\ lease[l] # None =>
        /\ lease' \in [Leases -> {None} \cup LeaseRecords]
        /\ State(l)' = "revoking" /\ call'[l] = "taking back"
        /\ \A m \in Leases \ {l} : lease'[m] = lease[m] /\ State(m)' = State(m)
  BY <1>1, PutSets DEF Store, LeaseStates, LeasesTypeOK
<1>4. lease[l] = None =>
        /\ lease' = lease /\ State(l) = "none" /\ call'[l] = "taking back"
        /\ \A m \in Leases : State(m)' = State(m)
  BY <1>1 DEF Store, State, StillIssuing, LeasesTypeOK
<1>5. \A m \in Leases \ {l} : call'[m] = call[m]
  BY <1>1 DEF Store, LeasesTypeOK
<1>6. \A m \in Leases : Onward(m)
  BY <1>1, <1>2, <1>3, <1>4, <1>5 DEF Onward, InFlight, Live
<1>7. LeasesTypeOK'
  <2>1. call' \in [Leases -> CallStates]
    BY <1>1 DEF LeasesTypeOK, Store, CallStates
  <2> QED
    BY <1>1, <1>2, <1>3, <1>4, <2>1 DEF LeasesTypeOK, Store
<1>8. \A m \in Leases : LeaseSound(m)' \/ Undisturbed(m)
  <2>1. LeaseSound(l)'
    BY <1>1, <1>2, <1>3, <1>4 DEF LeaseSound, Live, InFlight
  <2> QED
    BY <1>1, <1>2, <1>3, <1>4, <1>5, <2>1 DEF Undisturbed
<1>9. \A a \in Leases \cup Workers : AnswerTrue(a)' \/ AnswerKept(a)
  BY <1>1, <1>5 DEF LeasesInv, AnswerTrue, AnswerKept
<1> QED
  BY <1>1, <1>6, <1>7, <1>8, <1>9, Keeps
LEMMA CallStopsKeeps ==
  ASSUME LeasesInv, NEW l \in Leases, CallStops(l)
  PROVE  StepKeeps
<1>1. /\ LeasesTypeOK /\ LeaseSound(l) /\ lease' = lease /\ alive' = alive /\ worker' = worker
      /\ call[l] \notin {"none", "stopped"}
  BY DEF LeasesInv, CallStops
<1>2. /\ call'[l] = "stopped" /\ \A m \in Leases \ {l} : call'[m] = call[m]
      /\ answer'[l] = None /\ \A a \in (Leases \cup Workers) \ {l} : answer'[a] = answer[a]
  BY <1>1 DEF LeasesTypeOK, CallStops
<1>3. \A m \in Leases : State(m)' = State(m)
  BY <1>1 DEF State
<1>4. writtenOff \subseteq writtenOff' /\ (InFlight(l) /\ ~Live(l) => l \in writtenOff')
      /\ writtenOff' \subseteq writtenOff \cup {l}
  BY DEF CallStops
<1>5. \A m \in Leases : Onward(m)
  BY <1>1, <1>2, <1>3, <1>4 DEF Onward, InFlight, Live
<1>6. LeasesTypeOK'
  <2>1. call' \in [Leases -> CallStates]
    BY <1>1 DEF LeasesTypeOK, CallStops, CallStates
  <2>2. answer' \in [Leases \cup Workers -> {None} \cup Answers] /\ writtenOff' \in SUBSET Leases
    BY <1>1, <1>4 DEF LeasesTypeOK, CallStops
  <2> QED
    BY <1>1, <2>1, <2>2 DEF LeasesTypeOK, CallStops
<1>7. \A m \in Leases : LeaseSound(m)' \/ Undisturbed(m)
  <2>1. LeaseSound(l)'
    BY <1>1, <1>2, <1>3, <1>4 DEF LeaseSound, Live, InFlight
  <2> QED
    BY <1>1, <1>2, <1>3, <2>1 DEF Undisturbed
<1>8. \A a \in Leases \cup Workers : AnswerTrue(a)' \/ AnswerKept(a)
  BY <1>2 DEF AnswerTrue, AnswerKept
<1> QED
  BY <1>1, <1>5, <1>6, <1>7, <1>8, Keeps

\* Time passes for a lease, or for the deletion of the secret.
LEMMA TimeKeeps ==
  ASSUME LeasesInv, NEW l \in Leases, Lapse(l) \/ RetryDue(l)
  PROVE  StepKeeps
<1>1. LeasesTypeOK /\ lease[l] # None
  BY StatesKnown DEF LeasesInv, Lapse, RetryDue, State
<1>2. UNCHANGED <<secret, alive, late, call, worker, answer, refusals, halts, deletes, writtenOff>>
  BY DEF Lapse, RetryDue
<1>3. lease[l] \in LeaseRecords
  BY <1>1 DEF LeasesTypeOK
<1>4. PICK r \in LeaseRecords : r.state = lease[l].state /\ lease' = [lease EXCEPT ![l] = r]
  <2>1. CASE Lapse(l)
    <3>1. [lease[l] EXCEPT !.lapsed = TRUE] \in LeaseRecords
          /\ [lease[l] EXCEPT !.lapsed = TRUE].state = lease[l].state
      BY <1>3 DEF LeaseRecords
    <3> QED
      BY <2>1, <3>1 DEF Lapse
  <2>2. CASE RetryDue(l)
    <3>1. [lease[l] EXCEPT !.due = TRUE] \in LeaseRecords
          /\ [lease[l] EXCEPT !.due = TRUE].state = lease[l].state
      BY <1>3 DEF LeaseRecords
    <3> QED
      BY <2>2, <3>1 DEF RetryDue
  <2> QED
    BY <2>1, <2>2
<1>5. /\ lease' \in [Leases -> {None} \cup LeaseRecords]
      /\ \A m \in Leases : State(m)' = State(m) /\ (lease'[m] # None => lease[m] # None)
  BY <1>1, <1>4, FieldSets
<1>6. LeasesTypeOK'
  BY <1>1, <1>2, <1>5 DEF LeasesTypeOK
<1>7. \A m \in Leases : Onward(m) /\ Undisturbed(m)
  BY <1>2, <1>5 DEF Onward, Undisturbed, InFlight, Live
<1>8. \A a \in Leases \cup Workers : AnswerKept(a)
  BY <1>2 DEF AnswerKept
<1> QED
  BY <1>2, <1>6, <1>7, <1>8, Keeps

LEMMA SecretKeeps ==
  ASSUME LeasesInv, Delete \/ Restore \/ DeletionDue
  PROVE  StepKeeps
<1>1. UNCHANGED <<lease, alive, late, call, worker, answer, writtenOff>>
  BY DEF Delete, Restore, DeletionDue
<1>2. LeasesTypeOK'
  BY <1>1 DEF LeasesInv, LeasesTypeOK, Delete, Restore, DeletionDue
<1>3. \A l \in Leases : Onward(l) /\ Undisturbed(l)
  BY <1>1 DEF Onward, Undisturbed, InFlight, Live, State
<1>4. \A a \in Leases \cup Workers : AnswerKept(a)
  BY <1>1 DEF AnswerKept
<1> QED
  BY <1>1, <1>2, <1>3, <1>4, Keeps
----------------------------------------------------------------------------
\* A worker that begins or is through has nothing to remember.
LEMMA FreshWorker ==
  ASSUME NEW w \in Workers, worker'[w].found = {}, worker'[w].job # "abandoned"
  PROVE  WorkerTrue(w)'
  BY DEF WorkerTrue

LEMMA ReturnSets ==
  ASSUME LeasesTypeOK, NEW a \in Leases \cup Workers, NEW l \in Leases, NEW ok \in BOOLEAN,
         Returns(a, l, ok)
  PROVE  /\ call' \in [Leases -> CallStates] /\ worker' \in [Workers -> WorkerRecords]
         /\ \A m \in Leases : call'[m] = call[m] \/ (m = a /\ call'[m] = "done")
         /\ \A w \in Workers : \/ worker'[w] = worker[w]
                               \/ worker'[w] = AtRest
                               \/ /\ w = a /\ worker[w].job = "purge" /\ worker'[w].job = "purge"
                                  /\ worker'[w].found = worker[w].found
                                  /\ worker'[w].todo = worker[w].todo \ {l}
                                  /\ worker'[w].clean = (worker[w].clean /\ ok)
<1>1. CASE a \in Leases
  <2>1. call' = [call EXCEPT ![a] = "done"] /\ worker' = worker
    BY <1>1, VaultLeasesAssumption DEF Returns
  <2> QED
    BY <1>1, <2>1 DEF LeasesTypeOK, CallStates
<1>2. CASE a \notin Leases
  <2>1. a \in Workers /\ worker[a] \in WorkerRecords
    BY <1>2 DEF LeasesTypeOK
  <2>2. call' = call
    BY <1>2 DEF Returns
  <2>3. CASE worker[a].job = "purge"
    <3>1. /\ Told(a, l, ok) \in WorkerRecords /\ Told(a, l, ok).job = "purge"
          /\ Told(a, l, ok).found = worker[a].found
          /\ Told(a, l, ok).todo = worker[a].todo \ {l}
          /\ Told(a, l, ok).clean = (worker[a].clean /\ ok)
      BY <2>1, <2>3 DEF WorkerRecords, Told
    <3>2. worker' = [worker EXCEPT ![a] = Told(a, l, ok)]
      BY <1>2, <2>3 DEF Returns
    <3> QED
      BY <2>1, <2>2, <2>3, <3>1, <3>2 DEF LeasesTypeOK
  <2>4. CASE worker[a].job # "purge"
    <3>1. AtRest \in WorkerRecords
      BY DEF AtRest, WorkerRecords
    <3>2. worker' = [worker EXCEPT ![a] = AtRest]
      BY <1>2, <2>4 DEF Returns
    <3> QED
      BY <2>1, <2>2, <3>1, <3>2 DEF LeasesTypeOK
  <2> QED
    BY <2>3, <2>4
<1> QED
  BY <1>1, <1>2

\* A worker is told that a lease it purges is over only when it is.
LEMMA ReturnKeeps ==
  ASSUME LeasesInv, \A m \in Leases : Onward(m),
         NEW a \in Leases \cup Workers, NEW l \in Leases, NEW ok \in BOOLEAN, Returns(a, l, ok),
         ASSUME a \in Workers, l \in worker[a].found, ok
         PROVE  ~Live(l)' \/ l \in writtenOff'
  PROVE  \A w \in Workers : WorkerTrue(w)' \/ worker'[w] = worker[w]
<1> SUFFICES ASSUME NEW w \in Workers, worker'[w] # worker[w] PROVE WorkerTrue(w)'
  OBVIOUS
<1>1. LeasesTypeOK
  BY DEF LeasesInv
<1>2. CASE worker'[w] = AtRest
  BY <1>2, FreshWorker DEF AtRest
<1>3. CASE worker'[w] # AtRest
  <2>1. /\ w = a /\ worker'[w].job = "purge" /\ worker'[w].found = worker[w].found
        /\ worker'[w].todo = worker[w].todo \ {l} /\ worker'[w].clean = (worker[w].clean /\ ok)
    BY <1>1, <1>3, ReturnSets
  <2>2. ASSUME NEW m \in worker[w].found
        PROVE  Found(w, m)'
    <3>1. m \in Leases /\ Found(w, m) /\ Onward(m)
      BY <1>1, WorkersKnown DEF LeasesInv, WorkerTrue
    <3>2. /\ State(m)' \notin {"issuing", "active"} /\ call'[m] # "none"
          /\ InFlight(m)' => m \in writtenOff'
      BY <3>1 DEF Found, Onward
    <3>3. ASSUME m \notin worker'[w].todo, worker'[w].clean
          PROVE  ~Live(m)' \/ m \in writtenOff'
      <4>1. worker[w].clean /\ ok /\ (m = l \/ m \notin worker[w].todo)
        BY <2>1, <3>3
      <4>2. CASE m = l
        BY <2>1, <4>1, <4>2
      <4>3. CASE m # l
        BY <3>1, <4>1, <4>3 DEF Found, Onward, InFlight, Live
      <4> QED
        BY <4>2, <4>3
    <3> QED
      BY <3>2, <3>3 DEF Found
  <2> QED
    BY <2>1, <2>2 DEF WorkerTrue
<1> QED
  BY <1>2, <1>3

LEMMA AskKeeps ==
  ASSUME LeasesInv, NEW a \in Leases \cup Workers, NEW l \in Leases, Ask(a, l)
  PROVE  StepKeeps
<1>1. /\ LeasesTypeOK /\ LeaseSound(l) /\ lease' = lease /\ writtenOff' = writtenOff
      /\ Revokes(a, l) /\ answer[a] = None /\ secret' = secret /\ late' = late
  BY DEF LeasesInv, Ask
<1>2. \A m \in Leases : State(m)' = State(m)
  BY <1>1 DEF State
<1>3. CASE State(l) # "revoking" /\ Returns(a, l, TRUE) /\ UNCHANGED <<alive, answer, refusals>>
  <2>1. /\ call' \in [Leases -> CallStates] /\ worker' \in [Workers -> WorkerRecords]
        /\ \A m \in Leases : call'[m] = call[m] \/ (m = a /\ call'[m] = "done")
    BY <1>1, <1>3, ReturnSets
  <2>2. \A m \in Leases : m = a => call[m] = "taking back"
    BY <1>1 DEF Revokes
  <2>3. \A m \in Leases : Onward(m)
    BY <1>1, <1>2, <1>3, <2>1, <2>2 DEF Onward, InFlight, Live
  <2>4. LeasesTypeOK'
    BY <1>1, <1>3, <2>1 DEF LeasesTypeOK
  <2>5. \A m \in Leases : LeaseSound(m)' \/ Undisturbed(m)
    <3> SUFFICES ASSUME NEW m \in Leases, call'[m] # call[m] PROVE LeaseSound(m)'
      BY <1>1, <1>2, <1>3 DEF Undisturbed
    <3>1. LeaseSound(m) /\ call[m] = "taking back" /\ call'[m] = "done"
      BY <2>1, <2>2 DEF LeasesInv
    <3> QED
      BY <1>1, <1>2, <1>3, <3>1 DEF LeaseSound, Live, InFlight
  <2>6. \A b \in Leases \cup Workers : AnswerTrue(b)' \/ AnswerKept(b)
    BY <1>1, <1>3, <2>1 DEF AnswerTrue, AnswerKept
  <2>7. ASSUME a \in Workers, l \in worker[a].found
        PROVE  ~Live(l)' \/ l \in writtenOff'
    <3>1. Found(a, l)
      BY <2>7 DEF LeasesInv, WorkerTrue
    <3> QED
      BY <1>2, <1>3, <3>1 DEF Found, Live
  <2>8. \A w \in Workers : WorkerTrue(w)' \/ worker'[w] = worker[w]
    BY <1>3, <2>3, <2>7, ReturnKeeps
  <2> QED
    BY <2>3, <2>4, <2>5, <2>6, <2>8, Keeps
<1>4. ASSUME NEW ok \in BOOLEAN, State(l) = "revoking", ok => l \notin alive', alive' \subseteq alive,
             answer' = [answer EXCEPT ![a] = [lease |-> l, ok |-> ok]], UNCHANGED <<call, worker>>
      PROVE  StepKeeps
  <2>1. [lease |-> l, ok |-> ok] \in Answers
    BY DEF Answers
  <2>2. /\ answer' \in [Leases \cup Workers -> {None} \cup Answers]
        /\ answer'[a].lease = l /\ answer'[a].ok = ok
        /\ \A b \in (Leases \cup Workers) \ {a} : answer'[b] = answer[b]
    BY <1>1, <1>4, <2>1 DEF LeasesTypeOK
  <2>3. \A m \in Leases : Onward(m) /\ Undisturbed(m)
    BY <1>1, <1>2, <1>4 DEF Onward, Undisturbed, InFlight, Live
  <2>4. LeasesTypeOK'
    BY <1>1, <1>4, <2>2 DEF LeasesTypeOK
  <2>5. AnswerTrue(a)'
    <3>1. a \in Leases => call[a] = "taking back"
      BY <1>1 DEF Revokes
    <3>2. call[l] # "none" /\ (call[l] = "called" => l \in writtenOff)
      BY <1>1, <1>4, StatesKnown DEF LeaseSound, InFlight
    <3> QED
      BY <1>1, <1>4, <2>2, <3>1, <3>2 DEF AnswerTrue
  <2>6. \A b \in Leases \cup Workers : AnswerTrue(b)' \/ AnswerKept(b)
    BY <1>4, <2>2, <2>5 DEF AnswerKept
  <2> QED
    BY <1>4, <2>3, <2>4, <2>6, Keeps
<1>5. CASE State(l) = "revoking" /\ alive' = alive \ {l}
           /\ answer' = [answer EXCEPT ![a] = [lease |-> l, ok |-> TRUE]] /\ UNCHANGED <<call, worker>>
  BY <1>4, <1>5
<1>6. CASE State(l) = "revoking" /\ answer' = [answer EXCEPT ![a] = [lease |-> l, ok |-> FALSE]]
           /\ alive' \in {alive, alive \ {l}} /\ UNCHANGED <<call, worker>>
  BY <1>4, <1>6
<1> QED
  BY <1>3, <1>5, <1>6 DEF Ask
LEMMA RecordKeeps ==
  ASSUME LeasesInv, NEW a \in Leases \cup Workers, Record(a)
  PROVE  StepKeeps
<1>0. PICK l \in Leases, ok \in BOOLEAN : l = answer[a].lease /\ ok = answer[a].ok
  BY AnswersKnown DEF LeasesInv, Record
<1>1. LeasesTypeOK /\ AnswerTrue(a) /\ answer[a] # None /\ l \in Leases /\ ok \in BOOLEAN
  BY DEF LeasesInv, Record
<1>2. /\ Returns(a, l, ok) /\ answer' = [answer EXCEPT ![a] = None]
      /\ lease' = IF State(l) = "revoking" THEN Outcome(l, ok) ELSE lease
      /\ UNCHANGED <<secret, alive, late, refusals, halts, deletes, writtenOff>>
  BY <1>0 DEF Record
<1>3. /\ call' \in [Leases -> CallStates] /\ worker' \in [Workers -> WorkerRecords]
      /\ \A m \in Leases : call'[m] = call[m] \/ (m = a /\ call[m] = "taking back" /\ call'[m] = "done")
  <2>1. \A m \in Leases : m = a => call[m] = "taking back"
    BY <1>1 DEF AnswerTrue
  <2>2. /\ call' \in [Leases -> CallStates] /\ worker' \in [Workers -> WorkerRecords]
        /\ \A m \in Leases : call'[m] = call[m] \/ (m = a /\ call'[m] = "done")
    BY <1>1, <1>2, ReturnSets
  <2> QED
    BY <2>1, <2>2
<1>4. /\ lease' \in [Leases -> {None} \cup LeaseRecords]
      /\ \A m \in Leases :
           \/ State(m)' = State(m) /\ (lease'[m] # None => lease[m] # None)
           \/ /\ m = l /\ ok /\ State(m) = "revoking" /\ State(m)' = "over"
              /\ lease[m] # None
  <2>1. CASE State(l) # "revoking"
    BY <1>1, <1>2, <2>1 DEF LeasesTypeOK, State
  <2>2. CASE State(l) = "revoking" /\ ok
    <3>1. lease[l] # None /\ lease' = Put(l, "over")
      BY <1>1, <1>2, <2>2, StatesKnown DEF Outcome
    <3> QED
      BY <1>1, <2>2, <3>1, PutSets DEF LeaseStates
  <2>3. CASE State(l) = "revoking" /\ ~ok
    <3> DEFINE n == lease[l].refusals + 1
               r == [lease[l] EXCEPT !.refusals = n, !.due = FALSE]
    <3>1. lease[l] # None /\ lease[l] \in LeaseRecords
      BY <1>1, <2>3, StatesKnown DEF LeasesTypeOK
    <3>2. r \in LeaseRecords /\ r.state = lease[l].state
      <4>1. n \in Nat
        BY <3>1 DEF LeaseRecords
      <4> HIDE DEF n
      <4> QED
        BY <3>1, <4>1 DEF LeaseRecords
    <3>3. lease' = [lease EXCEPT ![l] = r]
      BY <1>2, <2>3 DEF Outcome
    <3> HIDE DEF r
    <3> QED
      BY <1>1, <3>1, <3>2, <3>3, FieldSets
  <2> QED
    BY <2>1, <2>2, <2>3
<1>5. \A m \in Leases : Onward(m)
  BY <1>2, <1>3, <1>4 DEF Onward, InFlight, Live
<1>6. LeasesTypeOK'
  BY <1>1, <1>2, <1>3, <1>4 DEF LeasesTypeOK
<1>7. ok => l \notin alive' \/ l \in writtenOff'
  BY <1>0, <1>1, <1>2 DEF AnswerTrue
<1>8. \A m \in Leases : LeaseSound(m)' \/ Undisturbed(m)
  <2> SUFFICES ASSUME NEW m \in Leases, ~Undisturbed(m) PROVE LeaseSound(m)'
    OBVIOUS
  <2>1. LeaseSound(m)
    BY DEF LeasesInv
  <2>2. CASE State(m)' = State(m) /\ (lease'[m] # None => lease[m] # None)
    <3>1. call[m] = "taking back" /\ call'[m] = "done"
      BY <1>2, <1>3, <2>2 DEF Undisturbed
    <3> QED
      BY <1>2, <2>1, <2>2, <3>1 DEF LeaseSound, Live, InFlight
  <2>3. CASE m = l /\ ok /\ State(m) = "revoking" /\ State(m)' = "over" /\ lease[m] # None
    BY <1>2, <1>3, <1>7, <2>1, <2>3 DEF LeaseSound, Live, InFlight
  <2> QED
    BY <1>4, <2>2, <2>3
<1>9. \A b \in Leases \cup Workers : AnswerTrue(b)' \/ AnswerKept(b)
  <2>1. AnswerTrue(a)'
    BY <1>1, <1>2 DEF LeasesTypeOK, AnswerTrue
  <2>2. \A b \in (Leases \cup Workers) \ {a} : AnswerKept(b)
    BY <1>1, <1>2, <1>3 DEF LeasesTypeOK, AnswerKept
  <2> QED
    BY <2>1, <2>2
<1>10. \A w \in Workers : WorkerTrue(w)' \/ worker'[w] = worker[w]
  <2>1. ASSUME a \in Workers, l \in worker[a].found, ok
        PROVE  ~Live(l)'
    <3>1. State(l) \notin {"issuing", "active"}
      BY <2>1 DEF LeasesInv, WorkerTrue, Found
    <3>2. CASE State(l) = "revoking"
      <4>1. lease[l] # None /\ lease' = Put(l, "over")
        BY <1>1, <1>2, <2>1, <3>2, StatesKnown DEF Outcome
      <4>2. State(l)' = "over"
        BY <1>1, <4>1, PutSets DEF LeaseStates
      <4> QED
        BY <4>2 DEF Live
    <3>3. CASE State(l) # "revoking"
      BY <1>1, <1>4, <3>1, <3>3 DEF Live
    <3> QED
      BY <3>2, <3>3
  <2> QED
    BY <1>1, <1>2, <1>5, <2>1, ReturnKeeps
<1> QED
  BY <1>5, <1>6, <1>8, <1>9, <1>10, Keeps

----------------------------------------------------------------------------
LEMMA WorkerSets ==
  ASSUME LeasesTypeOK, NEW w \in Workers, NEW r \in WorkerRecords, worker' = [worker EXCEPT ![w] = r]
  PROVE  /\ worker' \in [Workers -> WorkerRecords] /\ worker'[w] = r
         /\ \A v \in Workers \ {w} : worker'[v] = worker[v]
  BY DEF LeasesTypeOK

LEMMA RevokeLeaseKeeps ==
  ASSUME LeasesInv, NEW w \in Workers, NEW l \in Leases, RevokeLease(w, l)
  PROVE  StepKeeps
<1>1. /\ LeasesTypeOK /\ LeaseSound(l) /\ Live(l) /\ alive' = alive /\ call' = call /\ answer' = answer
      /\ lease[l] # None
  BY StatesKnown DEF LeasesInv, RevokeLease, Live
<1>2. /\ lease' \in [Leases -> {None} \cup LeaseRecords] /\ lease'[l] # None
      /\ State(l)' = IF State(l) = "issuing" THEN "over" ELSE "revoking"
      /\ \A m \in Leases \ {l} : lease'[m] = lease[m] /\ State(m)' = State(m)
  BY <1>1, PutSets DEF RevokeLease, LeaseStates
<1>3. /\ writtenOff \subseteq writtenOff' /\ writtenOff' \subseteq Leases
      /\ State(l) = "issuing" /\ call[l] = "stopped" => l \in writtenOff'
  BY <1>1 DEF RevokeLease, LeasesTypeOK
<1>4. /\ worker' \in [Workers -> WorkerRecords]
      /\ \A v \in Workers : worker'[v] = worker[v] \/ WorkerTrue(v)'
  <2> DEFINE r == [AtRest EXCEPT !.job = "revoke", !.todo = {l}]
  <2>1. r \in WorkerRecords /\ r.found = {} /\ r.job # "abandoned"
    BY DEF AtRest, WorkerRecords
  <2>2. worker' = worker \/ worker' = [worker EXCEPT ![w] = r]
    BY DEF RevokeLease
  <2> HIDE DEF r
  <2>3. CASE worker' = worker
    BY <1>1, <2>3 DEF LeasesTypeOK
  <2>4. CASE worker' = [worker EXCEPT ![w] = r]
    BY <1>1, <2>1, <2>4, WorkerSets, FreshWorker
  <2> QED
    BY <2>2, <2>3, <2>4
<1>5. \A m \in Leases : Onward(m)
  BY <1>1, <1>2, <1>3 DEF Onward, InFlight, Live
<1>6. LeasesTypeOK'
  BY <1>1, <1>2, <1>3, <1>4 DEF LeasesTypeOK, RevokeLease
<1>7. \A m \in Leases : LeaseSound(m)' \/ Undisturbed(m)
  <2>1. LeaseSound(l)'
    BY <1>1, <1>2, <1>3 DEF LeaseSound, Live, InFlight
  <2> QED
    BY <1>1, <1>2, <2>1 DEF Undisturbed
<1>8. \A a \in Leases \cup Workers : AnswerKept(a)
  BY <1>1 DEF AnswerKept
<1> QED
  BY <1>4, <1>5, <1>6, <1>7, <1>8, Keeps

LEMMA ListKeeps ==
  ASSUME LeasesInv, NEW w \in Workers, NEW l \in Leases, List(w, l)
  PROVE  StepKeeps
<1> DEFINE job == IF State(l) = "issuing" THEN "abandoned" ELSE "listed"
           r == [AtRest EXCEPT !.job = job, !.todo = {l}]
<1>1. LeasesTypeOK /\ UNCHANGED <<secret, lease, alive, late, call, answer, refusals, halts, deletes, writtenOff>>
  BY DEF LeasesInv, List
<1>2. job = "abandoned" => call[l] = "stopped"
  BY DEF List, Candidates, Abandoned
<1>3. r \in WorkerRecords /\ r.job = job /\ r.found = {} /\ r.todo = {l}
  BY DEF AtRest, WorkerRecords
<1>4. worker' = [worker EXCEPT ![w] = r]
  BY DEF List
<1> HIDE DEF r, job
<1>5. /\ worker' \in [Workers -> WorkerRecords] /\ worker'[w] = r
      /\ \A v \in Workers \ {w} : worker'[v] = worker[v]
  BY <1>1, <1>3, <1>4, WorkerSets
<1>6. WorkerTrue(w)'
  BY <1>1, <1>2, <1>3, <1>5 DEF WorkerTrue
<1>7. LeasesTypeOK'
  BY <1>1, <1>5 DEF LeasesTypeOK
<1>8. \A m \in Leases : Onward(m) /\ Undisturbed(m)
  BY <1>1 DEF Onward, Undisturbed, InFlight, Live, State
<1>9. \A a \in Leases \cup Workers : AnswerKept(a)
  BY <1>1 DEF AnswerKept
<1>10. \A v \in Workers : WorkerTrue(v)' \/ worker'[v] = worker[v]
  BY <1>5, <1>6
<1> QED
  BY <1>7, <1>8, <1>9, <1>10, Keeps

LEMMA WorkerStopsKeeps ==
  ASSUME LeasesInv, NEW w \in Workers, WorkerStops(w)
  PROVE  StepKeeps
<1>1. LeasesTypeOK /\ UNCHANGED <<secret, lease, alive, late, call, refusals, deletes, writtenOff>>
  BY DEF LeasesInv, WorkerStops
<1>2. AtRest \in WorkerRecords /\ AtRest.found = {} /\ AtRest.job # "abandoned"
  BY DEF AtRest, WorkerRecords
<1>3. /\ worker' \in [Workers -> WorkerRecords]
      /\ \A v \in Workers : WorkerTrue(v)' \/ worker'[v] = worker[v]
  BY <1>1, <1>2, WorkerSets, FreshWorker DEF WorkerStops
<1>4. /\ answer' \in [Leases \cup Workers -> {None} \cup Answers] /\ answer'[w] = None
      /\ \A a \in (Leases \cup Workers) \ {w} : answer'[a] = answer[a]
  BY <1>1 DEF LeasesTypeOK, WorkerStops
<1>5. LeasesTypeOK'
  BY <1>1, <1>3, <1>4 DEF LeasesTypeOK, WorkerStops
<1>6. \A m \in Leases : Onward(m) /\ Undisturbed(m)
  BY <1>1 DEF Onward, Undisturbed, InFlight, Live, State
<1>7. \A a \in Leases \cup Workers : AnswerTrue(a)' \/ AnswerKept(a)
  BY <1>1, <1>4 DEF AnswerTrue, AnswerKept
<1> QED
  BY <1>3, <1>5, <1>6, <1>7, Keeps
\* What Mark may do, with what it read.
LEMMA MarkCases ==
  ASSUME NEW w \in Workers, NEW l \in Leases, Mark(w, l)
  PROVE  /\ worker[w].todo = {l}
         /\ \/ lease' = lease
            \/ State(l) = "issuing" /\ worker[w].job = "abandoned" /\ lease' = Put(l, "revoking")
            \/ State(l) = "active" /\ lease' = Put(l, "revoking")
            \/ State(l) = "revoking" /\ lease' = Put(l, "givenUp")
         /\ worker' = [worker EXCEPT ![w].job = "revoke"] \/ worker' = [worker EXCEPT ![w] = AtRest]
         /\ writtenOff' = IF State(l)' = "givenUp" THEN writtenOff \cup {l} ELSE writtenOff
         /\ UNCHANGED <<secret, alive, late, call, answer, refusals, halts, deletes>>
<1>1. CASE worker[w].job = "abandoned"
  BY <1>1 DEF Mark
<1>2. CASE worker[w].job = "listed"
  <2>1. CASE State(l) = "active"
    BY <1>2, <2>1 DEF Mark
  <2>2. CASE State(l) = "revoking" /\ lease[l].refusals >= Patience
    BY <1>2, <2>2 DEF Mark
  <2>3. CASE State(l) = "revoking" /\ lease[l].refusals < Patience
    BY <1>2, <2>3 DEF Mark
  <2>4. CASE State(l) \notin {"active", "revoking"}
    BY <1>2, <2>4 DEF Mark
  <2> QED
    BY <1>2, <2>1, <2>2, <2>3, <2>4 DEF Mark
<1> QED
  BY <1>1, <1>2 DEF Mark

LEMMA MarkKeeps ==
  ASSUME LeasesInv, NEW w \in Workers, NEW l \in Leases, Mark(w, l)
  PROVE  StepKeeps
<1>1. /\ LeasesTypeOK /\ LeaseSound(l) /\ WorkerTrue(w) /\ worker[w].todo = {l} /\ worker[w] \in WorkerRecords
      /\ UNCHANGED <<secret, alive, late, call, answer, refusals, halts, deletes>>
  BY MarkCases DEF LeasesInv, LeasesTypeOK
<1>2. /\ lease' \in [Leases -> {None} \cup LeaseRecords]
      /\ \A m \in Leases :
           \/ State(m)' = State(m) /\ (lease'[m] # None => lease[m] # None)
           \/ /\ m = l /\ lease[m] # None
              /\ \/ State(m) = "issuing" /\ call[m] = "stopped" /\ State(m)' = "revoking"
                 \/ State(m) = "active" /\ State(m)' = "revoking"
                 \/ State(m) = "revoking" /\ State(m)' = "givenUp"
  <2>1. CASE lease' = lease
    BY <1>1, <2>1 DEF LeasesTypeOK, State
  <2>2. CASE State(l) = "issuing" /\ worker[w].job = "abandoned" /\ lease' = Put(l, "revoking")
    <3>1. call[l] = "stopped" /\ lease[l] # None
      BY <1>1, <2>2, StatesKnown DEF WorkerTrue
    <3> QED
      BY <1>1, <2>2, <3>1, PutSets DEF LeaseStates
  <2>3. CASE State(l) = "active" /\ lease' = Put(l, "revoking")
    <3>1. lease[l] # None
      BY <1>1, <2>3, StatesKnown
    <3> QED
      BY <1>1, <2>3, <3>1, PutSets DEF LeaseStates
  <2>4. CASE State(l) = "revoking" /\ lease' = Put(l, "givenUp")
    <3>1. lease[l] # None
      BY <1>1, <2>4, StatesKnown
    <3> QED
      BY <1>1, <2>4, <3>1, PutSets DEF LeaseStates
  <2> QED
    BY <2>1, <2>2, <2>3, <2>4, MarkCases
<1>3. writtenOff \subseteq writtenOff' /\ writtenOff' \subseteq Leases
      /\ (State(l)' = "givenUp" => l \in writtenOff')
  BY <1>1, MarkCases DEF LeasesTypeOK
<1>4. \A m \in Leases : Onward(m)
  BY <1>1, <1>2, <1>3 DEF Onward, InFlight, Live
<1>5. /\ worker' \in [Workers -> WorkerRecords]
      /\ \A v \in Workers : WorkerTrue(v)' \/ worker'[v] = worker[v]
  <2>1. CASE worker' = [worker EXCEPT ![w].job = "revoke"]
    <3> DEFINE r == [worker[w] EXCEPT !.job = "revoke"]
    <3>1. r \in WorkerRecords /\ r.job = "revoke" /\ r.found = worker[w].found
          /\ r.todo = worker[w].todo /\ r.clean = worker[w].clean
      BY <1>1 DEF WorkerRecords
    <3>2. worker' = [worker EXCEPT ![w] = r]
      BY <2>1
    <3> HIDE DEF r
    <3>3. /\ worker' \in [Workers -> WorkerRecords] /\ worker'[w] = r
          /\ \A v \in Workers \ {w} : worker'[v] = worker[v]
      BY <1>1, <3>1, <3>2, WorkerSets
    <3>4. ASSUME NEW m \in worker[w].found PROVE Found(w, m)'
      <4>1. Found(w, m) /\ Onward(m)
        BY <1>1, <1>4, WorkersKnown DEF WorkerTrue
      <4> QED
        BY <1>1, <3>1, <3>3, <4>1 DEF Found, Onward, InFlight, Live
    <3>5. WorkerTrue(w)'
      BY <3>1, <3>3, <3>4 DEF WorkerTrue
    <3> QED
      BY <3>3, <3>5
  <2>2. CASE worker' = [worker EXCEPT ![w] = AtRest]
    <3>1. AtRest \in WorkerRecords /\ AtRest.found = {} /\ AtRest.job # "abandoned"
      BY DEF AtRest, WorkerRecords
    <3> QED
      BY <1>1, <2>2, <3>1, WorkerSets, FreshWorker
  <2> QED
    BY <2>1, <2>2, MarkCases
<1>6. LeasesTypeOK'
  BY <1>1, <1>2, <1>3, <1>5 DEF LeasesTypeOK
<1>7. \A m \in Leases : LeaseSound(m)' \/ Undisturbed(m)
  BY <1>1, <1>2, <1>3 DEF LeaseSound, Live, InFlight, Undisturbed
<1>8. \A a \in Leases \cup Workers : AnswerKept(a)
  BY <1>1 DEF AnswerKept
<1> QED
  BY <1>4, <1>5, <1>6, <1>7, <1>8, Keeps

----------------------------------------------------------------------------
LEMMA PurgeKeeps ==
  ASSUME LeasesInv, NEW w \in Workers, Purge(w)
  PROVE  StepKeeps
<1> DEFINE found == {m \in Leases : Live(m)}
           r == [job |-> "purge", found |-> found, todo |-> found, clean |-> TRUE]
<1>1. /\ LeasesTypeOK /\ (\A m \in Leases : LeaseSound(m))
      /\ UNCHANGED <<secret, alive, late, call, answer, refusals, halts, deletes>>
      /\ writtenOff' = writtenOff \cup {m \in Unsettled : State(m) = "issuing"}
  BY DEF LeasesInv, Purge
<1>2. /\ lease' \in [Leases -> {None} \cup LeaseRecords]
      /\ \A m \in Leases : /\ lease'[m] # None <=> lease[m] # None
                           /\ State(m)' = IF Live(m) THEN "revoking" ELSE State(m)
  <2>1. ASSUME NEW m \in Leases, Live(m)
        PROVE  /\ lease[m] # None /\ [lease[m] EXCEPT !.state = "revoking"] \in LeaseRecords
               /\ [lease[m] EXCEPT !.state = "revoking"].state = "revoking"
    <3>1. lease[m] # None
      BY <2>1 DEF Live, State
    <3>2. lease[m] \in LeaseRecords
      BY <1>1, <3>1 DEF LeasesTypeOK
    <3> QED
      BY <3>1, <3>2 DEF LeaseRecords
  <2>2. \A m \in Leases : lease'[m] = IF Live(m) THEN [lease[m] EXCEPT !.state = "revoking"] ELSE lease[m]
    BY DEF Purge
  <2>3. lease' \in [Leases -> {None} \cup LeaseRecords]
    BY <1>1, <2>1 DEF Purge, LeasesTypeOK
  <2> QED
    BY <2>1, <2>2, <2>3, NoneIsNothing DEF State
<1>3. r \in WorkerRecords /\ r.job = "purge" /\ r.found = found /\ r.todo = found
  BY DEF WorkerRecords
<1>4. worker' = [worker EXCEPT ![w] = r]
  BY DEF Purge
<1> HIDE DEF r
<1>5. /\ worker' \in [Workers -> WorkerRecords] /\ worker'[w] = r
      /\ \A v \in Workers \ {w} : worker'[v] = worker[v]
  BY <1>1, <1>3, <1>4, WorkerSets
<1>6. \A m \in Leases : InFlight(m) /\ State(m) = "issuing" => m \in writtenOff'
  BY <1>1 DEF Unsettled
<1>7. \A m \in Leases : Onward(m)
  BY <1>1, <1>2 DEF Onward, InFlight, Live
<1>8. LeasesTypeOK'
  BY <1>1, <1>2, <1>5 DEF LeasesTypeOK, Unsettled
<1>9. \A m \in Leases : LeaseSound(m)'
  BY <1>1, <1>2, <1>6 DEF LeaseSound, Live, InFlight
<1>10. WorkerTrue(w)'
  <2>1. ASSUME NEW m \in found PROVE Found(w, m)'
    <3>1. m \in Leases /\ Live(m) /\ LeaseSound(m) /\ m \in worker'[w].todo
      BY <1>1, <1>3, <1>5
    <3>2. State(m)' = "revoking" /\ call'[m] # "none"
      BY <1>1, <1>2, <3>1 DEF LeaseSound, Live, State
    <3>3. InFlight(m)' => m \in writtenOff'
      BY <1>1, <1>6, <3>1 DEF LeaseSound, Live, InFlight
    <3> QED
      BY <3>1, <3>2, <3>3 DEF Found
  <2> QED
    BY <1>3, <1>5, <2>1 DEF WorkerTrue
<1>11. \A a \in Leases \cup Workers : AnswerKept(a)
  BY <1>1 DEF AnswerKept
<1>12. \A v \in Workers : WorkerTrue(v)' \/ worker'[v] = worker[v]
  BY <1>5, <1>10
<1> QED
  BY <1>7, <1>8, <1>9, <1>11, <1>12, Keeps

LEMMA PurgeEndsKeeps ==
  ASSUME LeasesInv, NEW w \in Workers, PurgeEnds(w)
  PROVE  StepKeeps
<1>1. /\ LeasesTypeOK /\ WorkerTrue(w) /\ worker[w].todo = {}
      /\ worker' = [worker EXCEPT ![w] = AtRest] /\ UNCHANGED <<alive, late, call, answer, refusals, halts, deletes>>
  BY DEF LeasesInv, PurgeEnds
<1>2. /\ worker' \in [Workers -> WorkerRecords]
      /\ \A v \in Workers : WorkerTrue(v)' \/ worker'[v] = worker[v]
  <2>1. AtRest \in WorkerRecords /\ AtRest.found = {} /\ AtRest.job # "abandoned"
    BY DEF AtRest, WorkerRecords
  <2> QED
    BY <1>1, <2>1, WorkerSets, FreshWorker
<1>3. \A a \in Leases \cup Workers : AnswerKept(a)
  BY <1>1 DEF AnswerKept
<1>4. CASE UNCHANGED <<secret, lease, writtenOff>>
  <2>1. LeasesTypeOK'
    BY <1>1, <1>2, <1>4 DEF LeasesTypeOK
  <2>2. \A m \in Leases : Onward(m) /\ Undisturbed(m)
    BY <1>1, <1>4 DEF Onward, Undisturbed, InFlight, Live, State
  <2> QED
    BY <1>2, <1>3, <2>1, <2>2, Keeps
<1>5. CASE /\ worker[w].clean /\ secret' = "gone" /\ lease' = [m \in Leases |-> None]
           /\ writtenOff' = writtenOff \cup Unsettled \cup {m \in Leases \ worker[w].found : Live(m)}
  <2>1. \A m \in Leases : lease'[m] = None /\ State(m)' = "none"
    BY <1>5 DEF State
  <2>2. LeasesTypeOK'
    BY <1>1, <1>2, <1>5 DEF LeasesTypeOK, Unsettled
  <2>3. \A m \in Leases : Onward(m)
    BY <1>1, <1>5, <2>1 DEF Onward, InFlight, Live
  <2>4. ASSUME NEW m \in Leases PROVE LeaseSound(m)'
    <3>1. LeaseSound(m) /\ (InFlight(m) => m \in writtenOff') /\ writtenOff \subseteq writtenOff'
      BY <1>5 DEF LeasesInv, Unsettled
    <3>2. m \in worker[w].found => m \notin alive \/ m \in writtenOff
      BY <1>1, <1>5, <3>1 DEF WorkerTrue, Found, LeaseSound
    <3> QED
      BY <1>1, <1>5, <2>1, <3>1, <3>2 DEF LeaseSound, InFlight
  <2> QED
    BY <1>2, <1>3, <2>2, <2>3, <2>4, Keeps
<1> QED
  BY <1>4, <1>5 DEF PurgeEnds, Purges

----------------------------------------------------------------------------
LEMMA LeasesStep == LeasesInv /\ [LeasesNext]_leaseVars => StepKeeps
<1> SUFFICES ASSUME LeasesInv, [LeasesNext]_leaseVars PROVE StepKeeps
  OBVIOUS
<1>1. ASSUME NEW l \in Leases, Open(l) \/ Issue(l) \/ MintLate(l) \/ Store(l) \/ CallStops(l) \/ Lapse(l) \/ RetryDue(l)
      PROVE  StepKeeps
  BY <1>1, OpenKeeps, IssueKeeps, MintLateKeeps, StoreKeeps, CallStopsKeeps, TimeKeeps
<1>2. ASSUME NEW a \in Leases \cup Workers, Steps(a)
      PROVE  StepKeeps
  BY <1>2, AskKeeps, RecordKeeps DEF Steps
<1>3. ASSUME NEW w \in Workers, Purge(w) \/ PurgeEnds(w) \/ WorkerStops(w)
      PROVE  StepKeeps
  BY <1>3, PurgeKeeps, PurgeEndsKeeps, WorkerStopsKeeps
<1>4. ASSUME NEW w \in Workers, NEW l \in Leases, RevokeLease(w, l) \/ List(w, l) \/ Mark(w, l)
      PROVE  StepKeeps
  BY <1>4, RevokeLeaseKeeps, ListKeeps, MarkKeeps
<1>5. ASSUME Delete \/ Restore \/ DeletionDue
      PROVE  StepKeeps
  BY <1>5, SecretKeeps
<1>6. CASE UNCHANGED leaseVars
  <2>1. LeasesTypeOK'
    BY <1>6 DEF leaseVars, LeasesInv, LeasesTypeOK
  <2>2. \A l \in Leases : Onward(l) /\ Undisturbed(l)
    BY <1>6 DEF leaseVars, Onward, Undisturbed, InFlight, Live, State
  <2>3. /\ \A a \in Leases \cup Workers : AnswerKept(a)
        /\ \A w \in Workers : worker'[w] = worker[w]
    BY <1>6 DEF leaseVars, AnswerKept
  <2> QED
    BY <2>1, <2>2, <2>3, Keeps
<1> QED
  BY <1>1, <1>2, <1>3, <1>4, <1>5, <1>6 DEF LeasesNext

LEMMA LeasesInvariant == LeasesSpec => []LeasesInv
<1>1. LeasesInv /\ [LeasesNext]_leaseVars => LeasesInv'
  BY LeasesStep DEF StepKeeps
<1> QED
  BY <1>1, LeasesInitInv, PTL DEF LeasesSpec

(***************************************************************************)
(* Every credential that works at the engine is accounted for or written   *)
(* off, as what it minted late after it had confirmed the revocation is,   *)
(* and a lease that was ended is never active again.  That by itself is    *)
(* not inductive: a purge deletes the leases it finds and trusts what its  *)
(* revocations returned, and an issue that is under way trusts that nobody *)
(* but itself takes its lease away without asking the engine.              *)
(***************************************************************************)
THEOREM LeasesAreTakenBack == LeasesSpec => LeasesHold
<1>1. LeasesInv => CredentialsAccounted
  BY DEF LeasesInv, LeaseSound, LeasesTypeOK, CredentialsAccounted, Accounted
<1>2. LeasesInv /\ [LeasesNext]_leaseVars =>
        [\A l \in Leases : State(l) \in {"revoking", "over", "givenUp"} => State(l)' # "active"]_leaseVars
  <2> SUFFICES ASSUME LeasesInv, [LeasesNext]_leaseVars, NEW l \in Leases,
                      State(l) \in {"revoking", "over", "givenUp"}
               PROVE  State(l)' # "active"
    OBVIOUS
  <2>1. Onward(l) /\ LeaseSound(l)
    BY LeasesStep DEF StepKeeps, LeasesInv
  <2>2. call[l] # "none"
    BY <2>1 DEF LeaseSound, State
  <2> QED
    BY <2>1, <2>2 DEF Onward
<1> QED
  BY <1>1, <1>2, LeasesInvariant, PTL DEF LeasesSpec, LeasesHold, EndedLeasesStay

(***************************************************************************)
(* Versions.  A rotation hands its rotator what it staged itself: the      *)
(* version it remembers as pending is there, was chosen by a rotation, and *)
(* is not the current one, so that promoting it puts a returned version    *)
(* out of use.                                                             *)
(***************************************************************************)
VersionStates == {"none", "enabled", "disabled", "destroyed"}
Calling == {"idle", "returned", "rotator", "complete"}

StagedSound ==
  /\ \A n \in Numbers : n > latest => version[n] = "none"
  /\ rotationPending <= latest /\ rotationPending # stages.current
  /\ rotationPending # 0 => author[rotationPending] = "rotation"

RotatorSound(r) ==
  rotation[r].step \in {"rotator", "complete"} =>
    /\ rotation[r].version \in Numbers /\ rotation[r].version <= latest
    /\ author[rotation[r].version] = "rotation"

\* A call that is to rotate the current version away.
Underway(r) ==
  \/ rotation[r].step = "returned"
  \/ rotation[r].step \in {"rotator", "complete"} /\ rotation[r].version # stages.current

FollowedUp ==
  returned /\ standing = "active" /\ ~unheard /\ retry = "none" =>
    Out # {} \/ \E r \in Rotations : Underway(r)

VersionsInv ==
  /\ RotationTypeOK /\ CurrentIsUsable /\ StagedSound
  /\ \A r \in Rotations : RotatorSound(r)
  /\ FollowedUp

LEMMA VersionsInitInv == RotationInit => VersionsInv
<1> SUFFICES ASSUME RotationInit PROVE VersionsInv
  OBVIOUS
<1> USE VaultRotationAssumption DEF RotationInit, Numbers
<1>1. RotationTypeOK
  <2>1. /\ standing \in {"active", "pending"} /\ latest \in Numbers
        /\ rotationPending \in Numbers \cup {0} /\ retry \in {"none", "waiting", "due"}
        /\ returned \in BOOLEAN /\ unheard \in BOOLEAN
    <3>1. 1 \in 1..Latest
      BY SMT
    <3> QED
      BY <3>1, Zenon
  <2>2. /\ version \in [Numbers -> {"none", "enabled", "disabled", "destroyed"}]
        /\ author \in [Numbers -> {"nobody", "writer", "rotation"}]
    OBVIOUS
  <2>3. stages \in [current : Numbers, previous : Numbers \cup {0}, pending : Numbers \cup {0}]
    OBVIOUS
  <2>4. /\ checkout \in [Checkouts -> {NotOut} \cup [version : Numbers, lapsed : BOOLEAN]]
        /\ rotation \in [Rotations -> [step : Calling, version : Numbers \cup {0}, ok : BOOLEAN]]
    BY DEF NoRotation, Calling
  <2> QED
    BY <2>1, <2>2, <2>3, <2>4 DEF RotationTypeOK, Calling
<1>2. CurrentIsUsable /\ StagedSound
  BY DEF CurrentIsUsable, StagedSound
<1>3. \A r \in Rotations : RotatorSound(r)
  BY DEF RotatorSound, NoRotation
<1> QED
  BY <1>1, <1>2, <1>3 DEF VersionsInv, FollowedUp

\* Pruning leaves every version as it is or deletes it, and spares the labelled.
LEMMA PrunedSpares ==
  ASSUME NEW versions \in [Numbers -> VersionStates], NEW labels
  PROVE  /\ Pruned(versions, labels) \in [Numbers -> VersionStates]
         /\ \A n \in Numbers : Pruned(versions, labels)[n] \in {versions[n], "none"}
         /\ \A n \in {labels.current, labels.previous, labels.pending} \cap Numbers :
              Pruned(versions, labels)[n] = versions[n]
BY DEF Pruned, VersionStates

\* The labels and versions after one was promoted.
LEMMA PromotionSets ==
  ASSUME RotationTypeOK, CurrentIsUsable, StagedSound, NEW v \in Numbers, NEW rotated \in BOOLEAN,
         NEW versions \in [Numbers -> VersionStates], versions[v] = "enabled",
         \A n \in Numbers : versions[n] = version[n] \/ n = v,
         PromoteVersion(v, versions, rotated)
  PROVE  /\ stages' \in [current : Numbers, previous : Numbers \cup {0}, pending : Numbers \cup {0}]
         /\ version' \in [Numbers -> VersionStates] /\ CurrentIsUsable'
         /\ \A n \in Numbers : version'[n] \in {versions[n], "none"}
         /\ stages'.current = v /\ rotationPending' # v /\ rotationPending' \in {rotationPending, 0}
         /\ retry' \in {"none", retry} /\ returned' \in BOOLEAN
<1>1. /\ stages \in [current : Numbers, previous : Numbers \cup {0}, pending : Numbers \cup {0}]
      /\ retry \in {"none", "waiting", "due"} /\ returned \in BOOLEAN /\ 0 \notin Numbers
  BY DEF RotationTypeOK, Numbers
<1>2. PICK older \in Numbers \cup {0} :
        /\ stages' = [current |-> v, previous |-> IF older = v THEN 0 ELSE older,
                      pending |-> IF stages.pending = v THEN 0 ELSE stages.pending]
        /\ older \in {stages.current, stages.previous}
  BY <1>1 DEF PromoteVersion, Labels
<1>3. stages' \in [current : Numbers, previous : Numbers \cup {0}, pending : Numbers \cup {0}]
  BY <1>1, <1>2
<1>4. version' = Pruned(versions, stages')
  BY DEF PromoteVersion
<1>5. /\ version' \in [Numbers -> VersionStates]
      /\ \A n \in Numbers : version'[n] \in {versions[n], "none"}
      /\ \A n \in {stages'.current, stages'.previous, stages'.pending} \cap Numbers :
           version'[n] = versions[n]
  BY <1>4, PrunedSpares
<1>6. CurrentIsUsable'
  <2>1. version'[stages'.current] = "enabled"
    BY <1>2, <1>3, <1>5
  <2>2. stages'.previous # 0 => version'[stages'.previous] \in {"enabled", "disabled"}
    BY <1>1, <1>2, <1>3, <1>5 DEF CurrentIsUsable
  <2>3. stages'.pending # 0 => version'[stages'.pending] \in {"enabled", "disabled"}
    BY <1>1, <1>2, <1>3, <1>5 DEF CurrentIsUsable
  <2> QED
    BY <2>1, <2>2, <2>3 DEF CurrentIsUsable
<1>7. rotationPending' # v /\ rotationPending' \in {rotationPending, 0}
  BY <1>1, <1>2 DEF PromoteVersion, Labels
<1>8. retry' \in {"none", retry} /\ returned' \in BOOLEAN
  BY <1>1 DEF PromoteVersion
<1> QED
  BY <1>2, <1>3, <1>5, <1>6, <1>7, <1>8

\* A version that is added, and what is known of those there were.
LEMMA AdditionSets ==
  ASSUME RotationTypeOK, StagedSound, NEW who \in {"writer", "rotation"}, AddedBy(who)
  PROVE  /\ latest + 1 \in Numbers /\ latest' = latest + 1
         /\ author' \in [Numbers -> {"nobody", "writer", "rotation"}] /\ author'[latest + 1] = who
         /\ \A n \in Numbers : n <= latest => author'[n] = author[n]
         /\ Added("enabled") \in [Numbers -> VersionStates] /\ Added("enabled")[latest + 1] = "enabled"
         /\ \A n \in Numbers \ {latest + 1} : Added("enabled")[n] = version[n]
         /\ \A n \in Numbers : n > latest + 1 => Added("enabled")[n] = "none"
<1>1. latest + 1 \in Numbers /\ latest' = latest + 1 /\ latest \in Numbers
  BY VaultRotationAssumption DEF RotationTypeOK, AddedBy, Numbers
<1>2. version \in [Numbers -> VersionStates] /\ author \in [Numbers -> {"nobody", "writer", "rotation"}]
  BY DEF RotationTypeOK, VersionStates
<1>3. author' = [author EXCEPT ![latest + 1] = who]
  BY DEF AddedBy
<1>4. \A n \in Numbers : n <= latest => n # latest + 1
  BY <1>1 DEF Numbers
<1>5. \A n \in Numbers : n > latest + 1 => n # latest + 1 /\ n > latest
  BY <1>1 DEF Numbers
<1> QED
  BY <1>1, <1>2, <1>3, <1>4, <1>5 DEF Added, VersionStates, StagedSound

\* The versions that have a label are there.
LEMMA LabelledExist ==
  ASSUME RotationTypeOK, CurrentIsUsable, StagedSound
  PROVE  /\ stages.current <= latest
         /\ \A n \in Numbers : version[n] # "none" => n <= latest
BY DEF RotationTypeOK, CurrentIsUsable, StagedSound, Numbers

----------------------------------------------------------------------------
CallRecords == [step : Calling, version : Numbers \cup {0}, ok : BOOLEAN]

\* The step of a call that changes no version and no label.
LEMMA CallKeeps ==
  ASSUME VersionsInv, UNCHANGED <<standing, latest, version, author, stages, rotationPending, returned>>,
         checkout' \in [Checkouts -> {NotOut} \cup [version : Numbers, lapsed : BOOLEAN]],
         NEW r \in Rotations, NEW record \in CallRecords, rotation' = [rotation EXCEPT ![r] = record],
         retry' \in {"none", "waiting", "due"}, unheard' \in BOOLEAN,
         record.step \in {"rotator", "complete"} =>
           rotation[r].step \in {"rotator", "complete"} /\ record.version = rotation[r].version,
         FollowedUp'
  PROVE  VersionsInv'
<1>1. RotationTypeOK'
  <2>1. rotation' \in [Rotations -> CallRecords]
    BY DEF VersionsInv, RotationTypeOK, CallRecords, Calling
  <2> QED
    BY <2>1 DEF VersionsInv, RotationTypeOK, CallRecords, Calling
<1>2. CurrentIsUsable' /\ StagedSound'
  BY DEF VersionsInv, CurrentIsUsable, StagedSound
<1>3. ASSUME NEW q \in Rotations PROVE RotatorSound(q)'
  <2>1. rotation'[q] = IF q = r THEN record ELSE rotation[q]
    BY DEF VersionsInv, RotationTypeOK
  <2> QED
    BY <2>1 DEF VersionsInv, RotatorSound
<1> QED
  BY <1>1, <1>2, <1>3 DEF VersionsInv

\* What the records of the calls become.
LEMMA CallSets ==
  ASSUME RotationTypeOK, NEW r \in Rotations, NEW record, rotation' = [rotation EXCEPT ![r] = record]
  PROVE  rotation'[r] = record /\ \A q \in Rotations \ {r} : rotation'[q] = rotation[q]
BY DEF RotationTypeOK

LEMMA NoRotationIsCall == NoRotation \in CallRecords /\ NoRotation.step = "idle"
BY DEF NoRotation, CallRecords, Calling

LEMMA RecordFailureKeeps ==
  ASSUME VersionsInv, NEW r \in Rotations, RecordFailure(r),
         UNCHANGED <<standing, latest, version, author, stages, rotationPending, checkout, returned, unheard>>
  PROVE  VersionsInv'
<1>1. retry' = "waiting" /\ rotation' = [rotation EXCEPT ![r] = NoRotation]
  BY DEF RecordFailure
<1>2. FollowedUp'
  BY <1>1 DEF FollowedUp
<1>3. /\ checkout' \in [Checkouts -> {NotOut} \cup [version : Numbers, lapsed : BOOLEAN]]
      /\ unheard' \in BOOLEAN
  BY DEF VersionsInv, RotationTypeOK
<1> QED
  BY <1>1, <1>2, <1>3, NoRotationIsCall, CallKeeps

\* stageRotation, whoever calls it: the version it hands over is its own, and
\* is not the current one.
LEMMA StageKeeps ==
  ASSUME VersionsInv, NEW r \in Rotations, NEW fresh \in BOOLEAN, StageRotation(r, fresh),
         UNCHANGED <<standing, checkout, returned, unheard>>
  PROVE  VersionsInv'
<1>1. /\ RotationTypeOK /\ CurrentIsUsable /\ StagedSound
      /\ \A q \in Rotations : RotatorSound(q)
  BY DEF VersionsInv
<1>2. ASSUME NEW v \in Numbers, v # stages'.current, stages'.current = stages.current, retry' = retry,
             rotation' = [rotation EXCEPT ![r] = [step |-> "rotator", version |-> v, ok |-> TRUE]]
      PROVE  /\ rotation' \in [Rotations -> CallRecords] /\ FollowedUp'
             /\ rotation'[r].step = "rotator" /\ rotation'[r].version = v
             /\ \A q \in Rotations \ {r} : rotation'[q] = rotation[q]
  <2>1. [step |-> "rotator", version |-> v, ok |-> TRUE] \in CallRecords
    BY DEF CallRecords, Calling
  <2>2. rotation' \in [Rotations -> CallRecords]
    BY <1>1, <1>2, <2>1 DEF RotationTypeOK, CallRecords, Calling
  <2>3. rotation'[r].step = "rotator" /\ rotation'[r].version = v
    BY <1>1, <1>2 DEF RotationTypeOK
  <2>4. Underway(r)'
    BY <1>2, <2>3 DEF Underway
  <2> QED
    BY <1>1, <1>2, <2>2, <2>3, <2>4, CallSets DEF FollowedUp
<1>3. CASE /\ Retried /\ UNCHANGED <<latest, version, author, stages, rotationPending>>
           /\ rotation' = [rotation EXCEPT ![r] =
                             [step |-> "rotator", version |-> stages.pending, ok |-> TRUE]]
  <2>1. /\ stages.pending \in Numbers /\ stages.pending <= latest /\ stages.pending # stages.current
        /\ author[stages.pending] = "rotation"
    BY <1>1, <1>3 DEF RotationTypeOK, StagedSound, Retried
  <2>2. retry' = retry
    BY DEF StageRotation
  <2>3. /\ rotation' \in [Rotations -> CallRecords] /\ FollowedUp'
        /\ rotation'[r].step = "rotator" /\ rotation'[r].version = stages.pending
        /\ \A q \in Rotations \ {r} : rotation'[q] = rotation[q]
    BY <1>2, <1>3, <2>1, <2>2
  <2>4. RotationTypeOK'
    BY <1>1, <1>3, <2>2, <2>3 DEF RotationTypeOK, CallRecords, Calling
  <2>5. CurrentIsUsable' /\ StagedSound'
    BY <1>1, <1>3 DEF CurrentIsUsable, StagedSound
  <2>6. \A q \in Rotations : RotatorSound(q)'
    <3>1. ASSUME NEW q \in Rotations \ {r} PROVE RotatorSound(q)'
      <4>1. RotatorSound(q) /\ rotation'[q] = rotation[q]
        BY <1>1, <2>3
      <4> QED
        BY <1>3, <4>1 DEF RotatorSound
    <3>2. RotatorSound(r)'
      BY <1>3, <2>1, <2>3 DEF RotatorSound
    <3> QED
      BY <3>1, <3>2
  <2> QED
    BY <2>3, <2>4, <2>5, <2>6 DEF VersionsInv
<1>4. CASE /\ AddedBy("rotation") /\ version' = Added("enabled")
           /\ stages' = [stages EXCEPT !.pending = latest + 1] /\ rotationPending' = latest + 1
           /\ rotation' = [rotation EXCEPT ![r] =
                             [step |-> "rotator", version |-> latest + 1, ok |-> TRUE]]
  <2> DEFINE new == latest + 1
  <2>1. /\ new \in Numbers /\ latest' = new /\ author' \in [Numbers -> {"nobody", "writer", "rotation"}]
        /\ author'[new] = "rotation" /\ \A n \in Numbers : n <= latest => author'[n] = author[n]
        /\ version' \in [Numbers -> VersionStates] /\ version'[new] = "enabled"
        /\ \A n \in Numbers \ {new} : version'[n] = version[n]
        /\ \A n \in Numbers : n > new => version'[n] = "none"
    BY <1>1, <1>4, AdditionSets
  <2>2. /\ stages' \in [current : Numbers, previous : Numbers \cup {0}, pending : Numbers \cup {0}]
        /\ stages'.current = stages.current /\ stages'.previous = stages.previous
        /\ stages'.pending = new
    BY <1>1, <1>4, <2>1 DEF RotationTypeOK
  <2>3. latest \in Numbers /\ new # stages.current /\ latest <= new
    BY <1>1, LabelledExist DEF RotationTypeOK, Numbers
  <2>4. retry' = retry
    BY DEF StageRotation
  <2>5. /\ rotation' \in [Rotations -> CallRecords] /\ FollowedUp'
        /\ rotation'[r].step = "rotator" /\ rotation'[r].version = new
        /\ \A q \in Rotations \ {r} : rotation'[q] = rotation[q]
    BY <1>2, <1>4, <2>1, <2>2, <2>3, <2>4
  <2>6. RotationTypeOK'
    BY <1>1, <1>4, <2>1, <2>2, <2>4, <2>5 DEF RotationTypeOK, CallRecords, Calling, VersionStates
  <2>7. CurrentIsUsable'
    BY <1>1, <2>1, <2>2, <2>3 DEF CurrentIsUsable, RotationTypeOK
  <2>8. StagedSound'
    BY <1>4, <2>1, <2>2, <2>3 DEF StagedSound, Numbers
  <2>9. ASSUME NEW q \in Rotations, rotation'[q].step \in {"rotator", "complete"}
        PROVE  /\ rotation'[q].version \in Numbers /\ rotation'[q].version <= latest'
               /\ author'[rotation'[q].version] = "rotation"
    <3>1. CASE q = r
      BY <2>1, <2>5, <3>1 DEF Numbers
    <3>2. CASE q # r
      <4>1. rotation[q].version \in Numbers /\ rotation[q].version <= latest
             /\ author[rotation[q].version] = "rotation" /\ rotation'[q] = rotation[q]
        BY <1>1, <2>5, <2>9, <3>2 DEF RotatorSound
      <4> QED
        BY <2>1, <2>3, <4>1 DEF Numbers
    <3> QED
      BY <3>1, <3>2
  <2> QED
    BY <2>5, <2>6, <2>7, <2>8, <2>9 DEF VersionsInv, RotatorSound
<1> QED
  BY <1>3, <1>4 DEF StageRotation

----------------------------------------------------------------------------
Checkings == [Checkouts -> {NotOut} \cup [version : Numbers, lapsed : BOOLEAN]]

\* What changes no version, no label and no call.
LEMMA RecordsKeep ==
  ASSUME VersionsInv, UNCHANGED <<latest, version, author, stages, rotationPending, rotation, unheard>>,
         standing' \in {"active", "pending"}, retry' \in {"none", "waiting", "due"},
         checkout' \in Checkings, returned' \in BOOLEAN, FollowedUp'
  PROVE  VersionsInv'
<1>1. RotationTypeOK'
  BY DEF VersionsInv, RotationTypeOK, Checkings
<1>2. CurrentIsUsable' /\ StagedSound' /\ \A r \in Rotations : RotatorSound(r)'
  BY DEF VersionsInv, CurrentIsUsable, StagedSound, RotatorSound
<1> QED
  BY <1>1, <1>2 DEF VersionsInv

LEMMA CheckOutKeeps ==
  ASSUME VersionsInv, NEW c \in Checkouts, CheckOut(c) \/ CheckOutLapses(c)
  PROVE  VersionsInv'
<1>1. RotationTypeOK
  BY DEF VersionsInv
<1>2. NotOut \notin [version : Numbers, lapsed : BOOLEAN]
  BY VaultRotationAssumption DEF Numbers
<1>3. PICK record \in [version : Numbers, lapsed : BOOLEAN] : checkout' = [checkout EXCEPT ![c] = record]
  <2>1. CASE CheckOut(c)
    <3>1. [version |-> stages.current, lapsed |-> FALSE] \in [version : Numbers, lapsed : BOOLEAN]
      BY <1>1 DEF RotationTypeOK
    <3> QED
      BY <2>1, <3>1 DEF CheckOut
  <2>2. CASE CheckOutLapses(c)
    <3>1. checkout[c] \in [version : Numbers, lapsed : BOOLEAN]
      BY <1>1, <2>2 DEF CheckOutLapses, Holding, Out, RotationTypeOK
    <3>2. [checkout[c] EXCEPT !.lapsed = TRUE] \in [version : Numbers, lapsed : BOOLEAN]
      BY <3>1
    <3>3. checkout' = [checkout EXCEPT ![c] = [checkout[c] EXCEPT !.lapsed = TRUE]]
      BY <2>2 DEF CheckOutLapses
    <3> QED
      BY <3>2, <3>3
  <2> QED
    BY <2>1, <2>2
<1>4. checkout' \in Checkings /\ Out' # {}
  BY <1>1, <1>2, <1>3 DEF RotationTypeOK, Checkings, Out
<1>5. UNCHANGED <<standing, latest, version, author, stages, rotationPending, retry, rotation,
                  returned, unheard>>
  BY DEF CheckOut, CheckOutLapses
<1>6. FollowedUp'
  BY <1>4 DEF FollowedUp
<1> QED
  BY <1>1, <1>4, <1>5, <1>6, RecordsKeep DEF RotationTypeOK

LEMMA SecretStandsKeeps ==
  ASSUME VersionsInv, DeleteSecret \/ RestoreSecret \/ RotationDue
  PROVE  VersionsInv'
<1>1. RotationTypeOK /\ FollowedUp
  BY DEF VersionsInv
<1>2. UNCHANGED <<latest, version, author, stages, rotationPending, rotation, unheard>>
  BY DEF DeleteSecret, RestoreSecret, RotationDue
<1>3. CASE DeleteSecret
  <2>1. checkout' \in Checkings
    BY <1>1, <1>3 DEF DeleteSecret, Checkings, RotationTypeOK
  <2>2. standing' = "pending" /\ UNCHANGED <<retry, returned>>
    BY <1>3 DEF DeleteSecret
  <2> QED
    BY <1>1, <1>2, <2>1, <2>2, RecordsKeep DEF RotationTypeOK, FollowedUp
<1>4. CASE RestoreSecret
  <2>1. standing' = "active" /\ returned' = FALSE /\ UNCHANGED <<retry, checkout>>
    BY <1>4 DEF RestoreSecret
  <2> QED
    BY <1>1, <1>2, <2>1, RecordsKeep DEF RotationTypeOK, FollowedUp, Checkings
<1>5. CASE RotationDue
  <2>1. retry' = "due" /\ UNCHANGED <<standing, checkout, returned>>
    BY <1>5 DEF RotationDue
  <2> QED
    BY <1>1, <1>2, <2>1, RecordsKeep DEF RotationTypeOK, FollowedUp, Checkings
<1> QED
  BY <1>3, <1>4, <1>5

LEMMA CheckOutReturns ==
  ASSUME VersionsInv, NEW c \in Checkouts, NEW r \in Rotations, Return(c, r)
  PROVE  VersionsInv'
<1>1. RotationTypeOK /\ CurrentIsUsable /\ StagedSound /\ \A q \in Rotations : RotatorSound(q)
  BY DEF VersionsInv
<1>2. /\ rotation' = [rotation EXCEPT ![r] = [NoRotation EXCEPT !.step = "returned"]]
      /\ [NoRotation EXCEPT !.step = "returned"] \in CallRecords
  BY DEF Return, NoRotation, CallRecords, Calling
<1>3. /\ rotation' \in [Rotations -> CallRecords] /\ rotation'[r].step = "returned"
      /\ \A q \in Rotations \ {r} : rotation'[q] = rotation[q]
  BY <1>1, <1>2, NoRotationIsCall DEF RotationTypeOK, CallRecords, Calling, NoRotation
<1>4. checkout' \in Checkings /\ returned' \in BOOLEAN
  BY <1>1 DEF Return, RotationTypeOK, Checkings
<1>5. UNCHANGED <<standing, latest, version, author, stages, rotationPending, retry, unheard>>
  BY DEF Return
<1>6. RotationTypeOK'
  BY <1>1, <1>3, <1>4, <1>5 DEF RotationTypeOK, Checkings, CallRecords, Calling
<1>7. CurrentIsUsable' /\ StagedSound'
  BY <1>1, <1>5 DEF CurrentIsUsable, StagedSound
<1>8. ASSUME NEW q \in Rotations PROVE RotatorSound(q)'
  BY <1>1, <1>3, <1>5 DEF RotatorSound
<1>9. FollowedUp'
  BY <1>3 DEF FollowedUp, Underway
<1> QED
  BY <1>6, <1>7, <1>8, <1>9 DEF VersionsInv

LEMMA StagersKeep ==
  ASSUME VersionsInv, NEW r \in Rotations,
         RotateReturned(r) \/ RotateDue(r) \/ \E fresh \in BOOLEAN : Rotate(r, fresh)
  PROVE  VersionsInv'
<1>1. UNCHANGED <<standing, checkout, returned, unheard>>
  BY DEF RotateReturned, RotateDue, Rotate
<1>2. CASE \E fresh \in BOOLEAN : StageRotation(r, fresh)
  BY <1>1, <1>2, StageKeeps
<1>3. CASE StagingFails(r)
  BY <1>1, <1>3, RecordFailureKeeps DEF StagingFails
<1>4. CASE /\ rotation' = [rotation EXCEPT ![r] = NoRotation] /\ ~(standing = "active" /\ Holding = {})
           /\ UNCHANGED <<latest, version, author, stages, rotationPending, retry, mishaps>>
  <2>1. standing # "active" \/ Out # {}
    BY <1>4 DEF Holding
  <2>2. FollowedUp'
    BY <1>1, <2>1 DEF FollowedUp, Out
  <2> QED
    BY <1>1, <1>4, <2>2, NoRotationIsCall, CallKeeps DEF VersionsInv, RotationTypeOK
<1> QED
  BY <1>2, <1>3, <1>4 DEF RotateReturned, RotateDue, Rotate

LEMMA RotatorKeeps ==
  ASSUME VersionsInv, NEW r \in Rotations, Rotator(r)
  PROVE  VersionsInv'
<1>1. RotationTypeOK /\ FollowedUp /\ rotation[r].step = "rotator" /\ rotation[r] \in CallRecords
  BY DEF VersionsInv, Rotator, RotationTypeOK, CallRecords, Calling
<1>2. PICK record \in CallRecords : /\ record.step = "complete" /\ record.version = rotation[r].version
                                    /\ rotation' = [rotation EXCEPT ![r] = record]
  <2>1. CASE rotation' = [rotation EXCEPT ![r].step = "complete"]
    <3>1. rotation' = [rotation EXCEPT ![r] = [rotation[r] EXCEPT !.step = "complete"]]
      BY <2>1
    <3>2. [rotation[r] EXCEPT !.step = "complete"] \in CallRecords
      BY <1>1 DEF CallRecords, Calling
    <3> QED
      BY <1>1, <3>1, <3>2 DEF CallRecords
  <2>2. CASE rotation' = [rotation EXCEPT ![r].step = "complete", ![r].ok = FALSE]
    <3>1. rotation' = [rotation EXCEPT ![r] = [rotation[r] EXCEPT !.step = "complete", !.ok = FALSE]]
      BY <1>1, <2>2 DEF RotationTypeOK
    <3>2. [rotation[r] EXCEPT !.step = "complete", !.ok = FALSE] \in CallRecords
      BY <1>1 DEF CallRecords, Calling
    <3> QED
      BY <1>1, <3>1, <3>2 DEF CallRecords
  <2> QED
    BY <2>1, <2>2 DEF Rotator
<1>3. UNCHANGED <<standing, latest, version, author, stages, rotationPending, retry, checkout,
                  returned, unheard>>
  BY DEF Rotator
<1>4. rotation'[r] = record /\ \A q \in Rotations \ {r} : rotation'[q] = rotation[q]
  BY <1>1, <1>2, CallSets
<1>5. \A q \in Rotations : Underway(q) => Underway(q)'
  BY <1>1, <1>2, <1>3, <1>4 DEF Underway
<1>6. FollowedUp'
  BY <1>1, <1>3, <1>5 DEF FollowedUp, Out
<1> QED
  BY <1>1, <1>2, <1>3, <1>6, CallKeeps DEF RotationTypeOK

LEMMA CallEndsKeeps ==
  ASSUME VersionsInv, NEW r \in Rotations, rotation' = [rotation EXCEPT ![r] = NoRotation], unheard' = TRUE,
         UNCHANGED <<standing, latest, version, author, stages, rotationPending, retry, checkout, returned>>
  PROVE  VersionsInv'
<1>1. FollowedUp'
  BY DEF FollowedUp
<1> QED
  BY <1>1, NoRotationIsCall, CallKeeps DEF VersionsInv, RotationTypeOK

\* promoteVersion, whoever calls it.
LEMMA PromotionKeeps ==
  ASSUME VersionsInv, NEW v \in Numbers, NEW rotated \in BOOLEAN,
         NEW versions \in [Numbers -> VersionStates], versions[v] = "enabled",
         \A n \in Numbers : versions[n] = version[n] \/ n = v,
         PromoteVersion(v, versions, rotated),
         latest' \in Numbers, latest <= latest', \A n \in Numbers : n > latest' => versions[n] = "none",
         author' \in [Numbers -> {"nobody", "writer", "rotation"}],
         \A n \in Numbers : n <= latest => author'[n] = author[n],
         rotation' \in [Rotations -> CallRecords],
         \A q \in Rotations : rotation'[q] = rotation[q] \/ rotation'[q].step = "idle",
         UNCHANGED <<standing, checkout>>, unheard' \in BOOLEAN, FollowedUp'
  PROVE  VersionsInv'
<1>1. /\ RotationTypeOK /\ CurrentIsUsable /\ StagedSound
      /\ \A q \in Rotations : RotatorSound(q)
  BY DEF VersionsInv
<1>2. /\ stages' \in [current : Numbers, previous : Numbers \cup {0}, pending : Numbers \cup {0}]
      /\ version' \in [Numbers -> VersionStates] /\ CurrentIsUsable'
      /\ \A n \in Numbers : version'[n] \in {versions[n], "none"}
      /\ stages'.current = v /\ rotationPending' # v /\ rotationPending' \in {rotationPending, 0}
      /\ retry' \in {"none", retry} /\ returned' \in BOOLEAN
  BY <1>1, PromotionSets
<1>3. latest \in Numbers /\ rotationPending \in Numbers \cup {0} /\ retry \in {"none", "waiting", "due"}
  BY <1>1 DEF RotationTypeOK
<1>4. RotationTypeOK'
  BY <1>1, <1>2, <1>3 DEF RotationTypeOK, VersionStates, CallRecords, Calling
<1>5. StagedSound'
  <2>1. rotationPending' <= latest'
    BY <1>1, <1>2, <1>3 DEF StagedSound, Numbers
  <2>2. rotationPending' # 0 => author'[rotationPending'] = "rotation"
    BY <1>1, <1>2, <1>3 DEF StagedSound
  <2>3. \A n \in Numbers : n > latest' => version'[n] = "none"
    BY <1>2
  <2> QED
    BY <1>2, <2>1, <2>2, <2>3 DEF StagedSound
<1>6. ASSUME NEW q \in Rotations, rotation'[q].step \in {"rotator", "complete"}
      PROVE  /\ rotation'[q].version \in Numbers /\ rotation'[q].version <= latest'
             /\ author'[rotation'[q].version] = "rotation"
  <2>1. /\ rotation'[q] = rotation[q] /\ rotation[q].version \in Numbers
        /\ rotation[q].version <= latest /\ author[rotation[q].version] = "rotation"
    BY <1>1, <1>6 DEF RotatorSound
  <2> QED
    BY <1>3, <2>1 DEF Numbers
<1> QED
  BY <1>2, <1>4, <1>5, <1>6 DEF VersionsInv, RotatorSound

\* completeRotation: when the returned version is current still, the call that
\* is to rotate it away is another than this one.
LEMMA CompleteKeeps ==
  ASSUME VersionsInv, NEW r \in Rotations, Complete(r)
  PROVE  VersionsInv'
<1> DEFINE v == rotation[r].version
<1>1. /\ RotationTypeOK /\ CurrentIsUsable /\ StagedSound /\ FollowedUp
      /\ \A q \in Rotations : RotatorSound(q)
  BY DEF VersionsInv
<1>2. UNCHANGED <<standing, latest, author, checkout>> /\ rotation[r].step = "complete"
  BY DEF Complete
<1>3. CASE RecordFailure(r) /\ UNCHANGED <<version, stages, rotationPending, returned, unheard>>
  BY <1>2, <1>3, RecordFailureKeeps
<1>4. CASE /\ rotation' = [rotation EXCEPT ![r] = NoRotation] /\ unheard' = TRUE
           /\ UNCHANGED <<version, stages, rotationPending, retry, returned>>
  BY <1>2, <1>4, CallEndsKeeps
<1>5. CASE /\ Promotable(v) /\ PromoteVersion(v, version, TRUE)
           /\ rotation' = [rotation EXCEPT ![r] = NoRotation]
           /\ unheard' = (unheard \/ (stages.current = v /\ retry # "none"))
  <2>1. /\ v \in Numbers /\ version[v] = "enabled" /\ version \in [Numbers -> VersionStates]
        /\ latest \in Numbers /\ unheard \in BOOLEAN
    BY <1>1, <1>2, <1>5 DEF RotatorSound, Promotable, RotationTypeOK, VersionStates
  <2>2. /\ rotation'[r] = NoRotation /\ \A q \in Rotations \ {r} : rotation'[q] = rotation[q]
        /\ rotation' \in [Rotations -> CallRecords]
    BY <1>1, <1>5, NoRotationIsCall DEF RotationTypeOK, CallRecords, Calling
  <2>3. stages'.current = v /\ returned' = (returned /\ stages.current = v)
    BY <1>5 DEF PromoteVersion, Labels
  <2>4. FollowedUp'
    <3> SUFFICES ASSUME returned', standing' = "active", ~unheard'
                 PROVE  Out' # {} \/ \E q \in Rotations : Underway(q)'
      BY DEF FollowedUp
    <3>1. returned /\ stages.current = v /\ standing = "active" /\ ~unheard /\ retry = "none"
      BY <1>2, <1>5, <2>3
    <3>2. ~Underway(r)
      BY <1>2, <3>1 DEF Underway
    <3>3. \A q \in Rotations \ {r} : Underway(q) => Underway(q)'
      BY <2>2, <2>3, <3>1 DEF Underway
    <3> QED
      BY <1>1, <1>2, <3>1, <3>2, <3>3 DEF FollowedUp, Out
  <2>5. \A n \in Numbers : n > latest' => version[n] = "none"
    BY <1>1, <1>2 DEF StagedSound
  <2>6. /\ latest' \in Numbers /\ latest <= latest'
        /\ author' \in [Numbers -> {"nobody", "writer", "rotation"}] /\ author' = author
    BY <1>1, <1>2, <2>1 DEF RotationTypeOK, Numbers
  <2>7. /\ \A q \in Rotations : rotation'[q] = rotation[q] \/ rotation'[q].step = "idle"
        /\ unheard' \in BOOLEAN
    BY <1>5, <2>1, <2>2, NoRotationIsCall
  <2> HIDE DEF v
  <2> QED
    BY <1>2, <1>5, <2>1, <2>2, <2>4, <2>5, <2>6, <2>7, PromotionKeeps
<1> QED
  BY <1>3, <1>4, <1>5 DEF Complete

----------------------------------------------------------------------------
LEMMA PromotesKeep ==
  ASSUME VersionsInv, PutCurrent \/ \E v \in Numbers : Promote(v)
  PROVE  VersionsInv'
<1>1. RotationTypeOK /\ CurrentIsUsable /\ StagedSound /\ FollowedUp
  BY DEF VersionsInv
<1>2. /\ latest \in Numbers /\ author \in [Numbers -> {"nobody", "writer", "rotation"}]
      /\ version \in [Numbers -> VersionStates] /\ unheard \in BOOLEAN
      /\ rotation \in [Rotations -> CallRecords]
  BY <1>1 DEF RotationTypeOK, VersionStates, CallRecords, Calling
<1>3. CASE PutCurrent
  <2> DEFINE new == latest + 1
             versions == Added("enabled")
  <2>1. /\ AddedBy("writer") /\ PromoteVersion(new, versions, FALSE)
        /\ UNCHANGED <<standing, checkout, rotation, unheard>>
    BY <1>3 DEF PutCurrent
  <2>2. /\ new \in Numbers /\ latest' = new /\ author' \in [Numbers -> {"nobody", "writer", "rotation"}]
        /\ \A n \in Numbers : n <= latest => author'[n] = author[n]
        /\ versions \in [Numbers -> VersionStates] /\ versions[new] = "enabled"
        /\ \A n \in Numbers \ {new} : versions[n] = version[n]
        /\ \A n \in Numbers : n > new => versions[n] = "none"
    BY <1>1, <2>1, AdditionSets
  <2>3. latest <= latest' /\ stages.current # new
    BY <1>1, <1>2, <2>2, LabelledExist DEF RotationTypeOK, Numbers
  <2>4. FollowedUp'
    BY <2>1, <2>3 DEF FollowedUp, PromoteVersion
  <2> HIDE DEF new, versions
  <2>5. /\ \A n \in Numbers : versions[n] = version[n] \/ n = new
        /\ \A n \in Numbers : n > latest' => versions[n] = "none"
        /\ \A q \in Rotations : rotation'[q] = rotation[q]
        /\ rotation' \in [Rotations -> CallRecords] /\ unheard' \in BOOLEAN
    BY <1>2, <2>1, <2>2
  <2> QED
    BY <2>1, <2>2, <2>3, <2>4, <2>5, PromotionKeeps
<1>4. ASSUME NEW v \in Numbers, Promote(v)
      PROVE  VersionsInv'
  <2>1. /\ version[v] = "enabled" /\ PromoteVersion(v, version, FALSE)
        /\ UNCHANGED <<standing, latest, author, checkout, rotation, unheard>>
    BY <1>4 DEF Promote
  <2>2. /\ stages'.current = v /\ returned' = (returned /\ stages.current = v)
        /\ retry' = IF v > stages.current THEN "none" ELSE retry
    BY <2>1 DEF PromoteVersion, Labels
  <2>3. FollowedUp'
    <3> SUFFICES ASSUME returned' PROVE FollowedUp'
      BY DEF FollowedUp
    <3>1. stages.current = v /\ returned /\ stages'.current = stages.current
      BY <2>2
    <3>2. retry' = retry
      <4>1. ~(v > v)
        BY DEF Numbers
      <4> QED
        BY <2>2, <3>1, <4>1
    <3> QED
      BY <1>1, <2>1, <3>1, <3>2 DEF FollowedUp, Underway, Out
  <2>4. /\ \A n \in Numbers : n > latest' => version[n] = "none"
        /\ latest' \in Numbers /\ latest <= latest'
    BY <1>1, <1>2, <2>1 DEF StagedSound, Numbers
  <2> QED
    BY <1>2, <2>1, <2>3, <2>4, PromotionKeeps
<1> QED
  BY <1>3, <1>4

LEMMA PutPendingKeeps ==
  ASSUME VersionsInv, PutPending
  PROVE  VersionsInv'
<1> DEFINE new == latest + 1
           versions == Added("enabled")
<1>1. /\ RotationTypeOK /\ CurrentIsUsable /\ StagedSound /\ FollowedUp
      /\ \A q \in Rotations : RotatorSound(q)
  BY DEF VersionsInv
<1>2. /\ AddedBy("writer") /\ stages' = [stages EXCEPT !.pending = new]
      /\ version' = Pruned(versions, stages')
      /\ UNCHANGED <<standing, rotationPending, retry, checkout, rotation, returned, unheard>>
  BY DEF PutPending
<1>3. /\ new \in Numbers /\ latest' = new /\ author' \in [Numbers -> {"nobody", "writer", "rotation"}]
      /\ \A n \in Numbers : n <= latest => author'[n] = author[n]
      /\ versions \in [Numbers -> VersionStates] /\ versions[new] = "enabled"
      /\ \A n \in Numbers \ {new} : versions[n] = version[n]
      /\ \A n \in Numbers : n > new => versions[n] = "none"
  BY <1>1, <1>2, AdditionSets
<1>4. /\ stages' \in [current : Numbers, previous : Numbers \cup {0}, pending : Numbers \cup {0}]
      /\ stages'.current = stages.current /\ stages'.previous = stages.previous /\ stages'.pending = new
      /\ stages.current \in Numbers /\ stages.previous \in Numbers \cup {0} /\ 0 \notin Numbers
  BY <1>1, <1>2, <1>3 DEF RotationTypeOK, Numbers
<1> HIDE DEF new, versions
<1>5. /\ version' \in [Numbers -> VersionStates]
      /\ \A n \in Numbers : version'[n] \in {versions[n], "none"}
      /\ \A n \in {stages'.current, stages'.previous, stages'.pending} \cap Numbers :
           version'[n] = versions[n]
  <2>1. versions \in [Numbers -> VersionStates] /\ version' = Pruned(versions, stages')
    BY <1>2, <1>3
  <2> QED
    BY <2>1, PrunedSpares
<1>6. latest \in Numbers /\ latest <= new /\ rotationPending \in Numbers \cup {0}
  BY <1>1 DEF RotationTypeOK, Numbers, new
<1>7. RotationTypeOK'
  BY <1>1, <1>2, <1>3, <1>4, <1>5 DEF RotationTypeOK, VersionStates
<1>8. CurrentIsUsable'
  <2>1. stages.current = new \/ versions[stages.current] = "enabled"
    BY <1>1, <1>3, <1>4 DEF CurrentIsUsable
  <2>2. stages.previous # 0 => versions[stages.previous] \in {"enabled", "disabled"}
    BY <1>1, <1>3, <1>4 DEF CurrentIsUsable
  <2> QED
    BY <1>3, <1>4, <1>5, <2>1, <2>2 DEF CurrentIsUsable
<1>9. StagedSound'
  <2>1. rotationPending <= new /\ (rotationPending # 0 => author'[rotationPending] = "rotation")
    BY <1>1, <1>3, <1>6 DEF StagedSound, Numbers
  <2>2. \A n \in Numbers : n > new => version'[n] = "none"
    BY <1>3, <1>5
  <2> QED
    BY <1>1, <1>2, <1>3, <1>4, <2>1, <2>2 DEF StagedSound
<1>10. ASSUME NEW q \in Rotations PROVE RotatorSound(q)'
  <2>1. RotatorSound(q) /\ rotation'[q] = rotation[q]
    BY <1>1, <1>2
  <2> QED
    BY <1>3, <1>6, <2>1 DEF RotatorSound, Numbers
<1>11. FollowedUp'
  BY <1>1, <1>2, <1>4 DEF FollowedUp, Underway, Out
<1> QED
  BY <1>7, <1>8, <1>9, <1>10, <1>11 DEF VersionsInv

\* Versions and labels change, and neither which version is current nor
\* what anybody chose.
LEMMA LabelsKeep ==
  ASSUME VersionsInv, UNCHANGED <<standing, latest, author, rotationPending, retry, checkout, rotation,
                                  returned, unheard>>,
         stages' \in [current : Numbers, previous : Numbers \cup {0}, pending : Numbers \cup {0}],
         stages'.current = stages.current, version' \in [Numbers -> VersionStates], CurrentIsUsable',
         \A n \in Numbers : version[n] = "none" => version'[n] = "none"
  PROVE  VersionsInv'
<1>1. /\ RotationTypeOK /\ StagedSound /\ FollowedUp
      /\ \A q \in Rotations : RotatorSound(q)
  BY DEF VersionsInv
<1>2. RotationTypeOK'
  BY <1>1 DEF RotationTypeOK, VersionStates
<1>3. StagedSound' /\ \A q \in Rotations : RotatorSound(q)'
  BY <1>1 DEF StagedSound, RotatorSound
<1>4. FollowedUp'
  BY <1>1 DEF FollowedUp, Underway, Out
<1> QED
  BY <1>2, <1>3, <1>4 DEF VersionsInv

LEMMA SetPendingKeeps ==
  ASSUME VersionsInv, NEW v \in Numbers \cup {0}, SetPending(v)
  PROVE  VersionsInv'
<1>1. RotationTypeOK /\ CurrentIsUsable
  BY DEF VersionsInv
<1>2. /\ v # 0 => version[v] \in {"enabled", "disabled"}
      /\ stages' = [stages EXCEPT !.pending = v] /\ version' = Pruned(version, stages')
      /\ UNCHANGED <<standing, latest, author, rotationPending, retry, checkout, rotation, returned, unheard>>
  BY DEF SetPending
<1>3. /\ stages' \in [current : Numbers, previous : Numbers \cup {0}, pending : Numbers \cup {0}]
      /\ stages'.current = stages.current /\ stages'.previous = stages.previous /\ stages'.pending = v
      /\ version \in [Numbers -> VersionStates]
  BY <1>1, <1>2 DEF RotationTypeOK, VersionStates
<1>4. /\ version' \in [Numbers -> VersionStates]
      /\ \A n \in Numbers : version'[n] \in {version[n], "none"}
      /\ \A n \in {stages'.current, stages'.previous, stages'.pending} \cap Numbers :
           version'[n] = version[n]
  BY <1>2, <1>3, PrunedSpares
<1>5. CurrentIsUsable'
  BY <1>1, <1>2, <1>3, <1>4 DEF CurrentIsUsable
<1>6. \A n \in Numbers : version[n] = "none" => version'[n] = "none"
  BY <1>4
<1> QED
  BY <1>2, <1>3, <1>4, <1>5, <1>6, LabelsKeep

LEMMA VersionStatesKeep ==
  ASSUME VersionsInv, NEW v \in Numbers, SetVersionState(v) \/ DestroyVersion(v)
  PROVE  VersionsInv'
<1>1. RotationTypeOK /\ CurrentIsUsable
  BY DEF VersionsInv
<1>2. /\ stages \in [current : Numbers, previous : Numbers \cup {0}, pending : Numbers \cup {0}]
      /\ version \in [Numbers -> VersionStates] /\ 0 \notin Numbers
  BY <1>1 DEF RotationTypeOK, VersionStates, Numbers
<1>3. UNCHANGED <<standing, latest, author, rotationPending, retry, checkout, rotation, returned, unheard>>
  BY DEF SetVersionState, DestroyVersion
<1>4. CASE SetVersionState(v)
  <2>1. PICK state \in {"enabled", "disabled"} :
          /\ version' = [version EXCEPT ![v] = state] /\ version[v] \in {"enabled", "disabled"}
          /\ v = stages.current => state = "enabled"
    BY <1>4 DEF SetVersionState, Spared
  <2>2. stages' = stages /\ version' \in [Numbers -> VersionStates]
    BY <1>2, <1>4, <2>1 DEF SetVersionState, VersionStates
  <2>3. CurrentIsUsable'
    BY <1>1, <1>2, <2>1, <2>2 DEF CurrentIsUsable
  <2>4. \A n \in Numbers : version[n] = "none" => version'[n] = "none"
    BY <1>2, <2>1
  <2> QED
    BY <1>2, <1>3, <2>2, <2>3, <2>4, LabelsKeep
<1>5. CASE DestroyVersion(v)
  <2>1. /\ version[v] # "none" /\ v # stages.current /\ version' = [version EXCEPT ![v] = "destroyed"]
        /\ stages' = [s \in DOMAIN stages |-> IF stages[s] = v THEN 0 ELSE stages[s]]
    BY <1>5 DEF DestroyVersion, Spared
  <2>2. DOMAIN stages = {"current", "previous", "pending"}
    BY <1>2
  <2>3. stages' = [current  |-> stages.current,
                   previous |-> IF stages.previous = v THEN 0 ELSE stages.previous,
                   pending  |-> IF stages.pending = v THEN 0 ELSE stages.pending]
    BY <1>2, <2>1, <2>2
  <2>4. /\ stages' \in [current : Numbers, previous : Numbers \cup {0}, pending : Numbers \cup {0}]
        /\ stages'.current = stages.current /\ version' \in [Numbers -> VersionStates]
    BY <1>2, <2>1, <2>3 DEF VersionStates
  <2>5. CurrentIsUsable'
    BY <1>1, <1>2, <2>1, <2>3 DEF CurrentIsUsable
  <2>6. \A n \in Numbers : version[n] = "none" => version'[n] = "none"
    BY <1>2, <2>1
  <2> QED
    BY <1>3, <2>4, <2>5, <2>6, LabelsKeep
<1> QED
  BY <1>4, <1>5

----------------------------------------------------------------------------
LEMMA VersionsStep == VersionsInv /\ [RotationNext]_rotationVars => VersionsInv'
<1> SUFFICES ASSUME VersionsInv, [RotationNext]_rotationVars PROVE VersionsInv'
  OBVIOUS
<1>1. ASSUME NEW c \in Checkouts, CheckOut(c) \/ CheckOutLapses(c)
      PROVE  VersionsInv'
  BY <1>1, CheckOutKeeps
<1>2. ASSUME NEW c \in Checkouts, NEW r \in Rotations,
             Checkin(c, r) \/ RevokeCheckOut(c, r) \/ ExpireCheckOut(c, r)
      PROVE  VersionsInv'
  BY <1>2, CheckOutReturns DEF Checkin, RevokeCheckOut, ExpireCheckOut
<1>3. ASSUME NEW r \in Rotations,
             RotateReturned(r) \/ RotateDue(r) \/ \E fresh \in BOOLEAN : Rotate(r, fresh)
      PROVE  VersionsInv'
  BY <1>3, StagersKeep
<1>4. ASSUME NEW r \in Rotations, Rotator(r) \/ Complete(r)
      PROVE  VersionsInv'
  BY <1>4, RotatorKeeps, CompleteKeeps
<1>5. ASSUME NEW r \in Rotations, RotationStops(r)
      PROVE  VersionsInv'
  BY <1>5, CallEndsKeeps DEF RotationStops
<1>6. CASE PutCurrent \/ \E v \in Numbers : Promote(v)
  BY <1>6, PromotesKeep
<1>7. CASE PutPending
  BY <1>7, PutPendingKeeps
<1>8. CASE DeleteSecret \/ RestoreSecret \/ RotationDue
  BY <1>8, SecretStandsKeeps
<1>9. ASSUME NEW v \in Numbers, SetVersionState(v) \/ DestroyVersion(v)
      PROVE  VersionsInv'
  BY <1>9, VersionStatesKeep
<1>10. ASSUME NEW v \in Numbers \cup {0}, SetPending(v)
       PROVE  VersionsInv'
  BY <1>10, SetPendingKeeps
<1>11. CASE UNCHANGED rotationVars
  <2>1. /\ UNCHANGED <<standing, latest, version, author, stages, rotationPending, retry, checkout>>
        /\ UNCHANGED <<rotation, returned, unheard>>
    BY <1>11 DEF rotationVars
  <2>2. FollowedUp'
    BY <2>1 DEF VersionsInv, FollowedUp, Underway, Out
  <2> QED
    BY <2>1, <2>2, RecordsKeep DEF VersionsInv, RotationTypeOK, Checkings
<1> QED
  BY <1>1, <1>2, <1>3, <1>4, <1>5, <1>6, <1>7, <1>8, <1>9, <1>10, <1>11 DEF RotationNext

LEMMA VersionsInvariant == RotationSpec => []VersionsInv
BY VersionsInitInv, VersionsStep, PTL DEF RotationSpec

\* The records of a secret, its versions, its check-outs and the calls that
\* rotate it stay of their types.
THEOREM RotationTypes == RotationSpec => []RotationTypeOK
<1>1. VersionsInv => RotationTypeOK
  BY DEF VersionsInv
<1> QED
  BY <1>1, VersionsInvariant, PTL

(***************************************************************************)
(* The current version can be read and every label names a version there   *)
(* is, whatever was pruned, disabled, destroyed or promoted meanwhile; and *)
(* a rotator is handed a value that a rotation chose, never a writer's.    *)
(* The second needs to know of the version that the secret remembers as    *)
(* pending that a rotation chose it, though any writer may move the label. *)
(***************************************************************************)
THEOREM RotatedVersionsHold == RotationSpec => []VersionsHold
<1>1. VersionsInv => VersionsHold
  BY DEF VersionsInv, RotatorSound, VersionsHold, RotatorsGetTheirOwn
<1> QED
  BY <1>1, VersionsInvariant, PTL

(***************************************************************************)
(* The version that its last holder returned is about to be rotated away,  *)
(* by a call under way or by a retry, unless a rotation ended unheard.  A  *)
(* call that is to do so holds another version than the current one: what  *)
(* a rotation staged is never current while the secret remembers it.       *)
(***************************************************************************)
THEOREM ReturnedVersionsGo == RotationSpec => []ReturnsAreFollowedUp
<1>1. VersionsInv => ReturnsAreFollowedUp
  <2>1. ASSUME rotation = [r \in Rotations |-> NoRotation]
        PROVE  \A r \in Rotations : ~Underway(r)
    BY <2>1 DEF Underway, NoRotation
  <2> QED
    BY <2>1 DEF VersionsInv, RotationTypeOK, FollowedUp, ReturnsAreFollowedUp
<1> QED
  BY <1>1, VersionsInvariant, PTL
=============================================================================
