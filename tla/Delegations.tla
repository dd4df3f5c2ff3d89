---------------------------- MODULE Delegations ----------------------------
(***************************************************************************)
(* One person's delegations to AI agents: packages/server/src/             *)
(* delegations.ts and api/delegations.ts.  The person grants, or approves  *)
(* what an agent asks for; the agent opens delegated sessions with its API *)
(* key and may hand part of a delegation on to another agent; some actions *)
(* the person confirms one call at a time.                                 *)
(*                                                                         *)
(* Every operation is one transaction of the store, which runs one at a    *)
(* time.  An agent has one API key.  Scopes are left out: they bound what  *)
(* a call may do and decide nothing about the life of a delegation.        *)
(***************************************************************************)
EXTENDS Naturals, FiniteSets

CONSTANTS
  Agents,
  Ids,               \* identifiers of delegations
  SessionIds,
  ConfirmationIds,
  Lifetimes,         \* what an expiresInSeconds may be
  Depths,            \* how many hand-offs the person may allow in a row
  RequestLife,       \* delegationLifetime.requestMs
  DecideLife,        \* confirmationLimits.decideMs
  SessionLife,
  KeyExpiry,         \* agent -> when its API key expires
  MaxSessions,       \* maxSessionsPerDelegation
  MaxLive,           \* handoffLimits.maxLive
  MaxTime,           \* bound on the clock
  None

Statuses == {"pending", "active", "denied", "revoked"}

Answers == {"pending", "approved", "rejected", "used"}

\* The rows, as far as they matter here.
DelegationRows == [status : Statuses, agentId : Agents, parentId : Ids \cup {None},
                   expiresAt : Nat, lifetime : Nat, depth : Nat]
SessionRows == [delegationId : Ids, expiresAt : Nat]
ConfirmationRows == [delegationId : Ids, status : Answers, expiresAt : Nat]

ASSUME DelegationsAssumption ==
  /\ Lifetimes \subseteq Nat /\ Depths \subseteq Nat
  /\ {RequestLife, DecideLife, SessionLife, MaxSessions, MaxLive, MaxTime} \subseteq Nat
  /\ KeyExpiry \in [Agents -> Nat]
  /\ None \notin Ids \cup DelegationRows \cup SessionRows \cup ConfirmationRows

VARIABLES
  now,
  key,            \* the agents whose API key is stored
  standing,       \* the agents that may act: themselves and their sponsor active
  delegation,     \* id -> record, or None
  session,        \* delegated sessions: id -> record, or None
  confirmation,   \* confirmation requests: id -> record, or None
  calls           \* history: id -> calls its approval opened

vars == <<now, key, standing, delegation, session, confirmation, calls>>

Init ==
  /\ now = 0 /\ key = Agents /\ standing = Agents
  /\ delegation = [d \in Ids |-> None]
  /\ session = [s \in SessionIds |-> None]
  /\ confirmation = [c \in ConfirmationIds |-> None]
  /\ calls = [c \in ConfirmationIds |-> 0]

----------------------------------------------------------------------------
Delegated == {d \in Ids : delegation[d] # None}

DelegationLive(d) == delegation[d].status = "active" /\ delegation[d].expiresAt > now

DelegationPending(d) == delegation[d].status = "pending" /\ delegation[d].expiresAt > now

Earlier(a, b) == IF a < b THEN a ELSE b

Parent(d) == delegation[d].parentId

\* The delegations above one: the least set with its parent that has the parent
\* of each of its members.
Above(d) ==
  LET closed == {S \in SUBSET Delegated : \A e \in S \cup {d} : Parent(e) \in S \cup {None}}
  IN  {e \in Delegated : \A S \in closed : e \in S}

KeyWorks(a) == a \in key /\ KeyExpiry[a] > now

\* liveAncestors: each of them live, its agent in good standing and the key
\* it handed on with still working.
LiveAncestors(d) ==
  \A e \in Above(d) :
    DelegationLive(e) /\ delegation[e].agentId \in standing /\ KeyWorks(delegation[e].agentId)

\* checkDelegatedSession, on every use of a delegated session.
SessionWorks(s) ==
  LET d == session[s].delegationId
      a == delegation[d].agentId
  IN /\ session[s].expiresAt > now
     /\ DelegationLive(d) /\ LiveAncestors(d)
     /\ a \in standing /\ KeyWorks(a)

UsableSessions == {s \in SessionIds : session[s] # None /\ SessionWorks(s)}

\* Hand-offs do not count: they are part of another delegation.
LiveBetween(a) ==
  \E d \in Delegated :
    /\ delegation[d].agentId = a /\ Parent(d) = None
    /\ DelegationLive(d) \/ DelegationPending(d)

Unused(d) == delegation[d] = None

Insert(d, record) == delegation' = [delegation EXCEPT ![d] = record]

----------------------------------------------------------------------------
\* A person lets an agent act for them, and hand on depth times.
Grant(d, a, life, depth) ==
  /\ Unused(d) /\ a \in standing /\ ~LiveBetween(a)
  /\ Insert(d, [status |-> "active", agentId |-> a, parentId |-> None,
                expiresAt |-> now + life, lifetime |-> 0, depth |-> depth])
  /\ UNCHANGED <<now, key, standing, session, confirmation, calls>>

\* An agent asks for it.
Request(d, a, life) ==
  /\ Unused(d) /\ KeyWorks(a) /\ a \in standing /\ ~LiveBetween(a)
  /\ Insert(d, [status |-> "pending", agentId |-> a, parentId |-> None,
                expiresAt |-> now + RequestLife, lifetime |-> life, depth |-> 0])
  /\ UNCHANGED <<now, key, standing, session, confirmation, calls>>

\* Mutant of Approvable: a request that lapsed undecided can still be approved.
ApprovableLapsed(d) == delegation[d].status = "pending"

Approvable(d) == DelegationPending(d)

\* Only now does the delegation's own lifetime begin; hand-offs are allowed
\* only if the person says so.
Approve(d, depth) ==
  /\ d \in Delegated /\ Approvable(d) /\ delegation[d].agentId \in standing
  /\ delegation' = [delegation EXCEPT
       ![d].status = "active", ![d].expiresAt = now + delegation[d].lifetime,
       ![d].lifetime = 0, ![d].depth = depth]
  /\ UNCHANGED <<now, key, standing, session, confirmation, calls>>

Deny(d) ==
  /\ d \in Delegated /\ DelegationPending(d)
  /\ delegation' = [delegation EXCEPT ![d].status = "denied"]
  /\ UNCHANGED <<now, key, standing, session, confirmation, calls>>

----------------------------------------------------------------------------
Open(d) == delegation[d].status \in {"active", "pending"}

\* Mutant of Below: the hand-offs of the delegation, and not theirs.
BelowOnce(ds) == {d \in Delegated : Open(d) /\ Parent(d) \in ds}

\* revokeHandoffsBelow follows open hand-offs down, and only those: the least
\* set with the open hand-offs of ds and of its own members.
Below(ds) ==
  LET closed == {S \in SUBSET Delegated :
                   \A d \in Delegated : Open(d) /\ Parent(d) \in ds \cup S => d \in S}
  IN  {d \in Delegated : \A S \in closed : d \in S}

\* Revokes delegations with the hand-offs below them and deletes their sessions.
EndAll(ds, tops) ==
  LET over == ds \cup Below(tops) IN
  /\ delegation' = [d \in Ids |-> IF d \in over THEN [delegation[d] EXCEPT !.status = "revoked"]
                                  ELSE delegation[d]]
  /\ session' = [s \in SessionIds |->
       IF session[s] # None /\ session[s].delegationId \in over THEN None ELSE session[s]]

\* The person, the agent, its sponsor, the agent that handed on, or an
\* administrator.
Revoke(d) ==
  /\ d \in Delegated /\ Open(d)
  /\ EndAll({d}, {d})
  /\ UNCHANGED <<now, key, standing, confirmation, calls>>

\* revokeDelegationsOf an agent being deleted.
DeleteAgent(a) ==
  LET found == {d \in Delegated : delegation[d].agentId = a}
  IN /\ a \in key
     /\ key' = key \ {a} /\ standing' = standing \ {a}
     /\ EndAll({d \in found : Open(d)}, found)
     /\ UNCHANGED <<now, confirmation, calls>>

\* The agent's own delegated sessions end; hand-offs wait for its return.
SuspendAgent(a) ==
  /\ a \in standing
  /\ standing' = standing \ {a}
  /\ session' = [s \in SessionIds |->
       IF session[s] # None /\ delegation[session[s].delegationId].agentId = a
       THEN None ELSE session[s]]
  /\ UNCHANGED <<now, key, delegation, confirmation, calls>>

ResumeAgent(a) ==
  /\ a \in key \ standing
  /\ standing' = standing \cup {a}
  /\ UNCHANGED <<now, key, delegation, session, confirmation, calls>>

----------------------------------------------------------------------------
\* The agent opens a session with its key; the delegation's dead sessions are
\* deleted first, so that the cap bounds the rows.
Assume(d, s) ==
  LET a == delegation[d].agentId
      dead == {t \in SessionIds : /\ session[t] # None /\ session[t].delegationId = d
                                  /\ session[t].expiresAt <= now}
      live == {t \in SessionIds \ dead : session[t] # None /\ session[t].delegationId = d}
  IN /\ d \in Delegated /\ session[s] = None
     /\ a \in standing /\ KeyWorks(a)
     /\ DelegationLive(d) /\ LiveAncestors(d)
     /\ Cardinality(live) < MaxSessions
     /\ session' = [t \in SessionIds |->
          IF t = s THEN [delegationId |-> d,
                         expiresAt |-> Earlier(now + SessionLife,
                                               Earlier(delegation[d].expiresAt, KeyExpiry[a]))]
          ELSE IF t \in dead THEN None ELSE session[t]]
     /\ UNCHANGED <<now, key, standing, delegation, confirmation, calls>>

\* Mutant of HandedUntil: the key it was handed on with is the only limit.
HandedUntilKey(parent, life) == Earlier(now + life, KeyExpiry[delegation[parent].agentId])

\* A hand-off outlives neither the delegation nor the key it came from.
HandedUntil(parent, life) ==
  Earlier(now + life, Earlier(delegation[parent].expiresAt, KeyExpiry[delegation[parent].agentId]))

Chain(d) == {delegation[e].agentId : e \in Above(d) \cup {d}}

\* In a delegated session the agent hands the delegation on to another one.
Handoff(s, d, a, life) ==
  LET parent == session[s].delegationId IN
  /\ s \in UsableSessions /\ Unused(d)
  /\ delegation[parent].depth >= 1
  /\ a \in standing /\ a \notin Chain(parent)
  /\ Cardinality({e \in Delegated : Parent(e) = parent /\ DelegationLive(e)}) < MaxLive
  /\ Insert(d, [status |-> "active", agentId |-> a, parentId |-> parent,
                expiresAt |-> HandedUntil(parent, life), lifetime |-> 0,
                depth |-> delegation[parent].depth - 1])
  /\ UNCHANGED <<now, key, standing, session, confirmation, calls>>

----------------------------------------------------------------------------
\* An agent asks the person to confirm the one action held back; the same
\* question is not asked twice while it waits.
RequestConfirmation(s, c) ==
  LET d == session[s].delegationId IN
  /\ s \in UsableSessions /\ confirmation[c] = None
  /\ \A e \in ConfirmationIds :
       confirmation[e] # None /\ confirmation[e].delegationId = d
         => confirmation[e].status # "pending" \/ confirmation[e].expiresAt <= now
  /\ confirmation' = [confirmation EXCEPT ![c] =
       [delegationId |-> d, status |-> "pending", expiresAt |-> now + DecideLife]]
  /\ UNCHANGED <<now, key, standing, delegation, session, calls>>

DecideConfirmation(c, answer) ==
  /\ confirmation[c] # None
  /\ confirmation[c].status = "pending" /\ confirmation[c].expiresAt > now
  /\ DelegationLive(confirmation[c].delegationId)
  /\ confirmation' = [confirmation EXCEPT
       ![c].status = answer,
       ![c].expiresAt = IF answer = "approved" THEN now + DecideLife ELSE now]
  /\ UNCHANGED <<now, key, standing, delegation, session, calls>>

Approved(d) ==
  {c \in ConfirmationIds : /\ confirmation[c] # None /\ confirmation[c].delegationId = d
                           /\ confirmation[c].status = "approved" /\ confirmation[c].expiresAt > now}

Used(c) == [confirmation EXCEPT ![c].status = "used"]

\* authorize with the action held back: allowed while some approval is open,
\* and uses up the one that expires first.
CallConfirmed(s, c) ==
  LET approved == Approved(session[s].delegationId) IN
  /\ s \in UsableSessions /\ c \in approved
  /\ \A e \in approved : confirmation[c].expiresAt <= confirmation[e].expiresAt
  /\ confirmation' = Used(c)
  /\ calls' = [calls EXCEPT ![c] = @ + 1]
  /\ UNCHANGED <<now, key, standing, delegation, session>>

Tick ==
  /\ now < MaxTime
  /\ now' = now + 1
  /\ UNCHANGED <<key, standing, delegation, session, confirmation, calls>>

----------------------------------------------------------------------------
Next ==
  \/ \E d \in Ids, a \in Agents, life \in Lifetimes :
       \/ \E depth \in Depths : Grant(d, a, life, depth)
       \/ Request(d, a, life)
       \/ \E s \in SessionIds : session[s] # None /\ Handoff(s, d, a, life)
  \/ \E d \in Ids : (\E depth \in Depths : Approve(d, depth)) \/ Deny(d) \/ Revoke(d)
  \/ \E d \in Ids, s \in SessionIds : Assume(d, s)
  \/ \E a \in Agents : DeleteAgent(a) \/ SuspendAgent(a) \/ ResumeAgent(a)
  \/ \E s \in SessionIds, c \in ConfirmationIds :
       session[s] # None /\ (RequestConfirmation(s, c) \/ CallConfirmed(s, c))
  \/ \E c \in ConfirmationIds, answer \in {"approved", "rejected"} : DecideConfirmation(c, answer)
  \/ Tick

Spec == Init /\ [][Next]_vars

----------------------------------------------------------------------------
\* What ends with a delegation: its sessions, and every hand-off below it with
\* theirs, however deep.
EndedHoldsNothing ==
  \A d \in Delegated : ~Open(d) =>
    /\ \A s \in SessionIds : session[s] # None => session[s].delegationId # d
    /\ \A e \in Delegated : d \in Above(e) => ~Open(e)

\* A hand-off never outlives what it was handed on from, nor a session its
\* delegation, whatever was approved, revoked or suspended in between.
NothingOutlivesItsSource ==
  /\ \A d \in Delegated : \A e \in Above(d) : delegation[d].expiresAt <= delegation[e].expiresAt
  /\ \A s \in SessionIds :
       session[s] # None => session[s].expiresAt <= delegation[session[s].delegationId].expiresAt

\* One agreement at a time between the person and an agent.
OneAgreement ==
  \A a \in Agents :
    Cardinality({d \in Delegated : /\ delegation[d].agentId = a /\ Parent(d) = None
                                   /\ DelegationLive(d) \/ DelegationPending(d)}) <= 1

\* "Confirm one call at a time": an approval opens one call, in whatever
\* session of the delegation.
OneCallPerApproval == \A c \in ConfirmationIds : calls[c] <= 1

\* What a person approves, a delegation or a call, counts once.
ApprovedOnce == OneAgreement /\ OneCallPerApproval
=============================================================================
