------------------------------ MODULE Sessions ------------------------------
(***************************************************************************)
(* Sessions and the credentials derived from them: issuing and ending      *)
(* (packages/auth/src/service), session tokens, assumed roles and API keys *)
(* (packages/server/src/api/sts.ts, flows.ts, api/service-accounts.ts),    *)
(* everything that revokes them, and the validation every use goes through *)
(* (packages/server/src/principals.ts).                                    *)
(*                                                                         *)
(* Each action is one transaction; the store runs them one at a time.  An  *)
(* operation authenticates in a transaction of its own first, but judges   *)
(* its credential again in the transaction that has the effect, so only    *)
(* that one is an action.  Who may administer what is a question for the   *)
(* policies, and left open here.                                           *)
(***************************************************************************)
EXTENDS Naturals, FiniteSets

CONSTANTS
  Sessions,      \* session ids: random, never used twice
  Users,         \* people...
  Owners,        \* ...and the owners of their tenants among them
  Machines,      \* service accounts
  Tenants, Root, \* the tenant tree and its root
  MaxDepth,      \* config.maxDepth
  Home,          \* identity -> its tenant
  RoleTenant,    \* the tenant of the one role...
  Trusted,       \* ...and the identity its trust names
  MaxSessions,   \* authPolicy.maxSessions
  MaxTokens,     \* sts.maxSessionTokensPerIdentity
  Lifetime,      \* of a user session
  Durations,     \* what derived credentials and API keys may ask for
  MfaPolicies,   \* whom tenants may require MFA of
  MaxTime,       \* bound on the clock
  MaxChanges,    \* bound on changes to tenants and identities
  None

Identities == Users \cup Machines

\* "impersonation" is a user session with an impersonatorId.
Kinds == {"user", "impersonation", "api-key", "session-token", "role"}

ASSUME SessionsAssumption ==
  /\ None \notin Sessions \cup Identities \cup Kinds /\ Users \cap Machines = {}
  /\ IsFiniteSet(Sessions)
  /\ Root \in Tenants /\ RoleTenant \in Tenants /\ Trusted \in Identities
  /\ Home \in [Identities -> Tenants]
  /\ MaxSessions \in Nat \ {0} /\ MaxTokens \in Nat \ {0} /\ MaxDepth \in Nat
  /\ Lifetime \in Nat \ {0} /\ Durations \subseteq Nat \ {0} /\ MaxTime \in Nat
  /\ MaxChanges \in Nat /\ Owners \subseteq Users
  /\ "nobody" \in MfaPolicies /\ MfaPolicies \subseteq {"nobody", "owners", "everybody"}

VARIABLES
  \* collection tenants
  parent,             \* tenant -> its parent; Root is its own
  tenantStatus,       \* tenant -> active, suspended, deleted or purged
  requireMfa,         \* tenant -> whom its authPolicy requires MFA of
  allowImpersonation, \* tenant -> authPolicy.allowImpersonation
  \* collection identities
  identityStatus,     \* identity -> active, disabled or deleted
  \* collection sessions, one function per field
  row,                \* session -> unused, stored or deleted
  kind,               \* session -> its kind
  who,                \* session -> identityId
  source,             \* session -> sourceSessionId or impersonatorSessionId
  created, expires,   \* session -> createdAt, expiresAt
  mfa,                \* session -> did its sign-in pass MFA?
  \* collections roles and trusts
  watermark,          \* role.sessionsRevokedBefore
  trustRevoked,       \* trust.revoked
  now,                \* the clock
  changes,            \* administrative changes so far
  \* history
  ended,              \* sessions somebody ended, with all derived from them
  refused             \* impersonations refused because they are over

tenancy == <<parent, tenantStatus, requireMfa, allowImpersonation>>
admin == <<tenancy, identityStatus, changes>>
fields == <<kind, who, source, created, expires, mfa>>
rows == <<row, fields>>
trust == <<watermark, trustRevoked>>
vars == <<admin, rows, trust, now, ended, refused>>

TenantStatuses == {"active", "suspended", "deleted", "purged"}

Init ==
  /\ parent = [t \in Tenants |-> Root]
  /\ tenantStatus = [t \in Tenants |-> "active"]
  /\ requireMfa = [t \in Tenants |-> "nobody"]
  /\ allowImpersonation = [t \in Tenants |-> FALSE]
  /\ identityStatus = [i \in Identities |-> "active"]
  /\ row = [s \in Sessions |-> "unused"]
  /\ kind = [s \in Sessions |-> None]
  /\ who = [s \in Sessions |-> None]
  /\ source = [s \in Sessions |-> None]
  /\ created = [s \in Sessions |-> 0]
  /\ expires = [s \in Sessions |-> 0]
  /\ mfa = [s \in Sessions |-> FALSE]
  /\ watermark = 0 /\ trustRevoked = FALSE
  /\ now = 0 /\ changes = 0
  /\ ended = {} /\ refused = {}

-----------------------------------------------------------------------------
(* Tenants and identities *)

\* The tenant and everything above it: the least set with t in it that has the
\* parent of each of its members.
Ancestry(t) ==
  LET closed == {S \in SUBSET Tenants : t \in S /\ \A v \in S : parent[v] \in S}
  IN  {u \in Tenants : \A S \in closed : u \in S}

\* Mutant of Subtree: the children are forgotten.
SubtreeTop(t) == {t}

Subtree(t) == {u \in Tenants : t \in Ancestry(u)}

Active(t) == \A u \in Ancestry(t) : tenantStatus[u] = "active"

RootAdmin(i) == i \in Users /\ Home[i] = Root

MfaRequired(i) ==
  \/ RootAdmin(i)
  \/ requireMfa[Home[i]] = "everybody"
  \/ requireMfa[Home[i]] = "owners" /\ i \in Owners

-----------------------------------------------------------------------------
(* Validation: currentPrincipal and what it calls *)

Stored(s) == s \in Sessions /\ row[s] = "stored"

\* session.tenantId: a role session belongs to the tenant it acts in.
TenantOf(s) == IF kind[s] = "role" THEN RoleTenant ELSE Home[who[s]]

\* What every kind needs: a row that has not expired, an active identity,
\* and active tenants all the way up.
Live(s) ==
  /\ Stored(s)
  /\ expires[s] > now
  /\ identityStatus[who[s]] = "active"
  /\ Active(Home[who[s]])
  /\ Active(TenantOf(s))

MfaPassed(s) == MfaRequired(who[s]) => mfa[s]

\* assertImpersonationSource: the administrator's own session and identity
\* are still there and the member's tenant still allows it.
ImpersonationSource(s) ==
  LET a == source[s]
  IN  /\ Stored(a) /\ kind[a] = "user" /\ expires[a] > now
      /\ identityStatus[who[a]] = "active"
      /\ allowImpersonation[Home[who[s]]]

UserAccepted(s) == Live(s) /\ kind[s] = "user" /\ MfaPassed(s)

ImpersonationAccepted(s) ==
  Live(s) /\ kind[s] = "impersonation" /\ MfaPassed(s) /\ ImpersonationSource(s)

KeyAccepted(s) == Live(s) /\ kind[s] = "api-key"

\* actsInOwnRight: a credential that can be the source of others.
InOwnRight(s) == UserAccepted(s) \/ KeyAccepted(s)

\* Mutant of TokenSource: the source is only compared, not validated.
TokenSourceUnchecked(s) == expires[s] <= expires[source[s]] \/ ~Stored(source[s])

\* checkSessionToken: the source stands and the token does not outlive it.
TokenSource(s) == InOwnRight(source[s]) /\ expires[s] <= expires[source[s]]

TokenAccepted(s) == Live(s) /\ kind[s] = "session-token" /\ TokenSource(s)

\* checkRoleSession and checkClassicRoleSession.
RoleAccepted(s) ==
  /\ Live(s) /\ kind[s] = "role"
  /\ ~trustRevoked
  /\ created[s] >= watermark
  /\ InOwnRight(source[s]) \/ TokenAccepted(source[s])

Accepted(s) ==
  InOwnRight(s) \/ ImpersonationAccepted(s) \/ TokenAccepted(s) \/ RoleAccepted(s)

-----------------------------------------------------------------------------
(* Writing rows *)

Earlier(a, b) == IF a < b THEN a ELSE b

\* In one transaction: s becomes a row of kind k (None: no new row) and the
\* rows in gone are deleted.
Write(s, k, i, src, exp, m, gone) ==
  LET put(f, v, empty) ==
        [x \in Sessions |-> IF x \in gone THEN empty ELSE IF x = s THEN v ELSE f[x]]
  IN  /\ row' = [x \in Sessions |->
                   IF x \in gone THEN "deleted" ELSE IF x = s THEN "stored" ELSE row[x]]
      /\ kind' = put(kind, k, None)
      /\ who' = put(who, i, None)
      /\ source' = put(source, src, None)
      /\ created' = put(created, now, 0)
      /\ expires' = put(expires, exp, 0)
      /\ mfa' = put(mfa, m, FALSE)

Delete(gone) == Write(None, None, None, None, 0, FALSE, gone)

Rows(Test(_)) == {s \in Sessions : Stored(s) /\ Test(s)}

From(S) == Rows(LAMBDA s : source[s] \in S)

\* S with everything derived from it: a role session may come from a session
\* token that comes from a session.
Family(S) == S \cup From(S) \cup From(From(S))

\* Somebody ends the sessions S for good; history only.
Ends(S) == ended' = ended \cup Family(S)

\* endSession: the row and the impersonations opened through it.
Ended(S) == S \cup {s \in From(S) : kind[s] = "impersonation"}

EndSessions(S) == Delete(Ended(S)) /\ Ends(S)

-----------------------------------------------------------------------------
(* Issuing *)

Fresh(s) == row[s] = "unused"

\* Mutant of Excess: one session too many is left.
ExcessLate(n) == IF n > MaxSessions + 1 THEN n - MaxSessions - 1 ELSE 0

\* How many of n live sessions have to make room.
Excess(n) == IF n > MaxSessions THEN n - MaxSessions ELSE 0

\* The oldest sessions of a person over the cap.  Ids are random, so those of
\* the same instant come in any order; the new session is one of them.
Evicted(s, i, old) ==
  LET live == {s} \cup Rows(LAMBDA x : kind[x] = "user" /\ who[x] = i /\ expires[x] > now)
      age(x) == IF x = s THEN now ELSE created[x]
  IN  /\ old \subseteq live /\ Cardinality(old) = Excess(Cardinality(live))
      /\ \A x \in old, y \in live \ old : age(x) <= age(y)

\* issueSession, at the end of every sign-in ceremony.
IssueSession(s, i, m) ==
  /\ Fresh(s) /\ i \in Users
  /\ identityStatus[i] = "active" /\ Active(Home[i])
  /\ MfaRequired(i) => m
  /\ \E old \in SUBSET Sessions :
       /\ Evicted(s, i, old)
       /\ Write(s, "user", i, None, now + Lifetime, m, Ended(old))
       /\ Ends(old)
  /\ UNCHANGED <<admin, trust, now, refused>>

\* identities.impersonate and issueImpersonationSession: administrators act
\* in their own tenant, root administrators anywhere.
IssueImpersonationSession(s, a, i, d) ==
  /\ Fresh(s) /\ UserAccepted(a) /\ i \in Users \ {who[a]}
  /\ ~RootAdmin(i) /\ i \notin Owners /\ (RootAdmin(who[a]) \/ Home[who[a]] = Home[i])
  /\ identityStatus[i] = "active" /\ Active(Home[i])
  /\ allowImpersonation[Home[i]]
  /\ MfaRequired(i) => mfa[a]
  /\ Write(s, "impersonation", i, a, Earlier(expires[a], now + d), mfa[a], {})
  /\ UNCHANGED <<admin, trust, now, ended, refused>>

\* tokenStanding "dead": taken for never usable again.
Dead(s) ==
  \/ expires[s] <= now
  \/ ~Stored(source[s])
  \/ expires[source[s]] <= now
  \/ expires[s] > expires[source[s]]

\* tokenStanding "live"; a token whose source is refused for a reason that
\* can be lifted is "suspended" and holds no place.
HoldsPlace(s) == ~Dead(s) /\ InOwnRight(source[s])

\* sts.getSessionToken: dead tokens of the identity are deleted, live ones
\* counted against the cap.
IssueSessionToken(s, src, d) ==
  /\ Fresh(s) /\ InOwnRight(src)
  /\ LET tokens == Rows(LAMBDA x : kind[x] = "session-token" /\ who[x] = who[src])
     IN  /\ Cardinality({x \in tokens : HoldsPlace(x)}) < MaxTokens
         /\ Write(s, "session-token", who[src], src, Earlier(expires[src], now + d), mfa[src],
                  {x \in tokens : Dead(x)})
  /\ UNCHANGED <<admin, trust, now, ended, refused>>

\* roles.assume: no chaining, no impersonation, a trust that names the caller.
AssumeRole(s, src, d) ==
  /\ Fresh(s) /\ (InOwnRight(src) \/ TokenAccepted(src))
  /\ who[src] = Trusted /\ ~trustRevoked
  /\ Active(RoleTenant)
  /\ Write(s, "role", Trusted, src, Earlier(expires[src], now + d), mfa[src], {})
  /\ UNCHANGED <<admin, trust, now, ended, refused>>

\* credentials.create: a root administrator may do so in a suspended tenant.
CreateKey(s, i, d) ==
  /\ Fresh(s) /\ i \in Machines
  /\ identityStatus[i] = "active"
  /\ Write(s, "api-key", i, None, now + d, FALSE, {})
  /\ UNCHANGED <<admin, trust, now, ended, refused>>

\* credentials.rotate: new key material, the expiry stays.
RotateKey(old, s) ==
  /\ Fresh(s) /\ Stored(old) /\ kind[old] = "api-key"
  /\ Write(s, "api-key", who[old], None, expires[old], FALSE, {old})
  /\ Ends({old})
  /\ UNCHANGED <<admin, trust, now, refused>>

\* credentials.update: the expiry moves, also of a key that has expired.
UpdateKey(s, d) ==
  /\ Stored(s) /\ kind[s] = "api-key"
  /\ expires' = [expires EXCEPT ![s] = now + d]
  /\ UNCHANGED <<admin, row, kind, who, source, created, mfa, trust, now,
                 ended, refused>>

-----------------------------------------------------------------------------
(* Ending *)

\* credentials.revoke
RevokeKey(s) ==
  /\ Stored(s) /\ kind[s] = "api-key"
  /\ Delete({s}) /\ Ends({s})
  /\ UNCHANGED <<admin, trust, now, refused>>

\* auth.signOut, also of a view-as session.
SignOut(s) ==
  /\ UserAccepted(s) \/ ImpersonationAccepted(s)
  /\ EndSessions({s})
  /\ UNCHANGED <<admin, trust, now, refused>>

\* auth.revokeSession: any session the person has in the own tenant.
RevokeSession(c, s) ==
  /\ UserAccepted(c)
  /\ Stored(s) /\ who[s] = who[c] /\ TenantOf(s) = Home[who[c]]
  /\ EndSessions({s})
  /\ UNCHANGED <<admin, trust, now, refused>>

\* auth.revokeOtherSessions: every other user session, view-as ones included.
RevokeOtherSessions(c) ==
  /\ UserAccepted(c)
  /\ EndSessions(Rows(LAMBDA s : kind[s] \in {"user", "impersonation"} /\ who[s] = who[c]) \ {c})
  /\ UNCHANGED <<admin, trust, now, refused>>

\* identities.revokeSessions
RevokeSessions(i, keepApiKeys) ==
  /\ EndSessions(Rows(LAMBDA s : who[s] = i /\ ~(keepApiKeys /\ kind[s] = "api-key")))
  /\ UNCHANGED <<admin, trust, now, refused>>

\* tenants.revokeSessions; keep is the caller's own session or None.
RevokeTenantSessions(t, keep) ==
  /\ keep = None \/ (UserAccepted(keep) /\ Home[who[keep]] = t)
  /\ EndSessions(Rows(LAMBDA s : t \in {TenantOf(s), Home[who[s]]}) \ {keep})
  /\ UNCHANGED <<admin, trust, now, refused>>

\* Mutant of NextWatermark: sessions of this very instant are spared.
NextWatermarkNow(before) == IF before < watermark THEN watermark ELSE Earlier(before, now)

\* nextWatermark: only forward.
NextWatermark(before) == IF before < watermark THEN watermark ELSE before

\* roles.revokeSessions with before, by default everything issued so far: the
\* watermark moves and the rows below it go.
RevokeRoleSessions(before) ==
  /\ before <= now + 1
  /\ LET meant == Rows(LAMBDA s : kind[s] = "role" /\ created[s] < before)
     IN  /\ watermark' = NextWatermark(before)
         /\ Delete(Rows(LAMBDA s : kind[s] = "role" /\ created[s] < NextWatermark(before)))
         /\ Ends(meant)
  /\ UNCHANGED <<admin, trustRevoked, now, refused>>

\* trust.revoke
RevokeTrust ==
  /\ ~trustRevoked /\ trustRevoked' = TRUE
  /\ Delete(Rows(LAMBDA s : kind[s] = "role"))
  /\ Ends(Rows(LAMBDA s : kind[s] = "role"))
  /\ UNCHANGED <<admin, watermark, now, refused>>

\* The bound on the administrative changes below.
Change == changes < MaxChanges /\ changes' = changes + 1

\* identities.setStatus and serviceAccounts.setStatus: disabling revokes
\* everything (revokeAll).
SetStatus(i, status) ==
  /\ Change /\ identityStatus[i] # "deleted"
  /\ identityStatus' = [identityStatus EXCEPT ![i] = status]
  /\ IF status = "active"
     THEN UNCHANGED <<rows, ended>>
     ELSE EndSessions(Rows(LAMBDA s : who[s] = i))
  /\ UNCHANGED <<tenancy, trust, now, refused>>

\* deleteIdentity revokes everything too and leaves a tombstone.
DeleteIdentity(i) ==
  /\ Change /\ identityStatus[i] # "deleted"
  /\ identityStatus' = [identityStatus EXCEPT ![i] = "deleted"]
  /\ EndSessions(Rows(LAMBDA s : who[s] = i))
  /\ UNCHANGED <<tenancy, trust, now, refused>>

-----------------------------------------------------------------------------
(* The tenant tree *)

\* tenants.setStatus: leaving "active" deletes the sessions of the whole
\* subtree; deletion takes the subtree along.
SetTenantStatus(t, status) ==
  /\ Change /\ t # Root /\ tenantStatus[t] \notin {"deleted", "purged"}
  /\ status = "active" => Active(parent[t])
  /\ IF status = "active"
     THEN /\ tenantStatus' = [tenantStatus EXCEPT ![t] = "active"]
          /\ UNCHANGED <<rows, ended>>
     ELSE LET affected == Subtree(t)
              hit == Rows(LAMBDA s : {TenantOf(s), Home[who[s]]} \cap affected # {})
              takenAlong == {u \in affected : status = "deleted" /\ tenantStatus[u] # "purged"}
          IN  /\ tenantStatus' = [u \in Tenants |->
                    IF u = t \/ u \in takenAlong THEN status ELSE tenantStatus[u]]
              /\ Delete(hit) /\ Ends(hit)
  /\ UNCHANGED <<parent, requireMfa, allowImpersonation, identityStatus, trust, now, refused>>

\* Every chain of tenants keeps to maxDepth when t moves under p.
FitsUnder(t, p) ==
  \A u \in Subtree(t) :
    Cardinality(Ancestry(p)) + Cardinality(Ancestry(u) \ Ancestry(t)) + 1 <= MaxDepth

\* tenants.reparent
Reparent(t, p) ==
  /\ Change /\ t # Root /\ p # parent[t]
  /\ tenantStatus[t] \notin {"deleted", "purged"}
  /\ Active(p) /\ p \notin Subtree(t)
  /\ FitsUnder(t, p)
  /\ parent' = [parent EXCEPT ![t] = p]
  /\ UNCHANGED <<tenantStatus, requireMfa, allowImpersonation, identityStatus, rows, trust, now,
                 ended, refused>>

\* tenants.setAuthPolicy
SetAuthPolicy(t, require, allow) ==
  /\ Change /\ tenantStatus[t] \notin {"deleted", "purged"}
  /\ requireMfa' = [requireMfa EXCEPT ![t] = require]
  /\ allowImpersonation' = [allowImpersonation EXCEPT ![t] = allow]
  /\ UNCHANGED <<parent, tenantStatus, identityStatus, rows, trust, now, ended, refused>>

\* purgeDeleted: a deleted tenant's records, and role sessions sourced there.
Purge(t) ==
  /\ Change /\ tenantStatus[t] = "deleted"
  /\ LET purged == Subtree(t)
         hit == Rows(LAMBDA s : {TenantOf(s), Home[who[s]]} \cap purged # {})
     IN  /\ tenantStatus' = [u \in Tenants |-> IF u \in purged THEN "purged" ELSE tenantStatus[u]]
         /\ identityStatus' = [i \in Identities |->
                                 IF Home[i] \in purged THEN "deleted" ELSE identityStatus[i]]
         /\ Delete(hit) /\ Ends(hit)
  /\ UNCHANGED <<parent, requireMfa, allowImpersonation, trust, now, refused>>

-----------------------------------------------------------------------------
(* Use and time *)

\* An impersonation session is presented after it is over.  Validation
\* deletes its row and throws, and the throw undoes the deletion.
RefuseImpersonation(s) ==
  /\ Live(s) /\ kind[s] = "impersonation" /\ MfaPassed(s)
  /\ ~ImpersonationSource(s)
  /\ refused' = refused \cup {s}
  /\ UNCHANGED <<admin, rows, trust, now, ended>>

\* sweepExpired: API keys stay.
Sweep(s) ==
  /\ Stored(s) /\ kind[s] # "api-key" /\ expires[s] <= now
  /\ Delete({s})
  /\ UNCHANGED <<admin, trust, now, ended, refused>>

Tick ==
  /\ now < MaxTime
  /\ now' = now + 1
  /\ UNCHANGED <<admin, rows, trust, ended, refused>>

-----------------------------------------------------------------------------
Issue ==
  \E s \in Sessions :
    \/ \E i \in Users, m \in BOOLEAN : IssueSession(s, i, m)
    \/ \E a \in Sessions, i \in Users, d \in Durations : IssueImpersonationSession(s, a, i, d)
    \/ \E src \in Sessions, d \in Durations : IssueSessionToken(s, src, d)
    \/ \E src \in Sessions, d \in Durations : AssumeRole(s, src, d)
    \/ \E i \in Machines, d \in Durations : CreateKey(s, i, d)
    \/ \E old \in Sessions : RotateKey(old, s)

Revoke ==
  \/ \E s \in Sessions : RevokeKey(s) \/ SignOut(s) \/ RevokeOtherSessions(s)
  \/ \E c, s \in Sessions : RevokeSession(c, s)
  \/ \E i \in Identities, keepApiKeys \in BOOLEAN : RevokeSessions(i, keepApiKeys)
  \/ \E t \in Tenants, keep \in Sessions \cup {None} : RevokeTenantSessions(t, keep)
  \/ \E before \in 0..MaxTime + 1 : RevokeRoleSessions(before)
  \/ RevokeTrust
  \/ \E i \in Identities, status \in {"active", "disabled"} : SetStatus(i, status)
  \/ \E i \in Identities : DeleteIdentity(i)

Administer ==
  \/ \E t \in Tenants, status \in {"active", "suspended", "deleted"} : SetTenantStatus(t, status)
  \/ \E t, p \in Tenants : Reparent(t, p)
  \/ \E t \in Tenants, require \in MfaPolicies, allow \in BOOLEAN : SetAuthPolicy(t, require, allow)
  \/ \E t \in Tenants : Purge(t)

Next ==
  \/ Issue \/ Revoke \/ Administer
  \/ \E s \in Sessions, d \in Durations : UpdateKey(s, d)
  \/ \E s \in Sessions : RefuseImpersonation(s) \/ Sweep(s)
  \/ Tick

Spec == Init /\ [][Next]_vars
=============================================================================
