------------------------- MODULE SessionProperties --------------------------
(* What sessions and derived credentials must guarantee. *)
EXTENDS Sessions

\* Every variable keeps its shape, and a deleted row leaves nothing behind.
TypeOK ==
  /\ parent \in [Tenants -> Tenants]
  /\ tenantStatus \in [Tenants -> TenantStatuses]
  /\ requireMfa \in [Tenants -> MfaPolicies]
  /\ allowImpersonation \in [Tenants -> BOOLEAN]
  /\ identityStatus \in [Identities -> {"active", "disabled", "deleted"}]
  /\ row \in [Sessions -> {"unused", "stored", "deleted"}]
  /\ kind \in [Sessions -> Kinds \cup {None}]
  /\ who \in [Sessions -> Identities \cup {None}]
  /\ source \in [Sessions -> Sessions \cup {None}]
  /\ created \in [Sessions -> Nat]
  /\ expires \in [Sessions -> Nat]
  /\ mfa \in [Sessions -> BOOLEAN]
  /\ watermark \in Nat /\ trustRevoked \in BOOLEAN
  /\ now \in Nat /\ changes \in 0..MaxChanges
  /\ ended \subseteq Sessions /\ refused \subseteq Sessions
  /\ \A s \in Sessions : row[s] = "stored" <=> who[s] # None
  /\ \A s \in Sessions : row[s] # "stored" => expires[s] = 0

\* What somebody ended is over for good: no session that was signed out,
\* evicted, revoked, rotated or caught by a disabled identity, a suspended
\* tenant or a watermark is ever accepted again, and neither is anything that
\* was derived from it, whatever is re-enabled, reactivated, moved or renewed
\* afterwards.  Session tokens and assumed roles keep their rows when their
\* source goes; only the validation stands between them and their holder.
EndedStayEnded == \A s \in ended : ~Accepted(s)

\* A derived credential is worth nothing without its source.  Session tokens
\* and roles re-validate it.  An impersonation only looks at parts of it and
\* not at the administrator's tenant, and still never outlives the sign-in it
\* was opened from; an MFA requirement on that sign-in does not reach it.
DerivedNeedsSource ==
  \A s \in Sessions :
    Accepted(s) /\ source[s] # None =>
      IF kind[s] = "impersonation" THEN Live(source[s]) ELSE Accepted(source[s])

\* Suspension reaches the whole subtree and every role assumed from it, and
\* no move of tenants brings a session under an inactive one: only an API key
\* that a root administrator issues meanwhile is stored there.
NoStrandedSessions ==
  \A s \in Sessions :
    Stored(s) /\ kind[s] # "api-key" => Active(Home[who[s]]) /\ Active(TenantOf(s))

\* authPolicy.maxSessions: "the oldest ends when one more is issued"
\* (docs/architecture.md:80), counting only live sessions of the person's own.
SessionsWithinCap ==
  \A i \in Users :
    Cardinality(Rows(LAMBDA s : kind[s] = "user" /\ who[s] = i /\ expires[s] > now)) <= MaxSessions

\* The comment of assertImpersonationSource (base.ts:1142): an impersonation
\* that is over "is refused (and removed on sight)", so it cannot come back.
RefusedStaysRefused == \A s \in refused : ~Accepted(s)
=============================================================================
