---------------------------- MODULE AccessGrants ----------------------------
(***************************************************************************)
(* What one member of a tenant is granted: roles that inherit from each    *)
(* other, policies attached to them, bindings, and the grant authorities   *)
(* each of them was made under (packages/server/src/api/roles.ts,          *)
(* policies.ts, bindings.ts), with what a role forbids (decisions.ts).     *)
(* What it all adds up to is in AccessDecisions.                           *)
(*                                                                         *)
(* A document is the requests it allows and those it denies, a ceiling the *)
(* requests it lets through.  Editors have the permission to call each     *)
(* operation; what stops them is what they hold authority over.  The tree  *)
(* of authorities is fixed but for revocations.  Bindings are standing,    *)
(* and the protected Owner role is left to Ownership.                      *)
(***************************************************************************)
EXTENDS Naturals, Sequences, FiniteSets, Functions

CONSTANTS
  Requests,
  Documents,      \* the documents written: [allow, deny]
  Roles, Policies,
  GrantIds,       \* grant authorities
  HolderOf,       \* authority -> who holds it
  ParentOf,       \* authority -> the one above it, or Absent
  CeilingOf,      \* authority -> requests
  Administrator,  \* the root administrator, who holds TopGrant
  TopGrant,
  MaxVersions, MaxBindings, MaxRevocations,  \* bounds
  Absent

\* What is stored of a role and of a policy.
RoleRows == [author : GrantIds, document : Documents, policies : SUBSET Policies, inherits : Seq(Roles)]
PolicyRows == [author : GrantIds, versions : Seq(Documents)]

ASSUME GrantsAssumption ==
  /\ Documents \subseteq [allow : SUBSET Requests, deny : SUBSET Requests]
  /\ IsFiniteSet(Roles)
  /\ TopGrant \in GrantIds /\ HolderOf[TopGrant] = Administrator
  /\ \A a \in GrantIds : ParentOf[a] \in GrantIds \cup {Absent} /\ CeilingOf[a] \subseteq Requests
  /\ Absent \notin GrantIds \cup RoleRows \cup PolicyRows
  /\ {MaxVersions, MaxBindings, MaxRevocations} \subseteq Nat

VARIABLES
  revoked,  \* authorities
  role,     \* role -> [author, document, policies, inherits], or Absent
  policy,   \* policy -> [author, versions], the last one in force, or Absent
  binding,  \* the member's: pairs of a role and an authority
  editor    \* history: who took a deny from the member in the last step, or Absent

accessVars == <<revoked, role, policy, binding, editor>>

AccessInit ==
  /\ revoked = {} /\ binding = {} /\ editor = Absent
  /\ role = [r \in Roles |-> Absent] /\ policy = [p \in Policies |-> Absent]

Defined == {r \in DOMAIN role : role[r] # Absent}
Stored == {p \in Policies : policy[p] # Absent}
Heirs(r) == Range(role[r].inherits)
Current(p) == policy[p].versions[Len(policy[p].versions)]

----------------------------------------------------------------------------
(* authorityChain and grantingAuthority. *)
ChainAbove(a) ==
  LET chain[b \in GrantIds] == {b} \cup (IF ParentOf[b] = Absent THEN {} ELSE chain[ParentOf[b]])
  IN  chain[a]

ChainInForce(a) == ChainAbove(a) \cap revoked = {}

Ceilings(a) == {q \in Requests : \A b \in ChainAbove(a) : q \in CeilingOf[b]}

\* The root administrator is handed its own without a look at the chain.
MayGrantUnder(e) ==
  IF e = Administrator THEN {TopGrant} ELSE {a \in GrantIds : HolderOf[a] = e /\ ChainInForce(a)}

CanEdit(e, record) == e = Administrator \/ record.author \in MayGrantUnder(e)

----------------------------------------------------------------------------
(* roleDenies: everything a role and those it inherits forbid, whoever is  *)
(* behind them, leaving out what was seen.                                 *)

\* The least set with what is found that has what each of its members
\* inherits, but for what was seen.
Reached(roles, found, seen) ==
  LET stored == {r \in DOMAIN roles : roles[r] # Absent}
      closed == {s \in SUBSET stored :
                   found \subseteq s /\ \A r \in s : Range(roles[r].inherits) \ seen \subseteq s}
  IN  {r \in stored : \A s \in closed : r \in s}

DenyOfLiveOnly(roles, r) ==
  IF ChainInForce(roles[r].author)
  THEN roles[r].document.deny \cup UNION {Current(p).deny : p \in roles[r].policies}
  ELSE {}

DenyOf(roles, r) ==
  roles[r].document.deny \cup UNION {Current(p).deny : p \in roles[r].policies}

DenyAmong(roles, rs) == UNION {DenyOf(roles, r) : r \in rs}

Forbids(roles, r) == DenyAmong(roles, Reached(roles, {r}, {}))

----------------------------------------------------------------------------
(* reliedOnByOthers and assertDeniesKept. *)
CoveredThemselves(rs) == rs

\* The least set with rs that has whoever inherits from one of its members.
Covered(rs) ==
  LET closed == {s \in SUBSET Defined :
                   rs \subseteq s /\ \A r \in Defined : Heirs(r) \cap s # {} => r \in s}
  IN  {r \in Defined : \A s \in closed : r \in s}

ReliedOnByOthers(a, rs) ==
  \/ \E r \in Covered(rs) : role[r].author # a
  \/ \E b \in binding : b[1] \in Covered(rs) /\ b[2] # a

DeniesKept(e, before, after, a, rs) ==
  before \subseteq after \/ e = Administrator \/ ~ReliedOnByOthers(a, rs)

----------------------------------------------------------------------------
(* policies.create, update, restoreVersion and delete. *)
CreatePolicy(e, p, document) ==
  /\ policy[p] = Absent
  /\ \E a \in MayGrantUnder(e) :
       policy' = [policy EXCEPT ![p] = [author |-> a, versions |-> <<document>>]]
  /\ UNCHANGED <<revoked, role, binding>>

\* An update, or an earlier version again, as the next version.
WritePolicy(e, p, document) ==
  /\ p \in Stored /\ MayGrantUnder(e) # {} /\ CanEdit(e, policy[p])
  /\ Len(policy[p].versions) < MaxVersions
  /\ DeniesKept(e, Current(p).deny, document.deny, policy[p].author,
                {r \in Defined : p \in role[r].policies})
  /\ policy' = [policy EXCEPT ![p].versions = Append(@, document)]
  /\ UNCHANGED <<revoked, role, binding>>

UpdatePolicy(e, p, document) == WritePolicy(e, p, document)

RestoreVersion(e, p) ==
  \E v \in 1..(Len(policy[p].versions) - 1) : WritePolicy(e, p, policy[p].versions[v])

DeletePolicy(e, p) ==
  /\ p \in Stored /\ CanEdit(e, policy[p])
  /\ \A r \in Defined : p \notin role[r].policies
  /\ policy' = [policy EXCEPT ![p] = Absent]
  /\ UNCHANGED <<revoked, role, binding>>

----------------------------------------------------------------------------
(* createRole, updateRole, deleteRole. *)
\* inheritance: the roles exist, and none leads back to r.
MayInherit(r, inherits) ==
  /\ Range(inherits) \subseteq Defined
  /\ r \notin Reached(role, Range(inherits), {})

CreateRole(e, r, document, policies, inherits) ==
  /\ r \notin Defined /\ policies \subseteq Stored /\ MayInherit(r, inherits)
  /\ \E a \in MayGrantUnder(e) :
       role' = [role EXCEPT ![r] =
         [author |-> a, document |-> document, policies |-> policies, inherits |-> inherits]]
  /\ UNCHANGED <<revoked, policy, binding>>

UpdateRole(e, r, document, policies, inherits) ==
  LET next == [role EXCEPT ![r].document = document, ![r].policies = policies,
                           ![r].inherits = inherits]
  IN  /\ r \in Defined /\ MayGrantUnder(e) # {} /\ CanEdit(e, role[r])
      /\ policies \subseteq Stored /\ MayInherit(r, inherits)
      /\ DeniesKept(e, Forbids(role, r), Forbids(next, r), role[r].author, {r})
      /\ role' = next
      /\ UNCHANGED <<revoked, policy, binding>>

DeleteRole(e, r) ==
  /\ r \in Defined /\ CanEdit(e, role[r])
  /\ \A s \in Defined : r \notin Heirs(s)
  /\ DeniesKept(e, Forbids(role, r), {}, role[r].author, {r})
  /\ binding' = {b \in binding : b[1] # r}
  /\ role' = [role EXCEPT ![r] = Absent]
  /\ UNCHANGED <<revoked, policy>>

----------------------------------------------------------------------------
(* bindings.create and delete, authorities.revoke. *)
CreateBinding(e, r, a) ==
  /\ r \in Defined /\ <<r, a>> \notin binding /\ Cardinality(binding) < MaxBindings
  /\ a \in MayGrantUnder(e) \/ (ChainInForce(a) /\ (e = Administrator \/ HolderOf[a] = e))
  /\ binding' = binding \cup {<<r, a>>}
  /\ UNCHANGED <<revoked, role, policy>>

DeleteBinding(e, b) ==
  /\ e = Administrator \/ HolderOf[b[2]] = e
  /\ binding' = binding \ {b}
  /\ UNCHANGED <<revoked, role, policy>>

\* By root, or by who holds the authority above.
RevokeAuthority(e, a) ==
  /\ a \notin revoked /\ Cardinality(revoked) < MaxRevocations
  /\ e = Administrator \/ (ParentOf[a] # Absent /\ HolderOf[ParentOf[a]] = e /\ HolderOf[a] # e)
  /\ revoked' = revoked \cup {a}
  /\ UNCHANGED <<role, policy, binding>>

\* What a role may be given to inherit: others, each of them once, in an order.
Inheritances(r) ==
  UNION {{s \in [1..n -> Roles \ {r}] : IsInjective(s)} : n \in 0..(Cardinality(Roles) - 1)}

WriteRole(e, r) ==
  \E document \in Documents, policies \in SUBSET Policies, inherits \in Inheritances(r) :
    \/ CreateRole(e, r, document, policies, inherits)
    \/ UpdateRole(e, r, document, policies, inherits)

\* The step takes a deny from the member that a binding carried.
Taken(b) == ~(Forbids(role, b[1]) \subseteq (IF b \in binding' THEN Forbids(role, b[1])' ELSE {}))

AccessNext ==
  \E e \in {HolderOf[a] : a \in GrantIds} :
    /\ \/ \E p \in Policies :
            \/ \E document \in Documents : CreatePolicy(e, p, document) \/ UpdatePolicy(e, p, document)
            \/ (p \in Stored /\ RestoreVersion(e, p)) \/ DeletePolicy(e, p)
       \/ \E r \in Roles : WriteRole(e, r) \/ DeleteRole(e, r)
       \/ \E r \in Roles, a \in GrantIds : CreateBinding(e, r, a)
       \/ \E b \in binding : DeleteBinding(e, b)
       \/ \E a \in GrantIds : RevokeAuthority(e, a)
    /\ editor' = IF \E b \in binding : Taken(b) THEN e ELSE Absent

AccessSpec == AccessInit /\ [][AccessNext]_accessVars

----------------------------------------------------------------------------
\* Nobody but root takes a deny from what somebody else bound the member to.
DenyStays ==
  editor' # Absent => \A b \in binding : Taken(b) => editor' \in {Administrator, HolderOf[b[2]]}

BoundDeniesStay == [][DenyStays]_accessVars
=============================================================================
