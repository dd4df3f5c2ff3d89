----------------------------- MODULE Ownership -----------------------------
(***************************************************************************)
(* Who owns a tenant, and with which authority: setOwner, setStatus,       *)
(* offboard, delete and the expiry of people in packages/server/src/       *)
(* api/identities.ts, with protectLastOwner, grantingAuthority and         *)
(* authorityChain of context.ts and the expiry sweep of lifecycle.ts.      *)
(*                                                                         *)
(* An owner holds the protected Owner role through a binding made under an *)
(* unlimited grant authority that hangs below the authority of whoever     *)
(* promoted them.  Only these authorities are modelled.  Everybody but the *)
(* owners and the platform's root administrator can at most do to          *)
(* non-owners what these two can.                                          *)
(***************************************************************************)
EXTENDS Naturals, FiniteSets, Functions

CONSTANTS
  People,       \* users of the tenant, in the order they were created
  Authorities,  \* ids of grant authorities, never used twice
  FirstOwner, FirstAuthority,
  Root,         \* the root administrator
  RootIssued,   \* the root administrator's authority in this tenant
  MaxExpiries,  \* bound on expiries set
  Nothing

\* What is stored of a grant authority.
AuthorityRows == [holder : People \cup {Root}, parent : Authorities \cup {RootIssued, Nothing}, revoked : BOOLEAN]

ASSUME OwnershipAssumption ==
  /\ IsFiniteSet(People) /\ People \subseteq Nat /\ FirstOwner \in People
  /\ FirstAuthority \in Authorities /\ RootIssued \notin Authorities
  /\ Nothing \notin Authorities \cup {RootIssued} \cup AuthorityRows
  /\ MaxExpiries \in Nat

VARIABLES
  status,     \* person -> active, disabled or deleted
  owner,      \* the people whose record says owner
  expiry,     \* person -> none, set or passed
  bound,      \* person -> the authority of their Owner binding, Nothing without one
  authority,  \* id -> [holder, parent, revoked], or Nothing
  left,       \* history: the owners that were offboarded or deleted
  expiries,   \* history: expiries set
  swept       \* history: an owner was disabled by the sweep

records == <<status, owner, expiry>>
history == <<left, expiries, swept>>
ownershipVars == <<records, bound, authority, history>>

NewAuthority(holder, parent) == [holder |-> holder, parent |-> parent, revoked |-> FALSE]

OwnershipInit ==
  /\ status = [p \in People |-> "active"]
  /\ owner = {FirstOwner}
  /\ expiry = [p \in People |-> "none"]
  /\ bound = [p \in People |-> IF p = FirstOwner THEN FirstAuthority ELSE Nothing]
  /\ authority = [a \in Authorities \cup {RootIssued} |->
       CASE a = RootIssued -> NewAuthority(Root, Nothing)
         [] a = FirstAuthority -> NewAuthority(FirstOwner, Nothing)
         [] OTHER -> Nothing]
  /\ left = {} /\ expiries = 0 /\ swept = FALSE

----------------------------------------------------------------------------
Active(p) == status[p] = "active"

ActiveOwners == {p \in owner : Active(p)}

Issued == {a \in DOMAIN authority : authority[a] # Nothing}

\* authorityChain: the authority and all above it, up to one that has none
\* above it, are in force.
InForce(a) ==
  \E chain \in SUBSET Issued :
    /\ a \in chain
    /\ \A b \in chain : ~authority[b].revoked /\ authority[b].parent \in chain \cup {Nothing}

\* What is granted through the Owner role.
Works(p) == bound[p] # Nothing /\ InForce(bound[p])

Owns(a) == a \in ActiveOwners /\ expiry[a] # "passed" /\ Works(a)

\* Who may act on a person, an owner or not.
Actors == {Root} \cup {p \in People : Owns(p)}

\* protectLastOwner
Spared(p) == Active(p) /\ p \in owner => Cardinality(ActiveOwners) > 1

\* grantingAuthority: one the actor holds whose chain is in force.
GrantingAuthorities(a) == {b \in Issued : authority[b].holder = a /\ InForce(b)}

----------------------------------------------------------------------------
(* setOwner. *)
Promote(a, p, id) ==
  /\ Active(p) /\ p \notin owner
  /\ authority[id] = Nothing
  /\ \E parent \in GrantingAuthorities(a) :
       authority' = [authority EXCEPT ![id] = NewAuthority(p, parent)]
  /\ bound' = [bound EXCEPT ![p] = id]
  /\ owner' = owner \cup {p}
  /\ UNCHANGED <<status, expiry, history>>

\* The caller, or else the owner who is there longest.
Successor(a, p) ==
  LET others == ActiveOwners \ {p}
  IN  IF a # Root /\ a # p THEN a
      ELSE IF others = {} THEN Nothing
      ELSE CHOOSE q \in others : \A r \in others : q <= r

PassedOnRevoked(p, successor) == [authority EXCEPT ![bound[p]].revoked = TRUE]

\* The authority of the Owner binding leaves with it, to the successor.
PassedOn(p, successor) ==
  IF authority[bound[p]].holder = p /\ successor # Nothing
  THEN [authority EXCEPT ![bound[p]].holder = successor]
  ELSE authority

Demote(a, p) ==
  /\ Active(p) /\ p \in owner /\ Spared(p)
  /\ bound' = [bound EXCEPT ![p] = Nothing]
  /\ authority' = IF bound[p] = Nothing THEN authority ELSE PassedOn(p, Successor(a, p))
  /\ owner' = owner \ {p}
  /\ UNCHANGED <<status, expiry, history>>

----------------------------------------------------------------------------
(* Leaving: what offboard and delete have in common. *)
Leave(a, p, as) ==
  /\ a # p /\ status[p] # "deleted" /\ Spared(p)
  /\ bound' = [bound EXCEPT ![p] = Nothing]
  /\ authority' = [b \in DOMAIN authority |->
       IF b \in Issued /\ authority[b].holder = p THEN [authority[b] EXCEPT !.revoked = TRUE]
       ELSE authority[b]]
  /\ status' = [status EXCEPT ![p] = as]
  /\ owner' = owner \ {p}
  /\ left' = IF \E b \in Issued : authority[b].holder = p THEN left \cup {p} ELSE left
  /\ UNCHANGED <<expiry, expiries, swept>>

Offboard(a, p) == Leave(a, p, "disabled")

Delete(a, p) == Leave(a, p, "deleted")

----------------------------------------------------------------------------
(* setStatus and the expiry of people. *)
SetStatus(p, to) ==
  /\ status[p] \in {"active", "disabled"} /\ status[p] # to
  /\ to = "disabled" => Spared(p)
  /\ to = "active" => expiry[p] # "passed"
  /\ status' = [status EXCEPT ![p] = to]
  /\ UNCHANGED <<owner, expiry, bound, authority, history>>

\* The last owner without an expiry is given none.
OthersStay(p) == \E q \in ActiveOwners \ {p} : expiry[q] = "none"

SetExpiry(p) ==
  /\ status[p] # "deleted"
  /\ expiries < MaxExpiries
  /\ p \in owner => Spared(p) /\ (expiry[p] = "none" => OthersStay(p))
  /\ expiry' = [expiry EXCEPT ![p] = "set"]
  /\ expiries' = expiries + 1
  /\ UNCHANGED <<status, owner, bound, authority, left, swept>>

ClearExpiry(p) ==
  /\ status[p] # "deleted" /\ expiry[p] # "none"
  /\ expiry' = [expiry EXCEPT ![p] = "none"]
  /\ UNCHANGED <<status, owner, bound, authority, history>>

TimePasses(p) ==
  /\ expiry[p] = "set"
  /\ expiry' = [expiry EXCEPT ![p] = "passed"]
  /\ UNCHANGED <<status, owner, bound, authority, history>>

\* The sweep disables everybody past their expiry.
SweepExpired ==
  LET over == {p \in People : Active(p) /\ expiry[p] = "passed"}
  IN  /\ over # {}
      /\ status' = [p \in People |-> IF p \in over THEN "disabled" ELSE status[p]]
      /\ swept' = (swept \/ over \cap owner # {})
      /\ UNCHANGED <<owner, expiry, bound, authority, left, expiries>>

OwnershipNext ==
  \/ \E a \in Actors, p \in People :
       \/ \E id \in Authorities : Promote(a, p, id)
       \/ Demote(a, p) \/ Offboard(a, p) \/ Delete(a, p)
  \/ \E p \in People :
       \/ \E to \in {"active", "disabled"} : SetStatus(p, to)
       \/ SetExpiry(p) \/ ClearExpiry(p) \/ TimePasses(p)
  \/ SweepExpired

OwnershipSpec == OwnershipInit /\ [][OwnershipNext]_ownershipVars

----------------------------------------------------------------------------
\* Whatever is promoted, demoted, disabled and enabled: the people the records
\* call owners are those with an Owner binding, some owner is active unless the
\* sweep took them, and as long as none with an authority has left, every
\* owner's authority is in force, although those above it were demoted.
OwnersStand ==
  /\ \A p \in People : p \in owner <=> bound[p] # Nothing
  /\ ActiveOwners # {} \/ swept
  /\ left = {} => \A p \in owner : Works(p)

\* "The last owner without an expiry keeps none, or every owner could be
\* scheduled away with nobody left to undo it" (api/identities.ts:1197): some
\* owner stays active.
OwnersNotScheduledAway == ActiveOwners # {}
=============================================================================
