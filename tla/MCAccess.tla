------------------------------ MODULE MCAccess ------------------------------
(***************************************************************************)
(* Instances of what members of a tenant have rights by, for one run of    *)
(* TLC: roles, policies and bindings, and the ownership of the tenant.     *)
(* They share nothing that is modelled, so a behaviour follows one of them *)
(* and leaves the others alone.                                            *)
(*                                                                         *)
(* AccessGrants is followed in four scenes, which differ in what there is  *)
(* most of: roles that inherit, policies that they share, versions of a    *)
(* policy, or authorities above each other with bindings.                  *)
(***************************************************************************)
EXTENDS Ownership, AccessDecisions, TLC

CONSTANTS
  Two,  \* ids; the scenes use them anew, which keeps the symmetry small
  One,
  x, y, mid, low, ann, bob,
  SomePolicies

VARIABLE scene  \* what this behaviour is about

vars == <<scene, accessVars, ownershipVars>>

----------------------------------------------------------------------------
Both == {x, y}
All == {RootIssued, mid, low}

\* Root holds the authority on top, bob the lowest, which lets less through,
\* and ann one between them.
HeldBy == RootIssued :> Root @@ mid :> ann @@ low :> bob
Narrow == [a \in All |-> IF a = low THEN {x} ELSE {x, y}]
BelowTop == RootIssued :> Absent @@ low :> RootIssued
BelowMid == RootIssued :> Absent @@ mid :> RootIssued @@ low :> mid

\* Everything is allowed, or one request denied; or both at once, where all
\* the roles are alike.
Written == {[allow |-> {x, y}, deny |-> {}], [allow |-> {}, deny |-> {x}]}
Alike == {[allow |-> {x, y}, deny |-> {x}]}

\* The constants are those of the scene with most authorities and roles; each
\* scene has some of them.  An authority that a scene leaves out is one that
\* lets everything through and is never revoked.
Tree == INSTANCE AccessGrants WITH Documents <- Alike
Policy == INSTANCE AccessGrants WITH
  Roles <- Two, Policies <- SomePolicies, GrantIds <- {RootIssued, low}, ParentOf <- BelowTop,
  MaxVersions <- 2, MaxRevocations <- 0
Version == INSTANCE AccessGrants WITH
  Roles <- One, Policies <- SomePolicies, GrantIds <- {RootIssued, low}, ParentOf <- BelowTop
Chain == INSTANCE AccessGrants WITH Roles <- Two, MaxBindings <- 2

Init ==
  /\ scene \in {"tree", "policy", "version", "chain", "owners"}
  /\ OwnershipInit
  /\ CASE scene = "policy" -> Policy!AccessInit
       [] scene = "version" -> Version!AccessInit
       [] scene = "chain" -> Chain!AccessInit
       [] OTHER -> Tree!AccessInit

Next ==
  \/ scene = "tree" /\ Tree!AccessNext /\ UNCHANGED <<scene, ownershipVars>>
  \/ scene = "policy" /\ Policy!AccessNext /\ UNCHANGED <<scene, ownershipVars>>
  \/ scene = "version" /\ Version!AccessNext /\ UNCHANGED <<scene, ownershipVars>>
  \/ scene = "chain" /\ Chain!AccessNext /\ UNCHANGED <<scene, ownershipVars>>
  \/ scene = "owners" /\ OwnershipNext /\ UNCHANGED <<scene, accessVars>>

Spec == Init /\ [][Next]_vars

Symmetry == Permutations(Roles) \cup Permutations(Two)
=============================================================================
