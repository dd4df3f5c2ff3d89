-------------------------- MODULE AccessDecisions --------------------------
(***************************************************************************)
(* What the grants of AccessGrants add up to: roleGrants, identityGrants   *)
(* and evaluate (packages/server/src/decisions.ts), beside a definition of *)
(* what a binding confers.                                                 *)
(*                                                                         *)
(* roleGrants calls itself for the roles that a role inherits, in order,   *)
(* and shares with these calls the set of roles seen; what it has yet to   *)
(* go through is a stack.  So an evaluation is a sequence of visits.       *)
(***************************************************************************)
EXTENDS AccessGrants

\* An evaluation: the roles to visit, next first, each with the ceilings it
\* comes under and whether everything above it is in force; the roles seen;
\* what was found to be granted and forbidden.
Items == [role : Defined, ceilings : SUBSET Requests, live : BOOLEAN]
Evaluations == [todo : Seq(Items), seen : SUBSET Defined,
                granted : SUBSET Requests, denied : SUBSET Requests]

NarrowedByRoleOnly(ceilings, a) == Ceilings(a)

Narrowed(ceilings, a) == ceilings \cap Ceilings(a)

\* What a role lets through of its own document and of its policies, each under
\* the authority that is behind it.
Grants(r, ceilings) ==
  (role[r].document.allow \cap ceilings)
    \cup UNION {Current(p).allow \cap Narrowed(ceilings, policy[p].author) :
                  p \in {p \in role[r].policies : ChainInForce(policy[p].author)}}

HeirsUnder(r, ceilings, live) ==
  [i \in 1..Len(role[r].inherits) |->
     [role |-> role[r].inherits[i], ceilings |-> ceilings, live |-> live]]

\* roleGrants on one role, or below one that lapsed roleDenies: its denies are
\* collected in any case.
Visit(e) ==
  LET top  == Head(e.todo)
      own  == Narrowed(top.ceilings, role[top.role].author)
      live == top.live /\ ChainInForce(role[top.role].author)
  IN  IF top.role \in e.seen THEN [e EXCEPT !.todo = Tail(@)]
      ELSE [todo    |-> HeirsUnder(top.role, own, live) \o Tail(e.todo),
            seen    |-> e.seen \cup {top.role},
            granted |-> e.granted \cup (IF live THEN Grants(top.role, own) ELSE {}),
            denied  |-> e.denied \cup DenyOf(role, top.role)]

\* identityGrants on one binding.
Unvisited(b) ==
  [todo |-> <<[role |-> b[1], ceilings |-> Ceilings(b[2]), live |-> ChainInForce(b[2])]>>,
   seen |-> {}, granted |-> {}, denied |-> {}]

Evaluated[e \in Evaluations] == IF e.todo = <<>> THEN e ELSE Evaluated[Visit(e)]

Evaluation(b) == Evaluated[Unvisited(b)]

\* evaluate: a deny on any path wins.
Allowed ==
  (UNION {Evaluation(b).granted : b \in binding}) \ (UNION {Evaluation(b).denied : b \in binding})

----------------------------------------------------------------------------
(* What a binding confers, by paths of inheritance: requests that all the  *)
(* authorities along one of them let through.                              *)
LetsThrough(r, q) == ChainInForce(role[r].author) /\ q \in Ceilings(role[r].author)

\* The roles that a path leads to from r through roles that let q through.
Through(r, q) ==
  LET barred == {s \in Defined : ~LetsThrough(s, q)}
  IN  Reached(role, {r}, barred)

Gives(r, q) ==
  \/ q \in role[r].document.allow
  \/ \E p \in role[r].policies :
       q \in Current(p).allow /\ ChainInForce(policy[p].author) /\ q \in Ceilings(policy[p].author)

Confers(b, q) ==
  /\ ChainInForce(b[2]) /\ q \in Ceilings(b[2]) /\ LetsThrough(b[1], q)
  /\ \E r \in Through(b[1], q) : Gives(r, q)

Definition ==
  {q \in Requests : \E b \in binding : Confers(b, q)} \ (UNION {Forbids(role, b[1]) : b \in binding})

\* Does something below r have two parents there?
Diamond(r) ==
  LET below == Reached(role, {r}, {})
  IN  \E i \in below : Cardinality({s \in below : i \in Heirs(s)}) > 1

\* The evaluation, one pass over every binding, allows nothing that some path
\* of inheritance under all its ceilings does not grant, or that any role the
\* member is bound to forbids, in force or not; and it allows all the rest
\* where no role is inherited twice.
AllowedByDefinition ==
  /\ Allowed \subseteq Definition
  /\ (\A b \in binding : ~Diamond(b[1])) => Allowed = Definition

\* Revoking an authority never allows anything new, whatever its denies hid
\* and its ceilings kept narrow before.
RevocationTakes == revoked' # revoked => Allowed' \subseteq Allowed

RevokingOnlyTakes == [][RevocationTakes]_accessVars
=============================================================================
