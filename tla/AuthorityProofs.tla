-------------------------- MODULE AuthorityProofs --------------------------
(***************************************************************************)
(* Proofs about who may act for whom: the owners of a tenant (Ownership),  *)
(* for any number of people and authorities, a person's delegations to     *)
(* agents (Delegations), for any number of agents, hand-offs, sessions and *)
(* lifetimes, and what a member's bindings forbid (AccessGrants) and what  *)
(* they allow (AccessDecisions), for any roles, policies, documents and    *)
(* tree of authorities.                                                    *)
(***************************************************************************)
EXTENDS Delegations, Ownership, AccessDecisions, FiniteSetTheorems, WellFoundedInduction, TLAPS

(***************************************************************************)
(* The owners of a tenant stand.                                           *)
(***************************************************************************)
AuthorityIds == Authorities \cup {RootIssued}

OwnershipShape ==
  /\ status \in [People -> {"active", "disabled", "deleted"}]
  /\ owner \subseteq People
  /\ bound \in [People -> Authorities \cup {Nothing}]
  /\ authority \in [AuthorityIds -> AuthorityRows \cup {Nothing}]

\* Bindings and authorities hang below authorities that were issued.
NothingDangles ==
  /\ \A p \in People : bound[p] # Nothing => bound[p] \in Issued
  /\ \A a \in Issued : authority[a].parent \in Issued \cup {Nothing}

\* Until somebody with an authority leaves, none is revoked.
NoneRevoked == left = {} => \A a \in Issued : ~authority[a].revoked

OwnersBound == \A p \in People : p \in owner <=> bound[p] # Nothing

SomeoneOwns == ActiveOwners # {} \/ swept

OwnershipInv == OwnershipShape /\ NothingDangles /\ NoneRevoked /\ OwnersBound /\ SomeoneOwns

\* The whole tree of authorities is a chain in force while none is revoked.
LEMMA AuthoritiesWork == OwnershipInv => OwnersStand
<1> SUFFICES ASSUME OwnershipInv, left = {}, NEW p \in owner PROVE Works(p)
  BY DEF OwnershipInv, OwnersStand, OwnersBound, SomeoneOwns
<1>1. bound[p] # Nothing /\ bound[p] \in Issued
  BY DEF OwnershipInv, OwnershipShape, OwnersBound, NothingDangles
<1>2. \A b \in Issued : ~authority[b].revoked /\ authority[b].parent \in Issued \cup {Nothing}
  BY DEF OwnershipInv, NothingDangles, NoneRevoked
<1>3. Issued \in SUBSET Issued
  OBVIOUS
<1> QED
  BY <1>1, <1>2, <1>3 DEF Works, InForce

LEMMA OwnershipInitInv == OwnershipInit => OwnershipInv
<1> SUFFICES ASSUME OwnershipInit PROVE OwnershipInv
  OBVIOUS
<1> USE OwnershipAssumption DEF OwnershipInit, AuthorityIds, NewAuthority, AuthorityRows
<1>1. OwnershipShape
  BY DEF OwnershipShape
<1>2. /\ Issued \subseteq {RootIssued, FirstAuthority} /\ FirstAuthority \in Issued
      /\ \A a \in Issued : authority[a].parent = Nothing /\ ~authority[a].revoked
  <2> DEFINE top == NewAuthority(Root, Nothing)
             first == NewAuthority(FirstOwner, Nothing)
  <2>1. \A row \in {top, first} : row # Nothing /\ row.parent = Nothing /\ ~row.revoked
    <3>1. top \in AuthorityRows /\ first \in AuthorityRows
      OBVIOUS
    <3>2. top # Nothing /\ first # Nothing
      BY <3>1
    <3> QED
      BY <3>2
  <2>2. authority = [a \in AuthorityIds |->
                       CASE a = RootIssued -> top [] a = FirstAuthority -> first [] OTHER -> Nothing]
    OBVIOUS
  <2> HIDE DEF top, first
  <2> QED
    BY <2>1, <2>2 DEF Issued
<1>3. NothingDangles /\ NoneRevoked
  BY <1>2 DEF NothingDangles, NoneRevoked
<1>4. OwnersBound
  BY DEF OwnersBound
<1>5. SomeoneOwns
  BY DEF SomeoneOwns, ActiveOwners, Active
<1> QED
  BY <1>1, <1>3, <1>4, <1>5 DEF OwnershipInv

(***************************************************************************)
(* Some owner stays: whoever is spared has another one beside them.        *)
(***************************************************************************)
LEMMA AnotherStays ==
  ASSUME OwnershipShape, SomeoneOwns, NEW p \in People, Spared(p)
  PROVE  swept \/ ActiveOwners \ {p} # {}
<1>1. CASE Active(p) /\ p \in owner
  <2>1. IsFiniteSet(ActiveOwners)
    BY FS_Subset, OwnershipAssumption DEF OwnershipShape, ActiveOwners
  <2>2. p \in ActiveOwners /\ Cardinality(ActiveOwners) > 1
    BY <1>1 DEF Spared, ActiveOwners
  <2>3. Cardinality(ActiveOwners \ {p}) = Cardinality(ActiveOwners) - 1
    BY <2>1, <2>2, FS_RemoveElement
  <2>4. Cardinality({}) = 0 /\ Cardinality(ActiveOwners) \in Nat
    BY <2>1, FS_EmptySet, FS_CardinalityType
  <2> QED
    BY <2>2, <2>3, <2>4
<1>2. CASE ~(Active(p) /\ p \in owner)
  BY <1>2 DEF SomeoneOwns, ActiveOwners
<1> QED
  BY <1>1, <1>2

LEMMA SuccessorType ==
  ASSUME OwnershipShape, NEW a \in Actors, NEW p \in People
  PROVE  Successor(a, p) \in People \cup {Nothing}
<1> DEFINE others == ActiveOwners \ {p}
<1>1. ASSUME others # {} PROVE \E q \in others : \A r \in others : q <= r
  <2>1. others \subseteq Nat
    BY OwnershipAssumption DEF OwnershipShape, ActiveOwners
  <2> HIDE DEF others
  <2>2. PICK q \in others : \A r \in others : ~(<<r, q>> \in OpToRel(<, Nat))
    BY <1>1, <2>1, WFMin, NatLessThanWellFounded, Zenon
  <2>3. \A r \in others : ~(r < q)
    BY <2>1, <2>2, Zenon DEF OpToRel
  <2> QED
    BY <2>1, <2>3
<1>2. a \in {Root} \cup People /\ others \subseteq People
  BY DEF Actors, OwnershipShape, ActiveOwners
<1> QED
  BY <1>1, <1>2 DEF Successor

(***************************************************************************)
(* Each operation.                                                         *)
(***************************************************************************)
LEMMA PromoteInv ==
  ASSUME OwnershipInv, NEW a \in Actors, NEW p \in People, NEW id \in Authorities, Promote(a, p, id)
  PROVE  OwnershipInv'
<1> USE DEF OwnershipInv
<1>1. PICK above \in Issued : authority' = [authority EXCEPT ![id] = NewAuthority(p, above)]
  BY DEF Promote, GrantingAuthorities
<1> DEFINE row == NewAuthority(p, above)
<1>2. row \in AuthorityRows /\ row # Nothing /\ row.parent = above /\ row.revoked = FALSE
  <2>1. above \in AuthorityIds
    BY DEF Issued, OwnershipShape
  <2>2. row \in AuthorityRows
    BY <2>1 DEF NewAuthority, AuthorityRows, AuthorityIds
  <2> QED
    BY <2>2, OwnershipAssumption DEF NewAuthority
<1> HIDE DEF row
<1>3. /\ authority' = [authority EXCEPT ![id] = row] /\ authority[id] = Nothing
      /\ bound' = [bound EXCEPT ![p] = id] /\ owner' = owner \cup {p}
      /\ status' = status /\ left' = left /\ swept' = swept /\ id \in AuthorityIds /\ id # Nothing
  BY <1>1, OwnershipAssumption DEF Promote, row, AuthorityIds, history
<1>4. OwnershipShape'
  BY <1>2, <1>3 DEF OwnershipShape
<1>5. Issued' = Issued \cup {id} /\ id \notin Issued
  BY <1>2, <1>3 DEF OwnershipShape, Issued
<1>6. NothingDangles' /\ NoneRevoked'
  BY <1>1, <1>2, <1>3, <1>5 DEF OwnershipShape, NothingDangles, NoneRevoked, Issued
<1>7. OwnersBound' /\ SomeoneOwns'
  BY <1>3 DEF OwnershipShape, OwnersBound, SomeoneOwns, ActiveOwners, Active
<1> QED
  BY <1>4, <1>6, <1>7

LEMMA DemoteInv ==
  ASSUME OwnershipInv, NEW a \in Actors, NEW p \in People, Demote(a, p)
  PROVE  OwnershipInv'
<1> USE DEF OwnershipInv
<1>1. /\ bound' = [bound EXCEPT ![p] = Nothing] /\ owner' = owner \ {p}
      /\ status' = status /\ left' = left /\ swept' = swept /\ Spared(p)
  BY DEF Demote, history
<1>2. /\ authority' \in [AuthorityIds -> AuthorityRows \cup {Nothing}] /\ Issued' = Issued
      /\ \A b \in Issued : authority'[b].parent = authority[b].parent
                           /\ authority'[b].revoked = authority[b].revoked
  <2>1. CASE authority' = authority
    BY <2>1 DEF OwnershipShape, Issued
  <2>2. CASE bound[p] # Nothing /\ authority' = PassedOn(p, Successor(a, p)) /\ authority' # authority
    <3> DEFINE held == bound[p]
               next == [authority[held] EXCEPT !.holder = Successor(a, p)]
    <3>1. Successor(a, p) \in People /\ authority' = [authority EXCEPT ![held] = next]
      BY <2>2, SuccessorType DEF PassedOn
    <3>2. held \in Issued /\ held \in AuthorityIds /\ authority[held] \in AuthorityRows
      BY <2>2 DEF NothingDangles, Issued, OwnershipShape
    <3>3. /\ next \in AuthorityRows /\ next # Nothing
          /\ next.parent = authority[held].parent /\ next.revoked = authority[held].revoked
      BY <3>1, <3>2, OwnershipAssumption DEF AuthorityRows
    <3> HIDE DEF next
    <3> QED
      BY <3>1, <3>2, <3>3 DEF OwnershipShape, Issued
  <2> QED
    BY <2>1, <2>2 DEF Demote
<1>3. OwnershipShape' /\ NothingDangles' /\ NoneRevoked'
  BY <1>1, <1>2 DEF OwnershipShape, NothingDangles, NoneRevoked
<1>4. OwnersBound'
  BY <1>1 DEF OwnershipShape, OwnersBound
<1>5. SomeoneOwns'
  BY <1>1, AnotherStays DEF SomeoneOwns, ActiveOwners, Active
<1> QED
  BY <1>3, <1>4, <1>5

LEMMA LeaveInv ==
  ASSUME OwnershipInv, NEW a \in Actors, NEW p \in People, NEW as \in {"disabled", "deleted"}, Leave(a, p, as)
  PROVE  OwnershipInv'
<1> USE DEF OwnershipInv
<1>1. /\ bound' = [bound EXCEPT ![p] = Nothing] /\ owner' = owner \ {p} /\ Spared(p)
      /\ status' = [status EXCEPT ![p] = as] /\ swept' = swept
  BY DEF Leave
<1> DEFINE taken == {b \in Issued : authority[b].holder = p}
           ended(b) == [authority[b] EXCEPT !.revoked = TRUE]
<1>2. authority' = [b \in AuthorityIds |-> IF b \in taken THEN ended(b) ELSE authority[b]]
  BY DEF Leave, OwnershipShape
<1>3. \A b \in taken : ended(b) \in AuthorityRows /\ ended(b) # Nothing /\ ended(b).parent = authority[b].parent
  BY OwnershipAssumption DEF Issued, OwnershipShape, AuthorityRows
<1>4. /\ authority' \in [AuthorityIds -> AuthorityRows \cup {Nothing}] /\ Issued' = Issued
      /\ \A b \in Issued : authority'[b].parent = authority[b].parent
  <2> HIDE DEF ended
  <2> QED
    BY <1>2, <1>3 DEF OwnershipShape, Issued
<1>5. OwnershipShape' /\ NothingDangles'
  BY <1>1, <1>4 DEF OwnershipShape, NothingDangles
<1>6. NoneRevoked'
  <2>1. CASE taken = {}
    <3>1. authority' = authority /\ left' = left
      BY <1>2, <2>1 DEF Leave, OwnershipShape
    <3> QED
      BY <1>4, <3>1 DEF NoneRevoked
  <2>2. CASE taken # {}
    BY <2>2 DEF Leave, NoneRevoked
  <2> QED
    BY <2>1, <2>2
<1>7. OwnersBound'
  BY <1>1 DEF OwnershipShape, OwnersBound
<1>8. SomeoneOwns'
  BY <1>1, AnotherStays DEF OwnershipShape, SomeoneOwns, ActiveOwners, Active
<1> QED
  BY <1>5, <1>6, <1>7, <1>8

\* The status of somebody changes, who if disabled is spared.
LEMMA SetStatusInv ==
  ASSUME OwnershipInv, NEW p \in People, NEW to \in {"active", "disabled"}, SetStatus(p, to)
  PROVE  OwnershipInv'
<1> USE DEF OwnershipInv, SetStatus, history
<1>1. OwnershipShape' /\ NothingDangles' /\ NoneRevoked' /\ OwnersBound'
  BY DEF OwnershipShape, NothingDangles, NoneRevoked, OwnersBound, Issued
<1>2. CASE to = "active"
  BY <1>1, <1>2 DEF OwnershipShape, SomeoneOwns, ActiveOwners, Active
<1>3. CASE to = "disabled"
  <2>1. swept \/ ActiveOwners \ {p} # {}
    BY <1>3, AnotherStays
  <2>2. swept' = swept /\ \A q \in ActiveOwners \ {p} : q \in ActiveOwners'
    BY DEF OwnershipShape, ActiveOwners, Active
  <2> QED
    BY <1>1, <2>1, <2>2 DEF SomeoneOwns
<1> QED
  BY <1>2, <1>3

LEMMA SweepInv == ASSUME OwnershipInv, SweepExpired PROVE OwnershipInv'
<1> USE DEF OwnershipInv, SweepExpired
<1>1. OwnershipShape' /\ NothingDangles' /\ NoneRevoked' /\ OwnersBound'
  BY DEF OwnershipShape, NothingDangles, NoneRevoked, OwnersBound, Issued
<1>2. SomeoneOwns'
  BY DEF OwnershipShape, SomeoneOwns, ActiveOwners, Active
<1> QED
  BY <1>1, <1>2

LEMMA OwnershipSameInv ==
  ASSUME OwnershipInv, UNCHANGED <<status, owner, bound, authority, left, swept>>
  PROVE  OwnershipInv'
  BY DEF OwnershipInv, OwnershipShape, NothingDangles, NoneRevoked, OwnersBound, SomeoneOwns,
         ActiveOwners, Active, Issued

LEMMA OwnershipNextInv == ASSUME OwnershipInv, [OwnershipNext]_ownershipVars PROVE OwnershipInv'
<1>1. ASSUME NEW a \in Actors, NEW p \in People, NEW id \in Authorities, Promote(a, p, id)
      PROVE  OwnershipInv'
  BY <1>1, PromoteInv
<1>2. ASSUME NEW a \in Actors, NEW p \in People, Demote(a, p) PROVE OwnershipInv'
  BY <1>2, DemoteInv
<1>3. ASSUME NEW a \in Actors, NEW p \in People, Offboard(a, p) \/ Delete(a, p) PROVE OwnershipInv'
  BY <1>3, LeaveInv DEF Offboard, Delete
<1>4. ASSUME NEW p \in People, NEW to \in {"active", "disabled"}, SetStatus(p, to) PROVE OwnershipInv'
  BY <1>4, SetStatusInv
<1>5. ASSUME NEW p \in People, SetExpiry(p) \/ ClearExpiry(p) \/ TimePasses(p) PROVE OwnershipInv'
  BY <1>5, OwnershipSameInv DEF SetExpiry, ClearExpiry, TimePasses, history
<1>6. CASE SweepExpired
  BY <1>6, SweepInv
<1>7. CASE UNCHANGED ownershipVars
  BY <1>7, OwnershipSameInv DEF ownershipVars, records, history
<1> QED
  BY <1>1, <1>2, <1>3, <1>4, <1>5, <1>6, <1>7 DEF OwnershipNext

\* Whatever is promoted, demoted, disabled and enabled in identities.ts, the
\* tenant keeps its owners and they their authority, however many people and
\* promotions there are.
THEOREM OwnersAlwaysStand == OwnershipSpec => []OwnersStand
<1>1. OwnershipInit => OwnershipInv
  BY OwnershipInitInv
<1>2. OwnershipInv /\ [OwnershipNext]_ownershipVars => OwnershipInv'
  BY OwnershipNextInv
<1>3. OwnershipInv => OwnersStand
  BY AuthoritiesWork
<1> QED
  BY <1>1, <1>2, <1>3, PTL DEF OwnershipSpec

(***************************************************************************)
(* A person's delegations.                                                 *)
(***************************************************************************)
DelegationsShape ==
  /\ now \in Nat /\ key \subseteq Agents /\ standing \subseteq Agents
  /\ delegation \in [Ids -> DelegationRows \cup {None}]
  /\ session \in [SessionIds -> SessionRows \cup {None}]
  /\ confirmation \in [ConfirmationIds -> ConfirmationRows \cup {None}]
  /\ calls \in [ConfirmationIds -> Nat]

\* Only what was once in force was handed on, and the hand-off ends with it.
Lineage ==
  \A d \in Delegated : Parent(d) # None =>
    /\ delegation[d].status # "pending"
    /\ Parent(d) \in Delegated /\ delegation[Parent(d)].status \in {"active", "revoked"}
    /\ delegation[d].expiresAt <= delegation[Parent(d)].expiresAt
    /\ Open(d) => Open(Parent(d))

\* A session belongs to a delegation that did not end, and not beyond it.
Backed ==
  \A s \in SessionIds : session[s] # None =>
    LET d == session[s].delegationId IN
    /\ d \in Delegated /\ delegation[d].status = "active"
    /\ session[s].expiresAt <= delegation[d].expiresAt

Standing(d) == DelegationLive(d) \/ DelegationPending(d)

\* Two agreements with an agent never stand at once.
OneStands ==
  \A d, e \in Delegated :
    /\ delegation[d].agentId = delegation[e].agentId /\ Parent(d) = None /\ Parent(e) = None
    /\ Standing(d) /\ Standing(e)
    => d = e

\* An approval that was not used up has opened nothing.
Unspent ==
  \A c \in ConfirmationIds :
    /\ calls[c] <= 1
    /\ confirmation[c] = None \/ confirmation[c].status # "used" => calls[c] = 0

DelegationsInv == DelegationsShape /\ Lineage /\ Backed /\ OneStands /\ Unspent

LEMMA DelegationsInitInv == ASSUME Init PROVE DelegationsInv
  BY DEF Init, DelegationsInv, DelegationsShape, Lineage, Backed, OneStands, Unspent, Delegated

(***************************************************************************)
(* What is above a delegation and what is below it.                        *)
(***************************************************************************)
\* Whatever a delegation shares with its source, and that with its own, it
\* shares with all above it.
LEMMA AboveKeeps ==
  ASSUME DelegationsInv, NEW d \in Delegated, NEW S \in SUBSET Delegated, d \in S,
         \A e \in S : Parent(e) # None => Parent(e) \in S
  PROVE  Above(d) \subseteq S
  BY DEF Above

LEMMA BelowIsLeast ==
  ASSUME NEW tops
  PROVE  /\ Below(tops) \subseteq {d \in Delegated : Open(d)}
         /\ \A d \in Delegated : Open(d) /\ Parent(d) \in tops \cup Below(tops) => d \in Below(tops)
<1> DEFINE closed == {S \in SUBSET Delegated :
                        \A d \in Delegated : Open(d) /\ Parent(d) \in tops \cup S => d \in S}
<1>1. Below(tops) = {d \in Delegated : \A S \in closed : d \in S}
  BY DEF Below
<1>2. {d \in Delegated : Open(d)} \in closed
  OBVIOUS
<1>3. ASSUME NEW d \in Delegated, Open(d), Parent(d) \in tops \cup Below(tops)
      PROVE  d \in Below(tops)
  <2> SUFFICES ASSUME NEW S \in closed PROVE d \in S
    BY <1>1
  <2>1. Parent(d) \in tops \cup S
    BY <1>1, <1>3
  <2> QED
    BY <1>3, <2>1
<1> HIDE DEF closed
<1> QED
  BY <1>1, <1>2, <1>3

LEMMA DelegationsImply == DelegationsInv => EndedHoldsNothing /\ NothingOutlivesItsSource /\ ApprovedOnce
<1> SUFFICES ASSUME DelegationsInv PROVE EndedHoldsNothing /\ NothingOutlivesItsSource /\ ApprovedOnce
  OBVIOUS
<1> USE DEF DelegationsInv
<1>1. ASSUME NEW e \in Delegated, Open(e) PROVE \A d \in Above(e) : Open(d)
  <2> DEFINE S == {d \in Delegated : Open(d)}
  <2>1. \A d \in S : Parent(d) # None => Parent(d) \in S
    BY DEF Lineage
  <2> QED
    BY <1>1, <2>1, AboveKeeps
<1>2. ASSUME NEW d \in Delegated PROVE \A e \in Above(d) : delegation[d].expiresAt <= delegation[e].expiresAt
  <2> DEFINE S == {e \in Delegated : delegation[d].expiresAt <= delegation[e].expiresAt}
  <2>1. \A e \in Delegated : delegation[e].expiresAt \in Nat
    BY DEF DelegationsShape, Delegated, DelegationRows
  <2>2. d \in S
    BY <2>1
  <2>3. \A e \in S : Parent(e) # None => Parent(e) \in S
    BY <2>1 DEF Lineage
  <2> QED
    BY <2>2, <2>3, AboveKeeps
<1>3. EndedHoldsNothing
  BY <1>1 DEF EndedHoldsNothing, Backed, Open
<1>4. NothingOutlivesItsSource
  BY <1>2 DEF NothingOutlivesItsSource, Backed
<1>5. OneAgreement
  <2> SUFFICES ASSUME NEW a \in Agents
               PROVE  Cardinality({d \in Delegated : /\ delegation[d].agentId = a /\ Parent(d) = None
                                                     /\ DelegationLive(d) \/ DelegationPending(d)}) <= 1
    BY DEF OneAgreement
  <2> DEFINE S == {d \in Delegated : /\ delegation[d].agentId = a /\ Parent(d) = None
                                     /\ DelegationLive(d) \/ DelegationPending(d)}
  <2>1. \A d, e \in S : d = e
    BY DEF OneStands, Standing
  <2> HIDE DEF S
  <2>2. S = {} \/ \E d \in S : S = {d}
    BY <2>1
  <2>3. Cardinality(S) \in {0, 1}
    BY <2>2, FS_EmptySet, FS_Singleton
  <2> QED
    BY <2>3 DEF S
<1> QED
  BY <1>3, <1>4, <1>5 DEF ApprovedOnce, OneCallPerApproval, Unspent

(***************************************************************************)
(* The person and the agent agree on something, or hand it on.             *)
(***************************************************************************)
\* A new delegation: alone with its agent, or handed on from one in force.
LEMMA InsertInv ==
  ASSUME DelegationsInv, NEW d \in Ids, Unused(d), NEW row \in DelegationRows, Insert(d, row),
         row.parentId = None => row.status \in {"active", "pending"} /\ ~LiveBetween(row.agentId),
         row.parentId # None =>
           /\ row.status = "active" /\ row.parentId \in Delegated
           /\ delegation[row.parentId].status = "active"
           /\ row.expiresAt <= delegation[row.parentId].expiresAt,
         UNCHANGED <<now, key, standing, session, confirmation, calls>>
  PROVE  DelegationsInv'
<1> USE DEF DelegationsInv, Insert, Unused
<1>1. row # None /\ delegation' = [delegation EXCEPT ![d] = row]
  BY DelegationsAssumption
<1>2. DelegationsShape'
  BY DEF DelegationsShape
<1>3. /\ Delegated' = Delegated \cup {d} /\ d \notin Delegated /\ delegation'[d] = row
      /\ \A e \in Delegated : e # d /\ delegation'[e] = delegation[e]
  BY <1>1 DEF DelegationsShape, Delegated
<1>4. Lineage'
  <2> SUFFICES ASSUME NEW e \in Delegated', Parent(e)' # None
               PROVE  /\ delegation'[e].status # "pending"
                      /\ Parent(e)' \in Delegated' /\ delegation'[Parent(e)'].status \in {"active", "revoked"}
                      /\ delegation'[e].expiresAt <= delegation'[Parent(e)'].expiresAt
                      /\ Open(e)' => Open(Parent(e))'
    BY DEF Lineage
  <2>1. CASE e = d
    BY <1>3, <2>1 DEF Parent, Open
  <2>2. CASE e \in Delegated
    BY <1>3, <2>2 DEF Lineage, Parent, Open
  <2> QED
    BY <1>3, <2>1, <2>2
<1>5. Backed'
  BY <1>3 DEF Backed
<1>6. OneStands'
  <2>1. \A e \in Delegated : (Standing(e)' <=> Standing(e)) /\ Parent(e)' = Parent(e)
    BY <1>3 DEF Standing, DelegationLive, DelegationPending, Parent
  <2>2. ASSUME NEW e \in Delegated, row.parentId = None, Parent(e) = None, Standing(e)
        PROVE  delegation[e].agentId # row.agentId
    BY <2>2 DEF LiveBetween, Standing
  <2> QED
    BY <1>3, <2>1, <2>2 DEF OneStands, Parent
<1>7. Unspent'
  BY DEF Unspent
<1> QED
  BY <1>2, <1>4, <1>5, <1>6, <1>7

LEMMA GrantInv ==
  ASSUME DelegationsInv, NEW d \in Ids, NEW a \in Agents, NEW life \in Lifetimes, NEW depth \in Depths,
         Grant(d, a, life, depth)
  PROVE  DelegationsInv'
<1> DEFINE row == [status |-> "active", agentId |-> a, parentId |-> None,
                   expiresAt |-> now + life, lifetime |-> 0, depth |-> depth]
<1>1. row \in DelegationRows
  BY DelegationsAssumption DEF DelegationRows, Statuses, DelegationsInv, DelegationsShape
<1>2. row.parentId = None /\ row.status = "active" /\ row.agentId = a
  OBVIOUS
<1>3. /\ Unused(d) /\ Insert(d, row) /\ ~LiveBetween(a)
      /\ UNCHANGED <<now, key, standing, session, confirmation, calls>>
  BY DEF Grant
<1> HIDE DEF row
<1> QED
  BY <1>1, <1>2, <1>3, InsertInv

LEMMA RequestInv ==
  ASSUME DelegationsInv, NEW d \in Ids, NEW a \in Agents, NEW life \in Lifetimes, Request(d, a, life)
  PROVE  DelegationsInv'
<1> DEFINE row == [status |-> "pending", agentId |-> a, parentId |-> None,
                   expiresAt |-> now + RequestLife, lifetime |-> life, depth |-> 0]
<1>1. row \in DelegationRows
  BY DelegationsAssumption DEF DelegationRows, Statuses, DelegationsInv, DelegationsShape
<1>2. row.parentId = None /\ row.status = "pending" /\ row.agentId = a
  OBVIOUS
<1>3. /\ Unused(d) /\ Insert(d, row) /\ ~LiveBetween(a)
      /\ UNCHANGED <<now, key, standing, session, confirmation, calls>>
  BY DEF Request
<1> HIDE DEF row
<1> QED
  BY <1>1, <1>2, <1>3, InsertInv

\* HandedUntil is where the hand-off ends no later than its source.
LEMMA HandoffInv ==
  ASSUME DelegationsInv, NEW s \in SessionIds, NEW d \in Ids, NEW a \in Agents, NEW life \in Lifetimes,
         session[s] # None, Handoff(s, d, a, life)
  PROVE  DelegationsInv'
<1> DEFINE parent == session[s].delegationId
           row == [status |-> "active", agentId |-> a, parentId |-> parent,
                   expiresAt |-> HandedUntil(parent, life), lifetime |-> 0,
                   depth |-> delegation[parent].depth - 1]
<1>1. /\ parent \in Delegated /\ parent \in Ids /\ parent # None
      /\ delegation[parent].status = "active" /\ delegation[parent] \in DelegationRows
  BY DelegationsAssumption DEF DelegationsInv, DelegationsShape, Backed, Delegated, SessionRows
<1>2. /\ Unused(d) /\ Insert(d, row) /\ delegation[parent].depth >= 1
      /\ UNCHANGED <<now, key, standing, session, confirmation, calls>>
  BY DEF Handoff
<1>3. HandedUntil(parent, life) \in Nat /\ HandedUntil(parent, life) <= delegation[parent].expiresAt
  <2>1. /\ now + life \in Nat /\ delegation[parent].expiresAt \in Nat
        /\ KeyExpiry[delegation[parent].agentId] \in Nat
    BY <1>1, DelegationsAssumption DEF DelegationRows, DelegationsInv, DelegationsShape
  <2> QED
    BY <2>1 DEF HandedUntil, Earlier
<1>4. row \in DelegationRows
  BY <1>1, <1>2, <1>3 DEF DelegationRows, Statuses
<1>5. row.parentId = parent /\ row.status = "active" /\ row.expiresAt = HandedUntil(parent, life)
  OBVIOUS
<1> HIDE DEF row, parent
<1> QED
  BY <1>1, <1>2, <1>3, <1>4, <1>5, InsertInv

(***************************************************************************)
(* One row changes, of a delegation that was pending and has nothing below *)
(* or above it.                                                            *)
(***************************************************************************)
LEMMA DecideInv ==
  ASSUME DelegationsInv, NEW d \in Delegated, DelegationPending(d), NEW row \in DelegationRows,
         delegation' = [delegation EXCEPT ![d] = row],
         row.status \in {"active", "denied"},
         row.agentId = delegation[d].agentId, row.parentId = delegation[d].parentId,
         UNCHANGED <<now, key, standing, session, confirmation, calls>>
  PROVE  DelegationsInv'
<1> USE DEF DelegationsInv
<1>1. row # None /\ d \in Ids /\ delegation[d].status = "pending" /\ Parent(d) = None
  BY DelegationsAssumption DEF DelegationPending, Lineage, Delegated
<1>2. DelegationsShape'
  BY <1>1 DEF DelegationsShape
<1>3. /\ Delegated' = Delegated /\ delegation'[d] = row
      /\ \A e \in Delegated : e # d => delegation'[e] = delegation[e]
  BY <1>1 DEF DelegationsShape, Delegated
<1>4. \A e \in Delegated : Parent(e)' = Parent(e) /\ Parent(e) # d
  <2>1. \A e \in Delegated : Parent(e) # d
    BY <1>1, DelegationsAssumption DEF Lineage
  <2> QED
    BY <1>3, <2>1 DEF Parent
<1>5. Lineage'
  <2> SUFFICES ASSUME NEW e \in Delegated, Parent(e) # None
               PROVE  /\ delegation'[e].status # "pending"
                      /\ Parent(e) \in Delegated /\ delegation'[Parent(e)].status \in {"active", "revoked"}
                      /\ delegation'[e].expiresAt <= delegation'[Parent(e)].expiresAt
                      /\ Open(e)' => delegation'[Parent(e)].status \in {"active", "pending"}
    BY <1>3, <1>4 DEF Lineage, Open
  <2>1. e # d /\ Parent(e) # d /\ Parent(e) \in Delegated
    BY <1>1, <1>4 DEF Lineage
  <2>2. delegation'[e] = delegation[e] /\ delegation'[Parent(e)] = delegation[Parent(e)]
    BY <1>3, <2>1
  <2> QED
    BY <2>1, <2>2 DEF Lineage, Open
<1>6. Backed'
  BY <1>1, <1>3 DEF Backed
<1>7. OneStands'
  <2>1. \A e \in Delegated : Standing(e)' => Standing(e)
    BY <1>1, <1>3 DEF Standing, DelegationLive, DelegationPending
  <2>2. \A e \in Delegated : delegation'[e].agentId = delegation[e].agentId
    BY <1>3
  <2> QED
    BY <1>3, <1>4, <2>1, <2>2 DEF OneStands
<1>8. Unspent'
  BY DEF Unspent
<1> QED
  BY <1>2, <1>5, <1>6, <1>7, <1>8

LEMMA ApproveInv ==
  ASSUME DelegationsInv, NEW d \in Ids, NEW depth \in Depths, Approve(d, depth)
  PROVE  DelegationsInv'
<1> DEFINE old == delegation[d]
           begun == [[old EXCEPT !.status = "active"] EXCEPT !.expiresAt = now + old.lifetime]
           row == [[begun EXCEPT !.lifetime = 0] EXCEPT !.depth = depth]
<1>1. d \in Delegated /\ DelegationPending(d) /\ UNCHANGED <<now, key, standing, session, confirmation, calls>>
  BY DEF Approve, Approvable
<1>2. old \in DelegationRows /\ now \in Nat
  BY <1>1 DEF DelegationsInv, DelegationsShape, Delegated
<1>3. now + old.lifetime \in Nat /\ depth \in Nat /\ 0 \in Nat
  BY <1>2, DelegationsAssumption DEF DelegationRows
<1>4. /\ begun \in DelegationRows
      /\ begun.status = "active" /\ begun.agentId = old.agentId /\ begun.parentId = old.parentId
  <2> DEFINE active == [old EXCEPT !.status = "active"]
  <2>1. /\ active \in DelegationRows
        /\ active.status = "active" /\ active.agentId = old.agentId /\ active.parentId = old.parentId
    BY <1>2 DEF DelegationRows, Statuses
  <2>2. begun = [active EXCEPT !.expiresAt = now + old.lifetime]
    OBVIOUS
  <2> HIDE DEF active, begun
  <2> QED
    BY <1>3, <2>1, <2>2 DEF DelegationRows
<1>5. /\ row \in DelegationRows
      /\ row.status = "active" /\ row.agentId = old.agentId /\ row.parentId = old.parentId
  <2> DEFINE timeless == [begun EXCEPT !.lifetime = 0]
  <2> HIDE DEF begun
  <2>1. /\ timeless \in DelegationRows
        /\ timeless.status = "active" /\ timeless.agentId = old.agentId /\ timeless.parentId = old.parentId
    BY <1>3, <1>4 DEF DelegationRows
  <2>2. row = [timeless EXCEPT !.depth = depth]
    OBVIOUS
  <2> HIDE DEF timeless, row
  <2> QED
    BY <1>3, <2>1, <2>2 DEF DelegationRows
<1>6. delegation' = [delegation EXCEPT ![d] = row]
  BY <1>1, <1>2 DEF Approve, DelegationsInv, DelegationsShape, Delegated
<1> HIDE DEF row
<1> QED
  BY <1>1, <1>5, <1>6, DecideInv

LEMMA DenyInv == ASSUME DelegationsInv, NEW d \in Ids, Deny(d) PROVE DelegationsInv'
<1> DEFINE old == delegation[d]
           row == [old EXCEPT !.status = "denied"]
<1>1. d \in Delegated /\ DelegationPending(d) /\ UNCHANGED <<now, key, standing, session, confirmation, calls>>
  BY DEF Deny
<1>2. old \in DelegationRows
  BY <1>1 DEF DelegationsInv, DelegationsShape, Delegated
<1>3. /\ row \in DelegationRows
      /\ row.status = "denied" /\ row.agentId = old.agentId /\ row.parentId = old.parentId
  BY <1>2 DEF DelegationRows, Statuses
<1>4. delegation' = [delegation EXCEPT ![d] = row]
  BY DEF Deny
<1> HIDE DEF row
<1> QED
  BY <1>1, <1>3, <1>4, DecideInv

(***************************************************************************)
(* Delegations end, with what is below them.                               *)
(***************************************************************************)
LEMMA EndAllInv ==
  ASSUME DelegationsInv, NEW ds \in SUBSET Delegated, NEW tops, ds \subseteq tops,
         EndAll(ds, tops), now' = now, key' \subseteq key, standing' \subseteq standing,
         UNCHANGED <<confirmation, calls>>
  PROVE  DelegationsInv'
<1> USE DEF DelegationsInv
<1> DEFINE over == ds \cup Below(tops)
           ended(d) == [delegation[d] EXCEPT !.status = "revoked"]
<1>1. over \subseteq Delegated /\ \A d \in Delegated : Open(d) /\ Parent(d) \in over => d \in over
  BY BelowIsLeast
<1>2. delegation' = [d \in Ids |-> IF d \in over THEN ended(d) ELSE delegation[d]]
  BY DEF EndAll
<1>3. \A s \in SessionIds : session'[s] # None =>
        session'[s] = session[s] /\ session[s].delegationId \notin over
  BY DEF EndAll
<1>4. \A d \in over :
        /\ ended(d) \in DelegationRows /\ ended(d) # None /\ ended(d).status = "revoked"
        /\ ended(d).agentId = delegation[d].agentId /\ ended(d).parentId = delegation[d].parentId
        /\ ended(d).expiresAt = delegation[d].expiresAt
  BY <1>1, DelegationsAssumption DEF DelegationsShape, Delegated, DelegationRows, Statuses
<1> HIDE DEF over, ended
<1>5. session' \in [SessionIds -> SessionRows \cup {None}]
  BY DEF EndAll, DelegationsShape
<1>6. DelegationsShape'
  BY <1>1, <1>2, <1>4, <1>5 DEF DelegationsShape
<1>7. /\ Delegated' = Delegated
      /\ \A d \in Delegated : /\ delegation'[d].agentId = delegation[d].agentId /\ Parent(d)' = Parent(d)
                              /\ delegation'[d].expiresAt = delegation[d].expiresAt
                              /\ IF d \in over THEN delegation'[d].status = "revoked"
                                 ELSE delegation'[d] = delegation[d]
  BY <1>1, <1>2, <1>4 DEF Delegated, DelegationsShape, Parent
<1>8. Lineage'
  <2> SUFFICES ASSUME NEW d \in Delegated, Parent(d) # None
               PROVE  /\ delegation'[d].status # "pending"
                      /\ Parent(d) \in Delegated /\ delegation'[Parent(d)].status \in {"active", "revoked"}
                      /\ delegation'[d].expiresAt <= delegation'[Parent(d)].expiresAt
                      /\ Open(d)' => delegation'[Parent(d)].status \in {"active", "pending"}
    BY <1>7 DEF Lineage, Open
  <2>1. Parent(d) \in Delegated /\ Open(d)' => d \notin over /\ Parent(d) \notin over
    BY <1>1, <1>7 DEF Lineage, Open
  <2> QED
    BY <1>7, <2>1 DEF Lineage, Open
<1>9. Backed'
  <2> SUFFICES ASSUME NEW s \in SessionIds, session'[s] # None
               PROVE  LET d == session'[s].delegationId IN
                      /\ d \in Delegated /\ delegation'[d].status = "active"
                      /\ session'[s].expiresAt <= delegation'[d].expiresAt
    BY <1>7 DEF Backed
  <2>1. session'[s] = session[s] /\ session[s].delegationId \notin over
    BY <1>3
  <2> QED
    BY <1>7, <2>1 DEF Backed
<1>10. OneStands'
  <2>1. \A d \in Delegated : Standing(d)' => Standing(d)
    BY <1>7 DEF Standing, DelegationLive, DelegationPending
  <2> QED
    BY <1>7, <2>1 DEF OneStands
<1>11. Unspent'
  BY DEF Unspent
<1> QED
  BY <1>6, <1>8, <1>9, <1>10, <1>11

LEMMA RevokeInv == ASSUME DelegationsInv, NEW d \in Ids, Revoke(d) PROVE DelegationsInv'
<1>1. {d} \in SUBSET Delegated /\ EndAll({d}, {d}) /\ UNCHANGED <<now, key, standing, confirmation, calls>>
  BY DEF Revoke
<1> QED
  BY <1>1, EndAllInv

LEMMA DeleteAgentInv == ASSUME DelegationsInv, NEW a \in Agents, DeleteAgent(a) PROVE DelegationsInv'
<1> DEFINE found == {d \in Delegated : delegation[d].agentId = a}
           open == {d \in found : Open(d)}
<1>1. open \in SUBSET Delegated /\ open \subseteq found
  OBVIOUS
<1>2. /\ EndAll(open, found) /\ UNCHANGED <<now, confirmation, calls>>
      /\ key' \subseteq key /\ standing' \subseteq standing
  BY DEF DeleteAgent
<1> HIDE DEF open, found
<1> QED
  BY <1>1, <1>2, EndAllInv

(***************************************************************************)
(* Sessions begin and end, and the agent comes and goes.                   *)
(***************************************************************************)
LEMMA SessionsInv ==
  ASSUME DelegationsInv, UNCHANGED <<now, key, delegation, confirmation, calls>>,
         standing' \subseteq Agents, session' \in [SessionIds -> SessionRows \cup {None}], Backed'
  PROVE  DelegationsInv'
<1> USE DEF DelegationsInv
<1>1. DelegationsShape' /\ Unspent'
  BY DEF DelegationsShape, Unspent
<1>2. Lineage'
  BY DEF Lineage, Delegated, Parent, Open
<1>3. OneStands'
  BY DEF OneStands, Standing, DelegationLive, DelegationPending, Delegated, Parent
<1> QED
  BY <1>1, <1>2, <1>3

LEMMA SuspendAgentInv == ASSUME DelegationsInv, NEW a \in Agents, SuspendAgent(a) PROVE DelegationsInv'
<1>1. session' \in [SessionIds -> SessionRows \cup {None}]
  BY DEF SuspendAgent, DelegationsInv, DelegationsShape
<1>2. \A s \in SessionIds : session'[s] # None => session'[s] = session[s]
  BY DEF SuspendAgent
<1>3. Backed'
  BY <1>2 DEF SuspendAgent, DelegationsInv, Backed, Delegated
<1>4. standing' \subseteq Agents
  BY DEF SuspendAgent, DelegationsInv, DelegationsShape
<1> QED
  BY <1>1, <1>3, <1>4, SessionsInv DEF SuspendAgent

LEMMA AssumeInv ==
  ASSUME DelegationsInv, NEW d \in Ids, NEW s \in SessionIds, Assume(d, s)
  PROVE  DelegationsInv'
<1> DEFINE until == Earlier(now + SessionLife, Earlier(delegation[d].expiresAt, KeyExpiry[delegation[d].agentId]))
           row == [delegationId |-> d, expiresAt |-> until]
<1>1. /\ d \in Delegated /\ delegation[d].status = "active"
      /\ UNCHANGED <<now, key, standing, delegation, confirmation, calls>>
  BY DEF Assume, DelegationLive
<1>2. until \in Nat /\ until <= delegation[d].expiresAt
  <2>1. /\ now + SessionLife \in Nat /\ delegation[d].expiresAt \in Nat
        /\ KeyExpiry[delegation[d].agentId] \in Nat
    BY <1>1, DelegationsAssumption DEF DelegationRows, DelegationsInv, DelegationsShape, Delegated
  <2> QED
    BY <2>1 DEF Earlier
<1>3. row \in SessionRows /\ row.delegationId = d /\ row.expiresAt = until
  BY <1>2 DEF SessionRows
<1>4. \A t \in SessionIds : session'[t] = row \/ session'[t] = None \/ session'[t] = session[t]
  BY DEF Assume
<1>5. session' \in [SessionIds -> SessionRows \cup {None}]
  <2>1. session' = [t \in SessionIds |-> session'[t]]
    BY DEF Assume
  <2> HIDE DEF row
  <2> QED
    BY <1>3, <1>4, <2>1 DEF DelegationsInv, DelegationsShape
<1> HIDE DEF row, until
<1>6. Backed'
  BY <1>1, <1>2, <1>3, <1>4 DEF DelegationsInv, Backed, Delegated
<1>7. standing' \subseteq Agents
  BY <1>1 DEF DelegationsInv, DelegationsShape
<1> QED
  BY <1>1, <1>5, <1>6, <1>7, SessionsInv

LEMMA ResumeAgentInv == ASSUME DelegationsInv, NEW a \in Agents, ResumeAgent(a) PROVE DelegationsInv'
<1>1. Backed'
  BY DEF ResumeAgent, DelegationsInv, Backed, Delegated
<1> QED
  BY <1>1, SessionsInv DEF ResumeAgent, DelegationsInv, DelegationsShape

(***************************************************************************)
(* Calls are confirmed, and time passes.                                   *)
(***************************************************************************)
LEMMA ConfirmationsInv ==
  ASSUME DelegationsInv, UNCHANGED <<now, key, standing, delegation, session>>, Unspent',
         confirmation' \in [ConfirmationIds -> ConfirmationRows \cup {None}],
         calls' \in [ConfirmationIds -> Nat]
  PROVE  DelegationsInv'
<1> USE DEF DelegationsInv
<1>1. DelegationsShape'
  BY DEF DelegationsShape
<1>2. Lineage' /\ Backed'
  BY DEF Lineage, Backed, Delegated, Parent, Open
<1>3. OneStands'
  BY DEF OneStands, Standing, DelegationLive, DelegationPending, Delegated, Parent
<1> QED
  BY <1>1, <1>2, <1>3

LEMMA RequestConfirmationInv ==
  ASSUME DelegationsInv, NEW s \in SessionIds, session[s] # None, NEW c \in ConfirmationIds,
         RequestConfirmation(s, c)
  PROVE  DelegationsInv'
<1> DEFINE row == [delegationId |-> session[s].delegationId, status |-> "pending", expiresAt |-> now + DecideLife]
<1>1. row \in ConfirmationRows /\ row # None /\ row.status = "pending"
  BY DelegationsAssumption
     DEF DelegationsInv, DelegationsShape, SessionRows, ConfirmationRows, Answers
<1>2. /\ confirmation' = [confirmation EXCEPT ![c] = row] /\ confirmation[c] = None
      /\ UNCHANGED <<now, key, standing, delegation, session, calls>>
  BY DEF RequestConfirmation
<1> HIDE DEF row
<1>3. confirmation' \in [ConfirmationIds -> ConfirmationRows \cup {None}] /\ calls' \in [ConfirmationIds -> Nat]
  BY <1>1, <1>2 DEF DelegationsInv, DelegationsShape
<1>4. Unspent'
  BY <1>1, <1>2 DEF DelegationsInv, DelegationsShape, Unspent
<1> QED
  BY <1>2, <1>3, <1>4, ConfirmationsInv

LEMMA DecideConfirmationInv ==
  ASSUME DelegationsInv, NEW c \in ConfirmationIds, NEW answer \in {"approved", "rejected"},
         DecideConfirmation(c, answer)
  PROVE  DelegationsInv'
<1> DEFINE until == IF answer = "approved" THEN now + DecideLife ELSE now
           answered == [confirmation[c] EXCEPT !.status = answer]
           row == [answered EXCEPT !.expiresAt = until]
<1>1. confirmation[c] \in ConfirmationRows /\ confirmation[c].status = "pending" /\ until \in Nat
  BY DelegationsAssumption DEF DelegationsInv, DelegationsShape, DecideConfirmation
<1>2. answered \in ConfirmationRows /\ answered.status = answer
  BY <1>1 DEF ConfirmationRows, Answers
<1>3. row \in ConfirmationRows /\ row # None
  <2> HIDE DEF answered, until
  <2>1. row \in ConfirmationRows
    BY <1>1, <1>2 DEF ConfirmationRows
  <2> QED
    BY <2>1, DelegationsAssumption
<1>4. /\ confirmation' = [confirmation EXCEPT ![c] = row]
      /\ UNCHANGED <<now, key, standing, delegation, session, calls>>
  BY DEF DecideConfirmation, DelegationsInv, DelegationsShape
<1> HIDE DEF row
<1>5. confirmation' \in [ConfirmationIds -> ConfirmationRows \cup {None}] /\ calls' \in [ConfirmationIds -> Nat]
  BY <1>3, <1>4 DEF DelegationsInv, DelegationsShape
<1>6. Unspent'
  BY <1>1, <1>3, <1>4 DEF DelegationsInv, DelegationsShape, Unspent
<1> QED
  BY <1>4, <1>5, <1>6, ConfirmationsInv

LEMMA CallConfirmedInv ==
  ASSUME DelegationsInv, NEW s \in SessionIds, NEW c \in ConfirmationIds, CallConfirmed(s, c)
  PROVE  DelegationsInv'
<1> DEFINE row == [confirmation[c] EXCEPT !.status = "used"]
<1>1. confirmation[c] \in ConfirmationRows /\ confirmation[c] # None /\ confirmation[c].status = "approved"
  BY DEF DelegationsInv, DelegationsShape, CallConfirmed, Approved
<1>2. row \in ConfirmationRows /\ row # None /\ row.status = "used"
  BY <1>1, DelegationsAssumption DEF ConfirmationRows, Answers
<1>3. /\ confirmation' = [confirmation EXCEPT ![c] = row] /\ calls' = [calls EXCEPT ![c] = @ + 1]
      /\ UNCHANGED <<now, key, standing, delegation, session>>
  BY DEF CallConfirmed, Used
<1> HIDE DEF row
<1>4. confirmation' \in [ConfirmationIds -> ConfirmationRows \cup {None}] /\ calls' \in [ConfirmationIds -> Nat]
  BY <1>2, <1>3 DEF DelegationsInv, DelegationsShape
<1>5. calls[c] = 0
  BY <1>1 DEF DelegationsInv, Unspent
<1>6. Unspent'
  BY <1>2, <1>3, <1>5 DEF DelegationsInv, DelegationsShape, Unspent
<1> QED
  BY <1>3, <1>4, <1>6, ConfirmationsInv

\* What did not stand does not come to stand by waiting.
LEMMA DelegationsTickInv == ASSUME DelegationsInv, Tick PROVE DelegationsInv'
<1> USE DEF DelegationsInv, Tick
<1>1. DelegationsShape' /\ Unspent'
  BY DEF DelegationsShape, Unspent
<1>2. Lineage' /\ Backed'
  BY DEF Lineage, Backed, Delegated, Parent, Open
<1>3. \A d \in Delegated : Standing(d)' => Standing(d)
  BY DEF Standing, DelegationLive, DelegationPending, DelegationsShape, Delegated, DelegationRows
<1>4. OneStands'
  BY <1>3 DEF OneStands, Delegated, Parent
<1> QED
  BY <1>1, <1>2, <1>4

LEMMA DelegationsSameInv == ASSUME DelegationsInv, UNCHANGED vars PROVE DelegationsInv'
<1>1. Backed'
  BY DEF vars, DelegationsInv, Backed, Delegated
<1> QED
  BY <1>1, SessionsInv DEF vars, DelegationsInv, DelegationsShape

LEMMA DelegationsNextInv == ASSUME DelegationsInv, [Next]_vars PROVE DelegationsInv'
<1>1. ASSUME NEW d \in Ids, NEW a \in Agents, NEW life \in Lifetimes, NEW depth \in Depths,
             Grant(d, a, life, depth)
      PROVE  DelegationsInv'
  BY <1>1, GrantInv
<1>2. ASSUME NEW d \in Ids, NEW a \in Agents, NEW life \in Lifetimes, Request(d, a, life)
      PROVE  DelegationsInv'
  BY <1>2, RequestInv
<1>3. ASSUME NEW d \in Ids, NEW a \in Agents, NEW life \in Lifetimes, NEW s \in SessionIds,
             session[s] # None, Handoff(s, d, a, life)
      PROVE  DelegationsInv'
  BY <1>3, HandoffInv
<1>4. ASSUME NEW d \in Ids, NEW depth \in Depths, Approve(d, depth) PROVE DelegationsInv'
  BY <1>4, ApproveInv
<1>5. ASSUME NEW d \in Ids, Deny(d) \/ Revoke(d) PROVE DelegationsInv'
  BY <1>5, DenyInv, RevokeInv
<1>6. ASSUME NEW d \in Ids, NEW s \in SessionIds, Assume(d, s) PROVE DelegationsInv'
  BY <1>6, AssumeInv
<1>7. ASSUME NEW a \in Agents, DeleteAgent(a) \/ SuspendAgent(a) \/ ResumeAgent(a) PROVE DelegationsInv'
  BY <1>7, DeleteAgentInv, SuspendAgentInv, ResumeAgentInv
<1>8. ASSUME NEW s \in SessionIds, NEW c \in ConfirmationIds, session[s] # None,
             RequestConfirmation(s, c) \/ CallConfirmed(s, c)
      PROVE  DelegationsInv'
  BY <1>8, RequestConfirmationInv, CallConfirmedInv
<1>9. ASSUME NEW c \in ConfirmationIds, NEW answer \in {"approved", "rejected"}, DecideConfirmation(c, answer)
      PROVE  DelegationsInv'
  BY <1>9, DecideConfirmationInv
<1>10. CASE Tick
  BY <1>10, DelegationsTickInv
<1>11. CASE UNCHANGED vars
  BY <1>11, DelegationsSameInv
<1> QED
  BY <1>1, <1>2, <1>3, <1>4, <1>5, <1>6, <1>7, <1>8, <1>9, <1>10, <1>11 DEF Next

LEMMA DelegationsAlways == Spec => []DelegationsInv
<1>1. Init => DelegationsInv
  BY DelegationsInitInv
<1>2. DelegationsInv /\ [Next]_vars => DelegationsInv'
  BY DelegationsNextInv
<1> QED
  BY <1>1, <1>2, PTL DEF Spec

\* Whoever ends a delegation (revokeDelegation, revokeDelegationsOf), every
\* hand-off below it has ended and no session is left, however deep it goes.
THEOREM EndedTakesAll == Spec => []EndedHoldsNothing
<1>1. DelegationsInv => EndedHoldsNothing
  BY DelegationsImply
<1> QED
  BY <1>1, DelegationsAlways, PTL

\* handoff and assumeDelegation cut what they hand out down to its source, and
\* nothing later lets it outlive any source above it.
THEOREM HandoffsEndInTime == Spec => []NothingOutlivesItsSource
<1>1. DelegationsInv => NothingOutlivesItsSource
  BY DelegationsImply
<1> QED
  BY <1>1, DelegationsAlways, PTL

\* A person has one standing agreement with an agent, and each call they
\* confirm is made once.
THEOREM ApprovalsCountOnce == Spec => []ApprovedOnce
<1>1. DelegationsInv => ApprovedOnce
  BY DelegationsImply
<1> QED
  BY <1>1, DelegationsAlways, PTL

----------------------------------------------------------------------------
(***************************************************************************)
(* What a member's bindings forbid stays forbidden.                        *)
(***************************************************************************)
Kept(f) == {r \in DOMAIN f : f[r] # Absent}

\* Sets that have what their members inherit.
Whole(f, s) == s \subseteq Kept(f) /\ \A r \in s : Range(f[r].inherits) \subseteq s

AccessShape ==
  /\ role \in [Roles -> RoleRows \cup {Absent}]
  /\ policy \in [Policies -> PolicyRows \cup {Absent}]
  /\ binding \subseteq Defined \X GrantIds

\* Roles name policies and roles that there are.
NothingMissing ==
  \A r \in Defined : role[r].policies \subseteq Stored /\ Heirs(r) \subseteq Defined

\* No role inherits from itself, however far off: following what a role
\* inherits, as roleGrants and roleDenies do, comes to an end.
NoLoops == \A r \in Defined : r \notin Reached(role, Heirs(r), {})

AccessInv == AccessShape /\ NothingMissing /\ NoLoops

\* Reached is the least whole set with what was found.
LEMMA ReachedIsLeast ==
  ASSUME NEW f, Whole(f, Kept(f)), NEW found, found \subseteq Kept(f)
  PROVE  /\ found \subseteq Reached(f, found, {}) /\ Whole(f, Reached(f, found, {}))
         /\ \A s : Whole(f, s) /\ found \subseteq s => Reached(f, found, {}) \subseteq s
<1> DEFINE closed == {s \in SUBSET Kept(f) :
                        found \subseteq s /\ \A r \in s : Range(f[r].inherits) \ {} \subseteq s}
           least == {r \in Kept(f) : \A s \in closed : r \in s}
<1>1. Reached(f, found, {}) = least
  BY DEF Reached, Kept
<1>2. \A s : s \in closed <=> Whole(f, s) /\ found \subseteq s
  BY DEF Whole
<1> HIDE DEF closed
<1>3. found \subseteq least
  BY <1>2
<1>4. ASSUME NEW r \in least, NEW i \in Range(f[r].inherits) PROVE i \in least
  <2>1. i \in Kept(f)
    BY <1>4 DEF Whole
  <2>2. ASSUME NEW s \in closed PROVE i \in s
    BY <1>2, <1>4, <2>2 DEF Whole
  <2> QED
    BY <2>1, <2>2
<1>5. Whole(f, least)
  BY <1>4 DEF Whole
<1>6. \A s : Whole(f, s) /\ found \subseteq s => least \subseteq s
  BY <1>2
<1> HIDE DEF least
<1> QED
  BY <1>1, <1>3, <1>5, <1>6
\* A role that carries a deny is covered by what reliedOnByOthers goes through.
LEMMA CarriersAreCovered ==
  ASSUME AccessInv, NEW b \in Defined, NEW q \in Reached(role, {b}, {}), NEW rs, q \in rs
  PROVE  b \in Covered(rs)
<1>1. Kept(role) = Defined /\ Whole(role, Kept(role))
  BY DEF AccessInv, AccessShape, NothingMissing, Kept, Defined, Heirs, Whole
<1>2. ASSUME NEW s \in SUBSET Defined, rs \subseteq s,
             \A r \in Defined : Heirs(r) \cap s # {} => r \in s,
             b \notin s
      PROVE  FALSE
  <2>1. Whole(role, Defined \ s)
    BY <1>1, <1>2 DEF Whole, Heirs
  <2>2. Reached(role, {b}, {}) \subseteq Defined \ s
    BY <2>1, <1>1, <1>2, ReachedIsLeast
  <2> QED
    BY <2>2, <1>2
<1> QED
  BY <1>2 DEF Covered

\* f and g differ in r only, and nothing dangles in either.
OnlyAt(r, f, g) ==
  /\ Whole(f, Kept(f)) /\ Whole(g, Kept(g))
  /\ DOMAIN g = DOMAIN f /\ \A q \in DOMAIN f \ {r} : g[q] = f[q]

\* Where r was out of reach, everything is within reach that was.
LEMMA ElsewhereStays ==
  ASSUME NEW f, NEW g, NEW r, OnlyAt(r, f, g),
         NEW found, found \subseteq Kept(f), r \notin Reached(f, found, {})
  PROVE  found \subseteq Kept(g) /\ Reached(g, found, {}) = Reached(f, found, {})
<1> DEFINE before == Reached(f, found, {})
           after == Reached(g, found, {})
<1>1. found \subseteq before /\ Whole(f, before)
  BY ReachedIsLeast DEF OnlyAt
<1>2. Whole(g, before)
  BY <1>1 DEF Whole, OnlyAt, Kept
<1>3. found \subseteq Kept(g)
  BY <1>1, <1>2 DEF Whole
<1>4. found \subseteq after /\ Whole(g, after) /\ after \subseteq before
  BY <1>1, <1>2, <1>3, ReachedIsLeast DEF OnlyAt
<1>5. Whole(f, after)
  BY <1>1, <1>4 DEF Whole, OnlyAt, Kept
<1>6. before \subseteq after
  BY <1>4, <1>5, ReachedIsLeast DEF OnlyAt
<1> QED
  BY <1>3, <1>4, <1>6

\* Where r was within reach, what r forbade before is all that may be lost.
LEMMA LostByOne ==
  ASSUME NEW f, NEW g, NEW r, OnlyAt(r, f, g), r \in Kept(f), r \in Kept(g),
         NEW b \in Kept(f), r \in Reached(f, {b}, {})
  PROVE  /\ Reached(f, {b}, {}) \subseteq Reached(f, {r}, {}) \cup (Reached(g, {b}, {}) \ {r})
         /\ Reached(g, {r}, {}) \subseteq Reached(g, {b}, {})
<1> DEFINE below == Reached(f, {r}, {})
           after == Reached(g, {b}, {})
<1>1. Kept(f) = Kept(g)
  BY DEF OnlyAt, Kept
<1>2. b \in after /\ Whole(g, after)
  BY <1>1, ReachedIsLeast DEF OnlyAt
<1>3. r \in below /\ Whole(f, below)
  BY ReachedIsLeast DEF OnlyAt
<1>4. r \in after
  <2> SUFFICES ASSUME r \notin after PROVE FALSE
    OBVIOUS
  <2>1. Whole(f, after)
    BY <1>1, <1>2 DEF Whole, OnlyAt, Kept
  <2> QED
    BY <2>1, <1>2, ReachedIsLeast DEF OnlyAt
<1>5. Reached(g, {r}, {}) \subseteq after
  BY <1>2, <1>4, ReachedIsLeast DEF OnlyAt
<1>6. Whole(f, below \cup after)
  BY <1>1, <1>2, <1>3 DEF Whole, OnlyAt, Kept
<1>7. Reached(f, {b}, {}) \subseteq below \cup after
  BY <1>2, <1>6, ReachedIsLeast DEF OnlyAt
<1> QED
  BY <1>3, <1>5, <1>7

LEMMA AccessInitInv == AccessInit => AccessInv
BY DEF AccessInit, AccessInv, AccessShape, NothingMissing, NoLoops, Defined

LEMMA RolesAreWhole == ASSUME AccessInv PROVE Kept(role) = Defined /\ Whole(role, Kept(role))
BY DEF AccessInv, AccessShape, NothingMissing, Kept, Defined, Heirs, Whole

\* Whatever is done to the policies, those that roles name stay.
LEMMA PoliciesInv ==
  ASSUME AccessInv, policy' \in [Policies -> PolicyRows \cup {Absent}], UNCHANGED <<role, binding>>,
         \A r \in Defined : role[r].policies \subseteq Stored'
  PROVE  AccessInv'
<1>1. Defined' = Defined /\ \A r \in Defined : Heirs(r)' = Heirs(r)
  BY DEF Defined, Heirs
<1>2. AccessShape' /\ NothingMissing'
  BY <1>1 DEF AccessInv, AccessShape, NothingMissing
<1>3. NoLoops'
  <2>1. \A r \in Defined : Reached(role, Heirs(r), {})' = Reached(role, Heirs(r), {})
    BY <1>1 DEF Reached
  <2> QED
    BY <1>1, <2>1 DEF AccessInv, NoLoops
<1> QED
  BY <1>2, <1>3 DEF AccessInv

\* createRole and updateRole, with the check of inheritance.
LEMMA RoleWrittenInv ==
  ASSUME AccessInv, NEW r \in Roles, NEW row \in RoleRows, row.policies \subseteq Stored,
         MayInherit(r, row.inherits), role' = [role EXCEPT ![r] = row], UNCHANGED <<policy, binding>>
  PROVE  AccessInv' /\ OnlyAt(r, role, role') /\ r \in Kept(role')
<1> DEFINE new == Range(row.inherits)
           below == Reached(role, new, {})
<1>1. /\ role \in [Roles -> RoleRows \cup {Absent}] /\ role' \in [Roles -> RoleRows \cup {Absent}]
      /\ role'[r] = row /\ \A q \in Roles \ {r} : role'[q] = role[q]
      /\ row # Absent
  BY GrantsAssumption DEF AccessInv, AccessShape
<1>2. Defined' = Defined \cup {r} /\ Kept(role') = Defined' /\ Stored' = Stored
  BY <1>1 DEF Defined, Kept, Stored
<1>3. Heirs(r)' = new /\ \A q \in Defined \ {r} : Heirs(q)' = Heirs(q)
  BY <1>1 DEF Heirs, Defined
<1>4. new \subseteq Defined /\ r \notin below
  BY DEF MayInherit
<1>5. AccessShape'
  BY <1>1, <1>2 DEF AccessInv, AccessShape
<1>6. NothingMissing'
  BY <1>1, <1>2, <1>3, <1>4 DEF AccessInv, NothingMissing
<1>7. OnlyAt(r, role, role')
  <2>1. Whole(role', Kept(role'))
    BY <1>2, <1>6 DEF NothingMissing, Whole, Heirs
  <2> QED
    BY <1>1, <2>1, RolesAreWhole DEF OnlyAt
<1>8. /\ new \subseteq below /\ Whole(role, below) /\ Whole(role', below)
      /\ Reached(role', new, {}) = below
  <2>1. new \subseteq below /\ Whole(role, below)
    BY <1>4, RolesAreWhole, ReachedIsLeast
  <2>2. Whole(role', below)
    BY <1>1, <1>2, <1>4, <2>1, RolesAreWhole DEF Whole, Defined
  <2>3. Reached(role', new, {}) = below
    BY <1>4, <1>7, RolesAreWhole, ElsewhereStays
  <2> QED
    BY <2>1, <2>2, <2>3
<1>9. ASSUME NEW q \in Defined, q # r PROVE q \notin Reached(role', Heirs(q), {})
  <2> DEFINE others == Reached(role, Heirs(q), {})
  <2>1. q \notin others /\ Heirs(q) \subseteq Kept(role)
    BY RolesAreWhole DEF AccessInv, NoLoops, NothingMissing
  <2>2. Heirs(q) \subseteq others /\ Whole(role, others)
    BY <2>1, RolesAreWhole, ReachedIsLeast
  <2>3. CASE q \in below
    <3>1. Heirs(q) \subseteq below
      BY <1>8, <2>3 DEF Whole, Heirs
    <3>2. others \subseteq below
      BY <1>8, <2>1, <3>1, RolesAreWhole, ReachedIsLeast
    <3>3. Reached(role', Heirs(q), {}) = others
      BY <1>4, <1>7, <2>1, <3>2, ElsewhereStays
    <3> QED
      BY <2>1, <3>3
  <2>4. CASE q \notin below
    <3> DEFINE all == others \cup below
    <3>1. Whole(role', all)
      <4>1. all \subseteq Kept(role')
        BY <1>2, <1>8, <2>2, RolesAreWhole DEF Whole
      <4>2. ASSUME NEW x \in all PROVE Range(role'[x].inherits) \subseteq all
        BY <1>1, <1>8, <2>2, RolesAreWhole DEF Whole, Defined
      <4> QED
        BY <4>1, <4>2 DEF Whole
    <3>2. Reached(role', Heirs(q), {}) \subseteq all
      <4>1. Heirs(q) \subseteq Kept(role') /\ Whole(role', Kept(role'))
        BY <1>2, <1>7, <2>1, RolesAreWhole DEF OnlyAt
      <4> HIDE DEF all
      <4>2. Heirs(q) \subseteq all
        BY <2>2 DEF all
      <4> QED
        BY <3>1, <4>1, <4>2, ReachedIsLeast
    <3> QED
      BY <2>1, <2>4, <3>2
  <2> QED
    BY <2>3, <2>4
<1>10. NoLoops'
  <2>1. \A q \in Defined' : Reached(role, Heirs(q), {})' = Reached(role', Heirs(q)', {})
    BY DEF Reached
  <2> QED
    BY <1>2, <1>3, <1>4, <1>8, <1>9, <2>1 DEF NoLoops
<1> QED
  BY <1>2, <1>5, <1>6, <1>7, <1>10 DEF AccessInv

LEMMA RoleDeletedInv ==
  ASSUME AccessInv, NEW r \in Defined, \A s \in Defined : r \notin Heirs(s),
         role' = [role EXCEPT ![r] = Absent], binding' = {b \in binding : b[1] # r},
         UNCHANGED policy
  PROVE  AccessInv' /\ OnlyAt(r, role, role')
<1>1. /\ role \in [Roles -> RoleRows \cup {Absent}] /\ role' \in [Roles -> RoleRows \cup {Absent}]
      /\ role'[r] = Absent /\ \A q \in Roles \ {r} : role'[q] = role[q]
  BY DEF AccessInv, AccessShape, Defined
<1>2. Defined' = Defined \ {r} /\ Kept(role') = Defined' /\ Stored' = Stored
  BY <1>1 DEF Defined, Kept, Stored
<1>3. \A q \in Defined' : Heirs(q)' = Heirs(q)
  BY <1>1, <1>2 DEF Heirs, Defined
<1>4. AccessShape'
  BY <1>1, <1>2 DEF AccessInv, AccessShape
<1>5. NothingMissing'
  BY <1>1, <1>2, <1>3 DEF AccessInv, NothingMissing, Defined
<1>6. OnlyAt(r, role, role')
  <2>1. Whole(role', Kept(role'))
    BY <1>2, <1>5 DEF NothingMissing, Whole, Heirs
  <2> QED
    BY <1>1, <2>1, RolesAreWhole DEF OnlyAt
<1>7. NoLoops'
  <2> SUFFICES ASSUME NEW q \in Defined' PROVE q \notin Reached(role, Heirs(q), {})'
    BY DEF NoLoops
  <2>1. q \in Defined /\ q # r
    BY <1>2
  <2>2. Heirs(q) \subseteq Defined \ {r} /\ q \notin Reached(role, Heirs(q), {})
    BY <2>1 DEF AccessInv, NothingMissing, NoLoops
  <2>3. Whole(role, Defined \ {r})
    BY RolesAreWhole DEF Whole, Heirs
  <2>4. r \notin Reached(role, Heirs(q), {})
    BY <2>2, <2>3, RolesAreWhole, ReachedIsLeast
  <2>5. Reached(role', Heirs(q), {}) = Reached(role, Heirs(q), {})
    BY <1>6, <2>2, <2>4, RolesAreWhole, ElsewhereStays
  <2>6. Reached(role, Heirs(q), {})' = Reached(role', Heirs(q), {})
    BY <1>3 DEF Reached
  <2> QED
    BY <2>2, <2>5, <2>6
<1> QED
  BY <1>4, <1>5, <1>6, <1>7 DEF AccessInv

\* The step takes no deny from what another than e bound the member to.
SparedBy(e) == e # Administrator => \A b \in binding : HolderOf[b[2]] # e => ~Taken(b)

LEMMA EditedIsHeld ==
  ASSUME NEW e, e # Administrator, NEW record, CanEdit(e, record)
  PROVE  HolderOf[record.author] = e
BY DEF CanEdit, MayGrantUnder

LEMMA IssuedUnder == ASSUME NEW e, NEW a \in MayGrantUnder(e) PROVE a \in GrantIds
BY GrantsAssumption DEF MayGrantUnder

\* A role that keeps what it is bound through, and its denies, loses nothing.
LEMMA NothingTaken ==
  ASSUME NEW b \in binding, b \in binding', Forbids(role, b[1]) \subseteq Forbids(role, b[1])'
  PROVE  ~Taken(b)
BY DEF Taken

\* Policies change: where no role within reach of b loses a deny by it.
LEMMA PoliciesSpare ==
  ASSUME UNCHANGED <<role, binding>>, NEW b \in binding,
         \A q \in Reached(role, {b[1]}, {}) : \A p \in role[q].policies :
           Current(p).deny \subseteq Current(p)'.deny
  PROVE  ~Taken(b)
<1>1. Reached(role, {b[1]}, {})' = Reached(role, {b[1]}, {})
  BY DEF Reached
<1>2. \A q \in Reached(role, {b[1]}, {}) : DenyOf(role, q) \subseteq DenyOf(role, q)'
  BY DEF DenyOf
<1>3. Forbids(role, b[1]) \subseteq Forbids(role, b[1])'
  BY <1>1, <1>2 DEF Forbids, DenyAmong
<1> QED
  BY <1>3, NothingTaken

\* A role changes, out of reach of what b binds or losing no deny.
LEMMA RoleSpares ==
  ASSUME AccessInv, NEW b \in binding, b \in binding', NEW r, OnlyAt(r, role, role'),
         UNCHANGED policy,
         \/ r \notin Reached(role, {b[1]}, {})
         \/ r \in Kept(role) \cap Kept(role') /\ Forbids(role, r) \subseteq Forbids(role', r)
  PROVE  ~Taken(b)
<1> DEFINE before == Reached(role, {b[1]}, {})
           after == Reached(role', {b[1]}, {})
<1>1. b[1] \in Kept(role)
  BY RolesAreWhole DEF AccessInv, AccessShape
<1>2. /\ Forbids(role, b[1])' = DenyAmong(role', after)
      /\ \A q \in before \ {r} : DenyOf(role', q) = DenyOf(role, q)
  <2>1. DenyAmong(role, before)' = DenyAmong(role', after)
    BY DEF DenyAmong, DenyOf, Current, Reached
  <2>2. before \subseteq DOMAIN role
    BY DEF Reached
  <2> QED
    BY <2>1, <2>2 DEF Forbids, OnlyAt, DenyOf
<1>3. CASE r \notin before
  <2>1. after = before
    BY <1>1, <1>3, ElsewhereStays
  <2>2. Forbids(role, b[1]) \subseteq Forbids(role, b[1])'
    BY <1>2, <1>3, <2>1 DEF Forbids, DenyAmong
  <2> QED
    BY <2>2, NothingTaken
<1>4. CASE r \in before
  <2>1. r \in Kept(role) \cap Kept(role') /\ Forbids(role, r) \subseteq Forbids(role', r)
    BY <1>4
  <2>2. /\ before \subseteq Reached(role, {r}, {}) \cup (after \ {r})
        /\ Reached(role', {r}, {}) \subseteq after
    BY <1>1, <1>4, <2>1, LostByOne
  <2>3. ASSUME NEW q \in before PROVE DenyOf(role, q) \subseteq DenyAmong(role', after)
    <3>1. CASE q \in Reached(role, {r}, {})
      BY <2>1, <2>2, <3>1 DEF Forbids, DenyAmong
    <3>2. CASE q \in after \ {r}
      BY <1>2, <3>2 DEF DenyAmong
    <3> QED
      BY <2>2, <3>1, <3>2
  <2>4. Forbids(role, b[1]) \subseteq Forbids(role, b[1])'
    BY <1>2, <2>3 DEF Forbids, DenyAmong
  <2> QED
    BY <2>4, NothingTaken
<1> QED
  BY <1>3, <1>4

\* What assertDeniesKept asks: with another than the editor bound to one that
\* carries the denies, none of them goes.
LEMMA KeptForOthers ==
  ASSUME AccessInv, NEW e, e # Administrator, NEW before, NEW after, NEW a, HolderOf[a] = e, NEW rs,
         DeniesKept(e, before, after, a, rs),
         NEW b \in binding, HolderOf[b[2]] # e,
         NEW q \in Reached(role, {b[1]}, {}), q \in rs
  PROVE  before \subseteq after
<1>1. b[1] \in Defined
  BY DEF AccessInv, AccessShape
<1>2. b[1] \in Covered(rs)
  BY <1>1, CarriersAreCovered
<1>3. ReliedOnByOthers(a, rs)
  BY <1>2 DEF ReliedOnByOthers
<1> QED
  BY <1>3 DEF DeniesKept

LEMMA CreatePolicySpares ==
  ASSUME AccessInv, NEW e, NEW p \in Policies, NEW document \in Documents, CreatePolicy(e, p, document)
  PROVE  AccessInv' /\ SparedBy(e)
<1> PICK a \in MayGrantUnder(e) :
      policy' = [policy EXCEPT ![p] = [author |-> a, versions |-> <<document>>]]
  BY DEF CreatePolicy
<1> DEFINE row == [author |-> a, versions |-> <<document>>]
<1>1. /\ row \in PolicyRows /\ row # Absent /\ policy[p] = Absent
      /\ policy \in [Policies -> PolicyRows \cup {Absent}]
  <2>1. row \in PolicyRows
    <3>1. a \in GrantIds /\ <<document>> \in Seq(Documents)
      BY IssuedUnder
    <3> QED
      BY <3>1 DEF PolicyRows
  <2> QED
    BY <2>1, GrantsAssumption DEF CreatePolicy, AccessInv, AccessShape
<1>2. policy' \in [Policies -> PolicyRows \cup {Absent}] /\ Stored' = Stored \cup {p} /\ p \notin Stored
  BY <1>1 DEF Stored
<1>3. AccessInv'
  BY <1>2, PoliciesInv DEF CreatePolicy, AccessInv, NothingMissing
<1>4. ASSUME NEW b \in binding PROVE ~Taken(b)
  <2>1. \A q \in Reached(role, {b[1]}, {}) : role[q].policies \subseteq Stored
    BY DEF Reached, AccessInv, AccessShape, NothingMissing, Defined
  <2>2. \A s \in Stored : Current(s)' = Current(s)
    BY <1>1, <1>2 DEF Current, Stored
  <2> QED
    BY <2>1, <2>2, PoliciesSpare DEF CreatePolicy
<1> QED
  BY <1>3, <1>4 DEF SparedBy

LEMMA DeletePolicySpares ==
  ASSUME AccessInv, NEW e, NEW p \in Policies, DeletePolicy(e, p)
  PROVE  AccessInv' /\ SparedBy(e)
<1>1. /\ policy \in [Policies -> PolicyRows \cup {Absent}] /\ policy' = [policy EXCEPT ![p] = Absent]
      /\ \A r \in Defined : p \notin role[r].policies
  BY DEF DeletePolicy, AccessInv, AccessShape
<1>2. policy' \in [Policies -> PolicyRows \cup {Absent}] /\ Stored' = Stored \ {p}
  BY <1>1 DEF Stored
<1>3. AccessInv'
  BY <1>1, <1>2, PoliciesInv DEF DeletePolicy, AccessInv, NothingMissing
<1>4. ASSUME NEW b \in binding PROVE ~Taken(b)
  <2>1. \A q \in Reached(role, {b[1]}, {}) : role[q].policies \subseteq Stored \ {p}
    BY <1>1 DEF Reached, AccessInv, AccessShape, NothingMissing, Defined
  <2>2. \A s \in Stored \ {p} : Current(s)' = Current(s)
    BY <1>1 DEF Current, Stored
  <2> QED
    BY <2>1, <2>2, PoliciesSpare DEF DeletePolicy
<1> QED
  BY <1>3, <1>4 DEF SparedBy

LEMMA WritePolicySpares ==
  ASSUME AccessInv, NEW e, NEW p \in Policies, NEW document \in Documents, WritePolicy(e, p, document)
  PROVE  AccessInv' /\ SparedBy(e)
<1> DEFINE versions == policy[p].versions
<1>1. /\ policy \in [Policies -> PolicyRows \cup {Absent}] /\ policy[p] \in PolicyRows
      /\ policy' = [policy EXCEPT ![p].versions = Append(versions, document)]
  BY DEF WritePolicy, AccessInv, AccessShape, Stored
<1>2. versions \in Seq(Documents) /\ Append(versions, document) \in Seq(Documents)
  BY <1>1 DEF PolicyRows
<1>3. /\ policy' \in [Policies -> PolicyRows \cup {Absent}] /\ Stored' = Stored
      /\ policy'[p].versions = Append(versions, document)
  BY <1>1, <1>2, GrantsAssumption DEF Stored, PolicyRows
<1>4. AccessInv'
  BY <1>3, PoliciesInv DEF WritePolicy, AccessInv, NothingMissing
<1>5. Current(p)' = document
  BY <1>2, <1>3 DEF Current
<1>6. \A s \in Policies \ {p} : Current(s)' = Current(s)
  BY <1>1 DEF Current
<1>7. ASSUME e # Administrator, NEW b \in binding, HolderOf[b[2]] # e,
             NEW q \in Reached(role, {b[1]}, {}), NEW s \in role[q].policies
      PROVE  Current(s).deny \subseteq Current(s)'.deny
  <2>1. q \in Defined /\ s \in Policies
    BY DEF Reached, AccessInv, AccessShape, NothingMissing, Defined, Stored
  <2>2. CASE s # p
    BY <1>6, <2>1, <2>2
  <2>3. CASE s = p
    <3> DEFINE bearers == {r \in Defined : p \in role[r].policies}
    <3>1. q \in bearers
      BY <2>1, <2>3
    <3>2. DeniesKept(e, Current(p).deny, document.deny, policy[p].author, bearers)
      BY DEF WritePolicy
    <3>3. HolderOf[policy[p].author] = e
      BY <1>7, EditedIsHeld DEF WritePolicy
    <3> HIDE DEF bearers
    <3>4. Current(p).deny \subseteq document.deny
      BY <1>7, <3>1, <3>2, <3>3, KeptForOthers
    <3> QED
      BY <1>5, <2>3, <3>4
  <2> QED
    BY <2>2, <2>3
<1> QED
  BY <1>4, <1>7, PoliciesSpare DEF SparedBy, WritePolicy

LEMMA CreateRoleSpares ==
  ASSUME AccessInv, NEW e, NEW r \in Roles, NEW document \in Documents, NEW policies \in SUBSET Policies,
         NEW inherits \in Seq(Roles), CreateRole(e, r, document, policies, inherits)
  PROVE  AccessInv' /\ SparedBy(e)
<1> PICK a \in MayGrantUnder(e) :
      role' = [role EXCEPT ![r] =
        [author |-> a, document |-> document, policies |-> policies, inherits |-> inherits]]
  BY DEF CreateRole
<1> DEFINE row == [author |-> a, document |-> document, policies |-> policies, inherits |-> inherits]
<1>1. row \in RoleRows /\ row.policies \subseteq Stored /\ MayInherit(r, row.inherits)
  BY IssuedUnder DEF RoleRows, CreateRole
<1>2. AccessInv' /\ OnlyAt(r, role, role')
  <2> HIDE DEF row
  <2>1. role' = [role EXCEPT ![r] = row] /\ UNCHANGED <<policy, binding>>
    BY DEF CreateRole, row
  <2> QED
    BY <1>1, <2>1, RoleWrittenInv
<1>3. ASSUME NEW b \in binding PROVE ~Taken(b)
  <2>1. r \notin Reached(role, {b[1]}, {})
    BY DEF Reached, CreateRole, Defined
  <2> QED
    BY <1>2, <2>1, RoleSpares DEF CreateRole
<1> QED
  BY <1>2, <1>3 DEF SparedBy

LEMMA UpdateRoleSpares ==
  ASSUME AccessInv, NEW e, NEW r \in Roles, NEW document \in Documents, NEW policies \in SUBSET Policies,
         NEW inherits \in Seq(Roles), UpdateRole(e, r, document, policies, inherits)
  PROVE  AccessInv' /\ SparedBy(e)
<1> DEFINE row == [author |-> role[r].author, document |-> document,
                   policies |-> policies, inherits |-> inherits]
<1>1. role \in [Roles -> RoleRows \cup {Absent}] /\ role[r] \in RoleRows
  BY DEF UpdateRole, AccessInv, AccessShape, Defined
<1>2. row \in RoleRows /\ row.policies \subseteq Stored /\ MayInherit(r, row.inherits)
  BY <1>1 DEF RoleRows, UpdateRole
<1>3. role' = [role EXCEPT ![r] = row] /\ UNCHANGED <<policy, binding>>
  <2> DEFINE one == [role EXCEPT ![r].document = document]
             two == [one EXCEPT ![r].policies = policies]
             three == [two EXCEPT ![r].inherits = inherits]
  <2>1. role' = three /\ UNCHANGED <<policy, binding>>
    BY DEF UpdateRole
  <2>2. three[r] = row
    <3>1. one[r] = [role[r] EXCEPT !.document = document]
      BY <1>1
    <3>2. two[r] = [one[r] EXCEPT !.policies = policies]
      BY <1>1
    <3>3. three[r] = [two[r] EXCEPT !.inherits = inherits]
      BY <1>1
    <3> QED
      BY <1>1, <3>1, <3>2, <3>3 DEF RoleRows
  <2>3. three = [role EXCEPT ![r] = row]
    BY <1>1, <2>2
  <2> QED
    BY <2>1, <2>3
<1>4. AccessInv' /\ OnlyAt(r, role, role') /\ r \in Kept(role')
  <2> HIDE DEF row
  <2> QED
    BY <1>2, <1>3, RoleWrittenInv
<1>5. DeniesKept(e, Forbids(role, r), Forbids(role', r), role[r].author, {r})
  BY DEF UpdateRole
<1>6. r \in Kept(role) /\ (e # Administrator => HolderOf[role[r].author] = e)
  BY RolesAreWhole, EditedIsHeld DEF UpdateRole
<1>7. ASSUME e # Administrator, NEW b \in binding, HolderOf[b[2]] # e PROVE ~Taken(b)
  <2>1. ASSUME r \in Reached(role, {b[1]}, {}) PROVE Forbids(role, r) \subseteq Forbids(role', r)
    <3> DEFINE before == Forbids(role, r)
               after == Forbids(role', r)
               rs == {r}
    <3>1. DeniesKept(e, before, after, role[r].author, rs) /\ r \in rs /\ HolderOf[role[r].author] = e
      BY <1>5, <1>6, <1>7
    <3> HIDE DEF before, after, rs
    <3>2. before \subseteq after
      BY <1>7, <2>1, <3>1, KeptForOthers
    <3> QED
      BY <3>2 DEF before, after
  <2> QED
    BY <1>3, <1>4, <1>6, <2>1, RoleSpares
<1> QED
  BY <1>4, <1>7 DEF SparedBy

LEMMA DeleteRoleSpares ==
  ASSUME AccessInv, NEW e, NEW r \in Roles, DeleteRole(e, r)
  PROVE  AccessInv' /\ SparedBy(e)
<1>1. AccessInv' /\ OnlyAt(r, role, role')
  BY RoleDeletedInv DEF DeleteRole
<1>2. ASSUME e # Administrator, NEW b \in binding, HolderOf[b[2]] # e PROVE ~Taken(b)
  <2>1. b[1] \in Defined /\ r \in Defined
    BY DEF AccessInv, AccessShape, DeleteRole
  <2>2. CASE b[1] = r
    <3>1. r \in Reached(role, {b[1]}, {})
      BY <2>1, <2>2, RolesAreWhole, ReachedIsLeast
    <3>2. HolderOf[role[r].author] = e
      BY <1>2, EditedIsHeld DEF DeleteRole
    <3>3. Forbids(role, r) \subseteq {}
      <4>1. DeniesKept(e, Forbids(role, r), {}, role[r].author, {r})
        BY DEF DeleteRole
      <4> QED
        BY <1>2, <3>1, <3>2, <4>1, KeptForOthers
    <3> QED
      BY <2>2, <3>3 DEF Taken
  <2>3. CASE b[1] # r
    <3>1. Whole(role, Defined \ {r})
      BY RolesAreWhole DEF Whole, Heirs, DeleteRole
    <3>2. r \notin Reached(role, {b[1]}, {})
      BY <2>1, <2>3, <3>1, RolesAreWhole, ReachedIsLeast
    <3>3. b \in binding'
      BY <2>3 DEF DeleteRole
    <3> QED
      BY <1>1, <3>2, <3>3, RoleSpares DEF DeleteRole
  <2> QED
    BY <2>2, <2>3
<1> QED
  BY <1>1, <1>2 DEF SparedBy

\* Bindings and authorities come and go, the roles and policies stay.
LEMMA GrantsSpare ==
  ASSUME AccessInv, NEW e, UNCHANGED <<role, policy>>, binding' \subseteq Defined \X GrantIds,
         \A b \in binding : HolderOf[b[2]] # e /\ e # Administrator => b \in binding'
  PROVE  AccessInv' /\ SparedBy(e)
<1>1. AccessInv'
  BY DEF AccessInv, AccessShape, NothingMissing, NoLoops, Reached, Defined, Stored, Heirs
<1>2. ASSUME NEW b \in binding, b \in binding' PROVE ~Taken(b)
  <2>1. Forbids(role, b[1])' = Forbids(role, b[1])
    BY DEF Forbids, DenyAmong, DenyOf, Reached, Current
  <2> QED
    BY <1>2, <2>1, NothingTaken
<1> QED
  BY <1>1, <1>2 DEF SparedBy

LEMMA CreateBindingSpares ==
  ASSUME AccessInv, NEW e, NEW r \in Roles, NEW a \in GrantIds, CreateBinding(e, r, a)
  PROVE  AccessInv' /\ SparedBy(e)
BY GrantsSpare DEF CreateBinding, AccessInv, AccessShape

LEMMA DeleteBindingSpares ==
  ASSUME AccessInv, NEW e, NEW b \in binding, DeleteBinding(e, b)
  PROVE  AccessInv' /\ SparedBy(e)
BY GrantsSpare DEF DeleteBinding, AccessInv, AccessShape

LEMMA RevokeAuthoritySpares ==
  ASSUME AccessInv, NEW e, NEW a \in GrantIds, RevokeAuthority(e, a)
  PROVE  AccessInv' /\ SparedBy(e)
BY GrantsSpare DEF RevokeAuthority, AccessInv, AccessShape

LEMMA InheritancesAreLists ==
  ASSUME NEW r \in Roles, NEW inherits \in Inheritances(r)
  PROVE  inherits \in Seq(Roles)
<1>1. Cardinality(Roles) \in Nat
  BY GrantsAssumption, FS_CardinalityType
<1>2. PICK n \in 0..(Cardinality(Roles) - 1) : inherits \in [1..n -> Roles \ {r}]
  BY DEF Inheritances
<1> QED
  BY <1>1, <1>2

LEMMA AccessNextInv == ASSUME AccessInv, AccessNext PROVE AccessInv' /\ DenyStays
<1> PICK e \in {HolderOf[a] : a \in GrantIds} :
      /\ \/ \E p \in Policies :
              \/ \E document \in Documents : CreatePolicy(e, p, document) \/ UpdatePolicy(e, p, document)
              \/ (p \in Stored /\ RestoreVersion(e, p)) \/ DeletePolicy(e, p)
         \/ \E r \in Roles : WriteRole(e, r) \/ DeleteRole(e, r)
         \/ \E r \in Roles, a \in GrantIds : CreateBinding(e, r, a)
         \/ \E b \in binding : DeleteBinding(e, b)
         \/ \E a \in GrantIds : RevokeAuthority(e, a)
      /\ editor' = IF \E b \in binding : Taken(b) THEN e ELSE Absent
  BY DEF AccessNext
<1>1. AccessInv' /\ SparedBy(e)
  <2>1. CASE \E p \in Policies, document \in Documents :
               CreatePolicy(e, p, document) \/ UpdatePolicy(e, p, document)
    BY <2>1, CreatePolicySpares, WritePolicySpares DEF UpdatePolicy
  <2>2. CASE \E p \in Policies : p \in Stored /\ RestoreVersion(e, p)
    <3> PICK p \in Policies : p \in Stored /\ RestoreVersion(e, p)
      BY <2>2
    <3>1. policy[p].versions \in Seq(Documents)
      BY DEF AccessInv, AccessShape, Stored, PolicyRows
    <3>2. PICK v \in 1..(Len(policy[p].versions) - 1) : WritePolicy(e, p, policy[p].versions[v])
      BY DEF RestoreVersion
    <3>3. policy[p].versions[v] \in Documents
      BY <3>1
    <3> QED
      BY <3>2, <3>3, WritePolicySpares
  <2>3. CASE \E p \in Policies : DeletePolicy(e, p)
    BY <2>3, DeletePolicySpares
  <2>4. CASE \E r \in Roles : WriteRole(e, r)
    BY <2>4, InheritancesAreLists, CreateRoleSpares, UpdateRoleSpares DEF WriteRole
  <2>5. CASE \E r \in Roles : DeleteRole(e, r)
    BY <2>5, DeleteRoleSpares
  <2>6. CASE \E r \in Roles, a \in GrantIds : CreateBinding(e, r, a)
    BY <2>6, CreateBindingSpares
  <2>7. CASE \E b \in binding : DeleteBinding(e, b)
    BY <2>7, DeleteBindingSpares
  <2>8. CASE \E a \in GrantIds : RevokeAuthority(e, a)
    BY <2>8, RevokeAuthoritySpares
  <2> QED
    BY <2>1, <2>2, <2>3, <2>4, <2>5, <2>6, <2>7, <2>8
<1>2. DenyStays
  BY <1>1 DEF SparedBy, DenyStays
<1> QED
  BY <1>1, <1>2

LEMMA AccessSameInv == ASSUME AccessInv, UNCHANGED accessVars PROVE AccessInv' /\ DenyStays
<1>1. AccessInv'
  BY DEF accessVars, AccessInv, AccessShape, NothingMissing, NoLoops, Reached, Defined, Stored, Heirs
<1>2. \A b \in binding : ~Taken(b)
  BY DEF accessVars, Taken, Forbids, DenyAmong, DenyOf, Reached, Current
<1> QED
  BY <1>1, <1>2 DEF DenyStays

LEMMA AccessAlways == AccessSpec => []AccessInv
<1>1. AccessInit => AccessInv
  BY AccessInitInv
<1>2. AccessInv /\ [AccessNext]_accessVars => AccessInv'
  BY AccessNextInv, AccessSameInv
<1> QED
  BY <1>1, <1>2, PTL DEF AccessSpec

\* inheritance (roles.ts) refuses whatever would lead a role back to itself,
\* so what roleGrants and roleDenies follow comes to an end, whichever roles
\* are created, rewritten and deleted in which order.
THEOREM RolesNeverLoop == AccessSpec => []NoLoops
<1>1. AccessInv => NoLoops
  BY DEF AccessInv
<1> QED
  BY <1>1, AccessAlways, PTL

\* assertDeniesKept holds for the member, not only for the role it is asked
\* about: nobody but root takes a deny from what another bound the member to,
\* by no policy and no role, at whatever distance of inheritance.
THEOREM DeniesOutliveEdits == AccessSpec => BoundDeniesStay
<1>1. AccessInv /\ [AccessNext]_accessVars => [DenyStays]_accessVars
  BY AccessNextInv, AccessSameInv
<1> QED
  BY <1>1, AccessAlways, PTL DEF AccessSpec, BoundDeniesStay

----------------------------------------------------------------------------
(***************************************************************************)
(* What the grants add up to.  An evaluation goes from visit to visit:     *)
(* what each visit keeps holds at the end, and two of them can be followed *)
(* side by side.                                                           *)
(***************************************************************************)
\* A function that goes on from one value to the next until it is done has a
\* definition, whether or not it ever is.
LEMMA GoesOn ==
  ASSUME NEW S, NEW next, next \in [S -> S], NEW done
  PROVE  \E f : f = [e \in S |-> IF e \in done THEN e ELSE f[next[e]]]
<1> DEFINE Closed(T) == T \in SUBSET S /\ \A e \in T \ done : next[e] \in T
           Ends(e) == {r \in S \cap done : \A T \in SUBSET S : Closed(T) /\ e \in T => r \in T}
           f == [e \in S |-> CHOOSE r : r \in Ends(e)]
<1>1. ASSUME NEW e \in S, e \in done PROVE f[e] = e
  <2>1. Closed({e})
    BY <1>1
  <2>2. e \in Ends(e)
    BY <1>1
  <2>3. \A r \in Ends(e) : r = e
    BY <2>1
  <2> HIDE DEF Ends, Closed
  <2> QED
    BY <2>2, <2>3
<1>2. ASSUME NEW e \in S, e \notin done PROVE f[e] = f[next[e]]
  <2>1. Ends(e) \subseteq Ends(next[e])
    <3> SUFFICES ASSUME NEW r \in Ends(e), NEW T \in SUBSET S, Closed(T), next[e] \in T PROVE r \in T
      OBVIOUS
    <3>1. Closed(T \cup {e})
      OBVIOUS
    <3>2. r \in T \cup {e} /\ r \in done
      BY <3>1
    <3> QED
      BY <1>2, <3>2
  <2>2. Ends(next[e]) \subseteq Ends(e)
    BY <1>2
  <2>3. next[e] \in S
    OBVIOUS
  <2>4. Ends(e) = Ends(next[e])
    BY <2>1, <2>2
  <2> HIDE DEF Ends, Closed
  <2> QED
    BY <2>3, <2>4
<1>3. f = [e \in S |-> IF e \in done THEN e ELSE f[next[e]]]
  <2> HIDE DEF f
  <2>1. \A e \in S : f[e] = IF e \in done THEN e ELSE f[next[e]]
    BY <1>1, <1>2
  <2>2. f = [e \in S |-> f[e]]
    BY DEF f
  <2> QED
    BY <2>1, <2>2
<1> QED
  BY <1>3

\* Rows as they are stored: a policy has a version, and a role inherits less
\* roles than there are.
Measured ==
  /\ \A p \in Stored : policy[p].versions # <<>>
  /\ \A r \in Defined : Len(role[r].inherits) < Cardinality(Roles)

RolesInv == AccessInv /\ Measured

LEMMA InheritancesAreShort ==
  ASSUME NEW r \in Roles, NEW inherits \in Inheritances(r)
  PROVE  inherits \in Seq(Roles) /\ Len(inherits) < Cardinality(Roles)
<1>1. Cardinality(Roles) \in Nat
  BY GrantsAssumption, FS_CardinalityType
<1>2. PICK n \in 0..(Cardinality(Roles) - 1) : inherits \in [1..n -> Roles \ {r}]
  BY DEF Inheritances
<1> QED
  BY <1>1, <1>2

LEMMA MeasuredNext == ASSUME AccessInv, Measured, AccessNext PROVE Measured'
<1>0. role \in [Roles -> RoleRows \cup {Absent}] /\ policy \in [Policies -> PolicyRows \cup {Absent}]
  BY DEF AccessInv, AccessShape
<1> PICK e \in {HolderOf[a] : a \in GrantIds} :
         \/ \E p \in Policies :
              \/ \E document \in Documents : CreatePolicy(e, p, document) \/ UpdatePolicy(e, p, document)
              \/ (p \in Stored /\ RestoreVersion(e, p)) \/ DeletePolicy(e, p)
         \/ \E r \in Roles : WriteRole(e, r) \/ DeleteRole(e, r)
         \/ \E r \in Roles, a \in GrantIds : CreateBinding(e, r, a)
         \/ \E b \in binding : DeleteBinding(e, b)
         \/ \E a \in GrantIds : RevokeAuthority(e, a)
  BY DEF AccessNext
<1>1. ASSUME NEW p \in Policies, NEW document, CreatePolicy(e, p, document) PROVE Measured'
  BY <1>0, <1>1 DEF CreatePolicy, Measured, Stored, Defined
<1>2. ASSUME NEW p \in Policies, NEW document, WritePolicy(e, p, document) PROVE Measured'
  <2>1. policy[p].versions \in Seq(Documents)
    BY <1>0, <1>2 DEF WritePolicy, Stored, PolicyRows
  <2>2. Append(policy[p].versions, document) # <<>>
    BY <2>1
  <2>3. /\ policy' = [policy EXCEPT ![p].versions = Append(policy[p].versions, document)]
        /\ role' = role /\ p \in Stored
    BY <1>2 DEF WritePolicy
  <2>4. policy[p] \in PolicyRows
    BY <1>0, <2>3 DEF Stored
  <2>5. policy'[p].versions = Append(policy[p].versions, document)
    BY <1>0, <2>3, <2>4 DEF PolicyRows
  <2>6. \A s \in Policies \ {p} : policy'[s] = policy[s]
    BY <1>0, <2>3
  <2> QED
    BY <1>0, <2>2, <2>3, <2>5, <2>6 DEF Measured, Stored, Defined
<1>3. ASSUME NEW p \in Policies, p \in Stored /\ RestoreVersion(e, p) PROVE Measured'
  BY <1>2, <1>3 DEF RestoreVersion
<1>4. ASSUME NEW p \in Policies, DeletePolicy(e, p) PROVE Measured'
  BY <1>0, <1>4 DEF DeletePolicy, Measured, Stored, Defined
<1>5. ASSUME NEW r \in Roles, WriteRole(e, r) PROVE Measured'
  <2> PICK document \in Documents, policies \in SUBSET Policies, inherits \in Inheritances(r) :
        CreateRole(e, r, document, policies, inherits) \/ UpdateRole(e, r, document, policies, inherits)
    BY <1>5 DEF WriteRole
  <2>1. /\ Len(inherits) < Cardinality(Roles) /\ role'[r].inherits = inherits
        /\ \A q \in Roles \ {r} : role'[q] = role[q]
        /\ DOMAIN role' = Roles /\ UNCHANGED policy
    <3>1. CASE CreateRole(e, r, document, policies, inherits)
      <4> PICK a \in MayGrantUnder(e) : role' = [role EXCEPT ![r] =
            [author |-> a, document |-> document, policies |-> policies, inherits |-> inherits]]
        BY <3>1 DEF CreateRole
      <4> QED
        BY <1>0, <3>1, InheritancesAreShort DEF CreateRole
    <3>2. CASE UpdateRole(e, r, document, policies, inherits)
      <4>1. role[r] \in RoleRows
        BY <1>0, <3>2 DEF UpdateRole, Defined
      <4>2. /\ role' = [role EXCEPT ![r].document = document, ![r].policies = policies,
                                    ![r].inherits = inherits]
            /\ policy' = policy
        BY <3>2 DEF UpdateRole
      <4> DEFINE one == [role EXCEPT ![r].document = document]
                 two == [one EXCEPT ![r].policies = policies]
                 three == [two EXCEPT ![r].inherits = inherits]
      <4>3. role' = three
        BY <4>2
      <4>4. one[r] = [role[r] EXCEPT !.document = document]
        BY <1>0
      <4>5. two[r] = [one[r] EXCEPT !.policies = policies]
        BY <1>0
      <4>6. three[r] = [two[r] EXCEPT !.inherits = inherits]
        BY <1>0
      <4>7. three[r].inherits = inherits
        BY <4>1, <4>4, <4>5, <4>6 DEF RoleRows
      <4>8. \A q \in Roles \ {r} : three[q] = role[q]
        BY <1>0
      <4>9. DOMAIN three = Roles
        BY <1>0
      <4> HIDE DEF three
      <4> QED
        BY <4>2, <4>3, <4>7, <4>8, <4>9, InheritancesAreShort
    <3> QED
      BY <3>1, <3>2
  <2> QED
    BY <1>0, <2>1 DEF Measured, Stored, Defined
<1>6. ASSUME NEW r \in Roles, DeleteRole(e, r) PROVE Measured'
  BY <1>0, <1>6 DEF DeleteRole, Measured, Stored, Defined
<1>7. ASSUME UNCHANGED <<role, policy>> PROVE Measured'
  BY <1>7 DEF Measured, Stored, Defined
<1> QED
  BY <1>1, <1>2, <1>3, <1>4, <1>5, <1>6, <1>7
     DEF UpdatePolicy, CreateBinding, DeleteBinding, RevokeAuthority

LEMMA RolesAlways == AccessSpec => []RolesInv
<1>1. AccessInit => Measured
  BY DEF AccessInit, Measured, Stored, Defined
<1>2. AccessInv /\ Measured /\ [AccessNext]_accessVars => Measured'
  <2>1. ASSUME UNCHANGED accessVars, Measured PROVE Measured'
    BY <2>1 DEF accessVars, Measured, Stored, Defined
  <2> QED
    BY <2>1, MeasuredNext
<1> QED
  BY <1>1, <1>2, AccessAlways, PTL DEF AccessSpec, RolesInv

LEMMA LeastOf ==
  ASSUME NEW B \in SUBSET Nat, B # {}
  PROVE  \E n \in B : \A k \in B : ~(k < n)
<1>1. PICK n \in B : \A k \in B : ~(<<k, n>> \in OpToRel(<, Nat))
  BY WFMin, NatLessThanWellFounded, Zenon
<1> QED
  BY <1>1, Zenon DEF OpToRel

\* f of a value is what going on by next comes to, when it is done.
GoesBy(f, S, next, done) ==
  next \in [S -> S] /\ \A e \in S : f[e] = IF e \in done THEN e ELSE f[next[e]]

\* Pairs that are done together, and stay pairs when both go on, which the
\* first of them cannot do for ever.
StayPaired(I, m, S, next, done, T, step, over) ==
  /\ m \in [S -> Nat] /\ I \subseteq S \X T
  /\ \A e \in S, d \in T : <<e, d>> \in I =>
       /\ e \in done <=> d \in over
       /\ e \notin done => (<<next[e], step[d]>> \in I /\ m[next[e]] < m[e])

\* They come to their ends together.
LEMMA EndTogether ==
  ASSUME NEW S, NEW next, NEW done, NEW f, GoesBy(f, S, next, done),
         NEW T, NEW step, NEW over, NEW g, GoesBy(g, T, step, over),
         NEW m, NEW I, StayPaired(I, m, S, next, done, T, step, over)
  PROVE  \A e \in S, d \in T : <<e, d>> \in I => <<f[e], g[d]>> \in I /\ f[e] \in S \cap done
<1> USE DEF GoesBy, StayPaired
<1> SUFFICES ASSUME NEW e \in S, NEW d \in T, <<e, d>> \in I
             PROVE  <<f[e], g[d]>> \in I /\ f[e] \in S \cap done
  OBVIOUS
<1> DEFINE Holds(a, b) == <<f[a], g[b]>> \in I /\ f[a] \in S \cap done
           Bad == {n \in Nat : \E a \in S, b \in T : <<a, b>> \in I /\ m[a] = n /\ ~Holds(a, b)}
<1>1. ASSUME Bad # {} PROVE FALSE
  <2>1. Bad \in SUBSET Nat
    OBVIOUS
  <2> HIDE DEF Bad
  <2>2. PICK n \in Bad : \A k \in Bad : ~(k < n)
    BY <1>1, <2>1, LeastOf
  <2>4. PICK a \in S, b \in T : <<a, b>> \in I /\ m[a] = n /\ ~Holds(a, b)
    BY DEF Bad
  <2>5. a \notin done
    <3> SUFFICES ASSUME a \in done PROVE FALSE
      OBVIOUS
    <3>1. f[a] = a /\ g[b] = b
      BY <2>4
    <3> QED
      BY <2>4, <3>1
  <2>6. f[a] = f[next[a]] /\ g[b] = g[step[b]]
    BY <2>4, <2>5
  <2>7. /\ next[a] \in S /\ step[b] \in T /\ <<next[a], step[b]>> \in I
        /\ m[next[a]] < n /\ m[next[a]] \in Nat
    BY <2>4, <2>5
  <2>8. Holds(next[a], step[b])
    <3> HIDE DEF Holds
    <3>1. m[next[a]] \notin Bad
      BY <2>2, <2>7
    <3> QED
      BY <2>7, <3>1 DEF Bad
  <2> QED
    BY <2>4, <2>6, <2>8
<1>2. m[e] \in Nat
  OBVIOUS
<1> QED
  BY <1>1, <1>2

----------------------------------------------------------------------------
(* One visit. *)

\* What a role is visited with: the ceilings of all above it and its own, and
\* whether all of these are in force; and what it hands down.
Under(top) == Narrowed(top.ceilings, role[top.role].author)
RoleCounts(top) == top.live /\ ChainInForce(role[top.role].author)
HandedDown(top) == {[role |-> i, ceilings |-> Under(top), live |-> RoleCounts(top)] : i \in Heirs(top.role)}
Pending(e) == Range(e.todo)
Later(e) == Range(Tail(e.todo))

LEMMA ListFacts ==
  ASSUME NEW X, NEW s \in Seq(X)
  PROVE  /\ Len(s) \in Nat /\ DOMAIN s = 1..Len(s)
         /\ \A i \in 1..Len(s) : s[i] \in X /\ s[i] \in Range(s)
         /\ Range(s) = {s[i] : i \in 1..Len(s)}
BY DEF Range

LEMMA JoinedRange ==
  ASSUME NEW X, NEW s \in Seq(X), NEW t \in Seq(X)
  PROVE  Range(s \o t) = Range(s) \cup Range(t) /\ Len(s \o t) = Len(s) + Len(t)
<1>1. Range(s \o t) \subseteq Range(s) \cup Range(t)
  <2> SUFFICES ASSUME NEW i \in 1..Len(s \o t) PROVE (s \o t)[i] \in Range(s) \cup Range(t)
    BY DEF Range
  <2>1. CASE i <= Len(s)
    BY <2>1 DEF Range
  <2>2. CASE i > Len(s)
    BY <2>2 DEF Range
  <2> QED
    BY <2>1, <2>2
<1>2. Range(s) \subseteq Range(s \o t)
  <2> SUFFICES ASSUME NEW i \in 1..Len(s) PROVE s[i] \in Range(s \o t)
    BY DEF Range
  <2>1. i \in 1..Len(s \o t) /\ (s \o t)[i] = s[i]
    OBVIOUS
  <2> QED
    BY <2>1 DEF Range
<1>3. Range(t) \subseteq Range(s \o t)
  <2> SUFFICES ASSUME NEW i \in 1..Len(t) PROVE t[i] \in Range(s \o t)
    BY DEF Range
  <2>1. i + Len(s) \in 1..Len(s \o t) /\ (s \o t)[i + Len(s)] = t[i]
    OBVIOUS
  <2> QED
    BY <2>1 DEF Range
<1> QED
  BY <1>1, <1>2, <1>3

LEMMA SplitRange ==
  ASSUME NEW X, NEW s \in Seq(X), s # <<>>
  PROVE  /\ Range(s) = {Head(s)} \cup Range(Tail(s))
         /\ Head(s) \in X /\ Tail(s) \in Seq(X) /\ Len(Tail(s)) = Len(s) - 1 /\ Len(s) \in Nat
<1>1. Head(s) = s[1] /\ 1 \in 1..Len(s) /\ Tail(s) \in Seq(X) /\ Len(Tail(s)) = Len(s) - 1
  OBVIOUS
<1>2. Range(s) \subseteq {Head(s)} \cup Range(Tail(s))
  <2> SUFFICES ASSUME NEW i \in 1..Len(s), i # 1 PROVE s[i] \in Range(Tail(s))
    BY <1>1 DEF Range
  <2>1. i - 1 \in 1..Len(Tail(s)) /\ Tail(s)[i - 1] = s[i]
    BY <1>1
  <2> QED
    BY <1>1, <2>1, ListFacts
<1>3. Range(Tail(s)) \subseteq Range(s)
  <2> SUFFICES ASSUME NEW i \in 1..Len(Tail(s)) PROVE Tail(s)[i] \in Range(s)
    BY <1>1 DEF Range
  <2>1. i + 1 \in 1..Len(s) /\ Tail(s)[i] = s[i + 1]
    BY <1>1
  <2> QED
    BY <2>1, ListFacts
<1> QED
  BY <1>1, <1>2, <1>3 DEF Range

\* Documents that are stored are documents.
LEMMA RowsHold ==
  ASSUME RolesInv, NEW r \in Defined
  PROVE  /\ role[r] \in RoleRows /\ Heirs(r) \subseteq Defined
         /\ role[r].document.allow \subseteq Requests /\ role[r].document.deny \subseteq Requests
         /\ role[r].policies \subseteq Stored
         /\ role[r].inherits \in Seq(Defined) /\ Len(role[r].inherits) < Cardinality(Roles)
         /\ \A p \in role[r].policies :
              policy[p] \in PolicyRows /\ Current(p).allow \subseteq Requests /\ Current(p).deny \subseteq Requests
<1>1. role[r] \in RoleRows /\ Heirs(r) \subseteq Defined /\ role[r].policies \subseteq Stored
  BY DEF RolesInv, AccessInv, AccessShape, NothingMissing, Defined
<1>2. role[r].document \in [allow : SUBSET Requests, deny : SUBSET Requests]
  BY <1>1, GrantsAssumption DEF RoleRows
<1>3. ASSUME NEW p \in role[r].policies
      PROVE  policy[p] \in PolicyRows /\ Current(p).allow \subseteq Requests /\ Current(p).deny \subseteq Requests
  <2>1. policy[p] \in PolicyRows /\ policy[p].versions # <<>>
    BY <1>1, <1>3 DEF RolesInv, AccessInv, AccessShape, Stored, Measured
  <2>2. policy[p].versions \in Seq(Documents)
    BY <2>1 DEF PolicyRows
  <2>3. policy[p].versions[Len(policy[p].versions)] \in Documents
    BY <2>1, <2>2
  <2> QED
    BY <2>1, <2>3, GrantsAssumption DEF Current
<1>4. role[r].inherits \in Seq(Roles)
  BY <1>1 DEF RoleRows
<1>5. role[r].inherits \in Seq(Defined)
  BY <1>1, <1>4 DEF Heirs, Range
<1>6. Len(role[r].inherits) < Cardinality(Roles)
  BY DEF RolesInv, Measured
<1> QED
  BY <1>1, <1>2, <1>3, <1>5, <1>6

LEMMA VisitEffect ==
  ASSUME RolesInv, NEW e \in Evaluations, e.todo # <<>>,
         NEW top, top = Head(e.todo)
  PROVE  /\ top \in Items /\ Pending(e) = {top} \cup Later(e)
         /\ Visit(e) \in Evaluations
         /\ top.role \in e.seen =>
              /\ Visit(e).seen = e.seen /\ Visit(e).granted = e.granted /\ Visit(e).denied = e.denied
              /\ Pending(Visit(e)) = Later(e) /\ Len(Visit(e).todo) = Len(e.todo) - 1
         /\ top.role \notin e.seen =>
              /\ Visit(e).seen = e.seen \cup {top.role}
              /\ Visit(e).granted = e.granted \cup (IF RoleCounts(top) THEN Grants(top.role, Under(top)) ELSE {})
              /\ Visit(e).denied = e.denied \cup DenyOf(role, top.role)
              /\ Pending(Visit(e)) = HandedDown(top) \cup Later(e)
              /\ Len(Visit(e).todo) = Len(role[top.role].inherits) + Len(e.todo) - 1
<1>1. e.todo \in Seq(Items)
  BY DEF Evaluations
<1>2. top \in Items /\ Pending(e) = {top} \cup Later(e) /\ Tail(e.todo) \in Seq(Items)
      /\ Len(Tail(e.todo)) = Len(e.todo) - 1 /\ Len(e.todo) \in Nat
  BY <1>1, SplitRange DEF Pending, Later
<1>3. CASE top.role \in e.seen
  <2>1. Visit(e) = [e EXCEPT !.todo = Tail(e.todo)]
    BY <1>3 DEF Visit
  <2>2. /\ Visit(e) \in Evaluations /\ Visit(e).todo = Tail(e.todo) /\ Visit(e).seen = e.seen
        /\ Visit(e).granted = e.granted /\ Visit(e).denied = e.denied
    BY <1>2, <2>1 DEF Evaluations
  <2> QED
    BY <1>2, <1>3, <2>2 DEF Pending, Later
<1>4. CASE top.role \notin e.seen
  <2> DEFINE down == HeirsUnder(top.role, Under(top), RoleCounts(top))
             new == IF RoleCounts(top) THEN Grants(top.role, Under(top)) ELSE {}
  <2>1. Visit(e) = [todo |-> down \o Tail(e.todo), seen |-> e.seen \cup {top.role},
                    granted |-> e.granted \cup new, denied |-> e.denied \cup DenyOf(role, top.role)]
    BY <1>4 DEF Visit, RoleCounts, Under
  <2>2. top.role \in Defined /\ top.ceilings \subseteq Requests /\ top.live \in BOOLEAN
    BY <1>2 DEF Items
  <2>3. Under(top) \in SUBSET Requests /\ RoleCounts(top) \in BOOLEAN
    BY <2>2 DEF Under, RoleCounts, Narrowed
  <2>4. down \in Seq(Items) /\ Len(down) = Len(role[top.role].inherits) /\ Range(down) = HandedDown(top)
    <3> DEFINE heirs == role[top.role].inherits
               handed(i) == [role |-> heirs[i], ceilings |-> Under(top), live |-> RoleCounts(top)]
    <3>1. heirs \in Seq(Defined)
      BY <2>2, RowsHold
    <3>2. /\ Len(heirs) \in Nat /\ \A i \in 1..Len(heirs) : heirs[i] \in Defined
          /\ Heirs(top.role) = {heirs[i] : i \in 1..Len(heirs)}
      BY <3>1, ListFacts DEF Heirs
    <3>3. down = [i \in 1..Len(heirs) |-> handed(i)]
      BY DEF HeirsUnder
    <3>4. \A i \in 1..Len(heirs) : handed(i) \in Items
      BY <2>3, <3>2 DEF Items
    <3>5. HandedDown(top) = {handed(i) : i \in 1..Len(heirs)}
      BY <3>2 DEF HandedDown
    <3> HIDE DEF handed, heirs, down
    <3>6. down \in Seq(Items) /\ Len(down) = Len(heirs)
      BY <3>2, <3>3, <3>4
    <3>7. Range(down) = {handed(i) : i \in 1..Len(heirs)}
      BY <3>3 DEF Range
    <3> QED
      BY <3>5, <3>6, <3>7 DEF heirs
  <2>5. new \subseteq Requests
    <3>1. ASSUME RoleCounts(top) PROVE Grants(top.role, Under(top)) \subseteq Requests
      BY <2>2, RowsHold DEF Grants
    <3> QED
      BY <3>1
  <2>6. DenyOf(role, top.role) \subseteq Requests
    BY <2>2, RowsHold DEF DenyOf
  <2> HIDE DEF down, new
  <2>7. Visit(e) \in Evaluations
    BY <1>2, <2>1, <2>2, <2>4, <2>5, <2>6 DEF Evaluations
  <2> DEFINE joined == down \o Tail(e.todo)
  <2>8. /\ Visit(e).todo = joined /\ Visit(e).seen = e.seen \cup {top.role}
        /\ Visit(e).granted = e.granted \cup new /\ Visit(e).denied = e.denied \cup DenyOf(role, top.role)
    BY <2>1
  <2>9. Range(joined) = HandedDown(top) \cup Range(Tail(e.todo))
    BY <1>2, <2>4, JoinedRange
  <2>11. Len(joined) = Len(down) + (Len(e.todo) - 1)
    BY <1>2, <2>4, JoinedRange
  <2> HIDE DEF joined
  <2>10. Len(role[top.role].inherits) \in Nat
    BY <2>2, RowsHold
  <2> QED
    BY <1>2, <1>4, <2>4, <2>7, <2>8, <2>9, <2>10, <2>11 DEF new, Pending, Later
<1> QED
  BY <1>2, <1>3, <1>4

----------------------------------------------------------------------------
(* Evaluations come to an end. *)
Ended == {e \in Evaluations : e.todo = <<>>}
Following == [e \in Evaluations |-> IF e \in Ended THEN e ELSE Visit(e)]

\* Each visit sees one role more, or leaves one less to visit.
Left == [e \in Evaluations |-> Cardinality(Defined \ e.seen) * Cardinality(Roles) + Len(e.todo)]

LEMMA Followed ==
  ASSUME RolesInv
  PROVE  /\ Following \in [Evaluations -> Evaluations]
         /\ \A e \in Evaluations : e.todo # <<>> => Following[e] = Visit(e)
BY VisitEffect DEF Following, Ended

LEMMA EvaluatedUnfolds ==
  RolesInv => GoesBy(Evaluated, Evaluations, Following, Ended)
<1> SUFFICES ASSUME RolesInv PROVE GoesBy(Evaluated, Evaluations, Following, Ended)
  OBVIOUS
<1> DEFINE Solves(f) == f = [e \in Evaluations |-> IF e.todo = <<>> THEN e ELSE f[Visit(e)]]
<1>1. PICK f : f = [e \in Evaluations |-> IF e \in Ended THEN e ELSE f[Following[e]]]
  BY Followed, GoesOn
<1>2. ASSUME NEW g PROVE Solves(g) <=> g = [e \in Evaluations |-> IF e \in Ended THEN e ELSE g[Following[e]]]
  <2>1. ASSUME NEW e \in Evaluations
        PROVE  (IF e.todo = <<>> THEN e ELSE g[Visit(e)]) = (IF e \in Ended THEN e ELSE g[Following[e]])
    BY Followed DEF Ended
  <2> QED
    BY <2>1
<1>3. Evaluated = CHOOSE g : Solves(g)
  BY DEF Evaluated
<1> HIDE DEF Solves
<1>4. Solves(f)
  BY <1>1, <1>2
<1>5. Evaluated = [e \in Evaluations |-> IF e \in Ended THEN e ELSE Evaluated[Following[e]]]
  BY <1>2, <1>3, <1>4
<1>6. \A e \in Evaluations : Evaluated[e] = IF e \in Ended THEN e ELSE Evaluated[Following[e]]
  BY <1>5
<1> QED
  BY <1>6, Followed DEF GoesBy

LEMMA Product == ASSUME NEW a \in Nat, NEW b \in Nat PROVE a * b \in Nat /\ (a - 1) * b = a * b - b
OBVIOUS

LEMMA OneTakenMoreLeft ==
  ASSUME NEW p \in Int, NEW m \in Nat, NEW n \in Nat, NEW l \in Nat, n < m
  PROVE  p - m + (n + l - 1) < p + l
OBVIOUS

LEMMA VisitLeavesLess ==
  RolesInv => Left \in [Evaluations -> Nat] /\ \A e \in Evaluations \ Ended : Left[Visit(e)] < Left[e]
<1> SUFFICES ASSUME RolesInv
             PROVE  Left \in [Evaluations -> Nat] /\ \A e \in Evaluations \ Ended : Left[Visit(e)] < Left[e]
  OBVIOUS
<1> DEFINE many == Cardinality(Roles)
<1>1. IsFiniteSet(Defined) /\ many \in Nat
  <2>1. Defined \subseteq Roles
    BY DEF RolesInv, AccessInv, AccessShape, Defined
  <2> QED
    BY <2>1, GrantsAssumption, FS_Subset, FS_CardinalityType
<1>2. ASSUME NEW s PROVE Cardinality(Defined \ s) \in Nat
  <2>1. IsFiniteSet(Defined \ s)
    BY <1>1, FS_Subset
  <2> QED
    BY <2>1, FS_CardinalityType
<1>3. \A e \in Evaluations : e.todo \in Seq(Items) /\ Len(e.todo) \in Nat
  BY ListFacts DEF Evaluations
<1>4. Left \in [Evaluations -> Nat]
  <2>1. ASSUME NEW e \in Evaluations PROVE Cardinality(Defined \ e.seen) * many + Len(e.todo) \in Nat
    <3>1. Cardinality(Defined \ e.seen) * many \in Nat
      BY <1>1, <1>2, Product
    <3> QED
      BY <1>3, <3>1
  <2> QED
    BY <2>1 DEF Left
<1>5. ASSUME NEW e \in Evaluations \ Ended PROVE Left[Visit(e)] < Left[e]
  <2> DEFINE top == Head(e.todo)
             unseen == Cardinality(Defined \ e.seen)
  <2>1. e.todo # <<>>
    BY DEF Ended
  <2>2. Visit(e) \in Evaluations /\ top \in Items
    BY <2>1, VisitEffect
  <2>3. /\ Left[e] = unseen * many + Len(e.todo)
        /\ Left[Visit(e)] = Cardinality(Defined \ Visit(e).seen) * many + Len(Visit(e).todo)
    BY <2>2 DEF Left
  <2>4. CASE top.role \in e.seen
    <3>1. Visit(e).seen = e.seen /\ Len(Visit(e).todo) = Len(e.todo) - 1
      BY <2>1, <2>4, VisitEffect
    <3>2. unseen * many \in Nat /\ Len(e.todo) \in Nat
      BY <1>1, <1>2, <1>3, Product
    <3> QED
      BY <2>3, <3>1, <3>2
  <2>5. CASE top.role \notin e.seen
    <3>1. Visit(e).seen = e.seen \cup {top.role}
          /\ Len(Visit(e).todo) = Len(role[top.role].inherits) + Len(e.todo) - 1
      BY <2>1, <2>5, VisitEffect
    <3>2. top.role \in Defined
      BY <2>2 DEF Items
    <3>3. Cardinality(Defined \ Visit(e).seen) = unseen - 1 /\ unseen \in Nat
      <4>1. Defined \ Visit(e).seen = (Defined \ e.seen) \ {top.role} /\ top.role \in Defined \ e.seen
        BY <2>5, <3>1, <3>2
      <4>2. IsFiniteSet(Defined \ e.seen)
        BY <1>1, FS_Subset
      <4> DEFINE rest == Defined \ e.seen
      <4> HIDE DEF rest
      <4>3. IsFiniteSet(rest) /\ top.role \in rest
        BY <4>1, <4>2 DEF rest
      <4>4. Cardinality(rest \ {top.role}) = Cardinality(rest) - 1
        BY <4>3, FS_RemoveElement
      <4> QED
        BY <1>2, <4>1, <4>4 DEF rest
    <3>4. (unseen - 1) * many = unseen * many - many /\ unseen * many \in Int
      BY <1>1, <3>3, Product
    <3>5. Len(role[top.role].inherits) \in Nat /\ Len(role[top.role].inherits) < many
      BY <3>2, RowsHold, ListFacts
    <3>6. Left[Visit(e)] = unseen * many - many + (Len(role[top.role].inherits) + Len(e.todo) - 1)
      BY <2>3, <3>1, <3>3, <3>4
    <3> QED
      BY <1>1, <1>3, <2>3, <3>4, <3>5, <3>6, OneTakenMoreLeft
  <2> QED
    BY <2>4, <2>5
<1> QED
  BY <1>4, <1>5

\* What each visit keeps holds at the end, where nothing is left to visit.
LEMMA EvaluationEnds ==
  ASSUME RolesInv, NEW I \in SUBSET Evaluations,
         \A e \in I : e.todo # <<>> => Visit(e) \in I,
         NEW e \in I
  PROVE  Evaluated[e] \in I /\ Evaluated[e].todo = <<>>
<1> DEFINE J == {<<a, a>> : a \in I}
<1>1. Left \in [Evaluations -> Nat] /\ J \subseteq Evaluations \X Evaluations
  BY VisitLeavesLess
<1>2. ASSUME NEW a \in Evaluations, NEW b \in Evaluations, <<a, b>> \in J
      PROVE  /\ a \in Ended <=> b \in Ended
             /\ a \notin Ended => (<<Following[a], Following[b]>> \in J /\ Left[Following[a]] < Left[a])
  <2>1. a = b /\ a \in I
    BY <1>2
  <2>2. ASSUME a \notin Ended PROVE Following[a] \in I /\ Left[Following[a]] < Left[a]
    BY <2>1, <2>2, Followed, VisitLeavesLess DEF Ended
  <2> QED
    BY <2>1, <2>2
<1>3. <<e, e>> \in J /\ e \in Evaluations
  OBVIOUS
<1> HIDE DEF J
<1>4. StayPaired(J, Left, Evaluations, Following, Ended, Evaluations, Following, Ended)
  BY <1>1, <1>2 DEF StayPaired
<1>5. <<Evaluated[e], Evaluated[e]>> \in J /\ Evaluated[e] \in Evaluations \cap Ended
  BY <1>3, <1>4, EvaluatedUnfolds, EndTogether
<1> QED
  BY <1>5 DEF J, Ended

----------------------------------------------------------------------------
(* What is granted is conferred, and what is denied is all there is to.    *)

\* Reached, where some roles are not gone into.
LEMMA ReachedAround ==
  ASSUME RolesInv, NEW r \in Defined, NEW barred
  PROVE  /\ r \in Reached(role, {r}, barred) /\ Reached(role, {r}, barred) \subseteq Defined
         /\ \A s \in Reached(role, {r}, barred) : Heirs(s) \ barred \subseteq Reached(role, {r}, barred)
         /\ \A t \in SUBSET Defined :
              r \in t /\ (\A s \in t : Heirs(s) \ barred \subseteq t) => Reached(role, {r}, barred) \subseteq t
<1> DEFINE closed == {t \in SUBSET Defined : {r} \subseteq t /\ \A s \in t : Heirs(s) \ barred \subseteq t}
           least == {s \in Defined : \A t \in closed : s \in t}
<1>1. Reached(role, {r}, barred) = least
  BY DEF Reached, Defined, Heirs
<1>2. \A s \in Defined : Heirs(s) \subseteq Defined
  BY DEF RolesInv, AccessInv, NothingMissing
<1>3. r \in least
  OBVIOUS
<1>4. \A s \in least : Heirs(s) \ barred \subseteq least
  BY <1>2
<1>5. \A t \in SUBSET Defined : r \in t /\ (\A s \in t : Heirs(s) \ barred \subseteq t) => least \subseteq t
  OBVIOUS
<1> HIDE DEF least
<1> QED
  BY <1>1, <1>3, <1>4, <1>5 DEF least

LEMMA BelowFacts ==
  ASSUME RolesInv, NEW r \in Defined
  PROVE  /\ r \in Reached(role, {r}, {}) /\ Reached(role, {r}, {}) \subseteq Defined
         /\ \A s \in Reached(role, {r}, {}) : Heirs(s) \subseteq Reached(role, {r}, {})
         /\ \A t \in SUBSET Defined :
              r \in t /\ (\A s \in t : Heirs(s) \subseteq t) => Reached(role, {r}, {}) \subseteq t
<1> DEFINE below == Reached(role, {r}, {})
<1>1. /\ r \in below /\ below \subseteq Defined /\ \A s \in below : Heirs(s) \ {} \subseteq below
      /\ \A t \in SUBSET Defined : r \in t /\ (\A s \in t : Heirs(s) \ {} \subseteq t) => below \subseteq t
  BY ReachedAround
<1> HIDE DEF below
<1>2. \A s : Heirs(s) \ {} = Heirs(s)
  OBVIOUS
<1>3. /\ \A s \in below : Heirs(s) \subseteq below
      /\ \A t \in SUBSET Defined : r \in t /\ (\A s \in t : Heirs(s) \subseteq t) => below \subseteq t
  BY <1>1, <1>2
<1> QED
  BY <1>1, <1>3 DEF below

\* Where a role is let through, so is all that leads to it; and it is below.
LEMMA ThroughFacts ==
  ASSUME RolesInv, NEW r \in Defined, NEW q
  PROVE  /\ r \in Through(r, q) /\ Through(r, q) \subseteq Reached(role, {r}, {})
         /\ \A s \in Through(r, q) : \A i \in Heirs(s) : LetsThrough(i, q) => i \in Through(r, q)
         /\ \A i \in Through(r, q) \ {r} :
              LetsThrough(i, q) /\ \E s \in Through(r, q) : i \in Heirs(s)
<1> DEFINE barred == {s \in Defined : ~LetsThrough(s, q)}
           th == Reached(role, {r}, barred)
           below == Reached(role, {r}, {})
           led == {r} \cup {i \in th : LetsThrough(i, q) /\ \E s \in th : i \in Heirs(s)}
<1>1. Through(r, q) = th
  BY DEF Through
<1>2. \A s \in Defined : Heirs(s) \subseteq Defined
  BY DEF RolesInv, AccessInv, NothingMissing
<1> HIDE DEF th, below, barred
<1>3. /\ r \in th /\ th \subseteq Defined /\ \A s \in th : Heirs(s) \ barred \subseteq th
      /\ \A t \in SUBSET Defined : r \in t /\ (\A s \in t : Heirs(s) \ barred \subseteq t) => th \subseteq t
  BY ReachedAround DEF th
<1>4. r \in below /\ below \subseteq Defined /\ \A s \in below : Heirs(s) \subseteq below
  BY BelowFacts DEF below
<1>5. th \subseteq below
  BY <1>3, <1>4
<1>6. \A s \in th : \A i \in Heirs(s) : LetsThrough(i, q) => i \in th
  BY <1>2, <1>3 DEF barred
<1>7. th \subseteq led
  <2>1. led \subseteq th
    BY <1>3
  <2>2. \A s \in led : Heirs(s) \ barred \subseteq led
    BY <1>2, <1>3, <2>1 DEF barred
  <2> QED
    BY <1>3, <2>1, <2>2
<1> QED
  BY <1>1, <1>3, <1>5, <1>6, <1>7 DEF below

\* What is under ceilings that a visit is made with was let through on the way.
Offered(b, r, q) ==
  /\ ChainInForce(b[2]) /\ q \in Ceilings(b[2])
  /\ LetsThrough(r, q) => LetsThrough(b[1], q) /\ r \in Through(b[1], q)

ToVisit(e) == {it.role : it \in Pending(e)}

\* Everything seen is below the role bound, and what is below that is seen or
\* is to be.
Goes(b, e) ==
  /\ b[1] \in e.seen \cup ToVisit(e)
  /\ e.seen \cup ToVisit(e) \subseteq Reached(role, {b[1]}, {})
  /\ \A s \in e.seen : Heirs(s) \subseteq e.seen \cup ToVisit(e)

Sound(b, e) ==
  /\ Goes(b, e)
  /\ e.denied = DenyAmong(role, e.seen)
  /\ \A it \in Pending(e) : \A q \in it.ceilings : it.live => Offered(b, it.role, q)
  /\ \A q \in e.granted : Confers(b, q)

LEMMA BindingsAreTyped ==
  ASSUME RolesInv, NEW b \in binding
  PROVE  /\ b[1] \in Defined /\ Unvisited(b) \in Evaluations
         /\ Pending(Unvisited(b)) = {[role |-> b[1], ceilings |-> Ceilings(b[2]), live |-> ChainInForce(b[2])]}
<1> DEFINE first == [role |-> b[1], ceilings |-> Ceilings(b[2]), live |-> ChainInForce(b[2])]
<1>1. b[1] \in Defined
  BY DEF RolesInv, AccessInv, AccessShape
<1>2. Ceilings(b[2]) \in SUBSET Requests /\ ChainInForce(b[2]) \in BOOLEAN
  BY DEF Ceilings, ChainInForce
<1>3. first \in Items
  BY <1>1, <1>2 DEF Items
<1> HIDE DEF first
<1>4. Unvisited(b) = [todo |-> <<first>>, seen |-> {}, granted |-> {}, denied |-> {}]
  BY DEF Unvisited, first
<1>5. <<first>> \in Seq(Items) /\ Range(<<first>>) = {first}
  BY <1>3 DEF Range
<1>6. Unvisited(b) \in Evaluations /\ Pending(Unvisited(b)) = {first}
  BY <1>4, <1>5 DEF Evaluations, Pending
<1> QED
  BY <1>1, <1>6 DEF first

LEMMA GoesFirst == ASSUME RolesInv, NEW b \in binding PROVE Sound(b, Unvisited(b))
<1> DEFINE e == Unvisited(b)
           first == [role |-> b[1], ceilings |-> Ceilings(b[2]), live |-> ChainInForce(b[2])]
<1>1. e.seen = {} /\ e.granted = {} /\ e.denied = {}
  BY DEF Unvisited
<1>2. Pending(e) = {first} /\ ToVisit(e) = {b[1]}
  <2>1. Pending(e) = {first} /\ first.role = b[1]
    BY BindingsAreTyped
  <2> HIDE DEF first, e
  <2> QED
    BY <2>1 DEF ToVisit
<1>3. b[1] \in Reached(role, {b[1]}, {})
  BY BindingsAreTyped, BelowFacts
<1>4. Goes(b, e)
  BY <1>1, <1>2, <1>3 DEF Goes
<1>5. \A q \in first.ceilings : first.live => Offered(b, first.role, q)
  BY BindingsAreTyped, ThroughFacts DEF Offered
<1>6. e.denied = DenyAmong(role, e.seen)
  BY <1>1 DEF DenyAmong
<1> QED
  BY <1>1, <1>2, <1>4, <1>5, <1>6 DEF Sound

\* Every visit goes on below the role bound.
LEMMA VisitGoes ==
  ASSUME RolesInv, NEW b \in binding, NEW e \in Evaluations, e.todo # <<>>, Goes(b, e)
  PROVE  Goes(b, Visit(e))
<1> DEFINE top == Head(e.todo)
           below == Reached(role, {b[1]}, {})
<1>1. top \in Items /\ Pending(e) = {top} \cup Later(e)
  BY VisitEffect
<1>2. ToVisit(e) = {top.role} \cup {it.role : it \in Later(e)}
  BY <1>1 DEF ToVisit
<1>3. CASE top.role \in e.seen
  <2>1. Visit(e).seen = e.seen /\ Pending(Visit(e)) = Later(e)
    BY <1>3, VisitEffect
  <2>2. e.seen \cup ToVisit(Visit(e)) = e.seen \cup ToVisit(e)
    BY <1>2, <1>3, <2>1 DEF ToVisit
  <2> QED
    BY <2>1, <2>2 DEF Goes
<1>4. CASE top.role \notin e.seen
  <2>1. Visit(e).seen = e.seen \cup {top.role} /\ Pending(Visit(e)) = HandedDown(top) \cup Later(e)
    BY <1>4, VisitEffect
  <2>2. {it.role : it \in HandedDown(top)} = Heirs(top.role)
    <3> DEFINE handed(i) == [role |-> i, ceilings |-> Under(top), live |-> RoleCounts(top)]
    <3>1. HandedDown(top) = {handed(i) : i \in Heirs(top.role)} /\ \A i : handed(i).role = i
      BY DEF HandedDown
    <3> HIDE DEF handed
    <3> QED
      BY <3>1
  <2>3. ToVisit(Visit(e)) = Heirs(top.role) \cup {it.role : it \in Later(e)}
    BY <2>1, <2>2 DEF ToVisit
  <2>4. Visit(e).seen \cup ToVisit(Visit(e)) = e.seen \cup ToVisit(e) \cup Heirs(top.role)
    BY <1>2, <2>1, <2>3
  <2>5. top.role \in below
    BY <1>2 DEF Goes
  <2>6. Heirs(top.role) \subseteq below
    BY <2>5, BindingsAreTyped, BelowFacts
  <2> QED
    BY <2>1, <2>4, <2>6 DEF Goes
<1> QED
  BY <1>3, <1>4

\* A visit grants what the binding confers.
LEMMA VisitSound ==
  ASSUME RolesInv, NEW b \in binding, NEW e \in Evaluations, e.todo # <<>>, Sound(b, e)
  PROVE  Sound(b, Visit(e))
<1> DEFINE top == Head(e.todo)
<1>0. top \in Items /\ Pending(e) = {top} \cup Later(e) /\ b[1] \in Defined
  BY VisitEffect, BindingsAreTyped
<1>1. Goes(b, Visit(e))
  BY VisitGoes DEF Sound
<1>2. CASE top.role \in e.seen
  <2>1. /\ Visit(e).seen = e.seen /\ Visit(e).granted = e.granted /\ Visit(e).denied = e.denied
        /\ Pending(Visit(e)) = Later(e)
    BY <1>2, VisitEffect
  <2> QED
    BY <1>0, <1>1, <2>1 DEF Sound
<1>3. CASE top.role \notin e.seen
  <2>1. /\ Visit(e).seen = e.seen \cup {top.role}
        /\ Visit(e).granted = e.granted \cup (IF RoleCounts(top) THEN Grants(top.role, Under(top)) ELSE {})
        /\ Visit(e).denied = e.denied \cup DenyOf(role, top.role)
        /\ Pending(Visit(e)) = HandedDown(top) \cup Later(e)
    BY <1>3, VisitEffect
  <2>2. Visit(e).denied = DenyAmong(role, Visit(e).seen)
    BY <2>1 DEF Sound, DenyAmong
  <2>3. ASSUME RoleCounts(top), NEW q \in Under(top)
        PROVE  /\ ChainInForce(b[2]) /\ q \in Ceilings(b[2]) /\ LetsThrough(top.role, q)
               /\ LetsThrough(b[1], q) /\ top.role \in Through(b[1], q)
    <3>1. top.live /\ q \in top.ceilings /\ LetsThrough(top.role, q)
      BY <2>3 DEF RoleCounts, Under, Narrowed, LetsThrough
    <3> QED
      BY <1>0, <3>1 DEF Sound, Offered
  <2>4. ASSUME NEW it \in HandedDown(top), NEW q \in it.ceilings, it.live PROVE Offered(b, it.role, q)
    <3>1. it.role \in Heirs(top.role) /\ q \in Under(top) /\ RoleCounts(top)
      BY <2>4 DEF HandedDown
    <3> QED
      BY <1>0, <2>3, <3>1, ThroughFacts DEF Offered
  <2>5. ASSUME RoleCounts(top), NEW q \in Grants(top.role, Under(top)) PROVE Confers(b, q)
    <3>1. q \in Under(top) /\ Gives(top.role, q)
      BY DEF Grants, Gives, Narrowed
    <3> QED
      BY <2>3, <2>5, <3>1 DEF Confers
  <2>6. \A it \in Pending(Visit(e)) : \A q \in it.ceilings : it.live => Offered(b, it.role, q)
    BY <1>0, <2>1, <2>4 DEF Sound
  <2>7. \A q \in Visit(e).granted : Confers(b, q)
    BY <2>1, <2>5 DEF Sound
  <2> QED
    BY <1>1, <2>2, <2>6, <2>7 DEF Sound
<1> QED
  BY <1>2, <1>3

\* At the end everything below the role bound was seen, once.
LEMMA EvaluationSound ==
  RolesInv => \A b \in binding :
    /\ Evaluation(b) \in Evaluations /\ Evaluation(b).todo = <<>>
    /\ Evaluation(b).seen = Reached(role, {b[1]}, {})
    /\ Evaluation(b).denied = Forbids(role, b[1])
    /\ \A q \in Evaluation(b).granted : Confers(b, q)
<1> SUFFICES ASSUME RolesInv, NEW b \in binding
             PROVE  /\ Evaluation(b) \in Evaluations /\ Evaluation(b).todo = <<>>
                    /\ Evaluation(b).seen = Reached(role, {b[1]}, {})
                    /\ Evaluation(b).denied = Forbids(role, b[1])
                    /\ \A q \in Evaluation(b).granted : Confers(b, q)
  OBVIOUS
<1> DEFINE I == {e \in Evaluations : Sound(b, e)}
           end == Evaluation(b)
<1>1. I \in SUBSET Evaluations /\ \A e \in I : e.todo # <<>> => Visit(e) \in I
  BY VisitSound, VisitEffect
<1>2. Unvisited(b) \in I
  BY GoesFirst, BindingsAreTyped
<1> HIDE DEF I
<1>3. end \in I /\ end.todo = <<>>
  BY <1>1, <1>2, EvaluationEnds DEF Evaluation
<1>4. end \in Evaluations /\ Sound(b, end)
  BY <1>3 DEF I
<1>5. ToVisit(end) = {}
  BY <1>3 DEF ToVisit, Pending, Range
<1>6. b[1] \in end.seen /\ end.seen \subseteq Reached(role, {b[1]}, {}) /\ \A s \in end.seen : Heirs(s) \subseteq end.seen
  BY <1>4, <1>5 DEF Sound, Goes
<1>7. end.seen = Reached(role, {b[1]}, {})
  <2>1. end.seen \in SUBSET Defined
    BY <1>4 DEF Evaluations
  <2>2. Reached(role, {b[1]}, {}) \subseteq end.seen
    BY <1>6, <2>1, BindingsAreTyped, BelowFacts
  <2> QED
    BY <1>6, <2>2
<1> QED
  BY <1>3, <1>4, <1>7 DEF Sound, Forbids

----------------------------------------------------------------------------
(* Where nothing is inherited twice, all that is conferred is granted.     *)
LEMMA OneParent ==
  ASSUME RolesInv, NEW r \in Defined, ~Diamond(r),
         NEW s \in Reached(role, {r}, {}), NEW t \in Reached(role, {r}, {}), NEW i,
         i \in Heirs(s), i \in Heirs(t)
  PROVE  s = t
<1> DEFINE below == Reached(role, {r}, {})
           parents == {u \in below : i \in Heirs(u)}
<1>1. i \in below /\ below \subseteq Defined
  BY BelowFacts
<1>2. IsFiniteSet(parents)
  <2>1. parents \subseteq Roles
    BY <1>1 DEF RolesInv, AccessInv, AccessShape, Defined
  <2> QED
    BY <2>1, GrantsAssumption, FS_Subset
<1>3. ~(Cardinality(parents) > 1)
  BY <1>1 DEF Diamond
<1>4. {s, t} \subseteq parents
  OBVIOUS
<1> HIDE DEF parents
<1>5. ASSUME s # t PROVE FALSE
  <2>1. Cardinality({s}) = 1 /\ IsFiniteSet({s})
    BY FS_Singleton
  <2>2. Cardinality({s} \cup {t}) = 2 /\ {s} \cup {t} = {s, t}
    BY <1>5, <2>1, FS_AddElement
  <2>3. Cardinality({s, t}) <= Cardinality(parents) /\ Cardinality(parents) \in Nat
    BY <1>2, <1>4, FS_Subset, FS_CardinalityType
  <2> QED
    BY <1>3, <2>2, <2>3
<1> QED
  BY <1>5

\* The role bound is below no other that is below it.
LEMMA NothingAbove ==
  ASSUME RolesInv, NEW r \in Defined, NEW s \in Reached(role, {r}, {})
  PROVE  r \notin Heirs(s)
<1> DEFINE under == Reached(role, Heirs(r), {})
<1>1. Kept(role) = Defined /\ Whole(role, Kept(role)) /\ Heirs(r) \subseteq Defined
  BY RolesAreWhole DEF RolesInv, AccessInv, NothingMissing
<1>2. Heirs(r) \subseteq under /\ Whole(role, under)
  BY <1>1, ReachedIsLeast
<1>3. r \notin under
  BY DEF RolesInv, AccessInv, NoLoops
<1> HIDE DEF under
<1>4. under \subseteq Defined /\ \A t \in under : Heirs(t) \subseteq under
  BY <1>1, <1>2 DEF Whole, Heirs
<1>5. Reached(role, {r}, {}) \subseteq {r} \cup under
  <2>1. {r} \cup under \in SUBSET Defined /\ \A t \in {r} \cup under : Heirs(t) \subseteq {r} \cup under
    BY <1>2, <1>4
  <2> QED
    BY <2>1, BelowFacts
<1> QED
  BY <1>2, <1>3, <1>4, <1>5

\* q reaches all there is to visit on the paths that let it through.
Complete(b, q, e) ==
  /\ \A it \in Pending(e) : it.role \in Through(b[1], q) \ e.seen => it.live /\ q \in it.ceilings
  /\ \A s \in e.seen \cap Through(b[1], q) : Gives(s, q) => q \in e.granted

LEMMA VisitComplete ==
  ASSUME RolesInv, NEW b \in binding, ~Diamond(b[1]), NEW q \in Requests,
         LetsThrough(b[1], q), NEW e \in Evaluations, e.todo # <<>>, Goes(b, e), Complete(b, q, e)
  PROVE  Complete(b, q, Visit(e))
<1> DEFINE top == Head(e.todo)
           below == Reached(role, {b[1]}, {})
           th == Through(b[1], q)
<1>0. top \in Items /\ Pending(e) = {top} \cup Later(e) /\ b[1] \in Defined
  BY VisitEffect, BindingsAreTyped
<1>1. CASE top.role \in e.seen
  <2>1. Visit(e).seen = e.seen /\ Visit(e).granted = e.granted /\ Pending(Visit(e)) = Later(e)
    BY <1>1, VisitEffect
  <2> QED
    BY <1>0, <2>1 DEF Complete
<1>2. CASE top.role \notin e.seen
  <2>1. /\ Visit(e).seen = e.seen \cup {top.role}
        /\ Visit(e).granted = e.granted \cup (IF RoleCounts(top) THEN Grants(top.role, Under(top)) ELSE {})
        /\ Pending(Visit(e)) = HandedDown(top) \cup Later(e)
    BY <1>2, VisitEffect
  <2>2. top.role \in below /\ b[1] \in below /\ th \subseteq below
    BY <1>0, BelowFacts, ThroughFacts DEF Goes, ToVisit
  <2>3. ASSUME top.role \in th PROVE RoleCounts(top) /\ q \in Under(top)
    <3>1. top.live /\ q \in top.ceilings
      BY <1>0, <1>2, <2>3 DEF Complete
    <3>2. LetsThrough(top.role, q)
      BY <1>0, <2>3, ThroughFacts
    <3> QED
      BY <3>1, <3>2 DEF RoleCounts, Under, Narrowed, LetsThrough
  <2>4. ASSUME top.role \in th, Gives(top.role, q) PROVE q \in Visit(e).granted
    <3>1. q \in Grants(top.role, Under(top))
      BY <2>3, <2>4 DEF Gives, Grants, Narrowed
    <3> QED
      BY <2>1, <2>3, <2>4, <3>1
  <2>5. ASSUME NEW i \in Heirs(top.role), i \in th PROVE top.role \in th
    <3>1. i # b[1]
      BY <1>0, <2>2, NothingAbove
    <3>2. PICK s \in th : i \in Heirs(s)
      BY <1>0, <2>5, <3>1, ThroughFacts
    <3>3. s = top.role
      BY <1>0, <2>2, <3>2, OneParent
    <3> QED
      BY <3>3
  <2>6. ASSUME NEW it \in HandedDown(top), it.role \in th PROVE it.live /\ q \in it.ceilings
    <3>1. it.role \in Heirs(top.role) /\ it.ceilings = Under(top) /\ it.live = RoleCounts(top)
      BY DEF HandedDown
    <3> QED
      BY <2>3, <2>5, <2>6, <3>1
  <2> HIDE DEF th
  <2>7. \A it \in Pending(Visit(e)) : it.role \in th \ Visit(e).seen => it.live /\ q \in it.ceilings
    BY <1>0, <2>1, <2>6 DEF Complete, th
  <2>8. \A s \in Visit(e).seen \cap th : Gives(s, q) => q \in Visit(e).granted
    BY <2>1, <2>4 DEF Complete, th
  <2> QED
    BY <2>7, <2>8 DEF Complete, th
<1> QED
  BY <1>1, <1>2

LEMMA EvaluationComplete ==
  ASSUME RolesInv, NEW b \in binding, ~Diamond(b[1]), NEW q \in Requests, Confers(b, q)
  PROVE  q \in Evaluation(b).granted
<1> DEFINE I == {e \in Evaluations : Goes(b, e) /\ Complete(b, q, e)}
           end == Evaluation(b)
<1>1. /\ ChainInForce(b[2]) /\ q \in Ceilings(b[2]) /\ LetsThrough(b[1], q)
      /\ \E r \in Through(b[1], q) : Gives(r, q)
  BY DEF Confers
<1>2. I \in SUBSET Evaluations /\ \A e \in I : e.todo # <<>> => Visit(e) \in I
  BY <1>1, VisitGoes, VisitComplete, VisitEffect
<1>3. Unvisited(b) \in I
  <2>1. Goes(b, Unvisited(b)) /\ Unvisited(b) \in Evaluations
    BY GoesFirst, BindingsAreTyped DEF Sound
  <2>2. Complete(b, q, Unvisited(b))
    <3>1. Unvisited(b).seen = {}
      BY DEF Unvisited
    <3>2. \A it \in Pending(Unvisited(b)) : it.live /\ q \in it.ceilings
      BY <1>1, BindingsAreTyped
    <3> QED
      BY <3>1, <3>2 DEF Complete
  <2> QED
    BY <2>1, <2>2
<1> HIDE DEF I
<1>4. end \in I
  BY <1>2, <1>3, EvaluationEnds DEF Evaluation
<1>5. \A s \in end.seen \cap Through(b[1], q) : Gives(s, q) => q \in end.granted
  BY <1>4 DEF I, Complete
<1>6. Through(b[1], q) \subseteq end.seen
  <2>1. end.seen = Reached(role, {b[1]}, {})
    BY EvaluationSound
  <2>2. Through(b[1], q) \subseteq Reached(role, {b[1]}, {})
    BY ThroughFacts, BindingsAreTyped
  <2> QED
    BY <2>1, <2>2
<1> QED
  BY <1>1, <1>5, <1>6

LEMMA AllowedAsDefined == RolesInv => AllowedByDefinition
<1> SUFFICES ASSUME RolesInv PROVE AllowedByDefinition
  OBVIOUS
<1>1. \A b \in binding :
        /\ Evaluation(b).granted \subseteq Requests /\ Evaluation(b).denied = Forbids(role, b[1])
        /\ \A q \in Evaluation(b).granted : Confers(b, q)
  BY EvaluationSound DEF Evaluations
<1>2. UNION {Evaluation(b).denied : b \in binding} = UNION {Forbids(role, b[1]) : b \in binding}
  BY <1>1
<1>3. UNION {Evaluation(b).granted : b \in binding} \subseteq {q \in Requests : \E b \in binding : Confers(b, q)}
  BY <1>1
<1>4. ASSUME \A b \in binding : ~Diamond(b[1])
      PROVE  {q \in Requests : \E b \in binding : Confers(b, q)} \subseteq UNION {Evaluation(b).granted : b \in binding}
  BY <1>4, EvaluationComplete
<1> QED
  BY <1>2, <1>3, <1>4 DEF AllowedByDefinition, Allowed, Definition

\* What a member is allowed is what its bindings confer by the paths of
\* inheritance, less what any role below them forbids (AllowedByDefinition).
THEOREM DecidedByDefinition == AccessSpec => []AllowedByDefinition
BY RolesAlways, AllowedAsDefined, PTL

----------------------------------------------------------------------------
(* A revocation and the evaluations before and after it, side by side:     *)
(* they see the same roles in the same order.                              *)
SameItem(it, new) == it.role = new.role /\ it.ceilings = new.ceilings /\ (new.live => it.live)
SameItems(s, t) == Len(s) = Len(t) /\ \A i \in 1..Len(s) : SameItem(s[i], t[i])

\* An evaluation before, and one after.
Beside(e, d) ==
  /\ SameItems(e.todo, d.todo)
  /\ e.seen = d.seen /\ d.granted \subseteq e.granted

Widens == revoked \subseteq revoked' /\ UNCHANGED <<role, policy, binding>>

LEMMA ShorterChains == ASSUME Widens PROVE \A a : ChainInForce(a)' => ChainInForce(a)
<1>1. ASSUME NEW a PROVE ChainAbove(a)' = ChainAbove(a)
  BY DEF ChainAbove
<1> QED
  BY <1>1 DEF ChainInForce, Widens

LEMMA SameRows ==
  ASSUME Widens
  PROVE  /\ Defined' = Defined /\ Items' = Items /\ Evaluations' = Evaluations
         /\ \A r, c : Grants(r, c)' \subseteq Grants(r, c)
         /\ \A c, a : Narrowed(c, a)' = Narrowed(c, a)
         /\ \A a : Ceilings(a)' = Ceilings(a)
         /\ \A r : Forbids(role, r)' = Forbids(role, r)
<1>1. role' = role /\ policy' = policy
  BY DEF Widens
<1>2. Defined' = Defined
  BY <1>1 DEF Defined
<1>3. Items' = Items
  BY <1>2 DEF Items
<1>4. Evaluations' = Evaluations
  BY <1>2, <1>3 DEF Evaluations
<1>5. ASSUME NEW a PROVE Ceilings(a)' = Ceilings(a)
  BY DEF Ceilings, ChainAbove
<1>6. ASSUME NEW c, NEW a PROVE Narrowed(c, a)' = Narrowed(c, a)
  BY <1>5 DEF Narrowed
<1>7. ASSUME NEW p PROVE Current(p)' = Current(p)
  BY <1>1 DEF Current
<1>8. ASSUME NEW r, NEW c PROVE Grants(r, c)' \subseteq Grants(r, c)
  BY <1>1, <1>6, <1>7, ShorterChains DEF Grants
<1>9. ASSUME NEW r PROVE Forbids(role, r)' = Forbids(role, r)
  <2>1. ASSUME NEW s PROVE DenyOf(role, s)' = DenyOf(role, s)
    BY <1>1, <1>7 DEF DenyOf
  <2>2. Reached(role, {r}, {})' = Reached(role, {r}, {})
    BY <1>1 DEF Reached
  <2> QED
    BY <2>1, <2>2 DEF Forbids, DenyAmong
<1> QED
  BY <1>2, <1>3, <1>4, <1>5, <1>6, <1>8, <1>9

LEMMA SameTails ==
  ASSUME NEW X, NEW s \in Seq(X), NEW t \in Seq(X), SameItems(s, t), s # <<>>
  PROVE  t # <<>> /\ SameItem(Head(s), Head(t)) /\ SameItems(Tail(s), Tail(t))
<1>1. Len(s) \in Nat /\ Len(t) = Len(s) /\ Len(s) # 0
  BY DEF SameItems
<1>2. /\ Head(s) = s[1] /\ Head(t) = t[1] /\ Len(Tail(s)) = Len(s) - 1 /\ Len(Tail(t)) = Len(s) - 1
      /\ \A i \in 1..(Len(s) - 1) : Tail(s)[i] = s[i + 1] /\ Tail(t)[i] = t[i + 1]
  BY <1>1
<1>3. \A i \in 1..Len(s) : SameItem(s[i], t[i])
  BY DEF SameItems
<1>4. ASSUME NEW i \in 1..Len(Tail(s)) PROVE SameItem(Tail(s)[i], Tail(t)[i])
  <2>1. i \in 1..(Len(s) - 1) /\ i + 1 \in 1..Len(s)
    BY <1>1, <1>2
  <2>2. SameItem(s[i + 1], t[i + 1])
    BY <1>3, <2>1
  <2> QED
    BY <1>2, <2>1, <2>2
<1> QED
  BY <1>1, <1>2, <1>3, <1>4 DEF SameItems

LEMMA SameJoined ==
  ASSUME NEW X, NEW s \in Seq(X), NEW t \in Seq(X), NEW u \in Seq(X), NEW v \in Seq(X),
         SameItems(s, t), SameItems(u, v)
  PROVE  SameItems(s \o u, t \o v)
<1>1. Len(s) \in Nat /\ Len(u) \in Nat /\ Len(t) = Len(s) /\ Len(v) = Len(u)
  BY DEF SameItems
<1>2. Len(s \o u) = Len(s) + Len(u) /\ Len(t \o v) = Len(s) + Len(u)
  BY <1>1
<1>3. ASSUME NEW i \in 1..(Len(s) + Len(u)) PROVE SameItem((s \o u)[i], (t \o v)[i])
  <2>1. CASE i <= Len(s)
    <3>1. i \in 1..Len(s) /\ (s \o u)[i] = s[i] /\ (t \o v)[i] = t[i]
      BY <1>1, <2>1
    <3> QED
      BY <3>1 DEF SameItems
  <2>2. CASE i > Len(s)
    <3>1. i - Len(s) \in 1..Len(u) /\ (s \o u)[i] = u[i - Len(s)] /\ (t \o v)[i] = v[i - Len(s)]
      BY <1>1, <2>2
    <3>2. SameItem(u[i - Len(s)], v[i - Len(s)])
      BY <3>1 DEF SameItems
    <3> QED
      BY <3>1, <3>2
  <2> QED
    BY <1>1, <2>1, <2>2
<1> QED
  BY <1>2, <1>3 DEF SameItems

LEMMA SameHeirs ==
  ASSUME RolesInv, Widens, NEW r \in Defined, NEW c \in SUBSET Requests,
         NEW l \in BOOLEAN, NEW k \in BOOLEAN, k => l
  PROVE  /\ HeirsUnder(r, c, l) \in Seq(Items) /\ HeirsUnder(r, c, k)' \in Seq(Items)
         /\ SameItems(HeirsUnder(r, c, l), HeirsUnder(r, c, k)')
<1> DEFINE heirs == role[r].inherits
           handed(i, live) == [role |-> heirs[i], ceilings |-> c, live |-> live]
<1>1. heirs \in Seq(Defined) /\ Len(heirs) \in Nat /\ \A i \in 1..Len(heirs) : heirs[i] \in Defined
  BY RowsHold, ListFacts
<1>2. HeirsUnder(r, c, l) = [i \in 1..Len(heirs) |-> handed(i, l)]
  BY DEF HeirsUnder
<1>3. HeirsUnder(r, c, k)' = [i \in 1..Len(heirs) |-> handed(i, k)]
  BY DEF HeirsUnder, Widens
<1>4. \A i \in 1..Len(heirs) : handed(i, l) \in Items /\ handed(i, k) \in Items /\ SameItem(handed(i, l), handed(i, k))
  BY <1>1 DEF Items, SameItem
<1> HIDE DEF heirs, handed
<1> DEFINE one == HeirsUnder(r, c, l)
           two == HeirsUnder(r, c, k)'
<1>5. one = [i \in 1..Len(heirs) |-> handed(i, l)] /\ two = [i \in 1..Len(heirs) |-> handed(i, k)]
  BY <1>2, <1>3
<1> HIDE DEF one, two
<1>6. one \in Seq(Items) /\ Len(one) = Len(heirs) /\ two \in Seq(Items) /\ Len(two) = Len(heirs)
  BY <1>1, <1>4, <1>5
<1>7. \A i \in 1..Len(heirs) : SameItem(one[i], two[i])
  BY <1>4, <1>5
<1> QED
  BY <1>6, <1>7 DEF SameItems, one, two

\* A visit after the revocation grants no more than the one before.
LEMMA VisitsBeside ==
  ASSUME RolesInv, Widens, NEW e \in Evaluations, NEW d \in Evaluations, Beside(e, d), e.todo # <<>>
  PROVE  d.todo # <<>> /\ Beside(Visit(e), Visit(d)')
<1> DEFINE top == Head(e.todo)
           new == Head(d.todo)
<1>1. e.todo \in Seq(Items) /\ d.todo \in Seq(Items)
  BY DEF Evaluations
<1>2. /\ d.todo # <<>> /\ SameItem(top, new) /\ SameItems(Tail(e.todo), Tail(d.todo))
      /\ top \in Items /\ new \in Items /\ Tail(e.todo) \in Seq(Items) /\ Tail(d.todo) \in Seq(Items)
  BY <1>1, SameTails, SplitRange DEF Beside
<1>3. top.role = new.role /\ top.ceilings = new.ceilings /\ (new.live => top.live) /\ top.role \in Defined
  BY <1>2 DEF SameItem, Items
<1>4. e.seen = d.seen /\ d.granted \subseteq e.granted
  BY DEF Beside
<1>5. CASE top.role \in e.seen
  <2>1. Visit(e) = [e EXCEPT !.todo = Tail(e.todo)]
    BY <1>5 DEF Visit
  <2>2. Visit(d)' = [d EXCEPT !.todo = Tail(d.todo)]
    BY <1>3, <1>4, <1>5 DEF Visit
  <2>3. /\ Visit(e).todo = Tail(e.todo) /\ Visit(e).seen = e.seen /\ Visit(e).granted = e.granted
        /\ Visit(d)'.todo = Tail(d.todo) /\ Visit(d)'.seen = d.seen /\ Visit(d)'.granted = d.granted
    BY <2>1, <2>2 DEF Evaluations
  <2> QED
    BY <1>2, <1>4, <2>3 DEF Beside
<1>6. CASE top.role \notin e.seen
  <2> PICK r, a, c, l, k :
        /\ r = top.role /\ a = role[r].author /\ c = Under(top) /\ l = RoleCounts(top)
        /\ k = (new.live /\ ChainInForce(a)')
    OBVIOUS
  <2>1. Visit(e) = [todo |-> HeirsUnder(r, c, l) \o Tail(e.todo), seen |-> e.seen \cup {r},
                    granted |-> e.granted \cup (IF l THEN Grants(r, c) ELSE {}),
                    denied |-> e.denied \cup DenyOf(role, r)]
    BY <1>6 DEF Visit, RoleCounts, Under
  <2>2. Visit(d)' = [todo |-> HeirsUnder(r, c, k)' \o Tail(d.todo), seen |-> d.seen \cup {r},
                     granted |-> d.granted \cup (IF k THEN Grants(r, c)' ELSE {}),
                     denied |-> d.denied \cup DenyOf(role, r)']
    <3>1. role' = role
      BY DEF Widens
    <3>2. Narrowed(new.ceilings, role[new.role].author)' = c
      BY <1>3, <3>1, SameRows DEF Under
    <3>3. (new.live /\ ChainInForce(role[new.role].author)') = k
      BY <1>3, <3>1
    <3> QED
      BY <1>3, <1>4, <1>6, <3>1, <3>2, <3>3 DEF Visit
  <2>3. k => l
    BY <1>3, ShorterChains DEF RoleCounts
  <2>4. c \in SUBSET Requests /\ l \in BOOLEAN /\ k \in BOOLEAN
    BY <1>2 DEF Under, Narrowed, RoleCounts, Items
  <2>5. /\ HeirsUnder(r, c, l) \in Seq(Items) /\ HeirsUnder(r, c, k)' \in Seq(Items)
        /\ SameItems(HeirsUnder(r, c, l), HeirsUnder(r, c, k)')
    BY <1>3, <2>3, <2>4, SameHeirs
  <2>6. SameItems(HeirsUnder(r, c, l) \o Tail(e.todo), HeirsUnder(r, c, k)' \o Tail(d.todo))
    BY <1>2, <2>5, SameJoined
  <2>7. Grants(r, c)' \subseteq Grants(r, c)
    BY SameRows
  <2>9. Beside(Visit(e), Visit(d)')
    <3> PICK given, still, down, also, m, n :
          /\ given = (IF l THEN Grants(r, c) ELSE {}) /\ still = (IF k THEN Grants(r, c)' ELSE {})
          /\ down = HeirsUnder(r, c, l) \o Tail(e.todo) /\ also = HeirsUnder(r, c, k)' \o Tail(d.todo)
          /\ m = e.denied \cup DenyOf(role, r) /\ n = d.denied \cup DenyOf(role, r)'
      OBVIOUS
    <3>1. still \subseteq given /\ SameItems(down, also)
      BY <2>3, <2>6, <2>7
    <3>2. Visit(e) = [todo |-> down, seen |-> e.seen \cup {r}, granted |-> e.granted \cup given, denied |-> m]
      BY <2>1
    <3>3. Visit(d)' = [todo |-> also, seen |-> e.seen \cup {r}, granted |-> d.granted \cup still, denied |-> n]
      BY <1>4, <2>2
    <3>4. d.granted \cup still \subseteq e.granted \cup given
      BY <1>4, <3>1
    <3>5. Beside([todo |-> down, seen |-> e.seen \cup {r}, granted |-> e.granted \cup given, denied |-> m],
                 [todo |-> also, seen |-> e.seen \cup {r}, granted |-> d.granted \cup still, denied |-> n])
      BY <3>1, <3>4 DEF Beside
    <3> QED
      BY <3>2, <3>3, <3>5
  <2> QED
    BY <1>2, <2>9
<1> QED
  BY <1>2, <1>5, <1>6

\* So a revocation gives nothing, at the end of both.
LEMMA EvaluationShrinks ==
  ASSUME RolesInv, RolesInv', Widens, NEW b \in binding
  PROVE  Evaluation(b)'.granted \subseteq Evaluation(b).granted
<1> DEFINE J == {p \in Evaluations \X Evaluations : Beside(p[1], p[2])}
<1>1. GoesBy(Evaluated, Evaluations, Following, Ended)
  BY EvaluatedUnfolds
<1>2. GoesBy(Evaluated', Evaluations', Following', Ended')
  <2>1. RolesInv' => GoesBy(Evaluated, Evaluations, Following, Ended)'
    BY EvaluatedUnfolds, PTL
  <2> QED
    BY <2>1 DEF GoesBy
<1>3. Evaluations' = Evaluations /\ Ended' = Ended
  BY SameRows DEF Ended
<1>4. \A d \in Evaluations \ Ended : Following'[d] = Visit(d)' /\ Following[d] = Visit(d)
  BY <1>3 DEF Following
<1>5. \A d \in Evaluations \ Ended : Following[d] \in Evaluations /\ Following'[d] \in Evaluations
  BY <1>1, <1>2, <1>3 DEF GoesBy
<1>6. ASSUME NEW e \in Evaluations, NEW d \in Evaluations, <<e, d>> \in J
      PROVE  /\ e \in Ended <=> d \in Ended'
             /\ e \notin Ended => (<<Following[e], Following'[d]>> \in J /\ Left[Following[e]] < Left[e])
  <2>1. Beside(e, d)
    BY <1>6
  <2>2. e \in Ended => d \in Ended
    <3>1. ASSUME e.todo = <<>> PROVE d.todo = <<>>
      <4>1. Len(d.todo) = 0 /\ d.todo \in Seq(Items)
        BY <2>1, <3>1 DEF Beside, SameItems, Evaluations
      <4> QED
        BY <4>1
    <3> QED
      BY <3>1 DEF Ended
  <2>3. ASSUME e \notin Ended PROVE d \notin Ended /\ Beside(Visit(e), Visit(d)')
    BY <2>1, <2>3, VisitsBeside DEF Ended
  <2>4. ASSUME e \notin Ended PROVE <<Following[e], Following'[d]>> \in J /\ Left[Following[e]] < Left[e]
    BY <1>4, <1>5, <2>3, <2>4, VisitLeavesLess
  <2> QED
    BY <1>3, <2>2, <2>3, <2>4
<1>7. J \subseteq Evaluations \X Evaluations
  OBVIOUS
<1> HIDE DEF J
<1>8. StayPaired(J, Left, Evaluations, Following, Ended, Evaluations', Following', Ended')
  BY <1>3, <1>6, <1>7, VisitLeavesLess DEF StayPaired
<1>9. Unvisited(b) \in Evaluations /\ Unvisited(b)' \in Evaluations /\ <<Unvisited(b), Unvisited(b)'>> \in J
  <2>1. Ceilings(b[2])' = Ceilings(b[2]) /\ (ChainInForce(b[2])' => ChainInForce(b[2]))
    BY SameRows, ShorterChains
  <2>2. Unvisited(b) \in Evaluations
    BY BindingsAreTyped
  <2>3. Unvisited(b)' \in Evaluations
    <3>1. b[1] \in Defined
      BY BindingsAreTyped
    <3> DEFINE first == [role |-> b[1], ceilings |-> Ceilings(b[2]), live |-> ChainInForce(b[2])']
    <3>2. first \in Items
      BY <3>1 DEF Items, Ceilings, ChainInForce
    <3>3. Unvisited(b)' = [todo |-> <<first>>, seen |-> {}, granted |-> {}, denied |-> {}]
      BY <2>1 DEF Unvisited
    <3> HIDE DEF first
    <3> QED
      BY <3>2, <3>3 DEF Evaluations
  <2>4. Beside(Unvisited(b), Unvisited(b)')
    BY <2>1 DEF Unvisited, Beside, SameItems, SameItem
  <2> QED
    BY <2>2, <2>3, <2>4 DEF J
<1>10. <<Evaluated[Unvisited(b)], Evaluated'[Unvisited(b)']>> \in J
  BY <1>1, <1>2, <1>3, <1>8, <1>9, EndTogether
<1>11. Beside(Evaluation(b), Evaluation(b)')
  BY <1>10 DEF J, Evaluation
<1> QED
  BY <1>11 DEF Beside

LEMMA RevokingWidens == ASSUME AccessNext, revoked' # revoked PROVE Widens
<1> PICK e \in {HolderOf[a] : a \in GrantIds} :
         \/ \E p \in Policies :
              \/ \E document \in Documents : CreatePolicy(e, p, document) \/ UpdatePolicy(e, p, document)
              \/ (p \in Stored /\ RestoreVersion(e, p)) \/ DeletePolicy(e, p)
         \/ \E r \in Roles : WriteRole(e, r) \/ DeleteRole(e, r)
         \/ \E r \in Roles, a \in GrantIds : CreateBinding(e, r, a)
         \/ \E b \in binding : DeleteBinding(e, b)
         \/ \E a \in GrantIds : RevokeAuthority(e, a)
  BY DEF AccessNext
<1>1. ASSUME NEW p \in Policies, \/ \E document \in Documents : CreatePolicy(e, p, document) \/ UpdatePolicy(e, p, document)
                                 \/ RestoreVersion(e, p) \/ DeletePolicy(e, p)
      PROVE  revoked' = revoked
  BY <1>1 DEF CreatePolicy, UpdatePolicy, RestoreVersion, WritePolicy, DeletePolicy
<1>2. ASSUME NEW r \in Roles, WriteRole(e, r) \/ DeleteRole(e, r) PROVE revoked' = revoked
  BY <1>2 DEF WriteRole, CreateRole, UpdateRole, DeleteRole
<1>3. ASSUME NEW r, NEW a, CreateBinding(e, r, a) PROVE revoked' = revoked
  BY <1>3 DEF CreateBinding
<1>4. ASSUME NEW b, DeleteBinding(e, b) PROVE revoked' = revoked
  BY <1>4 DEF DeleteBinding
<1>5. PICK a \in GrantIds : RevokeAuthority(e, a)
  BY <1>1, <1>2, <1>3, <1>4
<1> QED
  BY <1>5 DEF RevokeAuthority, Widens

LEMMA DeniesFound ==
  RolesInv => \A b \in binding : /\ Evaluation(b).todo = <<>>
                                 /\ Evaluation(b).seen = Reached(role, {b[1]}, {})
                                 /\ Evaluation(b).denied = Forbids(role, b[1])
BY EvaluationSound

LEMMA RevokedTakes == ASSUME RolesInv, RolesInv', [AccessNext]_accessVars PROVE RevocationTakes
<1> SUFFICES ASSUME revoked' # revoked PROVE Allowed' \subseteq Allowed
  BY DEF RevocationTakes
<1>1. Widens
  BY RevokingWidens DEF accessVars
<1>2. binding' = binding
  BY <1>1 DEF Widens
<1>3. \A b \in binding : Evaluation(b)'.granted \subseteq Evaluation(b).granted
  BY <1>1, EvaluationShrinks
<1>4. \A b \in binding : Evaluation(b).denied = Forbids(role, b[1])
  BY DeniesFound
<1>5. \A b \in binding : Evaluation(b)'.denied = Forbids(role, b[1])
  <2>1. RolesInv' => (\A b \in binding : /\ Evaluation(b).todo = <<>>
                                         /\ Evaluation(b).seen = Reached(role, {b[1]}, {})
                                         /\ Evaluation(b).denied = Forbids(role, b[1]))'
    BY DeniesFound, PTL
  <2>2. \A b \in binding' : Evaluation(b)'.denied = Forbids(role, b[1])'
    BY <2>1
  <2> QED
    BY <1>1, <1>2, <2>2, SameRows
<1>6. \A b \in binding : Evaluation(b)'.denied = Evaluation(b).denied
  BY <1>4, <1>5
<1> QED
  BY <1>2, <1>3, <1>6 DEF Allowed

\* An evaluation comes to its end, having seen every role below the one bound
\* and collected all that any of them forbids.
THEOREM EveryDenyIsFound ==
  AccessSpec => [](\A b \in binding : /\ Evaluation(b).todo = <<>>
                                      /\ Evaluation(b).seen = Reached(role, {b[1]}, {})
                                      /\ Evaluation(b).denied = Forbids(role, b[1]))
BY DeniesFound, RolesAlways, PTL

\* Whatever a member is allowed, somebody whose authority still stands bound it
\* to a role whose author's still stands, and both authorities let it through;
\* and no role that the member is bound to forbids it, whoever is behind that.
THEOREM NothingBeyondAuthority ==
  AccessSpec => [](\A q \in Allowed :
    /\ \E b \in binding : ChainInForce(b[2]) /\ q \in Ceilings(b[2]) /\ LetsThrough(b[1], q)
    /\ \A b \in binding : q \notin Forbids(role, b[1]))
<1>1. AllowedByDefinition => \A q \in Allowed :
        /\ \E b \in binding : ChainInForce(b[2]) /\ q \in Ceilings(b[2]) /\ LetsThrough(b[1], q)
        /\ \A b \in binding : q \notin Forbids(role, b[1])
  BY DEF AllowedByDefinition, Definition, Confers
<1> QED
  BY <1>1, DecidedByDefinition, PTL

\* Revoking an authority never gives a member anything (RevokingOnlyTakes).
THEOREM RevocationsOnlyTake == AccessSpec => RevokingOnlyTakes
<1>1. RolesInv /\ RolesInv' /\ [AccessNext]_accessVars => [RevocationTakes]_accessVars
  BY RevokedTakes
<1> QED
  BY <1>1, RolesAlways, PTL DEF AccessSpec, RevokingOnlyTakes
=============================================================================
