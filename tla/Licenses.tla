------------------------------ MODULE Licenses ------------------------------
(***************************************************************************)
(* Seats of one licence product in one tenant (server/src/licenses.ts,     *)
(* api/licenses.ts).  Who claims a seat and how many there are changes in  *)
(* many operations; each of them reconciles the seats in its transaction,  *)
(* except time and changes to people, which a later reconciliation sees.   *)
(*                                                                         *)
(* The product is defined by an enclosing tenant and may be assigned to    *)
(* people and to one group.                                                *)
(***************************************************************************)
EXTENDS Naturals, FiniteSets

CONSTANTS
  People,       \* ids, ordered as text
  Pools,
  Quantities,
  LicensesMaxTime,    \* bound on the clock
  LicensesMaxChanges, \* bound on administrative changes
  Forever

ASSUME LicensesAssumption ==
  /\ IsFiniteSet(People) /\ People \subseteq Nat
  /\ IsFiniteSet(Pools) /\ Quantities \subseteq Nat \ {0}
  /\ LicensesMaxTime \in Nat /\ LicensesMaxChanges \in Nat
  /\ Forever \notin Nat

VARIABLES
  product,   \* active or retired
  visible,   \* is the tenant below the product's definer?
  pool,      \* pool -> [quantity, ends], or quantity 0 if there is none
  direct,    \* people assigned
  group,     \* is the group assigned?
  member,    \* person -> until when a member of the group; 0 if not
  status,    \* person -> active, disabled or deleted
  seat,      \* person -> none, active or waiting
  since,     \* person -> assignedAt of the seat
  sources,   \* person -> is the seat's source direct?
  seatsNow,  \* the time
  seatEdits, \* administrative changes so far
  stale      \* did time or people change since the last reconciliation?

rules == <<product, visible, pool, direct, group, member, status>>
seats == <<seat, since, sources>>
licenseVars == <<rules, seats, seatsNow, seatEdits, stale>>

NoPool == [quantity |-> 0, ends |-> Forever]

LicensesInit ==
  /\ product = "active" /\ visible = TRUE
  /\ pool = [p \in Pools |-> NoPool]
  /\ direct = {} /\ group \in BOOLEAN
  /\ member = [p \in People |-> 0] /\ status = [p \in People |-> "active"]
  /\ seat = [p \in People |-> "none"] /\ since = [p \in People |-> 0]
  /\ sources = [p \in People |-> FALSE]
  /\ seatsNow = 0 /\ seatEdits = 0 /\ stale = FALSE

-----------------------------------------------------------------------------
(* reconcileProduct *)

Runs(ends) == ends = Forever \/ ends > seatsNow

\* The seats of the pools that are live now.
Capacity ==
  Cardinality(UNION {{p} \X (1..pool[p].quantity) : p \in {p \in Pools : Runs(pool[p].ends)}})

LiveMember(p) == member[p] # 0 /\ Runs(member[p])

Claimants ==
  IF product = "active" /\ visible
    THEN {p \in People : status[p] = "active" /\ (p \in direct \/ (group /\ LiveMember(p)))}
    ELSE {}

Seniority(p) == IF seat[p] = "none" THEN seatsNow ELSE since[p]

\* Mutant of Standing: claims of one moment rank by id alone.
StandingById(p) == 0

\* Among claims of one moment: holders, then those waiting, then the new.
Standing(p) == CASE seat[p] = "active" -> 0 [] seat[p] = "waiting" -> 1 [] OTHER -> 2

Before(p, q) ==
  \/ Seniority(p) < Seniority(q)
  \/ Seniority(p) = Seniority(q) /\ Standing(p) < Standing(q)
  \/ Seniority(p) = Seniority(q) /\ Standing(p) = Standing(q) /\ p < q

Seated(p, claimants, capacity) ==
  p \in claimants /\ Cardinality({q \in claimants : Before(q, p)}) < capacity

\* The seats after the rules have become rules'.
Reconcile ==
  /\ UNCHANGED seatsNow
  /\ LET claimants == Claimants'
         capacity == IF product' = "active" /\ visible' THEN Capacity' ELSE 0
     IN  /\ seat' = [p \in People |-> IF p \notin claimants THEN "none"
                                      ELSE IF Seated(p, claimants, capacity) THEN "active" ELSE "waiting"]
         /\ since' = [p \in People |-> IF p \in claimants THEN Seniority(p) ELSE 0]
         /\ sources' = [p \in People |-> p \in claimants /\ p \in direct']
  /\ stale' = FALSE

Administers == seatEdits < LicensesMaxChanges /\ seatEdits' = seatEdits + 1

-----------------------------------------------------------------------------
(* Operations that reconcile *)

\* addPool, updatePool and removePool; an update may end the pool now.
SetPool(p) ==
  /\ Administers /\ product = "active"
  /\ \/ visible /\ \E q \in Quantities, e \in ((seatsNow + 1)..LicensesMaxTime) \cup {Forever} :
          pool[p] = NoPool /\ pool' = [pool EXCEPT ![p] = [quantity |-> q, ends |-> e]]
     \/ visible /\ \E q \in Quantities, e \in (1..LicensesMaxTime) \cup {Forever} :
          /\ pool[p] # NoPool /\ pool[p] # [quantity |-> q, ends |-> e]
          /\ pool' = [pool EXCEPT ![p] = [quantity |-> q, ends |-> e]]
     \/ pool[p] # NoPool /\ pool' = [pool EXCEPT ![p] = NoPool]
  /\ UNCHANGED <<product, visible, direct, group, member, status>>
  /\ Reconcile

Assign(p) ==
  /\ Administers /\ product = "active" /\ visible /\ status[p] = "active" /\ p \notin direct
  /\ direct' = direct \cup {p}
  /\ UNCHANGED <<product, visible, pool, group, member, status>>
  /\ Reconcile

\* Also reclaimLicenses, which takes the assignments of inactive people away.
Unassign(p) ==
  /\ Administers /\ p \in direct
  /\ direct' = direct \ {p}
  /\ UNCHANGED <<product, visible, pool, group, member, status>>
  /\ Reconcile

\* The group is assigned, unassigned or deleted (releaseGroupLicenses).
AssignGroup ==
  /\ Administers /\ (~group => product = "active" /\ visible)
  /\ group' = ~group
  /\ UNCHANGED <<product, visible, pool, direct, member, status>>
  /\ Reconcile

\* A membership is written or removed; reconcileGroupLicenses looks for
\* assignments of the group.
SetMember(p) ==
  /\ Administers /\ status[p] # "deleted"
  /\ \E ends \in {0} \cup ((seatsNow + 1)..LicensesMaxTime) \cup {Forever} :
       ends # member[p] /\ member' = [member EXCEPT ![p] = ends]
  /\ UNCHANGED <<product, visible, pool, direct, group, status>>
  /\ IF group THEN Reconcile ELSE UNCHANGED <<seats, seatsNow, stale>>

Retire ==
  /\ Administers /\ product = "active"
  /\ product' = "retired"
  /\ UNCHANGED <<visible, pool, direct, group, member, status>>
  /\ Reconcile

\* releaseLicensesOf
DeletePerson(p) ==
  /\ Administers /\ status[p] # "deleted"
  /\ status' = [status EXCEPT ![p] = "deleted"]
  /\ direct' = direct \ {p} /\ member' = [member EXCEPT ![p] = 0]
  /\ UNCHANGED <<product, visible, pool, group>>
  /\ IF p \in direct \/ seat[p] # "none" THEN Reconcile ELSE UNCHANGED <<seats, seatsNow, stale>>

\* The scheduled job, and reconcileLicensesOf after a change to a person.
ReconcileJob ==
  /\ UNCHANGED <<rules, seatEdits>>
  /\ Reconcile

-----------------------------------------------------------------------------
(* What seats learn of later *)

\* A person is disabled or enabled; what follows the commit may be lost.
SetStatus(p) ==
  /\ Administers /\ status[p] # "deleted"
  /\ status' = [status EXCEPT ![p] = IF @ = "active" THEN "disabled" ELSE "active"]
  /\ stale' = TRUE
  /\ UNCHANGED <<product, visible, pool, direct, group, member, seats, seatsNow>>

\* tenants.reparent moves the tenant away from the definer or back.
Reparent ==
  /\ Administers /\ visible' = ~visible /\ stale' = TRUE
  /\ UNCHANGED <<product, pool, direct, group, member, status, seats, seatsNow>>

LicensesTick ==
  /\ seatsNow < LicensesMaxTime /\ seatsNow' = seatsNow + 1 /\ stale' = TRUE
  /\ UNCHANGED <<rules, seats, seatEdits>>

LicensesNext ==
  \/ \E p \in Pools : SetPool(p)
  \/ \E p \in People : Assign(p) \/ Unassign(p) \/ SetMember(p) \/ DeletePerson(p) \/ SetStatus(p)
  \/ AssignGroup \/ Retire \/ ReconcileJob \/ Reparent \/ LicensesTick

LicensesSpec == LicensesInit /\ [][LicensesNext]_licenseVars

-----------------------------------------------------------------------------
Holders == {p \in People : seat[p] = "active"}
Waiting == {p \in People : seat[p] = "waiting"}

\* heldLicenses: what counts in a decision between two reconciliations.
Held(p) ==
  /\ seat[p] = "active" /\ (sources[p] \/ LiveMember(p))
  /\ product = "active" /\ visible

\* A reconciliation gives out exactly what there is: never more seats than
\* capacity, and nobody waits beside a free one ...
SeatsFilled ==
  ~stale => Cardinality(Holders) =
    (LET n == IF product = "active" /\ visible THEN Capacity ELSE 0
     IN  IF Cardinality(Claimants) < n THEN Cardinality(Claimants) ELSE n)

\* ... nor behind someone who came later, whatever order pools, assignments
\* and memberships came and went in.
SeniorFirst == \A p \in Holders, q \in Waiting : since[p] <= since[q]

\* "a claimant never takes a seat someone already holds and repeated runs
\* never swap two holders" (licenses.ts:455): whoever still claims a seat
\* keeps it, unless there are fewer seats than holders.
SeatKept == \A p \in Holders : seat'[p] = "waiting" => Capacity' < Cardinality(Holders)

HoldersKeep == [][SeatKept]_licenseVars

\* Between reconciliations a seat outlives what it was given for; it still
\* does not count for someone who has neither assignment nor membership left,
\* or for a product that grants nothing here.
HeldIsDue == \A p \in People : Held(p) => (p \in direct \/ (group /\ LiveMember(p))) /\ visible

\* Seats go to whom they are due, after each reconciliation and between them.
SeatsRight == SeatsFilled /\ SeniorFirst /\ HeldIsDue
=============================================================================
