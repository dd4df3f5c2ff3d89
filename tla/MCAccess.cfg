SPECIFICATION Spec
CONSTANTS
  Requests <- Both
  Documents <- Written
  Roles = {i1, i2, i3}
  Policies = {}
  GrantIds <- All
  HolderOf <- HeldBy
  ParentOf <- BelowMid
  CeilingOf <- Narrow
  Administrator = Root
  TopGrant = RootIssued
  MaxBindings = 1
  Absent = Absent
  Two = {j1, j2}
  One = {k1}
  x = x
  y = y
  mid = mid
  low = low
  ann = ann
  bob = bob
  SomePolicies = {p1}
  MaxVersions = 3
  MaxRevocations = 1
  People = {1, 2, 3}
  Authorities = {j1, j2, t1}
  FirstOwner = 1
  FirstAuthority = t1
  Root = Root
  RootIssued = RootIssued
  MaxExpiries = 1
  Nothing = Nothing
SYMMETRY Symmetry
INVARIANTS AllowedByDefinition OwnersStand
PROPERTIES RevokingOnlyTakes BoundDeniesStay
CHECK_DEADLOCK FALSE
