SPECIFICATION Spec
CONSTANTS
  Sessions = {s1, s2, s3}
  Users = {owner, member}
  Owners = {owner}
  Machines = {}
  Tenants = {root, org}
  Root = root
  MaxDepth = 2
  Home <- MCHome
  RoleTenant = org
  Trusted = owner
  MaxSessions = 1
  MaxTokens = 1
  Lifetime = 2
  Durations = {1}
  MfaPolicies = {"nobody", "owners"}
  MaxTime = 1
  MaxChanges = 3
  None = None
SYMMETRY Symmetry
INVARIANT RefusedStaysRefused
CHECK_DEADLOCK FALSE
