SPECIFICATION Spec
CONSTANTS
  Sessions = {s1, s2}
  Users = {admin, member}
  Owners = {}
  Machines = {machine}
  Tenants = {root, org, team}
  Root = root
  MaxDepth = 3
  Home <- MCHome
  RoleTenant = org
  Trusted = member
  MaxSessions = 1
  MaxTokens = 1
  Lifetime = 2
  Durations = {1}
  MfaPolicies = {"nobody"}
  MaxTime = 1
  MaxChanges = 3
  None = None
SYMMETRY Symmetry
INVARIANTS SessionsWithinCap NoStrandedSessions
CHECK_DEADLOCK FALSE
