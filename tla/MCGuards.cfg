SPECIFICATION Spec
CONSTANTS
  Attempts = {a1, a2}
  Sweeps = {w1}
  RateLimit = 2
  RateWindow = 3
  MaxResets = 1
  NoRow = NoRow
  RatesMaxTime = 6
  Keys = {k1, k2, k3}
  MaxKeys = 2
  MemoryLimit = 2
  MemoryWindow = 3
  MemoryMaxTime = 7
  Processes = {p1, p2}
  Kinds = {own}
  Checks = {c1, c2}
  CheckIn <- OneProcess
  BlocksWindow = 2
  Durations = {3}
  BlocksMaxChanges = 2
  None = None
  BlocksMaxTime = 4
  People = {1, 2, 3}
  Pools = {p1}
  Quantities = {1, 2}
  LicensesMaxTime = 1
  LicensesMaxChanges = 4
  Forever = Forever
  Costs = {1, 2}
  Plans <- TwoPlans
  WindowStarts <- ThreeWindows
  Spare = 1
  QuotasMaxTime = 6
  QuotasMaxChanges = 2
  NoBucket = NoBucket
  Calls = {c1, c2}
  Models = 2
  Tickets = {t1}
  BudgetLimit = 3
  Estimate = 1
  Uses = {0, 2}
  BudgetWindow = 2
  Lifetime = 2
  BudgetsMaxTime = 3
  Latest = 3
  MaxVersions = 1
  Checkouts = {o1, o2}
  Rotations = {r1, r2}
  MaxEdits = 1
  MaxMishaps = 1
  NotOut = NotOut
  MaxFaults = 1
INVARIANTS SpendingHolds VersionsHold ReturnsAreFollowedUp
PROPERTIES LimitsHold BlocksHold
CHECK_DEADLOCK FALSE
