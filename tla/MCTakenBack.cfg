SPECIFICATION TakenBackSpec
CONSTANTS
  Artifacts = {a1, a2, a3}
  First = a1
  Requests = {r1, r2}
  Sessions = {s1, s2}
  MaxStops = 1
  Nobody = Nobody
  Leases = {l1}
  Workers = {w1, w2}
  Patience = 2
  MaxRefusals = 2
  MaxHalts = 1
  MaxDeletes = 1
  None = None
INVARIANTS ConsumedOnce DisownedStaysDead
PROPERTIES EndedIsLoggedOut LeasesHold CredentialsTakenBack
CHECK_DEADLOCK FALSE
