SPECIFICATION Spec
CONSTANTS
  Agents = {a1, a2, a3}
  Ids = {d1, d2, d3}
  SessionIds = {s1, s2}
  ConfirmationIds = {c1}
  Lifetimes = {2}
  Depths = {2}
  RequestLife = 1
  DecideLife = 1
  SessionLife = 1
  KeyExpiry <- Expiry
  MaxSessions = 1
  MaxLive = 1
  MaxTime = 1
  None = None
SYMMETRY Symmetry
INVARIANTS EndedHoldsNothing NothingOutlivesItsSource ApprovedOnce
CHECK_DEADLOCK FALSE
