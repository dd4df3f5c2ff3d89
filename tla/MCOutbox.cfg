SPECIFICATION FairSpec
CONSTANTS
  Messages = {m1, m2}
  Workers = {w1, w2}
  NoOne = NoOne
  MaxAttempts = 2
  LeaseTerm = 1
  BaseBackoff = 1
  BackoffCap = 1
  Limit = 1
  MaxFaults = 1
INVARIANT AttemptsWithinBudget
PROPERTIES ImplementsDelivery EveryMessageSettles
CHECK_DEADLOCK FALSE
