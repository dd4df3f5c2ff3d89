SPECIFICATION Spec
CONSTANTS
  Challenges = {c1, c2}
  Sessions = {s1, s2}
  Calls = {v1}
  Devices = {d1}
  Limit = 2
  Lifetime = 1
  DeviceLifetime = 1
  Drift = 0
  Codes = {k1}
  MaxSecrets = 2
  MaxTime = 3
  MaxChanges = 1
  None = None
SYMMETRY Symmetry
INVARIANTS ProofsUsedOnce GuessesPaid EnabledMeansPassed
PROPERTIES FreshAfterChange NotOverAnother
CHECK_DEADLOCK FALSE
