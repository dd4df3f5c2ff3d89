SPECIFICATION ExchangeSpec
CONSTANTS
  Calls = {c1, c3}
  Readers = {r1}
  Processes = {p1, p2}
  Process <- ProcessOf
  Keys = {k1}
  MaxDepth = 1
  None = None
  Events = {1, 2, 3}
  Poison = {3}
  Hosts = {p1}
  Registered <- SubscribedAtHome
  HostOf <- DispatchedAtHome
  Matches <- LastMatchesOne
  Subscribers = {s1, s2}
  Dispatches = {d1, d2}
  MaxThrows = 1
  MaxCrashes = 1
  Runs = {n1, n2, n3}
  Executed = {n1}
  Workers = {w1, w2}
  Steps <- ActWaitAct
  Lease = 1
  Wait = 1
  MaxFaults = 2
  MaxEdits = 2
  People = {e1, e2}
  Values = {v1, v2}
  Brake = 1
  MaxChanges = 3
  MaxStartEdits = 1
  MaxDays = 2
  Nothing = Nothing
INVARIANTS DeliveredMeansHandled StepsOnceInOrder StartsAreDue
PROPERTIES ImplementsAtomic NoDirtyRead CancelledStops EverythingEnds
CHECK_DEADLOCK FALSE
