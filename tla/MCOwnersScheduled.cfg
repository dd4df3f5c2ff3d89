SPECIFICATION OwnershipSpec
CONSTANTS
  People = {1, 2}
  Authorities = {t1, t2}
  FirstOwner = 1
  FirstAuthority = t1
  Root = Root
  RootIssued = RootIssued
  MaxExpiries = 1
  Nothing = Nothing
INVARIANT OwnersNotScheduledAway
CHECK_DEADLOCK FALSE
