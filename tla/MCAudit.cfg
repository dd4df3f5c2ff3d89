SPECIFICATION FairSpec
CONSTANTS
  Archivers = {a1, a2}
  NoOne = NoOne
  Lost = Lost
  BatchSize = 2
  LeaseTerm = 2
  MaxEvents = 4
  MaxFaults = 1
INVARIANTS ChainVerifies NothingDroppedUnarchived
PROPERTIES ImplementsArchiving ArchiveCatchesUp
