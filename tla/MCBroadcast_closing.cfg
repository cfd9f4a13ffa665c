SPECIFICATION FairSpec
CONSTANTS
  Batches = {b1}
  Users = {u1, u2}
  None = None
  MaxOpen = 1
  MaxSends = 1
  MaxEpoch = 2
INVARIANTS CountersExact
PROPERTIES EveryBatchCloses
CHECK_DEADLOCK FALSE
