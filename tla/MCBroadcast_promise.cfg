SPECIFICATION Spec
CONSTANTS
  Batches = {b1, b2}
  Users = {u1}
  None = None
  MaxOpen = 2
  MaxSends = 2
  MaxEpoch = 1
INVARIANTS TypeOK JournalHonest
PROPERTIES KeepsPromise
SYMMETRY mcSymmetry
CHECK_DEADLOCK FALSE
