SPECIFICATION Spec
CONSTANTS
  Jobs = {"j1", "j2", "j3"}
  Kids = {"k1"}
  Ops = {"o1"}
  KidOf <- mcKidOf
  KidUser <- mcKidUser
  Lanes = {"daily"}
  Lane <- mcLane
  Workers <- mcWorkers
  MaxJobs <- mcMaxJobs
  User <- mcUsers
  Effectful = {"j2"}
  Image = {"j1", "j2"}
  Daily = {"j1", "j2"}
  ConflictKeys = {}
  Keys <- mcNoKeys
  Priority <- mcPriority
  Size <- mcSize
  MaxPayload = 1
  MaxBytes = 2
  MaxAttempts = 2
  MaxAge <- mcLongAge
  PayloadTTL = 3
  Lease = 2
  Budget = 3
  RetryTTL = 1
  MetaTTL = 8
  MaxAliases = 2
  Delays = {0}
  MaxIdle = 1
  MaxTime = 2
  LastAdmit = 1
  MaxClaims = 2
  MaxAdmits = 3
  MaxLaneRev = 0
INVARIANTS ImageExclusive CapsHold
PROPERTIES RevisionCovers KeepsPromise
