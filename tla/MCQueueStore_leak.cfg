SPECIFICATION Spec
CONSTANTS
  Jobs = {"j1"}
  Kids = {"k1", "k2"}
  Ops = {"o1", "o2"}
  KidOf <- mcKidOf
  KidUser <- mcKidUser
  Lanes = {"daily"}
  Lane <- mcLane
  Workers <- mcWorkers
  MaxJobs <- mcMaxJobs
  User <- mcUsers
  Effectful = {}
  Image = {}
  Daily = {}
  ConflictKeys = {}
  Keys <- mcNoKeys
  Priority <- mcPriority
  Size <- mcSize
  MaxPayload = 1
  MaxBytes = 2
  MaxAttempts = 2
  MaxAge <- mcMaxAge
  PayloadTTL = 2
  Lease = 1
  Budget = 2
  RetryTTL = 1
  MetaTTL = 4
  MaxAliases = 2
  Delays = {0, 1}
  MaxIdle = 9
  MaxTime = 6
  LastAdmit = 6
  MaxClaims = 3
  MaxAdmits = 3
  MaxLaneRev = 0
INVARIANT BytesExact
