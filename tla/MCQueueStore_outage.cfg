SPECIFICATION Spec
CONSTANTS
  Jobs = {"j1", "j2"}
  Kids = {"k1"}
  Ops = {"o1"}
  KidOf <- mcKidOf
  KidUser <- mcKidUser
  Lanes = {"daily"}
  Lane <- mcLane
  Workers <- mcWorkers
  MaxJobs <- mcMaxJobs
  User <- mcOneUser
  Effectful = {}
  Image = {}
  Daily = {"j1"}
  ConflictKeys = {"c"}
  Keys <- mcSharedKey
  Priority <- mcPriority
  Size <- mcSize
  MaxPayload = 1
  MaxBytes = 2
  MaxAttempts = 1
  MaxAge <- mcMaxAge
  PayloadTTL = 2
  Lease = 1
  Budget = 2
  RetryTTL = 1
  MetaTTL = 4
  MaxAliases = 2
  Delays = {0}
  MaxIdle = 8
  MaxTime = 7
  LastAdmit = 6
  MaxClaims = 1
  MaxAdmits = 2
  MaxLaneRev = 1
INVARIANTS DuplicateRecognised ConflictExclusive
