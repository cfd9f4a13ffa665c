SPECIFICATION RuntimeSpec
CONSTANTS
  Jobs = {"j1", "j2"}
  Kids = {"k1"}
  Ops = {"o1"}
  KidOf <- mcKidOf
  KidUser <- mcKidUser
  Lanes = {"deferred"}
  Lane <- mcLane
  Workers <- mcWorkers
  MaxJobs <- mcMaxJobs
  User <- mcUser
  Effectful = {"j1"}
  Image = {}
  Daily = {}
  ConflictKeys = {}
  Keys <- mcNoKeys
  Priority <- mcPriority
  Size <- mcSize
  MaxPayload = 1
  MaxBytes = 2
  MaxAttempts = 2
  MaxAge <- mcLongAge
  PayloadTTL = 3
  Lease = 2
  Budget = 3
  RetryTTL = 1
  MetaTTL = 4
  MaxAliases = 2
  Delays = {0, 1}
  MaxIdle = 2
  MaxTime = 3
  LastAdmit = 1
  MaxClaims = 3
  MaxAdmits = 1
  MaxLaneRev = 1
  Runners = {w1, w2}
  Serves <- mcServes
INVARIANTS RuntimeTypeOK SuccessIsReal EffectNotRepeated RetryIsClean
SYMMETRY mcSymmetry
