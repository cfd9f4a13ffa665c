SPECIFICATION FairSpec
CONSTANTS
  Requests = {"r1", "r2", "r3"}
  Callers = {"r1", "r2", "r3", "x", "y"}
  Limit = 1
  Waiters = 1
  TTL = 3
  Threshold = 2
  MaxFailures = 2
INVARIANTS TypeOK SlotsBounded LocalConserved ProbeAlive
PROPERTIES HalfOpenEnds
