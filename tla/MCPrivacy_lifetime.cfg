SPECIFICATION Spec
CONSTANTS
  Holders = {h1}
  Ops = {o1, o2}
  TTL = 3
  Beat = 1
  Lag = 1
  MaxLife = 4
  MaxEpoch = 4
INVARIANTS NoUseAfterRevocation
