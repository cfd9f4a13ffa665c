SPECIFICATION Spec
CONSTANTS
  Holders = {h1}
  Ops = {o1, o2}
  TTL = 2
  Beat = 1
  Lag = 0
  MaxLife = 3
  MaxEpoch = 4
INVARIANTS TypeOK DrainComplete ForgottenStaysForgotten ConsentKept GateHasOwner
PROPERTIES DrainShrinks
SYMMETRY mcSymmetry
