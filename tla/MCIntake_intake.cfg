SPECIFICATION FairSpec
CONSTANTS
  Updates = {"a1", "a2", "a3", "b1", "b2"}
  User <- mcUser
  Command <- mcCommand
  NoCommand = "none"
  Inline = {"a3"}
  Stuck = {"A"}
  Capacity = 2
  Slots = 2
  Stop = "stop"
  NoUpdate = "none"
  Shared = {"b1", "b2"}
  MaxErrors = 1
  MaxCalls = 3
  MaxCrash = 1
INVARIANTS TypeOK AdmittedOnce NothingSwallowed BacklogBounded OneSlotPerUser
PROPERTIES ShutdownEnds
CHECK_DEADLOCK FALSE
