SPECIFICATION Spec
CONSTANTS
  Channels = {c1}
  Users = {}
  MaxTime = 2
  MaxQueue = 2
  MaxCalls = 2
INVARIANTS NothingMissed
CHECK_DEADLOCK FALSE
