SPECIFICATION Spec
CONSTANTS
  Channels = {c1}
  Users = {u1}
  MaxTime = 3
  MaxQueue = 2
  MaxCalls = 2
INVARIANTS TypeOK ResyncComplete  OnlineMirrors
CHECK_DEADLOCK FALSE
