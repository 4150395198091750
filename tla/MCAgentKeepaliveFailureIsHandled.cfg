SPECIFICATION Spec
CONSTANTS
  MaxAttempts = 3
  Hops = 2
  IdleCap = 2
  MaxPend = 1
INVARIANTS KeepaliveFailureIsHandled
CHECK_DEADLOCK FALSE
