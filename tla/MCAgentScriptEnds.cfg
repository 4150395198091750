SPECIFICATION FairSpec
CONSTANTS
  MaxAttempts = 3
  Hops = 2
  IdleCap = 2
  MaxPend = 1
PROPERTIES ScriptEnds
CHECK_DEADLOCK FALSE
