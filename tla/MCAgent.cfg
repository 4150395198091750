SPECIFICATION FairSpec
CONSTANTS
  MaxAttempts = 3
  Hops = 2
  IdleCap = 2
  MaxPend = 1
INVARIANTS TypeOK SingleReconnectPath NeverStranded LinkIsTheHeardOne IdleCapDropsLink
PROPERTIES StopIsFinal KeepsLink ComesBack StatusRecovers
CHECK_DEADLOCK FALSE
