SPECIFICATION Spec
CONSTANTS
  Hops = 2
  Messages = 3
  MaxConns = 2
  MaxPush = 3
  Base = 3
  Tail0D = TRUE
  Garbled <- LastGarbled
INVARIANTS TypeOK ScriptInStep HeardInOrder NothingHeldBack
CHECK_DEADLOCK FALSE
