SPECIFICATION FairSpec
CONSTANTS
  Tabs = {t1, t2}
  Users = {u1}
  MaxStarts = 2
INVARIANTS TypeOK CleanExit
PROPERTIES ComesUp ExitsWithoutStreams
CHECK_DEADLOCK FALSE
