SPECIFICATION FairSpec
CONSTANTS
  Tabs = {t1}
  Users = {}
  MaxStarts = 1
PROPERTY ShutdownEnds
CHECK_DEADLOCK FALSE
