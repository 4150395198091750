SPECIFICATION FairSpec
CONSTANTS
  Auth = TRUE
  MaxSends = 2
  MaxRecv = 3
INVARIANTS TypeOK RepliesMatch EndSettlesAll NoGap
PROPERTIES IsLink RequestSettles OpenSettles LocalCloseHeard
CHECK_DEADLOCK FALSE
