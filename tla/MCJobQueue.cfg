SPECIFICATION FairSpec
CONSTANTS
  p1 = p1
  p2 = p2
  m1 = m1
  Jobs <- MCJobs
  Queue <- MCQueue
  Addresses = {a}
  None = None
  Attempts = 3
  StallLimit = 1
  MaxRefusals = 3
  MaxCrashes = 2
INVARIANT TypeOK
PROPERTIES  EveryJobEnds
CHECK_DEADLOCK FALSE
