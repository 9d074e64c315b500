SPECIFICATION FairSpec
CONSTANTS
  Clients = {c1}
  Sweeps = {w1}
  Objs = {o1, o2}
  Trips = {t1}
  Locs = {l1}
  Etas = {1}
  None = None
  Kinds = {"location", "disconnect"}
  MaxCalls = 3
  MaxFails = 0
  MaxCrashes = 0
  MaxTime = 0
  Lead = 1
PROPERTIES
  LocationNeedsSocket
CHECK_DEADLOCK FALSE
