SPECIFICATION FairSpec
CONSTANTS
  Clients = {c1}
  Sweeps = {w1}
  Objs = {o1, o2}
  Trips = {t1, t2}
  Locs = {}
  Etas = {0, 1}
  None = None
  Kinds = {"trip", "extend", "end", "sos", "safe", "connect"}
  MaxCalls = 3
  MaxFails = 1
  MaxCrashes = 0
  MaxTime = 1
  Lead = 1
PROPERTIES OverdueRaisesSos
CHECK_DEADLOCK FALSE
