SPECIFICATION Spec
CONSTANTS
  Clients = {c1, c2}
  Sweeps = {w1}
  Objs = {o1, o2}
  Trips = {t1, t2}
  Locs = {}
  Etas = {0, 1}
  None = None
  Kinds = {"trip", "extend", "end", "safe", "connect", "sos"}
  MaxCalls = 4
  MaxFails = 1
  MaxCrashes = 1
  MaxTime = 0
  Lead = 1
SYMMETRY Symmetry
INVARIANTS TypeOK  CoupledTrip 
CHECK_DEADLOCK FALSE
