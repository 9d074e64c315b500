SPECIFICATION Spec
CONSTANTS
  Clients = {c1, c2}
  Sweeps = {w1, w2}
  Objs = {o1, o2}
  Trips = {t1}
  Locs = {l1, l2}
  Etas = {1}
  None = None
  Kinds = {"location", "trip", "sos", "safe", "connect", "disconnect"}
  MaxCalls = 3
  MaxFails = 1
  MaxCrashes = 1
  MaxTime = 1
  Lead = 1
SYMMETRY Symmetry
INVARIANTS  NoRepeats NoRiseForgotten PathAgreement
CHECK_DEADLOCK FALSE
