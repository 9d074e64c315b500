SPECIFICATION Spec
CONSTANTS
  u1 = u1
  u2 = u2
  g1 = g1
  g2 = g2
  Users = {u1, u2}
  Groups = {g1, g2}
  Sockets = {k1, k2}
  Objs = {o1, o2, o3}
  Clients = {c1, c2}
  Sweeps = {w1, w2}
  Memberships <- MCMemberships
  None = None
  MaxEvents = 3
SYMMETRY Symmetry
INVARIANTS TypeOK ConnectedTracked SocketsKnown SosOfSessions OfflineSaved NoStrangers
CHECK_DEADLOCK FALSE
