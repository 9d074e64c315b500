SPECIFICATION Spec
CONSTANTS
  Users = {u1, u2}
  Groups = {g1}
  Sockets = {k1, k2, k3}
  Slots = {s1, s2}
  None = None
  MaxCalls = 5
  MaxFails = 1
  MaxCrashes = 1
SYMMETRY Symmetry
INVARIANTS TypeOK MembersHear OnlyMembersHear ChangesAnnounced NoOrphans
PROPERTIES InhabitedKept
CHECK_DEADLOCK FALSE
