SPECIFICATION Spec
CONSTANTS
  Passwords = {p1, p2}
  Roles = {"USER"}
  Ops = {"register", "verify"}
  Slots = {s1, s2}
  None = None
  MaxCalls = 3
  MaxFails = 0
  MaxCrashes = 0
SYMMETRY Symmetry
PROPERTIES VerifiedOnce
CHECK_DEADLOCK FALSE
