SPECIFICATION Spec
CONSTANTS
  Users = {u1, u2}
  Devices = {d1, d2}
  Notices = {n1}
  Kinds = {"user", "fcm"}
  Changes = {"session", "token"}
  Slots = {s1}
  None = None
  Attempts = 3
  StallLimit = 1
  MaxRefusals = 0
  MaxCrashes = 0
  MaxSessions = 2
  MaxFails = 0
CHECK_DEADLOCK FALSE
PROPERTY TokenOfCaller
