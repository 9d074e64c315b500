SPECIFICATION ScenarioSpec
CONSTANTS
  Users = {u1, u2}
  Devices = {d1, d2}
  Notices = {n1}
  Kinds = {"group", "user", "email", "fcm", "both"}
  Changes = {"group", "account", "session", "token", "read"}
  Slots = {s1}
  None = None
  Attempts = 3
  StallLimit = 1
  MaxRefusals = 1
  MaxCrashes = 1
  MaxSessions = 2
  MaxFails = 1
SYMMETRY Symmetry
INVARIANTS TypeOK OnlyIntended EveryoneReached OnePushEach PushIsListed
CHECK_DEADLOCK FALSE
