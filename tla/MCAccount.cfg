SPECIFICATION Spec
CONSTANTS
  Passwords = {p1, p2}
  Roles = {"USER", "ADMIN"}
  Ops = {"register", "verify", "login", "regenerate", "forgot", "resend", "reset", "logout"}
  Slots = {s1, s2}
  None = None
  MaxCalls = 4
  MaxFails = 1
  MaxCrashes = 1
SYMMETRY Symmetry
INVARIANTS TypeOK KeyAgreement MailedCodeWorks OnlyMailedWorks AcceptedOnce SessionsCurrent
CHECK_DEADLOCK FALSE
