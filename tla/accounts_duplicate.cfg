SPECIFICATION Spec
CONSTANTS
  Registrations = {r1, r2}
  Logins = {l1}
  Emails = {e1}
  Passwords = {p1, p2}
  NoUser = NoUser
  DbMayFail = FALSE
  AuthMayCrash = FALSE
CHECK_DEADLOCK FALSE
INVARIANT EmailsAreUnique
