SPECIFICATION Spec
CONSTANTS
  Registrations = {r1, r2}
  Logins = {l1}
  Emails = {e1, e2}
  Passwords = {p1, p2}
  NoUser = NoUser
  DbMayFail = TRUE
  AuthMayCrash = TRUE
CHECK_DEADLOCK FALSE
INVARIANTS
  TypeOK
  TwinsWereInFlight
  RejectedAddressesAreTaken
  RightPasswordRefusedOnlyToTwins
  TokensNameTheirOwner
PROPERTY SerialRegistrationsAreUnique
