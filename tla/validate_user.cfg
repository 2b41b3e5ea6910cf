SPECIFICATION FairSpec
CONSTANTS
  Orders = {o1}
  Faults = {"orders", "billing", "broker", "link", "auth", "lookup", "token"}
  MaxSends = 2
CHECK_DEADLOCK FALSE
INVARIANTS
  TypeOK
  WaitingCallsAreOnTheirWay
PROPERTIES
  ImplementsGuard
  CallsSettle
