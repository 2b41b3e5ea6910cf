SPECIFICATION FairSpec
CONSTANTS
  Orders = {o1}
  Faults = {"token"}
  MaxSends = 1
  MaxBills = 2
CHECK_DEADLOCK FALSE
PROPERTY ReceivedEventsAreAcknowledged
