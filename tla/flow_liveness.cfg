SPECIFICATION FairSpec
CONSTANTS
  Orders = {o1}
  Faults = {"orders", "billing", "broker", "link", "mongo", "auth", "lookup", "token"}
  MaxSends = 2
  MaxBills = 2
INVARIANTS
  TypeOK
  IInv
PROPERTIES
  NoAnnouncementAfterAnswer
  AdmittedRequestsAreAnswered
  AcceptedOrdersAreDecided
  QueuedEventsAreSettled
