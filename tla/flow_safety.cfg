SPECIFICATION Spec
CONSTANTS
  Orders = {o1, o2}
  Faults = {"orders", "billing", "broker", "link", "mongo"}
  MaxSends = 1
  MaxBills = 2
SYMMETRY OrderSymmetry
INVARIANTS
  StoredOrdersWereAnnounced
  FailedRequestsLeaveNoOrder
  RefusedRequestsAreNeverBilled
  AckedEventsWereBilled
  RebilledOnlyAfterRedelivery
PROPERTIES
  ImplementsContract
