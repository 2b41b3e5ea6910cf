SPECIFICATION FairListingSpec
CONSTANTS
  Orders = {o1}
  Readers = {g1, g2}
  Faults = {"orders", "mongo", "token"}
  MaxSends = 2
  MaxBills = 2
INVARIANTS
  ListedOrdersWereAccepted
  ListingsOnlyGrow
  AcceptedOrdersReachBilling
  OrdersAreBilledAtMostOnce
PROPERTY ListedOrdersAreBilledOnce
