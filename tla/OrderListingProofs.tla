------------------------- MODULE OrderListingProofs --------------------------
(***************************************************************************)
(* What GET /orders shows, for every set of orders, readers and faults.    *)
(* The proof takes from the flow its invariant, that what has been decided *)
(* about an order stands, and what holds while certain failures are spared.*)
(***************************************************************************)
EXTENDS OrderListing, OrderFaultProofs

ListingInv ==
  /\ IInv
  /\ ListingTypeOK
  /\ \A g \in Readers : listed[g] \subseteq StoredOrders /\ before[g] \subseteq StoredOrders
  /\ ListingsOnlyGrow

\* A committed transaction stays committed.
LEMMA StoredStays ==
  ASSUME IInv, [Next]_vars
  PROVE  StoredOrders \subseteq StoredOrders'
BY DecisionStays DEF StoredOrders

\* Nothing is listed at first.
LEMMA InitListing == ListingInit => ListingInv
BY InitIInv DEF ListingInit, ListingInv, ListingTypeOK, ListingsOnlyGrow

\* Neither a reader nor a step of the flow beside it leaves the invariant.
LEMMA ListingInductive == ListingInv /\ [ListingNext]_<<vars, readVars>> => ListingInv'
<1> SUFFICES ASSUME ListingInv, [ListingNext]_<<vars, readVars>> PROVE ListingInv'
  OBVIOUS
<1>1. [Next]_vars
  BY DEF ListingNext, GetOrders, Find
<1>2. IInv'
  BY <1>1, Inductive DEF ListingInv
<1>3. StoredOrders \subseteq StoredOrders'
  BY <1>1, StoredStays DEF ListingInv
<1>4. CASE ReadersFollow \/ UNCHANGED readVars
  BY <1>2, <1>3, <1>4
  DEF ListingInv, ListingTypeOK, ListingsOnlyGrow, ReadersFollow, readVars
<1>5. ASSUME NEW g \in Readers, GetOrders(g) PROVE ListingInv'
  BY <1>2, <1>3, <1>5 DEF ListingInv, ListingTypeOK, ListingsOnlyGrow, GetOrders
<1>6. ASSUME NEW g \in Readers, Find(g) PROVE ListingInv'
  <2>1. StoredOrders \subseteq Orders
    BY DEF StoredOrders
  <2> QED
    BY <1>2, <1>3, <1>6, <2>1 DEF ListingInv, ListingTypeOK, ListingsOnlyGrow, Find
<1> QED
  BY <1>4, <1>5, <1>6 DEF ListingNext

\* What the two theorems below rest on.
LEMMA ListingInvariance == ListingSpec => []ListingInv
BY InitListing, ListingInductive, PTL DEF ListingSpec

\* Nobody sees an order in a listing before its customer was told of success, nor
\* one whose request failed.
THEOREM ListedAccepted == ListingSpec => []ListedOrdersWereAccepted
<1>1. ListingInv => ListedOrdersWereAccepted
  BY DEF ListingInv, IInv, OrderInv, StoredOrders, ListedOrdersWereAccepted
<1> QED
  BY <1>1, ListingInvariance, PTL

\* What one answer has shown, every answer to a later request shows.
THEOREM ListingsGrow == ListingSpec => []ListingsOnlyGrow
<1>1. ListingInv => ListingsOnlyGrow
  BY DEF ListingInv
<1> QED
  BY <1>1, ListingInvariance, PTL

\* The flow beside the readers keeps what the absence of failures gives it.
LEMMA ListingFaultInvariance == ListingSpec => [](ListingInv /\ FaultInv)
<1>1. ListingInit => FaultInv
  BY InitFaultInv DEF ListingInit
<1>2. ListingInv /\ FaultInv /\ [ListingNext]_<<vars, readVars>> => FaultInv'
  <2>1. [ListingNext]_<<vars, readVars>> => [Next]_vars
    BY DEF ListingNext, GetOrders, Find
  <2> QED
    BY <2>1, FaultInductive DEF ListingInv
<1> QED
  BY <1>1, <1>2, ListingInvariance, PTL DEF ListingSpec

\* What readers of GET /orders may conclude about billing.  Unless the broker, a connection
\* or auth fails, an order they are shown is billed or will be, as long as its JWT lasts;
\* unless the broker, a connection or billing fails, it is not billed twice.
ListedOrdersAreWithBilling ==
  \A g \in Readers : \A o \in listed[g] :
    /\ Spared({"broker", "link", "auth", "lookup"}) /\ o \notin expired =>
         \E m \in CopiesOf(o) : bills[m] > 0 \/ OnItsWay(m)
    /\ Spared({"link", "broker", "billing"}) =>
         \A m, n \in CopiesOf(o) : bills[m] > 0 /\ bills[n] > 0 => m = n /\ bills[m] = 1

\* Readers may rely on that: the safety part of ListedOrdersAreBilledOnce, for every set
\* of orders and readers.
THEOREM ListedWithBilling == ListingSpec => []ListedOrdersAreWithBilling
<1>1. ListingInv /\ FaultInv => ListedOrdersAreWithBilling
  <2> SUFFICES ASSUME ListingInv, FaultInv, NEW g \in Readers, NEW o \in listed[g]
               PROVE  /\ Spared({"broker", "link", "auth", "lookup"}) /\ o \notin expired =>
                           \E m \in CopiesOf(o) : bills[m] > 0 \/ OnItsWay(m)
                      /\ Spared({"link", "broker", "billing"}) =>
                           \A m, n \in CopiesOf(o) :
                             bills[m] > 0 /\ bills[n] > 0 => m = n /\ bills[m] = 1
    BY DEF ListedOrdersAreWithBilling
  <2>1. o \in Orders /\ answer[o] = "201"
    BY DEF ListingInv, IInv, OrderInv, StoredOrders
  <2>2. Spared({"broker", "link", "auth", "lookup"}) => AcceptedOrdersReachBilling
    BY ReachesBilling DEF ListingInv
  <2>3. Spared({"link", "broker", "billing"}) => OrdersAreBilledAtMostOnce
    BY AtMostOneBill DEF ListingInv
  <2> QED
    BY <2>1, <2>2, <2>3 DEF AcceptedOrdersReachBilling, OrdersAreBilledAtMostOnce, CopiesOf
<1> QED
  BY <1>1, ListingFaultInvariance, PTL
=============================================================================
