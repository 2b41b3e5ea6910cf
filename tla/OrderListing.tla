---------------------------- MODULE OrderListing -----------------------------
(***************************************************************************)
(* GET /orders beside the order flow: OrdersController.getOrders, open to  *)
(* everybody, reads the orders collection while orders are being placed.   *)
(* A reader is one such request; its handler awaits a single find({}).     *)
(***************************************************************************)
EXTENDS OrderFlow

CONSTANT Readers   \* GET /orders requests

VARIABLES
  reading,   \* reader -> "idle", "find" (awaits find), "done", "failed" or "dead"
  listed,    \* reader -> the orders find has read for it
  before     \* history: reader -> orders in answers given before it was posted

readVars == <<reading, listed, before>>

ListingTypeOK ==
  /\ reading \in [Readers -> {"idle", "find", "done", "failed", "dead"}]
  /\ listed \in [Readers -> SUBSET Orders]
  /\ before \in [Readers -> SUBSET Orders]

ListingInit ==
  /\ Init
  /\ reading = [g \in Readers |-> "idle"]
  /\ listed = [g \in Readers |-> {}]
  /\ before = [g \in Readers |-> {}]

\* Mutant: find also sees what open transactions have inserted.
UncommittedOrders == {o \in Orders : txn[o] \in {"active", "committed"}}

\* What the collection shows outside its transactions.
StoredOrders == {o \in Orders : txn[o] = "committed"}

GetOrders(g) ==
  /\ ordersUp
  /\ reading[g] = "idle"
  /\ reading' = [reading EXCEPT ![g] = "find"]
  /\ before' = [before EXCEPT ![g] = UNION {listed[h] : h \in {h \in Readers : reading[h] = "done"}}]
  /\ UNCHANGED <<listed, vars>>

\* find({}) resolves with a snapshot, and the handler returns it as the answer.
Find(g) ==
  /\ reading[g] = "find"
  /\ \/ /\ reading' = [reading EXCEPT ![g] = "done"]
        /\ listed' = [listed EXCEPT ![g] = StoredOrders]
     \/ /\ May("mongo")
        /\ reading' = [reading EXCEPT ![g] = "failed"]
        /\ UNCHANGED listed
  /\ UNCHANGED <<before, vars>>

\* Readers end with the orders process, whatever ends it.
ReadersFollow ==
  /\ reading' = [g \in Readers |->
                   IF ordersUp /\ ~ordersUp' /\ reading[g] = "find" THEN "dead" ELSE reading[g]]
  /\ UNCHANGED <<listed, before>>

ListingNext ==
  \/ Next /\ ReadersFollow
  \/ \E g \in Readers : GetOrders(g) \/ Find(g)

ListingSpec == ListingInit /\ [][ListingNext]_<<vars, readVars>>

FairListingSpec ==
  ListingSpec /\ Fairness /\ \A g \in Readers : WF_<<vars, readVars>>(Find(g))

-----------------------------------------------------------------------------
(* Properties                                                              *)

\* Nobody sees an order before its customer was told of success, nor one whose
\* request failed: the listing reads beside open transactions and beside
\* commits nobody awaits.
ListedOrdersWereAccepted ==
  \A g \in Readers : \A o \in listed[g] : answer[o] = "201"

\* An order that one answer has shown is in every answer to a later request,
\* whatever crashes or aborts in between.
ListingsOnlyGrow ==
  \A g \in Readers : reading[g] = "done" => before[g] \subseteq listed[g]

\* One copy of the order's event has caused one bill, and no other copy any.
BilledOnce(o) ==
  \E m \in CopiesOf(o) :
    bills[m] = 1 /\ \A n \in CopiesOf(o) \ {m} : bills[n] = 0

\* As long as broker and billing keep running, an order once listed is billed,
\* exactly once and for good, even if the orders process is gone.  The one exception
\* is an order whose JWT expired before billing's guard saw it: that one never is.
ListedOrdersAreBilledOnce ==
  \A o \in Orders, g \in Readers :
    o \in listed[g] ~> \/ []BilledOnce(o)
                       \/ [](o \in expired /\ ~Billed(o))
=============================================================================
