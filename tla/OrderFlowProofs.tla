--------------------------- MODULE OrderFlowProofs ---------------------------
(***************************************************************************)
(* IInv is an inductive invariant of OrderFlow for every set of orders,    *)
(* every set of faults and every bound, and implies its safety properties. *)
(***************************************************************************)
EXTENDS OrderFlow, TLAPS

\* A copy is the pair of its order and its number.
LEMMA CopyIsPair ==
  ASSUME NEW m \in Copies
  PROVE  /\ OrderOf(m) \in Orders
         /\ m[1] \in Orders
         /\ m[2] \in 1 .. MaxSends
         /\ m = <<m[1], m[2]>>
BY DEF Copies, OrderOf

\* An order and a number make a copy.
LEMMA PairIsCopy ==
  ASSUME NEW o \in Orders, NEW k \in 1 .. MaxSends
  PROVE  /\ <<o, k>> \in Copies
         /\ OrderOf(<<o, k>>) = o
         /\ <<o, k>>[2] = k
BY DEF Copies, OrderOf

\* The flow starts in the invariant.
LEMMA InitIInv == Init => IInv
<1> SUFFICES ASSUME Init PROVE IInv
  OBVIOUS
<1> USE DEF Init, OrdersInit, BillingInit, QueueInit, GuardInit
<1>1. TypeOK
  BY MaxSendsAssumption, MaxBillsAssumption
  DEF TypeOK, OrdersTypeOK, BillingTypeOK, QueueTypeOK, GuardTypeOK, InHandler
<1>2. ASSUME NEW o \in Orders PROVE OrderInv(o)
  BY <1>2 DEF OrderInv
<1>3. ASSUME NEW m \in Copies PROVE CopyInv(m)
  BY <1>3, CopyIsPair DEF CopyInv
<1> QED
  BY <1>1, <1>2, <1>3 DEF IInv

-----------------------------------------------------------------------------
(* Type correctness, step by step.                                         *)

\* The orders service and its MongoDB session keep every type.
LEMMA OrdersStepTypes ==
  ASSUME TypeOK, OrdersNext, UNCHANGED <<billingVars, expired>>
  PROVE  TypeOK'
<1> USE MaxSendsAssumption, MaxBillsAssumption
    DEF TypeOK, OrdersTypeOK, BillingTypeOK, QueueTypeOK, GuardTypeOK, InHandler,
        billingVars, ordersVars, queueVars, At, Goto, Reply
<1>1. ASSUME NEW o \in Orders, PostOrder(o) PROVE TypeOK'
  BY <1>1 DEF PostOrder, GetAuthentication
<1>2. ASSUME NEW o \in Orders, OrdersGuardGrants(o) PROVE TypeOK'
  BY <1>2 DEF OrdersGuardGrants, ValidateBody
<1>3. ASSUME NEW o \in Orders, OrdersGuardRefuses(o) PROVE TypeOK'
  BY <1>3 DEF OrdersGuardRefuses
<1>4. ASSUME NEW o \in Orders, OrdersGuardHangs(o) PROVE TypeOK'
  BY <1>4 DEF OrdersGuardHangs
<1>5. ASSUME NEW o \in Orders, StartTransaction(o) PROVE TypeOK'
  BY <1>5 DEF StartTransaction
<1>6. ASSUME NEW o \in Orders, InsertOrder(o) PROVE TypeOK'
  BY <1>6 DEF InsertOrder
<1>7. ASSUME NEW o \in Orders, Transmit(o) PROVE TypeOK'
  <2>1. sends[o] + 1 \in 0 .. MaxSends
    BY <1>7 DEF Transmit
  <2>2. OrdersTypeOK'
    BY <1>7, <2>1 DEF Transmit
  <2>3. QueueTypeOK'
    BY <1>7 DEF Transmit, Enqueue
  <2>4. BillingTypeOK' /\ GuardTypeOK'
    BY <1>7 DEF Transmit
  <2> QED
    BY <2>2, <2>3, <2>4
<1>8. ASSUME NEW o \in Orders, EmitConfirmed(o) PROVE TypeOK'
  BY <1>8 DEF EmitConfirmed
<1>9. ASSUME NEW o \in Orders, EmitRejected(o) PROVE TypeOK'
  BY <1>9 DEF EmitRejected
<1>10. ASSUME NEW o \in Orders, AbortTransaction(o) PROVE TypeOK'
  BY <1>10 DEF AbortTransaction
<1>11. ASSUME NEW o \in Orders, CommitResolves(o) PROVE TypeOK'
  BY <1>11 DEF CommitResolves
<1>12. ASSUME OrdersProcessDies PROVE TypeOK'
  BY <1>12 DEF OrdersProcessDies
<1>13. ASSUME NEW o \in Orders, ServerCommits(o) PROVE TypeOK'
  BY <1>13 DEF ServerCommits
<1>14. ASSUME NEW o \in Orders, ServerAborts(o) PROVE TypeOK'
  BY <1>14 DEF ServerAborts
<1>15. ASSUME OrdersStart PROVE TypeOK'
  BY <1>15 DEF OrdersStart
<1>16. ASSUME OrdersLoseConnection PROVE TypeOK'
  BY <1>16 DEF OrdersLoseConnection, EmitsInterrupted, InterruptEmits, Emitting
<1> QED
  BY <1>1, <1>2, <1>3, <1>4, <1>5, <1>6, <1>7, <1>8, <1>9, <1>10, <1>11, <1>12,
     <1>13, <1>14, <1>15, <1>16
  DEF OrdersNext, OrdersHandlerStep, CommitRejects, OrdersCrash

\* So do the billing service and its queue.
LEMMA BillingStepTypes ==
  ASSUME TypeOK, BillingNext, UNCHANGED <<ordersVars, expired>>
  PROVE  TypeOK'
<1> USE MaxSendsAssumption, MaxBillsAssumption
    DEF TypeOK, OrdersTypeOK, BillingTypeOK, QueueTypeOK, GuardTypeOK,
        billingVars, ordersVars, queueVars, Bill, Requeue
<1>1. ASSUME NEW m \in Copies, Deliver(m) PROVE TypeOK'
  BY <1>1 DEF Deliver, HandOver
<1>2. ASSUME NEW m \in Copies, HandleOrderCreated(m) PROVE TypeOK'
  BY <1>2 DEF HandleOrderCreated
<1>3. ASSUME NEW m \in Copies, BillingGuardRefuses(m) PROVE TypeOK'
  BY <1>3 DEF BillingGuardRefuses
<1>4. ASSUME NEW m \in Copies, BillingGuardHangs(m) PROVE TypeOK'
  BY <1>4 DEF BillingGuardHangs
<1>5. ASSUME NEW m \in Copies, OrphanBills(m) PROVE TypeOK'
  BY <1>5 DEF OrphanBills
<1>6. ASSUME NEW m \in Copies, OrphanEnds(m) PROVE TypeOK'
  BY <1>6 DEF OrphanEnds
<1>7. ASSUME NEW m \in Copies, AckArrives(m) PROVE TypeOK'
  BY <1>7 DEF AckArrives, Settle
<1>8. ASSUME BillingLosesChannel PROVE TypeOK'
  BY <1>8 DEF BillingLosesChannel, ConsumerLosesChannel
<1>9. ASSUME BillingReconnects PROVE TypeOK'
  BY <1>9 DEF BillingReconnects
<1>10. ASSUME BillingCrash PROVE TypeOK'
  BY <1>10 DEF BillingCrash
<1>11. ASSUME BillingStart PROVE TypeOK'
  BY <1>11 DEF BillingStart
<1> QED
  BY <1>1, <1>2, <1>3, <1>4, <1>5, <1>6, <1>7, <1>8, <1>9, <1>10, <1>11
  DEF BillingNext, BillingHandlerStep

\* So does every step of the composition.
LEMMA NextTypes == TypeOK /\ [Next]_vars => TypeOK'
<1> SUFFICES ASSUME TypeOK, [Next]_vars PROVE TypeOK'
  OBVIOUS
<1> USE DEF TypeOK, OrdersTypeOK, BillingTypeOK, QueueTypeOK, GuardTypeOK,
            ordersVars, billingVars, queueVars
<1>1. CASE BrokerRestart
  <2> USE <1>1 DEF BrokerRestart
  <2>1. QueueTypeOK'
    BY DEF DropTransient, EmitIsPersistent
  <2>2. OrdersTypeOK'
    BY DEF EmitsInterrupted, InterruptEmits, Emitting, InHandler
  <2>3. BillingTypeOK'
    BY DEF ConsumerLosesChannel
  <2>4. GuardTypeOK'
    OBVIOUS
  <2> QED
    BY <2>1, <2>2, <2>3, <2>4
<1>2. ASSUME NEW o \in Orders, TokenExpires(o),
             UNCHANGED <<ordersVars, billingVars, queueVars>>
      PROVE  TypeOK'
  BY <1>2 DEF TokenExpires
<1>3. CASE UNCHANGED vars
  BY <1>3 DEF vars
<1> QED
  BY <1>1, <1>2, <1>3, OrdersStepTypes, BillingStepTypes DEF Next

-----------------------------------------------------------------------------
(* The rest of the invariant.                                              *)

\* A step of one request that leaves the queue and the transmissions alone
\* keeps CopyInv.
LEMMA CopyInvKept ==
  ASSUME UNCHANGED <<sends, billingVars, queueVars>>, NEW m \in Copies, CopyInv(m)
  PROVE  CopyInv(m)'
BY DEF CopyInv, billingVars, queueVars, OrderOf

\* OrderInv speaks of the variables of the orders service only.
LEMMA OrderInvKept ==
  ASSUME UNCHANGED ordersVars, NEW o \in Orders, OrderInv(o)
  PROVE  OrderInv(o)'
BY DEF OrderInv, ordersVars

\* A step of the orders service keeps every OrderInv.
LEMMA OrdersStepOrderInv ==
  ASSUME IInv, OrdersNext, UNCHANGED <<billingVars, expired>>, NEW p \in Orders
  PROVE  OrderInv(p)'
<1> USE MaxSendsAssumption
    DEF TypeOK, OrdersTypeOK, InHandler, IInv, OrderInv, At, Goto, Reply
<1>1. ASSUME NEW o \in Orders, PostOrder(o) PROVE OrderInv(p)'
  BY <1>1 DEF PostOrder, GetAuthentication
<1>2. ASSUME NEW o \in Orders, OrdersGuardGrants(o) PROVE OrderInv(p)'
  BY <1>2 DEF OrdersGuardGrants, ValidateBody
<1>3. ASSUME NEW o \in Orders, OrdersGuardRefuses(o) PROVE OrderInv(p)'
  BY <1>3 DEF OrdersGuardRefuses
<1>4. ASSUME NEW o \in Orders, OrdersGuardHangs(o) PROVE OrderInv(p)'
  BY <1>4 DEF OrdersGuardHangs
<1>5. ASSUME NEW o \in Orders, StartTransaction(o) PROVE OrderInv(p)'
  BY <1>5 DEF StartTransaction
<1>6. ASSUME NEW o \in Orders, InsertOrder(o) PROVE OrderInv(p)'
  BY <1>6 DEF InsertOrder
<1>7. ASSUME NEW o \in Orders, Transmit(o) PROVE OrderInv(p)'
  BY <1>7 DEF Transmit
<1>8. ASSUME NEW o \in Orders, EmitConfirmed(o) PROVE OrderInv(p)'
  BY <1>8 DEF EmitConfirmed
<1>9. ASSUME NEW o \in Orders, EmitRejected(o) PROVE OrderInv(p)'
  BY <1>9 DEF EmitRejected
<1>10. ASSUME NEW o \in Orders, AbortTransaction(o) PROVE OrderInv(p)'
  BY <1>10 DEF AbortTransaction
<1>11. ASSUME NEW o \in Orders, CommitResolves(o) PROVE OrderInv(p)'
  BY <1>11 DEF CommitResolves
<1>12. ASSUME OrdersProcessDies PROVE OrderInv(p)'
  BY <1>12 DEF OrdersProcessDies
<1>13. ASSUME NEW o \in Orders, ServerCommits(o) PROVE OrderInv(p)'
  BY <1>13 DEF ServerCommits
<1>14. ASSUME NEW o \in Orders, ServerAborts(o) PROVE OrderInv(p)'
  BY <1>14 DEF ServerAborts
<1>15. ASSUME OrdersStart PROVE OrderInv(p)'
  BY <1>15 DEF OrdersStart
<1>16. ASSUME OrdersLoseConnection PROVE OrderInv(p)'
  BY <1>16 DEF OrdersLoseConnection, EmitsInterrupted, InterruptEmits, Emitting
<1> QED
  BY <1>1, <1>2, <1>3, <1>4, <1>5, <1>6, <1>7, <1>8, <1>9, <1>10, <1>11, <1>12,
     <1>13, <1>14, <1>15, <1>16
  DEF OrdersNext, OrdersHandlerStep, CommitRejects, OrdersCrash

\* Of the orders service's steps only Transmit touches the queue: it moves one
\* copy, the next of its order, from "unsent" to "ready".
LEMMA OrdersStepCopyInv ==
  ASSUME IInv, OrdersNext, UNCHANGED <<billingVars, expired>>, NEW m \in Copies
  PROVE  CopyInv(m)'
<1>1. CopyInv(m)
  BY DEF IInv
<1>2. ASSUME NEW o \in Orders, Transmit(o) PROVE CopyInv(m)'
  <2> DEFINE new == <<o, sends[o] + 1>>
  <2>1. /\ sends[o] \in 0 .. MaxSends
        /\ sends[o] + 1 \in 1 .. MaxSends
        /\ sends' = [sends EXCEPT ![o] = @ + 1]
        /\ msg' = [msg EXCEPT ![new] = "ready"]
        /\ redelivered' = redelivered
        /\ UNCHANGED <<handler, orphans, bills>>
    BY <1>2, MaxSendsAssumption
    DEF IInv, TypeOK, OrdersTypeOK, Transmit, Enqueue, billingVars
  <2>2. new \in Copies /\ OrderOf(new) = o /\ new[2] = sends[o] + 1
    BY <2>1, PairIsCopy
  <2>3. sends \in [Orders -> 0 .. MaxSends] /\ msg \in [Copies -> {"unsent", "ready", "unacked", "acked", "lost"}]
    BY DEF IInv, TypeOK, OrdersTypeOK, QueueTypeOK
  <2>4. CASE m = new
    <3>1. CopyInv(new)
      BY <2>2 DEF IInv
    <3>2. msg[new] = "unsent"
      BY <3>1, <2>1, <2>2 DEF CopyInv
    <3>3. bills[new] = 0 /\ new \notin orphans /\ ~redelivered[new] /\ handler[new] = "none"
      BY <3>1, <3>2 DEF CopyInv
    <3>4. msg'[new] = "ready" /\ sends'[o] = sends[o] + 1
      BY <2>1, <2>2, <2>3
    <3> HIDE DEF new
    <3> QED
      BY <2>1, <2>2, <2>4, <3>3, <3>4 DEF CopyInv
  <2>5. CASE m # new
    <3>1. msg'[m] = msg[m]
      BY <2>1, <2>2, <2>3, <2>5
    <3>2. m[2] <= sends[OrderOf(m)] <=> m[2] <= sends'[OrderOf(m)]
      <4>1. CASE OrderOf(m) # o
        BY <4>1, <2>1, <2>3, CopyIsPair
      <4>2. CASE OrderOf(m) = o
        <5>1. m[2] # sends[o] + 1 /\ m[2] \in Nat
          BY <4>2, <2>5, CopyIsPair DEF OrderOf
        <5>2. sends'[o] = sends[o] + 1 /\ sends[o] \in Nat
          BY <2>1, <2>3
        <5> QED
          BY <4>2, <5>1, <5>2
      <4> QED
        BY <4>1, <4>2
    <3> QED
      BY <1>1, <2>1, <3>1, <3>2 DEF CopyInv, OrderOf
  <2> QED
    BY <2>4, <2>5
<1>3. CASE UNCHANGED <<sends, queueVars>>
  BY <1>1, <1>3, CopyInvKept DEF CopyInv, billingVars
<1>4. (\E o \in Orders : Transmit(o)) \/ UNCHANGED <<sends, queueVars>>
  BY DEF OrdersNext, OrdersHandlerStep, PostOrder, GetAuthentication, OrdersGuardGrants,
         ValidateBody, OrdersGuardRefuses,
         OrdersGuardHangs, StartTransaction, InsertOrder, EmitConfirmed, EmitRejected,
         AbortTransaction, CommitResolves, CommitRejects, OrdersCrash, OrdersProcessDies,
         ServerCommits, ServerAborts, OrdersStart, OrdersLoseConnection
<1> QED
  BY <1>2, <1>3, <1>4

\* A step of the billing service keeps every CopyInv.
LEMMA BillingStepCopyInv ==
  ASSUME IInv, BillingNext, UNCHANGED <<ordersVars, expired>>, NEW n \in Copies
  PROVE  CopyInv(n)'
<1>1. /\ CopyInv(n)
      /\ QueueTypeOK
      /\ BillingTypeOK
      /\ UNCHANGED sends
  BY DEF IInv, TypeOK, ordersVars
<1> USE <1>1, MaxBillsAssumption
    DEF QueueTypeOK, BillingTypeOK, CopyInv, OrderOf, queueVars, Bill, Requeue
<1>2. ASSUME NEW m \in Copies, Deliver(m) PROVE CopyInv(n)'
  BY <1>2 DEF Deliver, HandOver, NoAck
<1>3. ASSUME NEW m \in Copies, HandleOrderCreated(m) PROVE CopyInv(n)'
  BY <1>3 DEF HandleOrderCreated
<1>4. ASSUME NEW m \in Copies, BillingGuardRefuses(m) PROVE CopyInv(n)'
  BY <1>4 DEF BillingGuardRefuses
<1>5. ASSUME NEW m \in Copies, BillingGuardHangs(m) PROVE CopyInv(n)'
  BY <1>5 DEF BillingGuardHangs
<1>6. ASSUME NEW m \in Copies, OrphanBills(m) PROVE CopyInv(n)'
  BY <1>6 DEF OrphanBills
<1>7. ASSUME NEW m \in Copies, OrphanEnds(m) PROVE CopyInv(n)'
  BY <1>7 DEF OrphanEnds
<1>8. ASSUME NEW m \in Copies, AckArrives(m) PROVE CopyInv(n)'
  BY <1>8 DEF AckArrives, Settle
<1>9. ASSUME BillingLosesChannel PROVE CopyInv(n)'
  BY <1>9 DEF BillingLosesChannel, ConsumerLosesChannel
<1>10. ASSUME BillingCrash PROVE CopyInv(n)'
  BY <1>10 DEF BillingCrash
<1>11. ASSUME BillingReconnects \/ BillingStart PROVE CopyInv(n)'
  BY <1>11 DEF BillingReconnects, BillingStart
<1> QED
  BY <1>2, <1>3, <1>4, <1>5, <1>6, <1>7, <1>8, <1>9, <1>10, <1>11
  DEF BillingNext, BillingHandlerStep

\* A broker restart loses copies without billing them: what was never flagged
\* as redelivered is "lost" now, and a handler it orphans has not billed yet.
LEMMA RestartKeepsInv ==
  ASSUME IInv, BrokerRestart
  PROVE  /\ \A o \in Orders : OrderInv(o)'
         /\ \A m \in Copies : CopyInv(m)'
<1>1. ASSUME NEW o \in Orders PROVE OrderInv(o)'
  BY DEF IInv, TypeOK, OrdersTypeOK, OrderInv, BrokerRestart, EmitsInterrupted,
         InterruptEmits, Emitting, InHandler
<1>2. ASSUME NEW m \in Copies PROVE CopyInv(m)'
  <2>1. CopyInv(m) /\ QueueTypeOK /\ BillingTypeOK
    BY DEF IInv, TypeOK
  <2> QED
    BY <2>1 DEF QueueTypeOK, BillingTypeOK, CopyInv, OrderOf, BrokerRestart, DropTransient,
                EmitIsPersistent, ConsumerLosesChannel
<1> QED
  BY <1>1, <1>2

\* No step of the order flow, whatever fails, leaves the invariant: stage, answer,
\* commit and transmissions of an order stay in agreement, and so do a copy, its
\* handler and its bills.
THEOREM Inductive == IInv /\ [Next]_vars => IInv'
<1> SUFFICES ASSUME IInv, [Next]_vars PROVE IInv'
  OBVIOUS
<1>1. TypeOK'
  BY NextTypes DEF IInv
<1>2. CASE OrdersNext /\ UNCHANGED <<billingVars, expired>>
  BY <1>1, <1>2, OrdersStepOrderInv, OrdersStepCopyInv DEF IInv, Copies
<1>3. CASE BillingNext /\ UNCHANGED <<ordersVars, expired>>
  BY <1>1, <1>3, OrderInvKept, BillingStepCopyInv DEF IInv, Copies
<1>4. CASE BrokerRestart
  BY <1>1, <1>4, RestartKeepsInv DEF IInv, Copies
<1>5. CASE UNCHANGED <<ordersVars, billingVars, queueVars>>
  BY <1>1, <1>5, OrderInvKept, CopyInvKept DEF IInv, Copies, ordersVars
<1> QED
  BY <1>2, <1>3, <1>4, <1>5 DEF Next, vars

-----------------------------------------------------------------------------
(* The properties.                                                         *)

\* The inductive invariant holds in every reachable state of createOrder, the
\* broker and handleOrderCreated.
THEOREM Invariance == Spec => []IInv
BY InitIInv, Inductive, PTL DEF Spec

\* Every variable keeps its type, through every failure.
THEOREM TypeCorrect == Spec => []TypeOK
<1>1. IInv => TypeOK
  BY DEF IInv
<1> QED
  BY <1>1, Invariance, PTL

\* No order is stored whose event was never handed to the broker: the order of
\* emit() and commitTransaction() in createOrder.
THEOREM StoredAnnounced == Spec => []StoredOrdersWereAnnounced
<1>1. IInv => StoredOrdersWereAnnounced
  <2> SUFFICES ASSUME IInv, NEW o \in Orders, txn[o] = "committed"
               PROVE  \E m \in CopiesOf(o) : msg[m] # "unsent"
    BY DEF StoredOrdersWereAnnounced
  <2>1. sends[o] \in Nat /\ sends[o] > 0
    BY DEF IInv, OrderInv, TypeOK, OrdersTypeOK
  <2>2. /\ <<o, 1>> \in Copies
        /\ OrderOf(<<o, 1>>) = o
        /\ <<o, 1>>[2] = 1
    BY PairIsCopy, MaxSendsAssumption
  <2>3. msg[<<o, 1>>] # "unsent"
    BY <2>1, <2>2 DEF IInv, CopyInv
  <2> QED
    BY <2>2, <2>3 DEF CopiesOf
<1> QED
  BY <1>1, Invariance, PTL

\* A customer who was sent an error never finds the order stored: the promise of
\* createOrder's catch block, under crashes and late commits.
THEOREM FailedLeaveNothing == Spec => []FailedRequestsLeaveNoOrder
<1>1. IInv => FailedRequestsLeaveNoOrder
  BY DEF IInv, OrderInv, FailedRequestsLeaveNoOrder
<1> QED
  BY <1>1, Invariance, PTL

\* A request that the guard or the ValidationPipe stopped is never billed.
THEOREM RefusedNeverBilled == Spec => []RefusedRequestsAreNeverBilled
<1>1. IInv => RefusedRequestsAreNeverBilled
  <2> SUFFICES ASSUME IInv, NEW o \in Orders, answer[o] \in {"400", "401"},
                      NEW m \in CopiesOf(o)
               PROVE  ~(bills[m] > 0)
    BY DEF RefusedRequestsAreNeverBilled, Billed
  <2>1. m \in Copies /\ OrderOf(m) = o /\ m[2] \in 1 .. MaxSends
    BY CopyIsPair DEF CopiesOf
  <2>2. sends[o] = 0
    BY DEF IInv, OrderInv
  <2>3. msg[m] = "unsent"
    BY <2>1, <2>2, MaxSendsAssumption DEF IInv, CopyInv
  <2> QED
    BY <2>1, <2>3 DEF IInv, CopyInv
<1> QED
  BY <1>1, Invariance, PTL

\* CopyInv, with the counts of bills known to be numbers.
LEMMA BillsAreNumbers == IInv => \A m \in Copies : CopyInv(m) /\ bills[m] \in Nat
BY MaxBillsAssumption DEF IInv, TypeOK, BillingTypeOK

\* An event leaves the queue by an ack only after it was billed: the order of
\* bill() and ack() in handleOrderCreated.
THEOREM AtLeastOnceBilling == Spec => []AckedEventsWereBilled
<1>1. IInv => AckedEventsWereBilled
  BY BillsAreNumbers DEF AckedEventsWereBilled, CopyInv
<1> QED
  BY <1>1, Invariance, PTL

\* Only a copy the broker had taken back is billed again, although handlers outlive
\* their channel.
THEOREM RebillsFollowRedelivery == Spec => []RebilledOnlyAfterRedelivery
<1>1. IInv => RebilledOnlyAfterRedelivery
  BY BillsAreNumbers DEF RebilledOnlyAfterRedelivery, CopyInv
<1> QED
  BY <1>1, Invariance, PTL

\* Of all steps only Transmit announces, and it belongs to a request that still
\* has no answer: the AMQP client's retries end with the handler.
THEOREM QuietAfterAnswer == Spec => NoAnnouncementAfterAnswer
<1>1. ASSUME IInv, [Next]_vars, NEW m \in Copies,
             answer[OrderOf(m)] # "none", msg[m] = "unsent"
      PROVE  msg'[m] = "unsent"
  <2>1. /\ OrderOf(m) \in Orders
        /\ QueueTypeOK
        /\ pc[OrderOf(m)] = "done"
        /\ handler[m] = "none"
    BY <1>1, CopyIsPair DEF IInv, TypeOK, OrderInv, CopyInv
  <2>2. ASSUME NEW o \in Orders, Transmit(o) PROVE msg'[m] = "unsent"
    <3>1. pc[o] = "outbox" /\ msg' = [msg EXCEPT ![<<o, sends[o] + 1>>] = "ready"]
      BY <2>2 DEF Transmit, Enqueue, At
    <3>2. OrderOf(<<o, sends[o] + 1>>) = o
      BY DEF OrderOf
    <3>3. m # <<o, sends[o] + 1>>
      BY <2>1, <3>1, <3>2
    <3> QED
      BY <1>1, <2>1, <3>1, <3>3 DEF QueueTypeOK
  <2>3. CASE OrdersNext
    BY <1>1, <2>2, <2>3
    DEF OrdersNext, OrdersHandlerStep, PostOrder, GetAuthentication, OrdersGuardGrants,
        ValidateBody, OrdersGuardRefuses,
        OrdersGuardHangs, StartTransaction, InsertOrder, EmitConfirmed, EmitRejected,
        AbortTransaction, CommitResolves, CommitRejects, OrdersCrash, OrdersProcessDies,
        ServerCommits, ServerAborts, OrdersStart, OrdersLoseConnection, queueVars
  <2>4. CASE BillingNext
    BY <1>1, <2>1, <2>4
    DEF BillingNext, BillingHandlerStep, Deliver, HandOver, HandleOrderCreated,
        BillingGuardRefuses, BillingGuardHangs, OrphanBills, OrphanEnds, AckArrives, Settle,
        BillingLosesChannel, BillingReconnects, BillingCrash, BillingStart, Requeue,
        QueueTypeOK, queueVars
  <2>5. CASE BrokerRestart
    BY <1>1, <2>1, <2>5 DEF BrokerRestart, DropTransient, EmitIsPersistent
  <2>6. CASE UNCHANGED queueVars
    BY <1>1, <2>6 DEF queueVars
  <2> QED
    BY <1>1, <2>3, <2>4, <2>5, <2>6 DEF Next, vars
<1>2. IInv /\ [Next]_vars =>
        [\A m \in Copies :
           answer[OrderOf(m)] # "none" /\ msg[m] = "unsent" => msg'[m] = "unsent"]_vars
  BY <1>1
<1> QED
  BY <1>2, Invariance, PTL DEF Spec, NoAnnouncementAfterAnswer

-----------------------------------------------------------------------------
(* Decisions.                                                              *)

\* Only a request without an answer is answered, and only an open transaction ends.
LEMMA DecisionStays ==
  ASSUME IInv, [Next]_vars, NEW p \in Orders
  PROVE  /\ answer[p] # "none" => answer'[p] = answer[p]
         /\ txn[p] \in {"committed", "aborted"} => txn'[p] = txn[p]
<1> DEFINE Stays == /\ answer[p] # "none" => answer'[p] = answer[p]
                    /\ txn[p] \in {"committed", "aborted"} => txn'[p] = txn[p]
<1>1. OrdersTypeOK /\ OrderInv(p)
  BY DEF IInv, TypeOK
<1> USE <1>1 DEF OrdersTypeOK, OrderInv, At, Goto, Reply
<1>2. ASSUME NEW o \in Orders, PostOrder(o) \/ OrdersGuardGrants(o) \/ OrdersGuardRefuses(o)
      PROVE  Stays
  BY <1>2 DEF PostOrder, GetAuthentication, OrdersGuardGrants, ValidateBody, OrdersGuardRefuses
<1>3. ASSUME NEW o \in Orders, StartTransaction(o) \/ InsertOrder(o) PROVE Stays
  BY <1>3 DEF StartTransaction, InsertOrder
<1>4. ASSUME NEW o \in Orders, EmitConfirmed(o) \/ AbortTransaction(o) PROVE Stays
  BY <1>4 DEF EmitConfirmed, AbortTransaction
<1>5. ASSUME NEW o \in Orders, ServerCommits(o) \/ ServerAborts(o) PROVE Stays
  BY <1>5 DEF ServerCommits, ServerAborts
<1>6. ASSUME NEW o \in Orders,
             OrdersGuardHangs(o) \/ Transmit(o) \/ EmitRejected(o) \/ CommitResolves(o)
      PROVE  Stays
  BY <1>6 DEF OrdersGuardHangs, Transmit, EmitRejected, CommitResolves
<1>7. ASSUME OrdersProcessDies \/ OrdersStart \/ OrdersLoseConnection PROVE Stays
  BY <1>7 DEF OrdersProcessDies, OrdersStart, OrdersLoseConnection
<1>8. CASE OrdersNext
  BY <1>2, <1>3, <1>4, <1>5, <1>6, <1>7, <1>8
  DEF OrdersNext, OrdersHandlerStep, CommitRejects, OrdersCrash
<1>9. CASE UNCHANGED <<answer, txn>>
  BY <1>9
<1> QED
  BY <1>8, <1>9 DEF Next, BrokerRestart, vars, ordersVars

\* A customer is answered once, and what the server decided about an order stands:
\* no crash, retry or late commit changes either.
THEOREM DecisionsAreFinal ==
  Spec => [][\A o \in Orders :
               /\ answer[o] # "none" => answer'[o] = answer[o]
               /\ txn[o] \in {"committed", "aborted"} => txn'[o] = txn[o]]_vars
<1>1. IInv /\ [Next]_vars =>
        [\A o \in Orders :
           /\ answer[o] # "none" => answer'[o] = answer[o]
           /\ txn[o] \in {"committed", "aborted"} => txn'[o] = txn[o]]_vars
  BY DecisionStays
<1> QED
  BY <1>1, Invariance, PTL DEF Spec
=============================================================================
