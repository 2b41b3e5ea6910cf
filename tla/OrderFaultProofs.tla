-------------------------- MODULE OrderFaultProofs ---------------------------
(***************************************************************************)
(* Which failures the promises of the repository's comments need.  Each    *)
(* theorem names a set of failures and shows that, while none of them      *)
(* happens, the promise is kept, whatever else fails.  The set is stated   *)
(* inside the formula, on the constant Faults.                             *)
(***************************************************************************)
EXTENDS OrderRefinementProofs

\* None of these failures happens.
Spared(kinds) == Faults \cap kinds = {}

\* What createOrder's comment claims of its transaction: whoever is told of success
\* has an order that is or will be stored, and whoever is told of an error has none,
\* nor a transaction still open.
Atomic(o) ==
  /\ answer[o] = "201" => txn[o] \in {"active", "committed"}
  /\ answer[o] \in {"400", "401", "500"} => txn[o] \in {"none", "aborted"}

AnswersAreAtomic == \A o \in Orders : Atomic(o)

\* While neither MongoDB nor the orders process fails, no transaction is left to
\* the server: it is open as long as the event is being sent.
ClientDecides(o) ==
  /\ pc[o] # "dead" /\ commit[o] # "orphaned"
  /\ pc[o] \in {"outbox", "unconfirmed"} => txn[o] = "active"

\* With the connections spared as well, createOrder never gets to its catch block.
NothingFails(o) == pc[o] # "abort" /\ txn[o] # "aborted"

\* While broker and connections last, an event is sent once.
SentOnce(o) ==
  /\ sends[o] \in {0, 1}
  /\ pc[o] = "outbox" => sends[o] = 0

\* A handler has given up on its event only for a cause: its guard refused for an
\* expired JWT or a failed lookup, or was never answered.
GivenUpForCause(m) ==
  /\ handler[m] = "refused" => GuardRefuses(OrderOf(m))
  /\ handler[m] = "hung" => GuardUnanswered

FaultInv ==
  /\ Spared({"mongo", "orders"}) => AnswersAreAtomic /\ \A o \in Orders : ClientDecides(o)
  /\ Spared({"link", "broker", "mongo", "orders"}) => \A o \in Orders : NothingFails(o)
  /\ Spared({"broker"}) => \A m \in Copies : msg[m] # "lost"
  /\ Spared({"link", "broker"}) => \A o \in Orders : SentOnce(o)
  /\ Spared({"link", "broker", "billing"}) => \A m \in Copies : ~redelivered[m]
  /\ Spared({"token"}) => expired = {}
  /\ \A m \in Copies : GivenUpForCause(m)

\* At first nothing has failed.
LEMMA InitFaultInv == Init => FaultInv
<1> SUFFICES ASSUME Init PROVE FaultInv
  OBVIOUS
<1> USE DEF Init, OrdersInit, BillingInit, QueueInit, GuardInit
<1>1. \A o \in Orders : ClientDecides(o) /\ NothingFails(o) /\ SentOnce(o)
  BY DEF ClientDecides, NothingFails, SentOnce
<1>2. AnswersAreAtomic
  BY DEF AnswersAreAtomic, Atomic
<1>3. \A m \in Copies : msg[m] # "lost" /\ ~redelivered[m] /\ GivenUpForCause(m)
  BY DEF GivenUpForCause
<1> QED
  BY <1>1, <1>2, <1>3 DEF FaultInv

\* A step outside the orders service ends no process of it and no transaction: it
\* touches no more than the stage of a request whose event is not confirmed.
LEMMA OutsideOrders ==
  ASSUME [Next]_vars, ~OrdersNext
  PROVE  /\ UNCHANGED <<txn, commit, answer, sends>>
         /\ UNCHANGED pc \/ (May("broker") /\ EmitsInterrupted)
BY DEF Next, vars, ordersVars, BrokerRestart

\* The server takes no decision of its own while MongoDB and the process last.
LEMMA ClientDecidesKept ==
  ASSUME IInv, [Next]_vars, Spared({"mongo", "orders"}),
         AnswersAreAtomic, \A o \in Orders : ClientDecides(o), NEW p \in Orders
  PROVE  ClientDecides(p)' /\ Atomic(p)'
<1> USE DEF ClientDecides, Atomic, At, Goto, Reply
<1>1. /\ ~May("mongo") /\ ~May("orders")
      /\ ClientDecides(p) /\ Atomic(p)
      /\ OrderInv(p)
      /\ OrdersTypeOK
  BY DEF Spared, May, IInv, TypeOK, AnswersAreAtomic
<1>2. ASSUME NEW o \in Orders, PostOrder(o) PROVE ClientDecides(p)' /\ Atomic(p)'
  BY <1>1, <1>2 DEF PostOrder, GetAuthentication, OrderInv, OrdersTypeOK
<1>3. ASSUME NEW o \in Orders, OrdersGuardGrants(o) PROVE ClientDecides(p)' /\ Atomic(p)'
  BY <1>1, <1>3 DEF OrdersGuardGrants, ValidateBody, OrderInv, OrdersTypeOK
<1>4. ASSUME NEW o \in Orders, OrdersGuardRefuses(o) \/ OrdersGuardHangs(o)
      PROVE  ClientDecides(p)' /\ Atomic(p)'
  BY <1>1, <1>4 DEF OrdersGuardRefuses, OrdersGuardHangs, OrderInv, OrdersTypeOK
<1>5. ASSUME NEW o \in Orders, StartTransaction(o) \/ EmitRejected(o) \/ Transmit(o)
      PROVE  ClientDecides(p)' /\ Atomic(p)'
  BY <1>1, <1>5 DEF StartTransaction, EmitRejected, Transmit, OrderInv, OrdersTypeOK
<1>6. ASSUME NEW o \in Orders, InsertOrder(o) PROVE ClientDecides(p)' /\ Atomic(p)'
  BY <1>1, <1>6 DEF InsertOrder, OrderInv, OrdersTypeOK
<1>7. ASSUME NEW o \in Orders, EmitConfirmed(o) PROVE ClientDecides(p)' /\ Atomic(p)'
  BY <1>1, <1>7 DEF EmitConfirmed, OrderInv, OrdersTypeOK
<1>8. ASSUME NEW o \in Orders, AbortTransaction(o) PROVE ClientDecides(p)' /\ Atomic(p)'
  BY <1>1, <1>8 DEF AbortTransaction, OrderInv, OrdersTypeOK
<1>9. ASSUME NEW o \in Orders, CommitResolves(o) \/ ServerCommits(o)
      PROVE  ClientDecides(p)' /\ Atomic(p)'
  BY <1>1, <1>9 DEF CommitResolves, ServerCommits, OrderInv, OrdersTypeOK
<1>10. \A o \in Orders : ~CommitRejects(o) /\ ~ServerAborts(o) /\ ~OrdersCrash
  BY <1>1 DEF CommitRejects, ServerAborts, Abandoned, OrdersCrash
<1>11. ASSUME OrdersStart \/ OrdersLoseConnection PROVE ClientDecides(p)' /\ Atomic(p)'
  BY <1>1, <1>11 DEF OrdersStart, OrdersLoseConnection, EmitsInterrupted, InterruptEmits, Emitting,
                    OrdersTypeOK
<1>12. CASE ~OrdersNext
  BY <1>1, <1>12, OutsideOrders DEF EmitsInterrupted, InterruptEmits, Emitting
<1> QED
  BY <1>1, <1>2, <1>3, <1>4, <1>5, <1>6, <1>7, <1>8, <1>9, <1>10, <1>11, <1>12
  DEF OrdersNext, OrdersHandlerStep

\* createOrder reaches its catch block only through a failed insert or emit.
LEMMA NothingFailsKept ==
  ASSUME IInv, [Next]_vars, Spared({"link", "broker", "mongo", "orders"}),
         \A o \in Orders : ClientDecides(o) /\ NothingFails(o), NEW p \in Orders
  PROVE  NothingFails(p)'
<1> USE DEF NothingFails, At, Goto, Reply
<1>1. /\ ~May("mongo") /\ ~May("orders") /\ ~May("link") /\ ~May("broker")
      /\ \A o \in Orders : pc[o] # "dead" /\ commit[o] # "orphaned" /\ pc[o] # "abort"
      /\ NothingFails(p)
      /\ OrdersTypeOK
  BY DEF Spared, May, IInv, TypeOK, ClientDecides
<1>2. ASSUME NEW o \in Orders,
             PostOrder(o) \/ OrdersGuardGrants(o) \/ OrdersGuardRefuses(o)
               \/ OrdersGuardHangs(o) \/ StartTransaction(o)
      PROVE  NothingFails(p)'
  BY <1>1, <1>2
  DEF PostOrder, GetAuthentication, OrdersGuardGrants, ValidateBody, OrdersGuardRefuses,
      OrdersGuardHangs, StartTransaction, OrdersTypeOK
<1>3. ASSUME NEW o \in Orders, InsertOrder(o) \/ Transmit(o) \/ EmitConfirmed(o)
      PROVE  NothingFails(p)'
  BY <1>1, <1>3 DEF InsertOrder, Transmit, EmitConfirmed, OrdersTypeOK
<1>4. ASSUME NEW o \in Orders, CommitResolves(o) \/ ServerCommits(o)
      PROVE  NothingFails(p)'
  BY <1>1, <1>4 DEF CommitResolves, ServerCommits, OrdersTypeOK
<1>5. ~OrdersCrash /\ ~OrdersLoseConnection
  BY <1>1 DEF OrdersCrash, OrdersLoseConnection
<1>6. \A o \in Orders : /\ ~EmitRejected(o) /\ ~AbortTransaction(o)
                        /\ ~CommitRejects(o) /\ ~ServerAborts(o)
  BY <1>1 DEF EmitRejected, AbortTransaction, CommitRejects, ServerAborts, Abandoned
<1>7. ASSUME OrdersStart PROVE NothingFails(p)'
  BY <1>1, <1>7 DEF OrdersStart
<1>8. CASE ~OrdersNext
  BY <1>1, <1>8, OutsideOrders
<1> QED
  BY <1>2, <1>3, <1>4, <1>5, <1>6, <1>7, <1>8 DEF OrdersNext, OrdersHandlerStep

\* Copies are lost in a restart of the broker, and nowhere else.
LEMMA NoneLostKept ==
  ASSUME IInv, [Next]_vars, Spared({"broker"}), NEW n \in Copies, msg[n] # "lost"
  PROVE  msg'[n] # "lost"
<1>1. ~BrokerRestart /\ QueueTypeOK
  BY DEF Spared, May, BrokerRestart, IInv, TypeOK
<1>2. CASE OrdersNext
  BY <1>1, <1>2
  DEF OrdersNext, OrdersHandlerStep, PostOrder, OrdersGuardGrants, OrdersGuardRefuses,
      OrdersGuardHangs, StartTransaction, InsertOrder, Transmit, Enqueue, EmitConfirmed,
      EmitRejected, AbortTransaction, CommitResolves, CommitRejects, OrdersCrash,
      OrdersProcessDies, ServerCommits, ServerAborts, OrdersStart, OrdersLoseConnection,
      QueueTypeOK, queueVars
<1>3. CASE BillingNext
  BY <1>1, <1>3
  DEF BillingNext, BillingHandlerStep, Deliver, HandOver, HandleOrderCreated,
      BillingGuardRefuses, BillingGuardHangs, OrphanBills, OrphanEnds, AckArrives, Settle,
      BillingLosesChannel, BillingReconnects, BillingCrash, BillingStart, Requeue,
      QueueTypeOK, queueVars
<1>4. CASE UNCHANGED msg
  BY <1>4
<1> QED
  BY <1>1, <1>2, <1>3, <1>4 DEF Next, vars, queueVars

\* Only a lost connection puts a sent event back into the outbox.
LEMMA SentOnceKept ==
  ASSUME IInv, [Next]_vars, Spared({"link", "broker"}), NEW p \in Orders, SentOnce(p)
  PROVE  SentOnce(p)'
<1> USE DEF SentOnce, At, Goto, Reply
<1>1. /\ ~May("link") /\ ~May("broker")
      /\ OrdersTypeOK
      /\ OrderInv(p)
  BY DEF Spared, May, IInv, TypeOK
<1>2. ASSUME NEW o \in Orders,
             PostOrder(o) \/ OrdersGuardGrants(o) \/ OrdersGuardRefuses(o)
               \/ OrdersGuardHangs(o) \/ StartTransaction(o)
      PROVE  SentOnce(p)'
  BY <1>1, <1>2
  DEF PostOrder, GetAuthentication, OrdersGuardGrants, ValidateBody, OrdersGuardRefuses,
      OrdersGuardHangs, StartTransaction, OrdersTypeOK
<1>3. ASSUME NEW o \in Orders, InsertOrder(o) \/ EmitConfirmed(o) \/ AbortTransaction(o)
      PROVE  SentOnce(p)'
  BY <1>1, <1>3 DEF InsertOrder, EmitConfirmed, AbortTransaction, OrdersTypeOK, OrderInv
<1>4. ASSUME NEW o \in Orders, Transmit(o) PROVE SentOnce(p)'
  BY <1>1, <1>4 DEF Transmit, OrdersTypeOK
<1>5. ASSUME NEW o \in Orders, CommitResolves(o) \/ ServerCommits(o) \/ ServerAborts(o)
      PROVE  SentOnce(p)'
  BY <1>1, <1>5 DEF CommitResolves, ServerCommits, ServerAborts
<1>6. ~OrdersLoseConnection /\ \A o \in Orders : ~EmitRejected(o)
  BY <1>1 DEF OrdersLoseConnection, EmitRejected
<1>7. ASSUME OrdersProcessDies \/ OrdersStart PROVE SentOnce(p)'
  BY <1>1, <1>7 DEF OrdersProcessDies, OrdersStart
<1>8. CASE ~OrdersNext
  BY <1>1, <1>8, OutsideOrders
<1> QED
  BY <1>2, <1>3, <1>4, <1>5, <1>6, <1>7, <1>8
  DEF OrdersNext, OrdersHandlerStep, CommitRejects, OrdersCrash

\* The broker takes a copy back only from a closed channel or a dead process.
LEMMA NoRedeliveryKept ==
  ASSUME IInv, [Next]_vars, Spared({"link", "broker", "billing"}),
         NEW n \in Copies, ~redelivered[n]
  PROVE  ~redelivered'[n]
<1>1. /\ ~BrokerRestart /\ ~BillingLosesChannel /\ ~BillingCrash
      /\ redelivered \in [Copies -> BOOLEAN]
  BY DEF Spared, May, BrokerRestart, BillingLosesChannel, BillingCrash,
         IInv, TypeOK, QueueTypeOK
<1>2. OrdersNext => UNCHANGED redelivered
  BY DEF OrdersNext, OrdersHandlerStep, PostOrder, OrdersGuardGrants, OrdersGuardRefuses,
         OrdersGuardHangs, StartTransaction, InsertOrder, Transmit, Enqueue, EmitConfirmed,
         EmitRejected, AbortTransaction, CommitResolves, CommitRejects, OrdersCrash,
         OrdersProcessDies, ServerCommits, ServerAborts, OrdersStart, OrdersLoseConnection,
         queueVars
<1>3. BillingNext => UNCHANGED redelivered
  BY <1>1
  DEF BillingNext, BillingHandlerStep, Deliver, HandOver, HandleOrderCreated,
      BillingGuardRefuses, BillingGuardHangs, OrphanBills, OrphanEnds, AckArrives, Settle,
      BillingReconnects, BillingStart, queueVars
<1>4. UNCHANGED redelivered
  BY <1>1, <1>2, <1>3 DEF Next, vars, queueVars
<1> QED
  BY <1>4

\* A JWT that has expired stays expired, and none does while tokens last.
LEMMA ExpiredKept ==
  ASSUME [Next]_vars
  PROVE  expired \subseteq expired' /\ (Spared({"token"}) => UNCHANGED expired)
BY DEF Next, vars, TokenExpires, BrokerRestart, Spared, May

\* A handler gives up for a cause, and the cause stays.
LEMMA GivenUpForCauseKept ==
  ASSUME IInv, [Next]_vars, NEW n \in Copies, GivenUpForCause(n)
  PROVE  GivenUpForCause(n)'
<1> USE DEF GivenUpForCause
<1>1. GuardRefuses(OrderOf(n)) => GuardRefuses(OrderOf(n))'
  BY ExpiredKept DEF GuardRefuses, OrderOf
<1>2. GuardUnanswered' = GuardUnanswered
  BY DEF GuardUnanswered, May
<1>3. BillingTypeOK
  BY DEF IInv, TypeOK
<1>4. ASSUME BillingNext, UNCHANGED expired
      PROVE  \/ handler'[n] \in {handler[n], "none", "guard", "acking"}
             \/ handler'[n] = "refused" /\ GuardRefuses(OrderOf(n))
             \/ handler'[n] = "hung" /\ GuardUnanswered
  BY <1>3, <1>4
  DEF BillingNext, BillingHandlerStep, Deliver, HandleOrderCreated, BillingGuardRefuses,
      BillingGuardHangs, OrphanBills, OrphanEnds, AckArrives, BillingLosesChannel,
      ConsumerLosesChannel, BillingReconnects, BillingCrash, BillingStart, BillingTypeOK
<1>5. CASE BillingNext /\ UNCHANGED expired
  BY <1>1, <1>2, <1>4, <1>5
<1>6. CASE BrokerRestart
  BY <1>3, <1>6 DEF BrokerRestart, ConsumerLosesChannel, BillingTypeOK
<1>7. CASE UNCHANGED handler
  BY <1>1, <1>2, <1>7
<1> QED
  BY <1>5, <1>6, <1>7 DEF Next, vars, billingVars

\* FaultInv is kept by every step the failures allow.
LEMMA FaultInductive == IInv /\ FaultInv /\ [Next]_vars => FaultInv'
<1> SUFFICES ASSUME IInv, FaultInv, [Next]_vars PROVE FaultInv'
  OBVIOUS
<1>1. Spared({"mongo", "orders"}) => AnswersAreAtomic' /\ \A o \in Orders : ClientDecides(o)'
  BY ClientDecidesKept DEF FaultInv, AnswersAreAtomic
<1>2. ASSUME Spared({"link", "broker", "mongo", "orders"}) PROVE \A o \in Orders : NothingFails(o)'
  <2>1. Spared({"mongo", "orders"})
    BY <1>2 DEF Spared
  <2> QED
    BY <1>2, <2>1, NothingFailsKept DEF FaultInv
<1>3. Spared({"broker"}) => \A m \in Copies : msg'[m] # "lost"
  BY NoneLostKept DEF FaultInv
<1>4. Spared({"link", "broker"}) => \A o \in Orders : SentOnce(o)'
  BY SentOnceKept DEF FaultInv
<1>5. Spared({"link", "broker", "billing"}) => \A m \in Copies : ~redelivered'[m]
  BY NoRedeliveryKept DEF FaultInv
<1>6. Spared({"token"}) => expired' = {}
  BY ExpiredKept DEF FaultInv
<1>7. \A m \in Copies : GivenUpForCause(m)'
  BY GivenUpForCauseKept DEF FaultInv
<1> QED
  BY <1>1, <1>2, <1>3, <1>4, <1>5, <1>6, <1>7 DEF FaultInv, Spared, Copies

\* What every theorem below rests on.
LEMMA FaultInvariance == Spec => [](IInv /\ FaultInv)
BY InitIInv, InitFaultInv, Inductive, FaultInductive, PTL DEF Spec

-----------------------------------------------------------------------------

\* createOrder is atomic, as its comment claims, as long as neither MongoDB fails nor the
\* process ends: lost connections, broker restarts and refused guards leave no
\* answer that its transaction contradicts, and no failed request with an open one.
THEOREM AtomicUnlessMongoOrCrash == Spec => [](Spared({"mongo", "orders"}) => AnswersAreAtomic)
<1>1. IInv /\ FaultInv => (Spared({"mongo", "orders"}) => AnswersAreAtomic)
  BY DEF FaultInv
<1> QED
  BY <1>1, FaultInvariance, PTL

\* The missing await of commitTransaction() harms a customer only when MongoDB fails
\* or the orders process ends: otherwise an order answered 201 is never aborted.
THEOREM CommitErrorsNeedMongoOrCrash ==
  Spec => [](Spared({"mongo", "orders"}) => CommitErrorsArePropagated)
<1>1. IInv /\ FaultInv => (Spared({"mongo", "orders"}) => CommitErrorsArePropagated)
  BY DEF FaultInv, AnswersAreAtomic, Atomic, CommitErrorsArePropagated
<1> QED
  BY <1>1, FaultInvariance, PTL

\* A billed order is rolled back only when MongoDB, the orders process, the broker or a
\* connection fails: expired JWTs and crashes of auth or billing do not bring
\* createOrder to its catch block.
THEOREM PhantomBillsNeedAFault ==
  Spec => [](Spared({"link", "broker", "mongo", "orders"}) => BilledOrdersAreNotRolledBack)
<1>1. IInv /\ FaultInv =>
        (Spared({"link", "broker", "mongo", "orders"}) => BilledOrdersAreNotRolledBack)
  BY DEF FaultInv, NothingFails, BilledOrdersAreNotRolledBack, Spared
<1> QED
  BY <1>1, FaultInvariance, PTL

\* What may have become of an event that was sent: it is billed or on its way, or a
\* handler has given it up for a cause.
AccountedFor(m) ==
  \/ bills[m] > 0
  \/ OnItsWay(m)
  \/ handler[m] = "refused" /\ GuardRefuses(OrderOf(m))
  \/ handler[m] = "hung" /\ GuardUnanswered

\* Without a broker restart a sent event is in none of the states that lose it.
LEMMA SentIsAccountedFor ==
  ASSUME IInv, FaultInv, Spared({"broker"}), NEW m \in Copies, msg[m] # "unsent"
  PROVE  AccountedFor(m)
<1>1. msg[m] \in {"ready", "unacked", "acked"}
  BY DEF IInv, TypeOK, QueueTypeOK, FaultInv
<1>2. CopyInv(m) /\ GivenUpForCause(m)
  BY DEF IInv, FaultInv
<1>3. handler[m] \in {"none", "guard", "hung", "refused", "acking"}
  BY DEF IInv, TypeOK, BillingTypeOK
<1> QED
  BY <1>1, <1>2, <1>3 DEF CopyInv, GivenUpForCause, AccountedFor, OnItsWay

\* An event that was sent and not billed can be told of: unless the broker restarts, it is
\* queued or with a handler that awaits its guard, or it waits unacknowledged for a
\* reason that the guard had.  Crashes of orders, billing and auth, lost connections,
\* lost acks and failed commits leave no event acknowledged or forgotten without a bill.
THEOREM UnbilledEventsAreAccountedFor ==
  Spec => [](Spared({"broker"}) => \A m \in Copies : msg[m] # "unsent" => AccountedFor(m))
<1>1. IInv /\ FaultInv =>
        (Spared({"broker"}) => \A m \in Copies : msg[m] # "unsent" => AccountedFor(m))
  BY SentIsAccountedFor
<1> QED
  BY <1>1, FaultInvariance, PTL

\* The first transmission of an accepted order is where AcceptedOrdersReachBilling says.
LEMMA ReachesBilling ==
  IInv /\ FaultInv /\ Spared({"broker", "link", "auth", "lookup"}) => AcceptedOrdersReachBilling
<1> SUFFICES ASSUME IInv, FaultInv, Spared({"broker", "link", "auth", "lookup"}),
                    NEW o \in Orders, answer[o] = "201", o \notin expired
             PROVE  \E m \in CopiesOf(o) : bills[m] > 0 \/ OnItsWay(m)
  BY DEF AcceptedOrdersReachBilling
<1> DEFINE first == <<o, 1>>
<1>1. sends[o] \in Nat /\ sends[o] > 0
  BY DEF IInv, OrderInv, TypeOK, OrdersTypeOK
<1>2. first \in Copies /\ OrderOf(first) = o /\ first[2] = 1
  BY PairIsCopy, MaxSendsAssumption
<1>3. ~GuardRefuses(o) /\ ~GuardUnanswered /\ Spared({"broker"})
  BY DEF GuardRefuses, GuardUnanswered, Spared, May
<1>4. CopyInv(first)
  BY <1>2 DEF IInv
<1> HIDE DEF first
<1>5. msg[first] # "unsent"
  BY <1>1, <1>2, <1>4 DEF CopyInv
<1>6. AccountedFor(first)
  BY <1>2, <1>3, <1>5, SentIsAccountedFor
<1> QED
  BY <1>2, <1>3, <1>6 DEF CopiesOf, AccountedFor

\* At least once: unless the broker, a connection or auth fails, only an expired JWT keeps an
\* order answered 201 from billing.  As long as its JWT lasts it has been billed, or its
\* event is queued or with a guard that will admit it, through crashes of orders and
\* billing, failures of MongoDB and the JWTs of others.
THEOREM AcceptedReachBilling ==
  Spec => [](Spared({"broker", "link", "auth", "lookup"}) => AcceptedOrdersReachBilling)
<1>1. IInv /\ FaultInv =>
        (Spared({"broker", "link", "auth", "lookup"}) => AcceptedOrdersReachBilling)
  BY ReachesBilling
<1> QED
  BY <1>1, FaultInvariance, PTL

\* An event sent once and never taken back has one copy, billed at most once.
LEMMA AtMostOneBill == IInv /\ FaultInv /\ Spared({"link", "broker", "billing"}) => OrdersAreBilledAtMostOnce
<1> SUFFICES ASSUME IInv, FaultInv, Spared({"link", "broker", "billing"}),
                    NEW m \in Copies, NEW n \in Copies,
                    OrderOf(m) = OrderOf(n), bills[m] > 0, bills[n] > 0
             PROVE  m = n /\ bills[m] = 1
  BY DEF OrdersAreBilledAtMostOnce
<1>1. Spared({"link", "broker"})
  BY DEF Spared
<1>2. ASSUME NEW c \in Copies, bills[c] > 0 PROVE c[2] = 1
  <2>1. sends[OrderOf(c)] \in {0, 1}
    BY <1>1, CopyIsPair DEF FaultInv, SentOnce
  <2>2. msg[c] # "unsent"
    BY <1>2 DEF IInv, CopyInv
  <2>3. c[2] <= sends[OrderOf(c)]
    BY <2>2 DEF IInv, CopyInv
  <2> QED
    BY <2>1, <2>3, CopyIsPair, MaxSendsAssumption
<1>3. m = n
  BY <1>2, CopyIsPair DEF OrderOf
<1>4. ~redelivered[m]
  BY DEF FaultInv
<1>5. bills[m] = 1
  BY <1>4, BillsAreNumbers DEF CopyInv
<1> QED
  BY <1>3, <1>5

\* At most once: as long as broker, billing and their connections last, no order is
\* billed twice, neither by two copies of its event nor by one delivered twice.
THEOREM BilledAtMostOnce ==
  Spec => [](Spared({"link", "broker", "billing"}) => OrdersAreBilledAtMostOnce)
BY AtMostOneBill, FaultInvariance, PTL

\* An event stays unacknowledged for good only after a failure of auth, of a lookup, of
\* a connection or of the broker, or after a JWT has expired: otherwise the handler of
\* every unacknowledged event is waiting for its grant or has sent its ack, so that the
\* handler's next step brings the ack nearer.
THEOREM DeliveriesAreHandled ==
  Spec => [](Spared({"auth", "lookup", "token", "broker", "link"}) =>
               \A m \in Copies :
                 msg[m] = "unacked" =>
                   \/ handler[m] = "guard" /\ GuardGrants(OrderOf(m))
                   \/ handler[m] = "acking")
<1>1. IInv /\ FaultInv =>
        (Spared({"auth", "lookup", "token", "broker", "link"}) =>
           \A m \in Copies :
             msg[m] = "unacked" =>
               \/ handler[m] = "guard" /\ GuardGrants(OrderOf(m))
               \/ handler[m] = "acking")
  BY DEF IInv, CopyInv, TypeOK, BillingTypeOK, FaultInv, GivenUpForCause,
         GuardGrants, GuardRefuses, GuardUnanswered, Spared, May
<1> QED
  BY <1>1, FaultInvariance, PTL
=============================================================================
