------------------------------ MODULE OrderFlow ------------------------------
(***************************************************************************)
(* The whole path of an order: the orders service and the billing service  *)
(* composed around the billing queue, MongoDB and the customers' JWTs,     *)
(* with every failure the constant Faults allows.                          *)
(***************************************************************************)
EXTENDS OrdersService, BillingService

vars == <<ordersVars, billingVars, queueVars, expired>>

TypeOK ==
  /\ OrdersTypeOK
  /\ BillingTypeOK
  /\ QueueTypeOK
  /\ GuardTypeOK

Init ==
  /\ OrdersInit
  /\ BillingInit
  /\ QueueInit
  /\ GuardInit

\* Both services lose their connections with the broker, under whatever they are
\* sending or handling; the durable queue comes back with what is persistent in it.
BrokerRestart ==
  /\ May("broker")
  /\ DropTransient
  /\ EmitsInterrupted
  /\ ConsumerLosesChannel
  /\ UNCHANGED <<ordersUp, txn, commit, answer, sends, expired>>

Next ==
  \/ OrdersNext /\ UNCHANGED <<billingVars, expired>>
  \/ BillingNext /\ UNCHANGED <<ordersVars, expired>>
  \/ BrokerRestart
  \/ \E o \in Orders : TokenExpires(o) /\ UNCHANGED <<ordersVars, billingVars, queueVars>>

Spec == Init /\ [][Next]_vars

\* Node's event loops, MongoDB and the broker keep working, and the AMQP clients
\* reconnect by themselves.  Nothing is assumed of customers, of failures, or of
\* whoever starts a dead process again.
Fairness ==
  /\ \A o \in Orders :
       /\ WF_vars(OrdersHandlerStep(o) /\ UNCHANGED <<billingVars, expired>>)
       /\ WF_vars(ServerDecides(o) /\ UNCHANGED <<billingVars, expired>>)
  /\ \A m \in Copies :
       /\ WF_vars(Deliver(m) /\ UNCHANGED <<ordersVars, expired>>)
       /\ WF_vars(BillingHandlerStep(m) /\ UNCHANGED <<ordersVars, expired>>)
       /\ WF_vars(AckArrives(m) /\ UNCHANGED <<ordersVars, expired>>)
  /\ WF_vars(BillingReconnects /\ UNCHANGED <<ordersVars, expired>>)

FairSpec == Spec /\ Fairness

-----------------------------------------------------------------------------
(* Safety                                                                  *)

CopiesOf(o) == {m \in Copies : OrderOf(m) = o}
Billed(o)   == \E m \in CopiesOf(o) : bills[m] > 0

\* createOrder emits before it commits, so billing knows of every stored order:
\* no order is in the database whose event was never handed to the broker.
StoredOrdersWereAnnounced ==
  \A o \in Orders :
    txn[o] = "committed" => \E m \in CopiesOf(o) : msg[m] # "unsent"

\* The catch block's promise: a customer who was sent an error never finds the
\* order in the database, in whatever order abort, crash and commit happen.
FailedRequestsLeaveNoOrder ==
  \A o \in Orders :
    answer[o] \in {"400", "401", "500"} => txn[o] # "committed"

\* A request stopped by the guard or by validation is never billed, neither
\* before nor after its answer.
RefusedRequestsAreNeverBilled ==
  \A o \in Orders : answer[o] \in {"400", "401"} => ~Billed(o)

\* handleOrderCreated bills before it acknowledges: an event leaves the queue by
\* an ack only after it has been billed, through crashes and redeliveries.
AckedEventsWereBilled ==
  \A m \in Copies : msg[m] = "acked" => bills[m] > 0

\* bill() runs a second time for the same copy only if the broker had taken the
\* copy back, after a lost ack or a handler orphaned by its channel.
RebilledOnlyAfterRedelivery ==
  \A m \in Copies : bills[m] > 1 => redelivered[m]

\* The event is in the queue, or with a handler whose guard has not decided yet.
OnItsWay(m) == msg[m] = "ready" \/ handler[m] = "guard"

\* As long as its JWT lasts, an order its customer was told of is with billing: billed
\* already, or with an event that will come to bill().  An event the guard has refused
\* is with nobody.  It takes a broker, a connection and an auth service that last.
AcceptedOrdersReachBilling ==
  \A o \in Orders :
    answer[o] = "201" /\ o \notin expired =>
      \E m \in CopiesOf(o) : bills[m] > 0 \/ OnItsWay(m)

\* As long as broker, billing and their connections last, an order is billed once:
\* of all the copies of its event at most one has a bill, and that one has one.
OrdersAreBilledAtMostOnce ==
  \A m, n \in Copies :
    OrderOf(m) = OrderOf(n) /\ bills[m] > 0 /\ bills[n] > 0 => m = n /\ bills[m] = 1

\* Once its customer has an answer an order is never announced again: no retry
\* of the AMQP client outlives the handler that called emit().
NoAnnouncementAfterAnswer ==
  [][\A m \in Copies :
       answer[OrderOf(m)] # "none" /\ msg[m] = "unsent" => msg'[m] = "unsent"]_vars

-----------------------------------------------------------------------------
(* The inductive invariant behind these properties.                        *)

\* How the stage of a request, its answer, its commit and its transmissions
\* hang together in createOrder.
OrderInv(o) ==
  /\ answer[o] # "none" <=> pc[o] = "done"
  /\ commit[o] # "none" => answer[o] = "201"
  /\ txn[o] = "committed" => commit[o] # "none"
  /\ pc[o] = "unconfirmed" \/ answer[o] = "201" => sends[o] > 0
  /\ \/ pc[o] \in {"idle", "guard", "hung", "session", "insert"}
     \/ answer[o] \in {"400", "401"}
     => sends[o] = 0 /\ txn[o] = "none"

\* What the broker, the handlers and the bills of one copy tell of each other.
CopyInv(m) ==
  /\ msg[m] # "unsent" <=> m[2] <= sends[OrderOf(m)]
  /\ handler[m] # "none" <=> msg[m] = "unacked"
  /\ handler[m] = "acking" \/ msg[m] = "acked" => bills[m] > 0
  /\ msg[m] = "unsent" => bills[m] = 0 /\ m \notin orphans /\ ~redelivered[m]
  /\ ~redelivered[m] =>
       /\ bills[m] <= 1
       /\ m \in orphans => msg[m] = "lost" /\ bills[m] = 0
       /\ msg[m] = "ready" \/ handler[m] \in {"guard", "hung", "refused"} => bills[m] = 0

\* TypeOK with the facts above: true at first, kept by every step, and strong
\* enough to give each of the safety properties.
IInv ==
  /\ TypeOK
  /\ \A o \in Orders : OrderInv(o)
  /\ \A m \in Copies : CopyInv(m)

-----------------------------------------------------------------------------
(* The contract this flow implements.                                      *)

Contract == INSTANCE OrderContract WITH
  announced <- {o \in Orders : sends[o] > 0},
  verdict   <- [o \in Orders |->
                  CASE answer[o] = "none" -> "none"
                    [] answer[o] = "201"  -> "accepted"
                    [] OTHER              -> "failed"],
  fate      <- [o \in Orders |->
                  CASE txn[o] = "committed" -> "stored"
                    [] txn[o] = "aborted"   -> "dropped"
                    [] OTHER                -> "open"],
  billed    <- {o \in Orders : Billed(o)}

\* Announcement, answer, storing and billing of an order happen only in the
\* orders OrderContract allows.
ImplementsContract == Contract!Spec

-----------------------------------------------------------------------------
(* Liveness                                                                *)

\* A request that got past the guard is answered, unless its process dies.
AdmittedRequestsAreAnswered ==
  \A o \in Orders : pc[o] = "session" ~> pc[o] \in {"done", "dead"}

\* The fate of an accepted order is decided some day, even if the process that
\* sent its commit is gone.
AcceptedOrdersAreDecided ==
  \A o \in Orders : answer[o] = "201" ~> txn[o] \in {"committed", "aborted"}

\* If the billing consumer stays up from some time on, every queued event is
\* acknowledged, given up by the guard or lost with the broker.
QueuedEventsAreSettled ==
  (<>[](billing = "consuming")) =>
    \A m \in Copies :
      msg[m] = "ready" ~> msg[m] \in {"acked", "lost"} \/ handler[m] \in {"refused", "hung"}

-----------------------------------------------------------------------------
(* Claims of the repository that the code does not keep.                   *)

\* "starts a database transaction to ensure atomicity ... commits the transaction
\* upon success.  If any error occurs, it aborts": a billed order is not one that
\* was rolled back.
BilledOrdersAreNotRolledBack ==
  \A o \in Orders : Billed(o) => txn[o] # "aborted"

\* "If any error occurs, it aborts the transaction and propagates the error": a
\* customer who was told 201 does not lose the order to an abort.
CommitErrorsArePropagated ==
  \A o \in Orders : answer[o] = "201" => txn[o] # "aborted"

\* "Configures messages to be persistent, ensuring they survive broker restarts."
EventsSurviveBrokerRestarts ==
  \A m \in Copies : msg[m] # "lost"

\* "When an order creation event is received, this method processes the billing
\* for the created order and acknowledges the message to RabbitMQ."
ReceivedEventsAreAcknowledged ==
  \A m \in Copies : msg[m] = "unacked" ~> msg[m] = "acked"
=============================================================================
