--------------------------- MODULE BillingService ---------------------------
(***************************************************************************)
(* The billing service: a RabbitMQ consumer whose one event handler,       *)
(* BillingController.handleOrderCreated, runs behind JwtAuthGuard.  When   *)
(* the guard admits the event the handler calls bill() and ack() in one    *)
(* turn of the event loop; when it does not, the exception filter drops    *)
(* the error and nobody acknowledges the message.                          *)
(*                                                                         *)
(* Where the handler of a delivered copy stands (handler):                 *)
(*   "none"     no handler holds this copy                                 *)
(*   "guard"    JwtAuthGuard awaits the auth service                       *)
(*   "hung"     the auth service will never answer                         *)
(*   "refused"  the guard threw; the copy stays unacknowledged             *)
(*   "acking"   billed; the ack is on its way to the broker                *)
(***************************************************************************)
EXTENDS BillingQueue, JwtGuard

CONSTANT MaxBills   \* bound: bill() calls counted for one copy; later ones change nothing

ASSUME MaxBillsAssumption == MaxBills \in Nat \ {0}

VARIABLES
  billing,   \* the consumer: "consuming", "reconnecting" or "down"
  handler,   \* copy -> where the handler of its last delivery stands
  orphans,   \* copies whose channel closed under a handler that still awaits its guard
  bills      \* copy -> calls of bill() it has caused

billingVars == <<billing, handler, orphans, bills>>

BillingTypeOK ==
  /\ billing \in {"consuming", "reconnecting", "down"}
  /\ handler \in [Copies -> {"none", "guard", "hung", "refused", "acking"}]
  /\ orphans \subseteq Copies
  /\ bills \in [Copies -> 0 .. MaxBills]

BillingInit ==
  /\ billing = "consuming"
  /\ handler = [m \in Copies |-> "none"]
  /\ orphans = {}
  /\ bills = [m \in Copies |-> 0]

-----------------------------------------------------------------------------

Deliver(m) ==
  /\ billing = "consuming"
  /\ HandOver(m)
  /\ handler' = [handler EXCEPT ![m] = "guard"]
  /\ UNCHANGED <<billing, orphans, bills>>

\* BillingService.bill: one more bill, counted up to MaxBills.
Bill(m) == bills' = [bills EXCEPT ![m] = IF @ < MaxBills THEN @ + 1 ELSE @]

\* Mutant: the handler bills before its guard's answer counts, then again.
HandleOrderCreatedTwice(m) ==
  /\ handler[m] = "guard"
  /\ Bill(m)
  /\ handler' \in {handler, [handler EXCEPT ![m] = "acking"]}
  /\ UNCHANGED <<billing, orphans, queueVars>>

\* Mutant: the handler returns without ack().
HandleOrderCreatedWithoutAck(m) ==
  /\ handler[m] = "guard"
  /\ GuardGrants(OrderOf(m))
  /\ Bill(m)
  /\ handler' = [handler EXCEPT ![m] = "none"]
  /\ UNCHANGED <<billing, orphans, queueVars>>

HandleOrderCreated(m) ==
  /\ handler[m] = "guard"
  /\ GuardGrants(OrderOf(m))
  /\ Bill(m)
  /\ handler' = [handler EXCEPT ![m] = "acking"]
  /\ UNCHANGED <<billing, orphans, queueVars>>

BillingGuardRefuses(m) ==
  /\ handler[m] = "guard"
  /\ GuardRefuses(OrderOf(m))
  /\ handler' = [handler EXCEPT ![m] = "refused"]
  /\ UNCHANGED <<billing, orphans, bills, queueVars>>

BillingGuardHangs(m) ==
  /\ handler[m] = "guard"
  /\ GuardUnanswered
  /\ handler' = [handler EXCEPT ![m] = "hung"]
  /\ UNCHANGED <<billing, orphans, bills, queueVars>>

AckArrives(m) ==
  /\ handler[m] = "acking"
  /\ Settle(m)
  /\ handler' = [handler EXCEPT ![m] = "none"]
  /\ UNCHANGED <<billing, orphans, bills>>

-----------------------------------------------------------------------------
(* Losing the channel, and losing the process.                             *)

\* Bound: one orphaned handler per copy is tracked.
RoomForOrphans == \A m \in orphans : handler[m] # "guard"

\* The channel closes and the broker takes back what was on it.  A handler that
\* awaits its guard is not cancelled: its guard has a connection of its own.
ConsumerLosesChannel ==
  /\ RoomForOrphans
  /\ orphans' = orphans \cup {m \in Copies : handler[m] = "guard"}
  /\ handler' = [m \in Copies |-> "none"]
  /\ billing' = IF billing = "down" THEN "down" ELSE "reconnecting"
  /\ UNCHANGED bills

BillingLosesChannel ==
  /\ May("link")
  /\ billing = "consuming"
  /\ ConsumerLosesChannel
  /\ Requeue

\* The AMQP client reconnects by itself and subscribes again.
BillingReconnects ==
  /\ billing = "reconnecting"
  /\ billing' = "consuming"
  /\ UNCHANGED <<handler, orphans, bills, queueVars>>

\* The guard of an orphaned handler answers.  bill() runs; ack() then throws on
\* the closed channel, so the broker never hears of it.
OrphanBills(m) ==
  /\ m \in orphans
  /\ GuardGrants(OrderOf(m))
  /\ Bill(m)
  /\ orphans' = orphans \ {m}
  /\ UNCHANGED <<billing, handler, queueVars>>

OrphanEnds(m) ==
  /\ m \in orphans
  /\ GuardRefuses(OrderOf(m)) \/ GuardUnanswered
  /\ orphans' = orphans \ {m}
  /\ UNCHANGED <<billing, handler, bills, queueVars>>

BillingCrash ==
  /\ May("billing")
  /\ billing # "down"
  /\ billing' = "down"
  /\ handler' = [m \in Copies |-> "none"]
  /\ orphans' = {}
  /\ Requeue
  /\ UNCHANGED bills

\* Started again by hand: compose declares no restart policy.
BillingStart ==
  /\ billing = "down"
  /\ billing' = "consuming"
  /\ UNCHANGED <<handler, orphans, bills, queueVars>>

-----------------------------------------------------------------------------

\* What the event loop does for copy m once it has been delivered.
BillingHandlerStep(m) ==
  \/ HandleOrderCreated(m)
  \/ BillingGuardRefuses(m)
  \/ BillingGuardHangs(m)
  \/ OrphanBills(m)
  \/ OrphanEnds(m)

BillingNext ==
  \/ \E m \in Copies : Deliver(m) \/ BillingHandlerStep(m) \/ AckArrives(m)
  \/ BillingLosesChannel
  \/ BillingReconnects
  \/ BillingCrash
  \/ BillingStart
=============================================================================
