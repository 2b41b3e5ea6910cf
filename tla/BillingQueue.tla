---------------------------- MODULE BillingQueue ----------------------------
(***************************************************************************)
(* The RabbitMQ queue between the orders service (RmqModule.register with  *)
(* the name BILLING) and the billing service (RmqService.getOptions of     *)
(* QUEUE_BILLING).  The broker is not part of the repository: this is the  *)
(* part of AMQP that the options given there select.                       *)
(*                                                                         *)
(* A copy <<o, k>> is the k-th transmission of order o's order_created     *)
(* event.  The AMQP client sends an event again when it loses the          *)
(* connection before the broker confirmed it, so one event may have        *)
(* several copies; nothing in the payload tells them apart.                *)
(***************************************************************************)
EXTENDS Naturals, Deployment

CONSTANT MaxSends   \* bound: transmissions of one event

ASSUME MaxSendsAssumption == MaxSends \in Nat \ {0}

VARIABLES
  msg,          \* copy -> "unsent", "ready", "unacked", "acked" or "lost"
  redelivered   \* copy -> the broker's redelivered flag

queueVars == <<msg, redelivered>>

Copies     == Orders \X (1 .. MaxSends)
OrderOf(m) == m[1]

QueueTypeOK ==
  /\ msg \in [Copies -> {"unsent", "ready", "unacked", "acked", "lost"}]
  /\ redelivered \in [Copies -> BOOLEAN]

QueueInit ==
  /\ msg = [m \in Copies |-> "unsent"]
  /\ redelivered = [m \in Copies |-> FALSE]

-----------------------------------------------------------------------------
(* Options the repository sets.                                            *)

\* Mutant: getOptions is called with its second argument set.
AutoAck == TRUE

\* RmqModule.register passes urls and queue only, so the client publishes with
\* its default, transient delivery; "persistent: true" is on the consumer side.
EmitIsPersistent == FALSE

\* billing/main.ts calls getOptions without "acknowledgements": noAck is false.
NoAck == FALSE

-----------------------------------------------------------------------------
(* Operations of the broker.                                               *)

Enqueue(m) ==
  /\ msg' = [msg EXCEPT ![m] = "ready"]
  /\ UNCHANGED redelivered

\* basic.deliver.  The consumer sets no prefetch, so any ready copy may go out.
HandOver(m) ==
  /\ msg[m] = "ready"
  /\ msg' = [msg EXCEPT ![m] = IF NoAck THEN "acked" ELSE "unacked"]
  /\ UNCHANGED redelivered

\* basic.ack arrives.
Settle(m) ==
  /\ msg' = [msg EXCEPT ![m] = "acked"]
  /\ UNCHANGED redelivered

\* The consumer's channel is gone: what it held goes back, flagged.
Requeue ==
  /\ msg' = [m \in Copies |-> IF msg[m] = "unacked" THEN "ready" ELSE msg[m]]
  /\ redelivered' = [m \in Copies |-> redelivered[m] \/ msg[m] = "unacked"]

\* The broker restarts.  The queue is durable, its messages are only if they
\* were published as persistent.
DropTransient ==
  IF EmitIsPersistent
    THEN Requeue
    ELSE /\ msg' = [m \in Copies |->
                      IF msg[m] \in {"ready", "unacked"} THEN "lost" ELSE msg[m]]
         /\ UNCHANGED redelivered
=============================================================================
