----------------------------- MODULE Deployment -----------------------------
(***************************************************************************)
(* What every module of the order flow shares: the orders customers may    *)
(* place, and the kinds of failure a run lets the environment cause.       *)
(*                                                                         *)
(* docker-compose.yml starts one container per service, one RabbitMQ and   *)
(* one MongoDB replica set, and declares no restart policy: a process that *)
(* exits stays down until somebody starts it again.                        *)
(***************************************************************************)

CONSTANTS
  Orders,   \* the POST /orders requests; each stands for the one order it asks for
  Faults    \* the kinds of failure that may happen, a subset of FaultKinds

FaultKinds ==
  { "orders",   \* the orders process is killed
    "billing",  \* the billing process is killed
    "broker",   \* RabbitMQ restarts
    "link",     \* an AMQP connection or channel is lost, a publish is rejected
    "mongo",    \* MongoDB fails a command, or aborts an open transaction
    "auth",     \* the auth process is killed
    "lookup",   \* the auth service's lookup of a user fails
    "token" }   \* a JWT reaches its expiry time

ASSUME FaultsAssumption == Faults \subseteq FaultKinds

May(kind) == kind \in Faults
=============================================================================
