------------------------------ MODULE JwtGuard ------------------------------
(***************************************************************************)
(* JwtAuthGuard of libs/common, as its two users see it: the orders        *)
(* controller guards POST /orders with it, the billing controller guards   *)
(* the order_created handler with it.  canActivate sends the caller's JWT  *)
(* to the auth service (validate_user) and the request is admitted iff a   *)
(* user comes back; any error becomes an UnauthorizedException.            *)
(*                                                                         *)
(* The JWT of an order travels with it: the cookie of the POST is copied   *)
(* into the event, so one expiry decides for both services.                *)
(*                                                                         *)
(* The outcomes are guards of the caller's steps.  GuardContract says what *)
(* a call may do between its sending and its outcome, and ValidateUser     *)
(* implements it with the auth service behind its queue.  Verifying the    *)
(* JWT and acting on the answer are one step for OrdersService and         *)
(* BillingService: a call whose JWT expires between the two is a call that *)
(* was answered just before, since what its handler does with the answer   *)
(* depends on nothing that happens in between.                             *)
(***************************************************************************)
EXTENDS Deployment

VARIABLE expired   \* the orders whose JWT is past its expiry time

\* Each order is checked twice: a call is an order and the service that asks.
Services == {"orders", "billing"}
Calls    == Orders \X Services

GuardTypeOK == expired \subseteq Orders
GuardInit   == expired = {}

\* The auth service finds the JWT valid, and its user in the database.
GuardGrants(o) == o \notin expired

\* The auth service answers with an error: the JWT has expired, or the lookup
\* of its user failed (JwtStrategy.validate turns every error into a 401).
GuardRefuses(o) == o \in expired \/ May("lookup")

\* No answer ever comes, and send() sets no timeout.  The auth queue is consumed
\* with noAck, so a call is gone with the auth process that took it; a call in
\* a restarting broker, or an answer on a lost connection, is gone as well.
GuardUnanswered == May("auth") \/ May("broker") \/ May("link")

TokenExpires(o) ==
  /\ May("token")
  /\ o \notin expired
  /\ expired' = expired \cup {o}
=============================================================================
