--------------------------- MODULE OrdersService ----------------------------
(***************************************************************************)
(* The orders service: POST /orders from the guard to the answer, that is  *)
(* OrdersController.createOrder, OrdersService.createOrder and the         *)
(* repository calls they make, one action per awaited call.  Node runs one *)
(* handler at a time between two awaits, so such a stretch is atomic.      *)
(*                                                                         *)
(* Where a request stands (pc):                                            *)
(*   "idle"         not posted yet                                         *)
(*   "guard"        JwtAuthGuard awaits the auth service                   *)
(*   "hung"         the auth service will never answer                     *)
(*   "session"      awaits startTransaction()                              *)
(*   "insert"       awaits create(request, { session })                    *)
(*   "outbox"       awaits emit(); the AMQP client has the event to send   *)
(*   "unconfirmed"  awaits emit(); sent, the broker has not confirmed it   *)
(*   "abort"        in the catch block, awaits abortTransaction()          *)
(*   "done"         answered                                               *)
(*   "dead"         the process died with the request in it                *)
(***************************************************************************)
EXTENDS BillingQueue, JwtGuard

VARIABLES
  ordersUp,   \* the orders process runs
  pc,         \* order -> where its request stands
  txn,        \* order -> its MongoDB transaction, as the server sees it
  commit,     \* order -> the promise of commitTransaction(), which nobody awaits
  answer,     \* order -> the HTTP status sent, or "none"
  sends       \* order -> transmissions of its event so far

ordersVars == <<ordersUp, pc, txn, commit, answer, sends>>

\* The request is inside a handler that only this process can continue.
InHandler == {"guard", "hung", "session", "insert", "outbox", "unconfirmed", "abort"}

OrdersTypeOK ==
  /\ ordersUp \in BOOLEAN
  /\ pc \in [Orders -> InHandler \cup {"idle", "done", "dead"}]
  /\ txn \in [Orders -> {"none", "active", "aborted", "committed"}]
  /\ commit \in [Orders -> {"none", "pending", "resolved", "orphaned"}]
  /\ answer \in [Orders -> {"none", "201", "400", "401", "500"}]
  /\ sends \in [Orders -> 0 .. MaxSends]

OrdersInit ==
  /\ ordersUp = TRUE
  /\ pc = [o \in Orders |-> "idle"]
  /\ txn = [o \in Orders |-> "none"]
  /\ commit = [o \in Orders |-> "none"]
  /\ answer = [o \in Orders |-> "none"]
  /\ sends = [o \in Orders |-> 0]

At(o, point) == ordersUp /\ pc[o] = point

Goto(o, point) ==
  /\ pc' = [pc EXCEPT ![o] = point]
  /\ UNCHANGED answer

Reply(o, status) ==
  /\ pc' = [pc EXCEPT ![o] = "done"]
  /\ answer' = [answer EXCEPT ![o] = status]

-----------------------------------------------------------------------------
(* Before the handler: cookie, guard, ValidationPipe.                      *)

\* Mutant: the missing cookie is answered, but the request goes on.
PostOrderWithoutThrow(o) ==
  /\ At(o, "idle")
  /\ pc' = [pc EXCEPT ![o] = "guard"]
  /\ answer' \in {answer, [answer EXCEPT ![o] = "401"]}
  /\ UNCHANGED <<ordersUp, txn, commit, sends, queueVars>>

\* With an Authentication cookie validate_user goes out; without one
\* getAuthentication throws before anything is sent.
GetAuthentication(o) == Goto(o, "guard") \/ Reply(o, "401")

\* A POST arrives.  cookieParser, which AuthModule applies to every route, fills
\* req.cookies with what the browser sent: a cookie or none.
PostOrder(o) ==
  /\ At(o, "idle")
  /\ GetAuthentication(o)
  /\ UNCHANGED <<ordersUp, txn, commit, sends, queueVars>>

\* ValidationPipe checks the body against CreateOrderReq: the handler starts, or 400.
ValidateBody(o) == Goto(o, "session") \/ Reply(o, "400")

\* A user came back.  Pipes run after guards.
OrdersGuardGrants(o) ==
  /\ At(o, "guard")
  /\ GuardGrants(o)
  /\ ValidateBody(o)
  /\ UNCHANGED <<ordersUp, txn, commit, sends, queueVars>>

\* Mutant: canActivate returns false, which Nest answers with 403.
OrdersGuardForbids(o) ==
  /\ At(o, "guard")
  /\ GuardRefuses(o)
  /\ Reply(o, "403")
  /\ UNCHANGED <<ordersUp, txn, commit, sends, queueVars>>

\* canActivate turns whatever error came back into an UnauthorizedException.
OrdersGuardRefuses(o) ==
  /\ At(o, "guard")
  /\ GuardRefuses(o)
  /\ Reply(o, "401")
  /\ UNCHANGED <<ordersUp, txn, commit, sends, queueVars>>

OrdersGuardHangs(o) ==
  /\ At(o, "guard")
  /\ GuardUnanswered
  /\ Goto(o, "hung")
  /\ UNCHANGED <<ordersUp, txn, commit, sends, queueVars>>

-----------------------------------------------------------------------------
(* OrdersService.createOrder.                                              *)

\* startTransaction() stands before the try block: its failure is a plain 500.
StartTransaction(o) ==
  /\ At(o, "session")
  /\ Goto(o, "insert") \/ (May("mongo") /\ Reply(o, "500"))
  /\ UNCHANGED <<ordersUp, txn, commit, sends, queueVars>>

\* Mutant: the transaction is committed before the event is emitted.
InsertOrderCommitsEarly(o) ==
  /\ At(o, "insert")
  /\ Goto(o, "outbox")
  /\ txn' = [txn EXCEPT ![o] = "active"]
  /\ commit' = [commit EXCEPT ![o] = "pending"]
  /\ UNCHANGED <<ordersUp, sends, queueVars>>

\* Mutant: create() is called without the session.
InsertOrderOutsideSession(o) ==
  /\ At(o, "insert")
  /\ Goto(o, "outbox")
  /\ txn' = [txn EXCEPT ![o] = "committed"]
  /\ UNCHANGED <<ordersUp, commit, sends, queueVars>>

\* create() saves the order inside the transaction, which the server opens with
\* this first command; the handler then calls emit().  If the command fails
\* the server may or may not have opened it.
InsertOrder(o) ==
  /\ At(o, "insert")
  /\ \/ /\ Goto(o, "outbox")
        /\ txn' = [txn EXCEPT ![o] = "active"]
     \/ /\ May("mongo")
        /\ Goto(o, "abort")
        /\ txn' \in {txn, [txn EXCEPT ![o] = "active"]}
  /\ UNCHANGED <<ordersUp, commit, sends, queueVars>>

\* Mutant: emit() is not awaited: the customer is answered and the commit sent while the
\* client may still hold the event, which ends with the process.
TransmitNotAwaited(o) ==
  /\ At(o, "outbox")
  /\ \/ /\ sends[o] < MaxSends
        /\ sends' = [sends EXCEPT ![o] = @ + 1]
        /\ Enqueue(<<o, sends[o] + 1>>)
     \/ UNCHANGED <<sends, queueVars>>
  /\ commit' = [commit EXCEPT ![o] = "pending"]
  /\ Reply(o, "201")
  /\ UNCHANGED <<ordersUp, txn>>

\* The AMQP client publishes the event on an open connection.
Transmit(o) ==
  /\ At(o, "outbox")
  /\ sends[o] < MaxSends
  /\ sends' = [sends EXCEPT ![o] = @ + 1]
  /\ Enqueue(<<o, sends[o] + 1>>)
  /\ Goto(o, "unconfirmed")
  /\ UNCHANGED <<ordersUp, txn, commit>>

\* Mutant: commitTransaction() is never called.
EmitConfirmedWithoutCommit(o) ==
  /\ At(o, "unconfirmed")
  /\ Reply(o, "201")
  /\ UNCHANGED <<ordersUp, txn, commit, sends, queueVars>>

\* The confirm arrives and lastValueFrom resolves.  commitTransaction() is
\* called without await, so the order is returned before its outcome is known.
EmitConfirmed(o) ==
  /\ At(o, "unconfirmed")
  /\ commit' = [commit EXCEPT ![o] = "pending"]
  /\ Reply(o, "201")
  /\ UNCHANGED <<ordersUp, txn, sends, queueVars>>

\* emit() rejects: no connection, a broker nack, or the channel closed under a
\* publish that may well have arrived.  Control moves to the catch block.
EmitRejected(o) ==
  /\ May("link")
  /\ At(o, "outbox") \/ At(o, "unconfirmed")
  /\ Goto(o, "abort")
  /\ UNCHANGED <<ordersUp, txn, commit, sends, queueVars>>

\* Mutant: the catch block commits what it should abort.
AbortTransactionCommits(o) ==
  /\ At(o, "abort")
  /\ Reply(o, "500")
  /\ commit' = [commit EXCEPT ![o] = "pending"]
  /\ UNCHANGED <<ordersUp, txn, sends, queueVars>>

\* abortTransaction() settles and the error is rethrown.  The driver ignores a
\* failing abort command, so the server may keep the transaction open.
AbortTransaction(o) ==
  /\ At(o, "abort")
  /\ Reply(o, "500")
  /\ \/ txn' = [txn EXCEPT ![o] = IF @ = "active" THEN "aborted" ELSE @]
     \/ May("mongo") /\ UNCHANGED txn
  /\ UNCHANGED <<ordersUp, commit, sends, queueVars>>

-----------------------------------------------------------------------------
(* The end of the process, and of a commit nobody waits for.               *)

\* Every request in a handler ends with its connection; a commit command on its
\* way to the server is on its own.
OrdersProcessDies ==
  /\ ordersUp' = FALSE
  /\ pc' = [o \in Orders |-> IF pc[o] \in InHandler THEN "dead" ELSE pc[o]]
  /\ commit' = [o \in Orders |->
                   IF commit[o] = "pending" THEN "orphaned" ELSE commit[o]]
  /\ UNCHANGED <<txn, answer, sends, queueVars>>

OrdersCrash ==
  /\ May("orders")
  /\ ordersUp
  /\ OrdersProcessDies

\* Started again by hand: compose declares no restart policy.
OrdersStart ==
  /\ ~ordersUp
  /\ ordersUp' = TRUE
  /\ UNCHANGED <<pc, txn, commit, answer, sends, queueVars>>

CommitResolves(o) ==
  /\ ordersUp
  /\ commit[o] = "pending"
  /\ txn[o] = "committed"
  /\ commit' = [commit EXCEPT ![o] = "resolved"]
  /\ UNCHANGED <<ordersUp, pc, txn, answer, sends, queueVars>>

\* The commit fails, because the server has aborted the transaction or because
\* its reply is lost.  The rejected promise has no handler, and Node 22 ends a
\* process for an unhandled rejection: all other requests go with it.
CommitRejects(o) ==
  /\ May("mongo")
  /\ ordersUp
  /\ commit[o] = "pending"
  /\ OrdersProcessDies

-----------------------------------------------------------------------------
(* MongoDB's side of a transaction.                                        *)

ServerCommits(o) ==
  /\ txn[o] = "active"
  /\ commit[o] \in {"pending", "orphaned"}
  /\ txn' = [txn EXCEPT ![o] = "committed"]
  /\ UNCHANGED <<ordersUp, pc, commit, answer, sends, queueVars>>

\* No client process can end the transaction any more.
Abandoned(o) == pc[o] = "dead" \/ commit[o] = "orphaned"

\* A transaction older than transactionLifetimeLimitSeconds (60 s, which a
\* handler waiting in emit() for a broker easily exceeds) is aborted, and so is
\* every open one when the primary steps down.
ServerAborts(o) ==
  /\ txn[o] = "active"
  /\ May("mongo") \/ Abandoned(o)
  /\ txn' = [txn EXCEPT ![o] = "aborted"]
  /\ UNCHANGED <<ordersUp, pc, commit, answer, sends, queueVars>>

-----------------------------------------------------------------------------
(* The connection to the broker.                                           *)

\* Requests whose emit() has not settled.
Emitting == {o \in Orders : pc[o] \in {"outbox", "unconfirmed"}}

\* Bound: the connection closes only while every event to be sent again may be.
RoomToResend(rejected) ==
  \A o \in Orders \ rejected : pc[o] = "unconfirmed" => sends[o] < MaxSends

\* Mutant: the client also re-queues events that were confirmed long ago.
ResendConfirmed(rejected) ==
  /\ RoomToResend(rejected)
  /\ pc' = [o \in Orders |-> CASE o \in rejected -> "abort"
                               [] pc[o] = "unconfirmed" \/ answer[o] = "201" -> "outbox"
                               [] OTHER -> pc[o]]

\* Mutant: the client drops unconfirmed events and their promises never settle.
ForgetUnconfirmed(rejected) ==
  /\ RoomToResend(rejected)
  /\ pc' = [o \in Orders |-> CASE o \in rejected -> "abort"
                               [] pc[o] = "unconfirmed" -> "hung"
                               [] OTHER -> pc[o]]

\* The emit() of these requests rejects; what else the broker did not confirm goes
\* back into the client's outbox, to be sent again.
InterruptEmits(rejected) ==
  /\ RoomToResend(rejected)
  /\ pc' = [o \in Orders |-> CASE o \in rejected -> "abort"
                               [] pc[o] = "unconfirmed" -> "outbox"
                               [] OTHER -> pc[o]]

\* The client's connection closes, under any emit() that has not settled: the
\* client keeps the event or gives it up, whether it has arrived or not.
EmitsInterrupted == \E rejected \in SUBSET Emitting : InterruptEmits(rejected)

OrdersLoseConnection ==
  /\ May("link")
  /\ \E o \in Orders : At(o, "unconfirmed")
  /\ EmitsInterrupted
  /\ UNCHANGED <<ordersUp, txn, commit, answer, sends, queueVars>>

-----------------------------------------------------------------------------

\* What the event loop does for request o once it has been posted.
OrdersHandlerStep(o) ==
  \/ OrdersGuardGrants(o)
  \/ OrdersGuardRefuses(o)
  \/ OrdersGuardHangs(o)
  \/ StartTransaction(o)
  \/ InsertOrder(o)
  \/ Transmit(o)
  \/ EmitConfirmed(o)
  \/ EmitRejected(o)
  \/ AbortTransaction(o)
  \/ CommitResolves(o)
  \/ CommitRejects(o)

\* What MongoDB does sooner or later without failing: it carries out a commit it
\* was sent, and ends the transaction of a client that is gone.
ServerDecides(o) == ServerCommits(o) \/ (Abandoned(o) /\ ServerAborts(o))

OrdersNext ==
  \/ \E o \in Orders :
       PostOrder(o) \/ OrdersHandlerStep(o) \/ ServerCommits(o) \/ ServerAborts(o)
  \/ OrdersCrash
  \/ OrdersStart
  \/ OrdersLoseConnection
=============================================================================
