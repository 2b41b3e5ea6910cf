# Formal models of the orders, billing and auth microservices

TLA+ models of the NestJS monorepo in `src/` (`apps/orders`, `apps/billing`,
`apps/auth`, `libs/common`), checked with TLC and proved about with TLAPS.
The models follow the code, not its comments; where the two disagree a run shows
the difference (section *Findings*).

## 1. The system

A customer registers and logs in at the **auth** service, gets a JWT in a
cookie, and posts orders to the **orders** service. That service stores the order
in MongoDB inside a transaction and, before committing, emits an `order_created`
event to RabbitMQ. The **billing** service consumes the event. Both orders and
billing protect their handler with the same `JwtAuthGuard`, which asks auth over
RabbitMQ (`validate_user`) whether the JWT is good. All processes are Node
programs: one handler runs at a time between two `await`s, any number of them
are interleaved at their `await`s.

| component | state | operations | interacts with |
|---|---|---|---|
| orders: `OrdersController`, `OrdersService` | per request: where it stands, its session, its pending commit; its answer | `createOrder` (guard, body validation, transaction, insert, emit, commit, abort); `getOrders` | guard call to auth; MongoDB; publish to the billing queue |
| billing: `BillingController`, `BillingService` | per delivery: a handler | `handleOrderCreated` (guard, `bill`, `ack`) | deliveries and acks with RabbitMQ; guard call to auth |
| RMQ layer: `RmqModule`, `RmqService` | the queue, its unacknowledged messages | `register` (client), `getOptions` (consumer), `ack` | both services and auth |
| `JwtAuthGuard` | none of its own | `canActivate`, `getAuthentication`, `addUser` | `validate_user` of auth |
| auth: `AuthController`, `JwtStrategy` | per transmission of a call: where it is | `validate_user` (verify the JWT, load its user, answer) | the auth queue; users collection |
| auth: `UsersController`, `UsersService`, `LocalStrategy` | the users collection | `createUser`, `validateUser` | MongoDB |
| auth: `AuthService` | the browser's cookie | `login`; `logout` (no caller) | the browser |
| database layer: `AbstractRepository` | documents, sessions | `create`, `findOne`, `startTransaction`, `find`; `findOneAndUpdate`, `upsert` (no caller: modelled as operators) | MongoDB replica set |
| deployment: `docker-compose.yml` | processes | no restart policy | everything |

What is hard here, and what correctness means:

* **orders.** The event leaves before the commit, the commit is not awaited, an
  unhandled rejection ends the process, the AMQP client retries by itself. Correct
  means: nothing is stored that billing was not told of; an error answer means that
  nothing is stored; nothing is announced after the answer; a request that got in is
  answered and an accepted order is decided. `GET /orders` reads beside open
  transactions and pending commits: it shows accepted orders only, and what it once
  showed it keeps showing.
* **billing.** At-least-once delivery, handlers that outlive their channel, tokens
  that expire in the queue. Correct means: nothing leaves the queue by an ack without
  a bill; a second bill for the same copy only after a redelivery; every event is
  settled in the end.
* **guard and validate_user.** A call without a timeout on a queue without acks,
  sent by a client that retries. Correct means: an outcome follows the verdict auth
  gave on this very call; a call that nothing cut off has exactly one transmission on
  its way and is answered; only a fault can leave a call waiting.
* **accounts.** Check-then-act over three awaits without a unique index, and a catch
  block that swallows every error; an insert goes on when its request has died.
  Correct means: a refusal is justified, a token names the right user, only
  registrations in flight together or failed lookups can duplicate an address.
* **cookie.** String concatenation where a sum was meant. Correct means: the cookie
  does not end before its token.
* **database layer.** `upsert` and `findOneAndUpdate` filter by fields they may also set.
  Correct means: repeating a call that may have arrived does no harm. It depends on
  whether document and filter agree.

## 2. Modules

```
Deployment ── JwtGuard ─────┬── OrdersService ──┬── OrderFlow ─┬─ MCOrderFlow
         └─── BillingQueue ─┴── BillingService ─┘      │       ├─ OrderFlowProofs
                                                       │       │     └─ OrderRefinementProofs
                         OrderContract <── INSTANCE ───┘       │           └─ OrderFaultProofs ─┐
                                                               └─ OrderListing ────── OrderListingProofs
JwtGuard ── ValidateUser ── ValidateUserProofs
                 └── INSTANCE ──> GuardContract

Repository ─┬─ Accounts ── AccountsProofs
            └─ RepositoryProofs             LoginCookie ── LoginCookieProofs
```

**Deployment** declares what the flow's modules share: the set of orders and the set
of failures (`Faults`) that may happen. A run switches failures on one by one, so a
counterexample can be tied to the failure that causes it.

**JwtGuard** is the guard as its callers see it: it grants, it refuses, or it never
answers. The JWT of an order is copied from the cookie into the event, so one set,
`expired`, decides at both services; it is read again at the moment of each check.

**GuardContract** is what one call promises: auth vouches for the JWT or denies it, a
call is granted only after a vouch and refused only after a denial, a fault may
disturb it, and an outcome is final. **ValidateUser** is the call itself and implements
the contract:

| code | action |
|---|---|
| `getAuthentication`, `send(USER_VALIDATE, …)` | `Call`; the AMQP client's `Publish`, `Confirm` |
| passport verifies the JWT and its expiry | `TakeCall` |
| `JwtStrategy.validate`, `UsersService.getUser` | `LookupUser`, `GetUser` |
| `validateUser` returns the user, or the guard throws | `Answer` |
| `tap(addUser)`, `catchError` | `Grant`, `Refuse` (both `Settle`) |
| an answer whose caller or channel is gone | `DropAnswer` |
| auth dies, loses its connection, is started | `AuthCrash`, `AuthLosesConnection`, `AuthStart` |
| a caller's channel closes, its process dies, the broker restarts | `CallerLosesConnection`, `CallerDies`, `BrokerRestart` |

A *copy* `<<c, k>>` is the k-th transmission of call `c`. The reply address belongs to the
channel a copy was sent on, so `awaited`, the copies whose answer can still reach the
caller, empties when that channel closes, and a call of which no transmission is left is
in `severed`. The outcomes of `JwtGuard` are those of this call: `GuardGrants` and
`GuardRefuses` are the two verdicts, `GuardUnanswered` names the faults that sever.

**BillingQueue** is the broker. A *copy* `<<o, k>>` is the k-th transmission of
order `o`'s event; giving copies an identity lets properties speak of one message
although the program cannot tell two of them apart. The options in the repository
select the behaviour: `EmitIsPersistent` (client, `rmq.module.ts`) is false and
`NoAck` (consumer, `rmq.service.ts`) is false.

**OrdersService** follows `createOrder` await by await:

| code | action |
|---|---|
| `getAuthentication` throws, or `validate_user` is sent | `PostOrder` |
| guard answers, then `ValidationPipe` (400), then the handler | `OrdersGuardGrants`, `OrdersGuardRefuses`, `OrdersGuardHangs` |
| `startTransaction()`, outside the `try` | `StartTransaction` |
| `create(request, { session })` | `InsertOrder` |
| `emit`: publish, confirm, rejection | `Transmit`, `EmitConfirmed`, `EmitRejected` |
| `commitTransaction()` without `await` | the promise `commit[o]`; `CommitResolves`, `CommitRejects` |
| `catch`: `await abortTransaction()`, rethrow | `AbortTransaction` |
| the server's side of the transaction | `ServerCommits`, `ServerAborts` |
| process end, by a signal or by the rejected commit | `OrdersCrash`, `CommitRejects` (both `OrdersProcessDies`), `OrdersStart` |
| the AMQP client's connection closes under `emit`: it sends again, or `emit` rejects | `EmitsInterrupted`, in `OrdersLoseConnection` and `BrokerRestart` |

`txn` is the transaction as the server sees it, `commit` the promise as the process
sees it: the two drift apart when a reply is lost or the process dies, and the
interesting behaviours live there.

**BillingService** models each delivery's handler, including those *orphaned* by a
closed channel: the guard's answer comes over another connection, so the handler goes
on to `bill()` and only its `ack()` fails.

**OrderFlow** composes the two, adds the broker restart that hits both, and states the
properties, the fairness, the inductive invariant `IInv` and the refinement.

**OrderListing** puts readers (`GET /orders`) beside the flow. Each awaits one `find({})`, which
sees the committed transactions at that moment, and dies with the orders process.

**OrderContract** is the abstract promise: announce, accept or fail, store or drop,
bill, and the orders in which these may happen. It is what the code keeps, which
is weaker than the atomicity its comments claim.

**Repository** is the database layer as a caller sees it: which documents a filter matches,
and what `findOneAndUpdate` and `upsert` leave behind. They are operators on a collection,
not actions, since no service calls the last two; the insert and the transaction are actions
of the services that use them.

**Accounts** finds users through `Repository` and interleaves registrations and logins at their awaits on the users
collection. `create()` only sends the insert: `pending` holds the commands under way, and
`ServerInserts` carries one out whether its request still waits, was answered with 500, or
died with the process (`AuthCrash`). `rivals` remembers, for each registration, which
others of the same address were in flight when its lookup let it pass. **LoginCookie** computes the two lifetimes of `AuthService.login` and
lets time pass between them.

Operators commented as *Mutant* are plausible mistakes (a dropped guard, a swapped
order, a missing `await`); each is put in place of the definition after it to show
that a property notices.

## 3. Runs

| run | instance | shows |
|---|---|---|
| `flow_safety` | 2 orders, 1 transmission, all faults but auth, lookup and token | the unconditional safety properties and `ImplementsContract`, with two requests in one process: a commit that fails for one kills the other |
| `flow_liveness` | 1 order, 2 transmissions, all faults, `FairSpec` | `TypeOK`, `IInv` and `NoAnnouncementAfterAnswer`, with the client's retry against the handler that waits; admitted requests are answered, accepted orders decided, queued events settled |
| `flow_listing` | 1 order, 2 readers, 2 transmissions, crashes of orders, MongoDB errors, expiring JWTs, `FairListingSpec` | with broker, billing and auth up: an accepted order whose JWT lasts is with billing, and none is billed twice; listings show accepted orders and never lose one; what they show is billed exactly once and for good, or its JWT expired and it never is |
| `validate_user` | 1 order, so 2 calls (orders, billing), 2 transmissions each, all faults, `FairSpec` | the call keeps `GuardContract`; a call not cut off is on its way and settles once auth stays up |
| `accounts` | 2 registrations, 1 login, 2 addresses, 2 passwords, database errors, crashes of auth | refusals and logins are right; duplicates had a registration in flight or a failed lookup; registrations one at a time make none |
| `cookie` | each second of a minute, `JWT_EXPIRATION` of 1 to 4 digits | the cookie does not end before its token |
| `flow_phantom_bill`, `flow_commit_error`, `flow_transient_event`, `flow_refused_event`, `accounts_duplicate`, `cookie_match` | the one fault each needs | counterexamples to claims of the repository (section 5) |

*Bounds.* `MaxSends` limits the transmissions of one event: two are enough for a
retry to race its handler, and a third adds no new pair. `MaxBills` is where the count
of bills saturates; no step is disabled by it, and the properties only tell none,
one and more apart. `RoomToResend` and `RoomForOrphans` keep a connection from being lost
while an event that its client will send again has used up its transmissions, or while a
copy already has an orphaned handler: they only withhold failures. Orders are independent
but for the process and the broker they share, so two show every interaction of a
pair, and one shows everything between the calls of an order; `OrderSymmetry` permutes them in the safety run, never where liveness is
checked. In `flow_listing` broker, billing, auth and
connections last, since "with billing" and "exactly once" are true only then (a second
transmission is allowed and must not happen); what readers can tell apart does not
depend on it, and the proofs of the two listing invariants do not assume it. One order is
enough there: what is listed and billed is a matter of each order, and another order acts
on it only by ending the process, which the crash of orders does at any moment; two
readers let a late listing overtake an early one. `validate_user` takes one order
because calls share nothing but the processes and the broker, and its two calls already
share the auth process; its proofs cover any number. Billing asks again for a redelivered
event: that is one more call like the first. Properties of `Accounts` speak of at most two users and a login.

*Deadlock* is checked except where the system really may stop: with one kind of failure
only all requests end and no process is there to start, and in `validate_user` every
call has an outcome or waits for ever on an answer that was lost.

*Fairness.* `FairSpec` assumes weak fairness of each request's next step in the
event loop, of what MongoDB does without failing (carry out a commit it was sent, end
the transaction of a client that is gone), of deliveries, handlers and acks, and of
the AMQP client's reconnect; of a reader's `find`; of publishing, taking, looking up and
answering a `validate_user` call. Node's loop, the two servers and `amqp-connection-manager`
do these things unconditionally. Nothing is assumed of customers, of failures, of
tokens, or of whoever starts a dead process: compose has no restart policy.
`CallsSettle` therefore says "if auth stays up from some time on", and exempts calls a
fault has severed: these wait for ever, since `send()` has no timeout.

## 4. Proofs

All theorems hold for every set of orders, every subset of the faults and every
value of the bounds, from the assumptions `FaultsAssumption`, `MaxSendsAssumption`
and `MaxBillsAssumption` (and their counterparts in the other modules).

*OrderFlowProofs.* None of the safety properties is inductive. `FailedRequestsLeaveNoOrder`,
for one, is preserved by `ServerCommits` only if a pending commit belongs to an accepted
request, and by `EmitConfirmed` only if no answer was given before. `IInv` adds what is
missing: `OrderInv` ties a request's stage to its answer, its commit and its number of
transmissions; `CopyInv` ties the broker's view of a copy to its handler and its
bills. The delicate part of `CopyInv` concerns copies never flagged as redelivered: they
are billed at most once because a handler orphaned on such a copy implies that the
broker lost it. `InitIInv` and `Inductive` prove the invariant action by
action; `Invariance` follows, and from it `TypeCorrect`, `StoredAnnounced`,
`FailedLeaveNothing`, `RefusedNeverBilled`, `AtLeastOnceBilling` and `RebillsFollowRedelivery`.
`QuietAfterAnswer` proves the action property `NoAnnouncementAfterAnswer`, and
`DecisionsAreFinal` that an answer is given once and a decided transaction stays decided.

*OrderRefinementProofs.* `Refinement`: `Spec => ImplementsContract`. `SeenStutter` says
which variables the contract reads; one lemma per kind of visible step maps it to
the contract's action, and all other steps stutter.

*OrderFaultProofs.* The invariants above hold under every failure. The findings of section 5
each need one, and this module says which: `Spared(kinds)` is "none of these failures
happens", and each theorem has the form `Spec => [](Spared(...) => property)`, so that all
other failures go on.

| while these are spared | theorem | property |
|---|---|---|
| mongo, orders | `AtomicUnlessMongoOrCrash` | no answer contradicts its transaction, and a failed request leaves none open |
| mongo, orders | `CommitErrorsNeedMongoOrCrash` | `CommitErrorsArePropagated` |
| mongo, orders, link, broker | `PhantomBillsNeedAFault` | `BilledOrdersAreNotRolledBack` |
| broker | `UnbilledEventsAreAccountedFor` | a sent event without a bill is queued, waits for its guard, or was given up for a cause the guard had |
| broker, link, auth, lookup | `AcceptedReachBilling` | `AcceptedOrdersReachBilling` (at least once, while its JWT lasts) |
| broker, link, billing | `BilledAtMostOnce` | `OrdersAreBilledAtMostOnce` (at most once) |
| auth, lookup, token, broker, link | `DeliveriesAreHandled` | a delivered event is about to be granted or its ack is on the way |

`FaultInv` is the inductive part: one conjunct for each set of spared failures, kept by the
steps those failures leave, relative to `IInv`. `PhantomBillsNeedAFault`, for one, holds
because `createOrder` never gets to its catch block, which in turn needs that no
transaction is left to the server (`ClientDecides`). `BilledAtMostOnce` combines an event
sent once (`SentOnce`) with `CopyInv`'s account of copies never taken back.
An event whose guard refused or never answered is with nobody, so it does not count as on
its way to billing (`OnItsWay`). `GivenUpForCause` ties each such event to its cause: a refusal to an
expired JWT or a failed lookup, a missing answer to a fault of auth, a connection or the
broker. With it `UnbilledEventsAreAccountedFor` lists every place an unbilled event can be, and
`AcceptedReachBilling` leaves only the order's own JWT to keep it from being billed.

*OrderListingProofs.* `ListedAccepted` and `ListingsGrow`: the listing rests on two facts about
the flow, that a committed transaction belongs to an accepted request (`IInv`) and that
it stays committed (`DecisionStays`). `ListingInvariance` carries both to what readers have
been shown. `ListedWithBilling` adds what `OrderFaultProofs` knows of accepted orders, under the same
spared failures: the safety part of `ListedOrdersAreBilledOnce`.

*ValidateUserProofs.* `WaitingCallsAreOnTheirWay` alone is not inductive: it does not say that
a closing channel or a settled call leaves no awaited copy behind. `IInv` adds that an
awaited copy is the only one of its call, which waits and was not severed (`AwaitedInv`),
that a call still to be sent is not severed (`StageInv`), and that a copy with a user or an
error in it belongs to a call in `vouched` or `denied` (`VerdictInv`). `Invariance` proves it action by action; `OnTheirWay` and
`TypeCorrect` follow, and `Refinement` maps each step to one of `GuardContract` or to a
stutter. `AuthLoses` and `ChannelsClose`, the two ways in which answers get lost, have
lemmas of their own, since four faults go through them. From the refinement follows what
the flow relies on: `OutcomesCovered` says that a refusal, however late, has one of the
causes in `GuardRefuses`, a lost answer one of those in `GuardUnanswered`, and a grant a
vouch for this very call, so that the outcomes `OrdersService` and `BillingService` take from
`JwtGuard` include all that a call can have; `OutcomesAreFinal` that a call is
settled once; `OnlyFaultsStrandCalls` that without a fault every waiting call has its one
transmission on the way. They are proved from the contract's steps alone
(`ContractOutcomes`), not from the call's.

*AccountsProofs.* An invariant of three parts, for any number of requests: `LoginInv`, what each
login has read; `EarlyInv`, what cannot have happened before a registration has passed its
lookup; `OverlapInv`, which says of any two that have passed with one address that one was
in the other's `rivals` or a lookup failed, stored or not. From it `DuplicatesOverlapped`,
`RejectionsAreJustified`, `LoginsAreJustified`, `RefusalsMetATwin` and `AccountsTypeCorrect`.
`SerialUniqueness` turns `OverlapInv` round: with no lookup between another registration's
lookup and the end of its insert, and no lookup failing, `rivals` stays empty and addresses
stay unique. `MatchingAddress` and `OwnersShareTheAddress` take the repository's `findOne` by
address apart.

*RepositoryProofs.* For any collection, filter and document. `AfterUpsert` says where the written
document is found again; from it `UpsertIsRepeatable` (a second call inserts nothing if document
and filter agree), `ContradictingUpsertInsertsAgain` (each call inserts one more if they do not)
and `UpdateRepeated` (a repeated `findOneAndUpdate` changes nothing, or throws although it has
done its work). They are about calls one after the other.

*LoginCookieProofs.* `CookieNeverTooShort`: appending digits gives a number at least
as large as adding would, so the cookie is never too short, for every
`JWT_EXPIRATION` of one to five digits. `CookieOverstays`: at second `s` of a minute it lives at
least `s + 1` times as long as it should, and as long as it should only at second 0.

Only model-checked: everything under fairness (`AdmittedRequestsAreAnswered`,
`AcceptedOrdersAreDecided`, `QueuedEventsAreSettled`, `ListedOrdersAreBilledOnce`,
`CallsSettle`), which is out of the prover's reach. Every invariant the passing runs
check is also a theorem (the two about billing under the spared failures of the table), and so are both refinements, `NoAnnouncementAfterAnswer` and
`SerialRegistrationsAreUnique`.

## 5. Findings

Each run switches on one failure that is enough for the counterexample; the theorem named
with it says which failures are needed at all.

1. *An aborted order may be billed* (`flow_phantom_bill`). `createOrder` emits inside its
   transaction and cannot take the event back. Not without a failure of a connection, of the
   broker, of MongoDB or of the process (`PhantomBillsNeedAFault`).
2. *A failed commit goes unnoticed* (`flow_commit_error`). `commitTransaction()` is not
   awaited: the customer has his 201, and the unhandled rejection ends the process. Not
   without a failure of MongoDB or of the process (`CommitErrorsNeedMongoOrCrash`).
3. *Events do not survive a broker restart* (`flow_transient_event`). `persistent: true`
   stands in the consumer's options, the publishing client has none. Without a
   restart every unbilled event is queued, with its guard, or given up for a cause
   (`UnbilledEventsAreAccountedFor`).
4. *A received event may never be acknowledged* (`flow_refused_event`), when its JWT expires
   in the queue; its order is then never billed, the one exception `AcceptedReachBilling` and
   `ListedOrdersAreBilledOnce` make. Only a guard call that fails can do that
   (`DeliveriesAreHandled`).
5. *Two users may have the same e-mail address* (`accounts_duplicate`). Not if they
   register one after the other and no lookup fails (`SerialUniqueness`).
6. *The cookie outlives its token* (`cookie_match`), as a string is concatenated: in every
   second of the minute but the first (`CookieOverstays`).

Noted while modelling, without a run: `validateUser`'s own "not found" branch is never
taken, since `findOne` throws first (an unknown user gets 404, not the 401 its comment
promises); the session of `startTransaction` is never ended; as the commit is not awaited,
a customer with a 201 may not find his order in the next listing yet.

## 6. Not modelled, and why

* `logout`: no caller. `findOneAndUpdate` and `upsert` have none either; they are operators with
  theorems, without actions, so two of them at the same time are not modelled.
* The driver's session pool: its limits are not in the repository.
* Dependency injection, configuration at start-up, images and tooling: no state at
  run time.
* RabbitMQ, MongoDB, the AMQP client and Node are outside the repository; their
  actions are marked external and follow from the options the code gives them:
  a NestJS RMQ client publishes as transient by default, a consumer without a
  prefetch limit gets any ready message, a guard that throws in an event handler
  neither acks nor nacks, the MongoDB driver ignores errors of an abort command.

## 7. Plan

1. Done: the order flow, its contract, the listings beside it and their proofs; the failures
   each finding needs; the guard's call, its contract and the refinement; accounts with
   crashes and inserts in flight; the repository's updates; the cookie.
2. `ValidateUser` composed with the order flow, in place of the outcomes of `JwtGuard`:
   `OutcomesCovered` shows that those include every outcome of a call, so this would add
   states and no behaviour of the flow.
3. Sessions and the 60 second transaction lifetime as a resource with a bound.
