---------------------------- MODULE ValidateUser -----------------------------
(***************************************************************************)
(* The call JwtAuthGuard makes: validate_user, sent by the orders and the  *)
(* billing service over the auth queue and answered by the auth service    *)
(* (AuthController.validateUser behind passport's JwtStrategy).  The call  *)
(* goes out through an AMQP client that sends it again while it is not     *)
(* confirmed; the queue is consumed with noAck; the answer comes back on   *)
(* the channel the call was sent on, and is matched by a correlation id.   *)
(* There is no timeout anywhere.                                           *)
(*                                                                         *)
(* Where a call stands (stage):                                            *)
(*   "idle"         not made yet                                           *)
(*   "outbox"       the AMQP client has it to send                         *)
(*   "unconfirmed"  sent, the broker has not confirmed it                  *)
(*   "waiting"      nothing left to do but to wait for the answer          *)
(*   "granted"      a user came back: the handler runs                     *)
(*   "refused"      UnauthorizedException                                  *)
(*   "dead"         the process died with the call in it                   *)
(*                                                                         *)
(* A copy <<c, k>> is the k-th transmission of call c: "unsent", "queued", *)
(* "lookup" (auth awaits getUser), "user" or "error" (the answer is on its *)
(* way) or "gone".                                                         *)
(***************************************************************************)
EXTENDS Naturals, JwtGuard

CONSTANT MaxSends   \* bound: transmissions of one call

ASSUME MaxSendsAssumption == MaxSends \in Nat \ {0}

Copies    == Calls \X (1 .. MaxSends)
CallOf(m) == m[1]
InFlight  == {"queued", "lookup", "user", "error"}

VARIABLES
  authUp,    \* the auth process runs
  stage,     \* call -> where it stands
  copy,      \* copy -> where it is
  awaited,   \* copies whose answer can still reach the caller
  vouched,   \* history: calls whose JWT was found valid
  denied,    \* history: calls answered with an error
  severed    \* history: calls whose last transmission lost its answer

callVars == <<stage, copy, awaited>>
vars     == <<expired, authUp, callVars, vouched, denied, severed>>

TypeOK ==
  /\ GuardTypeOK
  /\ authUp \in BOOLEAN
  /\ stage \in [Calls -> {"idle", "outbox", "unconfirmed", "waiting",
                          "granted", "refused", "dead"}]
  /\ copy \in [Copies -> InFlight \cup {"unsent", "gone"}]
  /\ awaited \subseteq Copies
  /\ vouched \subseteq Calls
  /\ denied \subseteq Calls
  /\ severed \subseteq Calls

\* compose does not make the other services wait for auth.
Init ==
  /\ GuardInit
  /\ authUp \in BOOLEAN
  /\ stage = [c \in Calls |-> "idle"]
  /\ copy = [m \in Copies |-> "unsent"]
  /\ awaited = {}
  /\ vouched = {}
  /\ denied = {}
  /\ severed = {}

-----------------------------------------------------------------------------
(* The caller: JwtAuthGuard.canActivate and its AMQP client.               *)

\* Billing is asked about an order only after the guard of orders let it in.
Call(c) ==
  /\ stage[c] = "idle"
  /\ c[2] = "billing" => stage[<<c[1], "orders">>] = "granted"
  /\ stage' = [stage EXCEPT ![c] = "outbox"]
  /\ UNCHANGED <<expired, authUp, copy, awaited, vouched, denied, severed>>

Unsent(c) == {k \in 1 .. MaxSends : copy[<<c, k>>] = "unsent"}

Publish(c) ==
  /\ stage[c] = "outbox"
  /\ \E k \in Unsent(c) :
       /\ \A j \in Unsent(c) : k <= j
       /\ copy' = [copy EXCEPT ![<<c, k>>] = "queued"]
       /\ awaited' = awaited \cup {<<c, k>>}
  /\ stage' = [stage EXCEPT ![c] = "unconfirmed"]
  /\ UNCHANGED <<expired, authUp, vouched, denied, severed>>

Confirm(c) ==
  /\ stage[c] = "unconfirmed"
  /\ stage' = [stage EXCEPT ![c] = "waiting"]
  /\ UNCHANGED <<expired, authUp, copy, awaited, vouched, denied, severed>>

\* Mutant: the refusal is passed on as a plain false, which Nest turns into 403.
RefuseForbids(m) ==
  /\ m \in awaited
  /\ copy[m] = "error"
  /\ stage' = [stage EXCEPT ![CallOf(m)] = "forbidden"]
  /\ copy' = [copy EXCEPT ![m] = "gone"]
  /\ awaited' = awaited \ {m}
  /\ UNCHANGED <<expired, authUp, vouched, denied, severed>>

\* The listener of the answer's correlation id settles the call, confirmed or not.
Settle(m, outcome) ==
  /\ m \in awaited
  /\ stage' = [stage EXCEPT ![CallOf(m)] = outcome]
  /\ copy' = [copy EXCEPT ![m] = "gone"]
  /\ awaited' = awaited \ {m}
  /\ UNCHANGED <<expired, authUp, vouched, denied, severed>>

\* tap: addUser puts the user on the request, or on the event's data.
Grant(m) == copy[m] = "user" /\ Settle(m, "granted")

\* catchError: every error becomes an UnauthorizedException.
Refuse(m) == copy[m] = "error" /\ Settle(m, "refused")

\* An answer nobody can receive: the channel of its call is closed, or the
\* process behind it is gone.
DropAnswer(m) ==
  /\ copy[m] \in {"user", "error"}
  /\ m \notin awaited
  /\ copy' = [copy EXCEPT ![m] = "gone"]
  /\ UNCHANGED <<expired, authUp, stage, awaited, vouched, denied, severed>>

-----------------------------------------------------------------------------
(* The auth service.                                                       *)

\* What becomes of copy m in validateUser: the user the handler returns, or the
\* guard's exception, goes out as the answer.
Answer(m, outcome) ==
  /\ copy' = [copy EXCEPT ![m] = outcome]
  /\ denied' = IF outcome = "error" THEN denied \cup {CallOf(m)} ELSE denied

\* Mutant: the strategy is built with ignoreExpiration.
TakeExpiredCall(m) ==
  /\ authUp
  /\ copy[m] = "queued"
  /\ Answer(m, "lookup")
  /\ vouched' = vouched \cup {CallOf(m)}
  /\ UNCHANGED <<expired, authUp, stage, awaited, severed>>

\* Mutant: a call with an expired JWT is put off instead of answered.
TakeValidCall(m) ==
  /\ authUp
  /\ copy[m] = "queued"
  /\ GuardGrants(CallOf(m)[1])
  /\ Answer(m, "lookup")
  /\ vouched' = vouched \cup {CallOf(m)}
  /\ UNCHANGED <<expired, authUp, stage, awaited, severed>>

\* passport verifies the JWT in the call's Authentication field; no option of
\* the strategy lifts the check of its expiry.
TakeCall(m) ==
  /\ authUp
  /\ copy[m] = "queued"
  /\ IF GuardGrants(CallOf(m)[1])
       THEN Answer(m, "lookup") /\ vouched' = vouched \cup {CallOf(m)}
       ELSE Answer(m, "error") /\ UNCHANGED vouched
  /\ UNCHANGED <<expired, authUp, stage, awaited, severed>>

\* What getUser may come to.  Users are never deleted, so only a failing
\* database keeps the user of a valid JWT from being found.
GetUser == {"user"} \cup {outcome \in {"error"} : May("lookup")}

\* Mutant: validate_user is handled as an event, to which nothing is answered.
LookupUserAsEvent(m) ==
  /\ authUp
  /\ copy[m] = "lookup"
  /\ \E outcome \in GetUser : Answer(m, IF outcome = "user" THEN "gone" ELSE outcome)
  /\ UNCHANGED <<expired, authUp, stage, awaited, vouched, severed>>

\* JwtStrategy.validate turns whatever getUser throws into a 401.
LookupUser(m) ==
  /\ authUp
  /\ copy[m] = "lookup"
  /\ \E outcome \in GetUser : Answer(m, outcome)
  /\ UNCHANGED <<expired, authUp, stage, awaited, vouched, severed>>

-----------------------------------------------------------------------------
(* Faults.                                                                 *)

\* With noAck the broker forgets a call as soon as it has written it to auth's
\* connection: taken or not, it is lost with that connection, and so is an
\* answer still in it.
AuthLoses(lost) ==
  /\ copy' = [m \in Copies |-> IF m \in lost THEN "gone" ELSE copy[m]]
  /\ awaited' = awaited \ lost
  /\ severed' = severed \cup {CallOf(m) : m \in lost \cap awaited}
  /\ UNCHANGED <<expired, stage, vouched, denied>>

AuthCrash ==
  /\ May("auth")
  /\ authUp
  /\ authUp' = FALSE
  /\ \E lost \in SUBSET {m \in Copies : copy[m] \in InFlight} :
       /\ \A m \in Copies : copy[m] = "lookup" => m \in lost
       /\ AuthLoses(lost)

\* A lookup outlives the connection: its answer may still go out on the next one.
AuthLosesConnection ==
  /\ May("link")
  /\ authUp
  /\ \E lost \in SUBSET {m \in Copies : copy[m] \in InFlight} :
       lost # {} /\ AuthLoses(lost)
  /\ UNCHANGED authUp

\* The queue is durable: what is still in it is consumed after a start.
AuthStart ==
  /\ ~authUp
  /\ authUp' = TRUE
  /\ UNCHANGED <<expired, callVars, vouched, denied, severed>>

CallsOf(services) == {c \in Calls : c[2] \in services}

\* Calls the AMQP client of their service has not seen confirmed.
Unsettled(services) == {c \in CallsOf(services) : stage[c] \in {"outbox", "unconfirmed"}}

\* The channels of these services close, and with them the way back of every
\* answer.  The client reopens and sends again what was not confirmed; but where
\* Nest has closed the client, those calls are never sent, and still wait.
\* (A process that ends over the rejected publish is CallerDies.)  Bound: a
\* client that sends again has a transmission left.
ChannelsClose(services, resending) ==
  /\ \A c \in Unsettled(resending) : Unsent(c) # {}
  /\ awaited' = {m \in awaited : CallOf(m) \notin CallsOf(services)}
  /\ stage' = [c \in Calls |->
                 IF c \in Unsettled(services)
                   THEN IF c[2] \in resending THEN "outbox" ELSE "waiting"
                   ELSE stage[c]]
  /\ severed' = (severed \cup {CallOf(m) : m \in awaited \ awaited'}
                         \cup Unsettled(services)) \ Unsettled(resending)
  /\ UNCHANGED <<expired, authUp, vouched, denied>>

CallerLosesConnection(s) ==
  /\ May("link")
  /\ \E c \in CallsOf({s}) : stage[c] \in {"outbox", "unconfirmed", "waiting"}
  /\ \E resending \in SUBSET {s} : ChannelsClose({s}, resending)
  /\ UNCHANGED copy

\* Everything in the broker is lost: durable is the queue, not what was published
\* as transient.  A lookup goes on, but no caller can receive its answer.
BrokerRestart ==
  /\ May("broker")
  /\ copy' = [m \in Copies |->
                IF copy[m] \in {"queued", "user", "error"} THEN "gone" ELSE copy[m]]
  /\ \E resending \in SUBSET Services : ChannelsClose(Services, resending)

\* The process ends; started again, it knows nothing of these calls.
CallerDies(s) ==
  /\ May(s)
  /\ stage' = [c \in Calls |->
                 IF c[2] = s /\ stage[c] \in {"outbox", "unconfirmed", "waiting"}
                   THEN "dead" ELSE stage[c]]
  /\ awaited' = {m \in awaited : CallOf(m)[2] # s}
  /\ UNCHANGED <<expired, authUp, copy, vouched, denied, severed>>

-----------------------------------------------------------------------------

CallStep(m) == TakeCall(m) \/ LookupUser(m) \/ Grant(m) \/ Refuse(m) \/ DropAnswer(m)

Next ==
  \/ \E c \in Calls : Call(c) \/ Publish(c) \/ Confirm(c)
  \/ \E m \in Copies : CallStep(m)
  \/ \E s \in Services : CallerLosesConnection(s) \/ CallerDies(s)
  \/ AuthCrash
  \/ AuthLosesConnection
  \/ AuthStart
  \/ BrokerRestart
  \/ \E o \in Orders :
       TokenExpires(o) /\ UNCHANGED <<authUp, callVars, vouched, denied, severed>>

Spec == Init /\ [][Next]_vars

\* The event loops, the AMQP clients and the broker keep working.  Nothing is
\* assumed of whoever starts a dead auth process again.
Fairness ==
  /\ \A c \in Calls : WF_vars(Publish(c))
  /\ \A m \in Copies : WF_vars(CallStep(m))

FairSpec == Spec /\ Fairness

-----------------------------------------------------------------------------
(* Properties                                                              *)

\* A call that waits and was not cut off has exactly one transmission on its
\* way, there or back: no error path of the auth service, no retry of a client
\* and no late answer to an earlier transmission drops or doubles an answer.
WaitingCallsAreOnTheirWay ==
  \A c \in Calls :
    stage[c] \in {"unconfirmed", "waiting"} /\ c \notin severed =>
      \E m \in awaited :
        /\ CallOf(m) = c
        /\ copy[m] \in InFlight
        /\ \A n \in awaited : CallOf(n) = c => n = m

Contract == INSTANCE GuardContract WITH
  verdict <- [c \in Calls |->
                IF stage[c] \in {"granted", "refused", "dead"} THEN stage[c] ELSE "open"]

\* The call keeps the guard's contract: an outcome follows the verdict of the
\* auth service on this very call, and a call that was cut off has none.
ImplementsGuard == Contract!Spec

\* If auth stays up from some time on, every call a client holds is answered,
\* cut off by a fault or gone with its process.
CallsSettle ==
  (<>[]authUp) =>
    \A c \in Calls :
      stage[c] = "outbox" ~> stage[c] \in {"granted", "refused", "dead"} \/ c \in severed
=============================================================================
