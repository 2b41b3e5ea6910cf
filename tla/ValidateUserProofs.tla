------------------------- MODULE ValidateUserProofs --------------------------
(***************************************************************************)
(* Proofs about ValidateUser for every set of orders, every set of faults  *)
(* and every bound on transmissions: waiting calls are on their way, and   *)
(* the call implements the guard's contract.                               *)
(***************************************************************************)
EXTENDS ValidateUser, TLAPS

\* An awaited copy is on its way to a call that waits for it.
AwaitedInv ==
  \A m \in awaited :
    /\ stage[CallOf(m)] \in {"unconfirmed", "waiting"}
    /\ copy[m] \in InFlight
    /\ CallOf(m) \notin severed
    /\ \A n \in awaited : CallOf(n) = CallOf(m) => n = m

\* A call that waits has such a copy, or was cut off; a call its client still
\* has to send was not.
StageInv ==
  \A c \in Calls :
    /\ stage[c] \in {"unconfirmed", "waiting"} /\ c \notin severed =>
         \E m \in awaited : CallOf(m) = c
    /\ c \in severed => stage[c] \notin {"idle", "outbox"}

\* What is on its way tells what the auth service has found.
VerdictInv ==
  \A m \in Copies :
    /\ copy[m] \in {"lookup", "user"} => CallOf(m) \in vouched
    /\ copy[m] = "error" => CallOf(m) \in denied

IInv == TypeOK /\ AwaitedInv /\ StageInv /\ VerdictInv

\* A copy belongs to a call.
LEMMA CopyOfCall == \A m \in Copies : CallOf(m) \in Calls
BY DEF Copies, CallOf

\* A call and a number make a copy.
LEMMA CopyFor == \A c \in Calls, k \in 1 .. MaxSends : <<c, k>> \in Copies /\ CallOf(<<c, k>>) = c
BY DEF Copies, CallOf

\* A call is an order and a service.
LEMMA CallParts == \A c \in Calls : c[1] \in Orders /\ c[2] \in Services
BY DEF Calls

\* No call has been made at first.
LEMMA InitIInv == Init => IInv
BY DEF Init, IInv, TypeOK, AwaitedInv, StageInv, VerdictInv, GuardInit, GuardTypeOK, InFlight

-----------------------------------------------------------------------------
(* The steps of the invariance proof.                                      *)

USE DEF InFlight

\* The caller and its client keep the invariant.
LEMMA CallerSteps ==
  ASSUME IInv, NEW c \in Calls, Call(c) \/ Publish(c) \/ Confirm(c)
  PROVE  IInv'
<1>1. CASE Call(c)
  <2>1. TypeOK'
    BY <1>1 DEF Call, IInv, TypeOK, GuardTypeOK
  <2>2. AwaitedInv' /\ StageInv' /\ VerdictInv'
    BY <1>1, CopyOfCall DEF Call, IInv, TypeOK, AwaitedInv, StageInv, VerdictInv
  <2>. QED BY <2>1, <2>2 DEF IInv
<1>2. CASE Publish(c)
  <2>1. PICK k \in 1 .. MaxSends :
          /\ copy' = [copy EXCEPT ![<<c, k>>] = "queued"]
          /\ awaited' = awaited \cup {<<c, k>>}
    BY <1>2 DEF Publish, Unsent
  <2>2. <<c, k>> \in Copies /\ CallOf(<<c, k>>) = c
    BY CopyFor
  <2>3. /\ stage[c] = "outbox" /\ stage' = [stage EXCEPT ![c] = "unconfirmed"]
        /\ UNCHANGED <<expired, authUp, vouched, denied, severed>>
    BY <1>2 DEF Publish
  <2>4. TypeOK'
    BY <2>1, <2>2, <2>3 DEF IInv, TypeOK, GuardTypeOK
  <2>5. \A m \in awaited : CallOf(m) # c
    BY <2>3 DEF IInv, AwaitedInv
  <2>6. c \notin severed
    BY <2>3 DEF IInv, StageInv
  <2>7. AwaitedInv'
    <3>. SUFFICES ASSUME NEW m \in awaited'
                  PROVE  /\ stage'[CallOf(m)] \in {"unconfirmed", "waiting"}
                         /\ copy'[m] \in InFlight
                         /\ CallOf(m) \notin severed'
                         /\ \A n \in awaited' : CallOf(n) = CallOf(m) => n = m
      BY DEF AwaitedInv
    <3>1. CASE m = <<c, k>>
      BY <3>1, <2>1, <2>2, <2>3, <2>5, <2>6 DEF IInv, TypeOK
    <3>2. CASE m # <<c, k>>
      <4>1. m \in awaited /\ m \in Copies /\ CallOf(m) # c /\ CallOf(m) \in Calls
        BY <3>2, <2>1, <2>5, CopyOfCall DEF IInv, TypeOK
      <4>2. stage'[CallOf(m)] = stage[CallOf(m)] /\ copy'[m] = copy[m]
        BY <4>1, <3>2, <2>1, <2>3 DEF IInv, TypeOK
      <4>. QED BY <4>1, <4>2, <2>1, <2>2, <2>3 DEF IInv, AwaitedInv
    <3>. QED BY <3>1, <3>2
  <2>8. StageInv'
    BY <2>1, <2>2, <2>3, <2>6 DEF IInv, TypeOK, StageInv
  <2>9. VerdictInv'
    BY <2>1, <2>2, <2>3 DEF IInv, TypeOK, VerdictInv
  <2>. QED BY <2>4, <2>7, <2>8, <2>9 DEF IInv
<1>3. CASE Confirm(c)
  <2>1. TypeOK'
    BY <1>3 DEF Confirm, IInv, TypeOK, GuardTypeOK
  <2>2. AwaitedInv' /\ StageInv' /\ VerdictInv'
    BY <1>3, CopyOfCall DEF Confirm, IInv, TypeOK, AwaitedInv, StageInv, VerdictInv
  <2>. QED BY <2>1, <2>2 DEF IInv
<1>. QED BY <1>1, <1>2, <1>3

\* An outcome reaches its call.
LEMMA SettleStep ==
  ASSUME IInv, NEW m \in Copies, NEW outcome \in {"granted", "refused"}, Settle(m, outcome)
  PROVE  IInv'
<1>1. CallOf(m) \in Calls
  BY CopyOfCall
<1>2. TypeOK'
  BY <1>1 DEF Settle, IInv, TypeOK, GuardTypeOK
<1>3. AwaitedInv'
  <2>. SUFFICES ASSUME NEW n \in awaited'
                PROVE  /\ stage'[CallOf(n)] \in {"unconfirmed", "waiting"}
                       /\ copy'[n] \in InFlight
                       /\ CallOf(n) \notin severed'
                       /\ \A p \in awaited' : CallOf(p) = CallOf(n) => p = n
    BY DEF AwaitedInv
  <2>1. n \in awaited /\ n # m /\ n \in Copies /\ CallOf(n) \in Calls
    BY CopyOfCall DEF Settle, IInv, TypeOK
  <2>2. CallOf(n) # CallOf(m)
    BY <2>1 DEF Settle, IInv, AwaitedInv
  <2>3. stage'[CallOf(n)] = stage[CallOf(n)] /\ copy'[n] = copy[n]
    BY <2>1, <2>2, <1>1 DEF Settle, IInv, TypeOK
  <2>. QED BY <2>1, <2>3 DEF Settle, IInv, AwaitedInv
<1>4. StageInv'
  <2>. SUFFICES ASSUME NEW c \in Calls
                PROVE  /\ stage'[c] \in {"unconfirmed", "waiting"} /\ c \notin severed' =>
                            \E n \in awaited' : CallOf(n) = c
                       /\ c \in severed' => stage'[c] \notin {"idle", "outbox"}
    BY DEF StageInv
  <2>1. CASE c = CallOf(m)
    BY <2>1, <1>1 DEF Settle, IInv, TypeOK
  <2>2. CASE c # CallOf(m)
    BY <2>2, <1>1 DEF Settle, IInv, TypeOK, StageInv
  <2>. QED BY <2>1, <2>2
<1>5. VerdictInv'
  BY DEF Settle, IInv, TypeOK, VerdictInv
<1>. QED BY <1>2, <1>3, <1>4, <1>5 DEF IInv

\* What the auth service does with a copy keeps it on its way.
LEMMA AnswerStep ==
  ASSUME IInv, NEW m \in Copies, NEW outcome \in {"lookup", "user", "error"},
         copy[m] \in InFlight, Answer(m, outcome),
         outcome \in {"lookup", "user"} => CallOf(m) \in vouched',
         vouched' \in {vouched, vouched \cup {CallOf(m)}},
         UNCHANGED <<expired, authUp, stage, awaited, severed>>
  PROVE  IInv'
<1>1. CallOf(m) \in Calls
  BY CopyOfCall
<1>2. TypeOK'
  BY <1>1 DEF Answer, IInv, TypeOK, GuardTypeOK
<1>3. AwaitedInv' /\ StageInv'
  BY DEF Answer, IInv, TypeOK, AwaitedInv, StageInv
<1>4. VerdictInv'
  BY DEF Answer, IInv, TypeOK, VerdictInv
<1>. QED BY <1>2, <1>3, <1>4 DEF IInv

\* So does what happens to one copy in auth and on its way back.
LEMMA CopySteps ==
  ASSUME IInv, NEW m \in Copies, CallStep(m)
  PROVE  IInv'
<1>1. CASE TakeCall(m)
  <2>1. CASE GuardGrants(CallOf(m)[1])
    BY <1>1, <2>1, AnswerStep DEF TakeCall
  <2>2. CASE ~GuardGrants(CallOf(m)[1])
    BY <1>1, <2>2, AnswerStep DEF TakeCall
  <2>. QED BY <2>1, <2>2
<1>2. CASE LookupUser(m)
  <2>1. PICK outcome \in {"user", "error"} : Answer(m, outcome)
    BY <1>2 DEF LookupUser, GetUser
  <2>2. CallOf(m) \in vouched
    BY <1>2 DEF LookupUser, IInv, VerdictInv
  <2>. QED BY <1>2, <2>1, <2>2, AnswerStep DEF LookupUser
<1>3. CASE Grant(m) \/ Refuse(m)
  BY <1>3, SettleStep DEF Grant, Refuse
<1>4. CASE DropAnswer(m)
  <2>1. TypeOK'
    BY <1>4 DEF DropAnswer, IInv, TypeOK, GuardTypeOK
  <2>2. AwaitedInv' /\ StageInv' /\ VerdictInv'
    BY <1>4 DEF DropAnswer, IInv, TypeOK, AwaitedInv, StageInv, VerdictInv
  <2>. QED BY <2>1, <2>2 DEF IInv
<1>. QED BY <1>1, <1>2, <1>3, <1>4 DEF CallStep

\* So does the loss of copies with the connection of auth.
LEMMA AuthLosesStep ==
  ASSUME IInv, NEW lost \in SUBSET Copies, AuthLoses(lost), authUp' \in BOOLEAN
  PROVE  IInv'
<1>1. TypeOK'
  BY CopyOfCall DEF AuthLoses, IInv, TypeOK, GuardTypeOK
<1>2. AwaitedInv'
  <2>. SUFFICES ASSUME NEW m \in awaited'
                PROVE  /\ stage'[CallOf(m)] \in {"unconfirmed", "waiting"}
                       /\ copy'[m] \in InFlight
                       /\ CallOf(m) \notin severed'
                       /\ \A n \in awaited' : CallOf(n) = CallOf(m) => n = m
    BY DEF AwaitedInv
  <2>1. m \in awaited /\ m \notin lost /\ m \in Copies
    BY DEF AuthLoses, IInv, TypeOK
  <2>2. CallOf(m) \notin severed'
    BY <2>1 DEF AuthLoses, IInv, AwaitedInv
  <2>3. stage'[CallOf(m)] = stage[CallOf(m)] /\ copy'[m] = copy[m]
    BY <2>1 DEF AuthLoses
  <2>. QED BY <2>1, <2>2, <2>3 DEF AuthLoses, IInv, AwaitedInv
<1>3. StageInv'
  <2>. SUFFICES ASSUME NEW c \in Calls
                PROVE  /\ stage'[c] \in {"unconfirmed", "waiting"} /\ c \notin severed' =>
                            \E n \in awaited' : CallOf(n) = c
                       /\ c \in severed' => stage'[c] \notin {"idle", "outbox"}
    BY DEF StageInv
  <2>1. stage' = stage /\ awaited' = awaited \ lost
        /\ severed' = severed \cup {CallOf(m) : m \in lost \cap awaited}
    BY DEF AuthLoses
  <2>2. ASSUME stage[c] \in {"unconfirmed", "waiting"}, c \notin severed'
        PROVE  \E n \in awaited' : CallOf(n) = c
    <3>1. PICK m \in awaited : CallOf(m) = c
      BY <2>1, <2>2 DEF IInv, StageInv
    <3>2. m \notin lost
      BY <3>1, <2>1, <2>2
    <3>. QED BY <3>1, <3>2, <2>1
  <2>3. ASSUME c \in severed'
        PROVE  stage[c] \notin {"idle", "outbox"}
    BY <2>1, <2>3 DEF IInv, AwaitedInv, StageInv
  <2>. QED BY <2>1, <2>2, <2>3
<1>4. VerdictInv'
  BY DEF AuthLoses, IInv, TypeOK, VerdictInv
<1>. QED BY <1>1, <1>2, <1>3, <1>4 DEF IInv

\* A lost channel, whatever else is lost with it.
LEMMA ChannelsCloseStep ==
  ASSUME IInv, NEW services \in SUBSET Services, NEW resending \in SUBSET services,
         ChannelsClose(services, resending), copy' \in [Copies -> InFlight \cup {"unsent", "gone"}],
         \A m \in awaited' : copy'[m] = copy[m],
         \A m \in Copies : copy'[m] \in {copy[m], "gone"}
  PROVE  IInv'
<1>1. /\ awaited' = {m \in awaited : CallOf(m) \notin CallsOf(services)}
      /\ stage' = [c \in Calls |->
                     IF c \in Unsettled(services)
                       THEN IF c[2] \in resending THEN "outbox" ELSE "waiting"
                       ELSE stage[c]]
      /\ severed' = (severed \cup {CallOf(m) : m \in awaited \ awaited'}
                             \cup Unsettled(services)) \ Unsettled(resending)
      /\ UNCHANGED <<expired, authUp, vouched, denied>>
  BY DEF ChannelsClose
<1>2. /\ Unsettled(services) = {c \in Calls : c[2] \in services /\ stage[c] \in {"outbox", "unconfirmed"}}
      /\ Unsettled(resending) = {c \in Calls : c[2] \in resending /\ stage[c] \in {"outbox", "unconfirmed"}}
      /\ CallsOf(services) = {c \in Calls : c[2] \in services}
  BY DEF Unsettled, CallsOf
<1>3. TypeOK'
  BY <1>1, <1>2, CopyOfCall DEF IInv, TypeOK, GuardTypeOK
<1>4. AwaitedInv'
  <2>. SUFFICES ASSUME NEW m \in awaited'
                PROVE  /\ stage'[CallOf(m)] \in {"unconfirmed", "waiting"}
                       /\ copy'[m] \in InFlight
                       /\ CallOf(m) \notin severed'
                       /\ \A n \in awaited' : CallOf(n) = CallOf(m) => n = m
    BY DEF AwaitedInv
  <2>1. m \in awaited /\ CallOf(m) \in Calls /\ CallOf(m) \notin CallsOf(services)
    BY <1>1, CopyOfCall DEF IInv, TypeOK
  <2>2. CallOf(m)[2] \notin services /\ CallOf(m) \notin Unsettled(services)
    BY <2>1, <1>2
  <2>3. stage'[CallOf(m)] = stage[CallOf(m)]
    BY <2>1, <2>2, <1>1
  <2>4. \A n \in awaited \ awaited' : CallOf(n) # CallOf(m)
    BY <2>1, <1>1
  <2>5. CallOf(m) \notin severed'
    BY <2>1, <2>2, <2>4, <1>1 DEF IInv, AwaitedInv
  <2>. QED BY <2>1, <2>3, <2>5, <1>1 DEF IInv, AwaitedInv
<1>5. StageInv'
  <2>. SUFFICES ASSUME NEW c \in Calls
                PROVE  /\ stage'[c] \in {"unconfirmed", "waiting"} /\ c \notin severed' =>
                            \E n \in awaited' : CallOf(n) = c
                       /\ c \in severed' => stage'[c] \notin {"idle", "outbox"}
    BY DEF StageInv
  <2>1. CASE c \in Unsettled(services)
    <3>1. CASE c[2] \in resending
      BY <2>1, <3>1, <1>1, <1>2
    <3>2. CASE c[2] \notin resending
      BY <2>1, <3>2, <1>1, <1>2
    <3>. QED BY <3>1, <3>2
  <2>2. CASE c \notin Unsettled(services)
    <3>1. stage'[c] = stage[c] /\ c \notin Unsettled(resending)
      BY <2>2, <1>1, <1>2
    <3>2. ASSUME stage[c] \in {"unconfirmed", "waiting"}, c \notin severed'
          PROVE  \E n \in awaited' : CallOf(n) = c
      <4>1. PICK m \in awaited : CallOf(m) = c
        BY <3>1, <3>2, <1>1 DEF IInv, StageInv
      <4>2. m \in awaited'
        BY <4>1, <3>1, <3>2, <1>1
      <4>. QED BY <4>1, <4>2
    <3>3. ASSUME c \in severed'
          PROVE  stage[c] \notin {"idle", "outbox"}
      <4>1. c \in severed \/ \E m \in awaited : CallOf(m) = c
        BY <3>3, <2>2, <1>1
      <4>. QED BY <4>1 DEF IInv, AwaitedInv, StageInv
    <3>. QED BY <3>1, <3>2, <3>3
  <2>. QED BY <2>1, <2>2
<1>6. VerdictInv'
  BY <1>1 DEF IInv, VerdictInv
<1>. QED BY <1>3, <1>4, <1>5, <1>6 DEF IInv

\* So does the end of a calling process.
LEMMA CallerDiesStep ==
  ASSUME IInv, NEW s \in Services, CallerDies(s)
  PROVE  IInv'
<1>1. TypeOK'
  BY DEF CallerDies, IInv, TypeOK, GuardTypeOK
<1>2. AwaitedInv'
  BY CopyOfCall DEF CallerDies, IInv, TypeOK, AwaitedInv
<1>3. StageInv'
  BY DEF CallerDies, IInv, TypeOK, StageInv
<1>4. VerdictInv'
  BY DEF CallerDies, IInv, VerdictInv
<1>. QED BY <1>1, <1>2, <1>3, <1>4 DEF IInv

\* So does every step.
LEMMA Inductive ==
  ASSUME IInv, [Next]_vars
  PROVE  IInv'
<1>1. ASSUME NEW c \in Calls, Call(c) \/ Publish(c) \/ Confirm(c) PROVE IInv'
  BY <1>1, CallerSteps
<1>2. ASSUME NEW m \in Copies, CallStep(m) PROVE IInv'
  BY <1>2, CopySteps
<1>3. ASSUME NEW s \in Services, CallerLosesConnection(s) PROVE IInv'
  <2>1. PICK resending \in SUBSET {s} : ChannelsClose({s}, resending)
    BY <1>3 DEF CallerLosesConnection
  <2>2. copy' = copy /\ awaited' \subseteq awaited
    BY <1>3, <2>1 DEF CallerLosesConnection, ChannelsClose
  <2>3. copy' \in [Copies -> InFlight \cup {"unsent", "gone"}]
    BY <2>2 DEF IInv, TypeOK
  <2>. QED BY <2>1, <2>2, <2>3, ChannelsCloseStep
<1>4. ASSUME NEW s \in Services, CallerDies(s) PROVE IInv'
  BY <1>4, CallerDiesStep
<1>5. CASE AuthCrash
  BY <1>5, AuthLosesStep DEF AuthCrash
<1>6. CASE AuthLosesConnection
  <2>1. authUp' \in BOOLEAN
    BY <1>6 DEF AuthLosesConnection, IInv, TypeOK
  <2>. QED BY <1>6, <2>1, AuthLosesStep DEF AuthLosesConnection
<1>7. CASE AuthStart
  BY <1>7 DEF AuthStart, callVars, IInv, TypeOK, GuardTypeOK, AwaitedInv, StageInv, VerdictInv
<1>8. CASE BrokerRestart
  <2>1. PICK resending \in SUBSET Services : ChannelsClose(Services, resending)
    BY <1>8 DEF BrokerRestart
  <2>2. awaited' = {}
    BY <2>1, CopyOfCall, CallParts DEF ChannelsClose, CallsOf, IInv, TypeOK
  <2>3. /\ copy' \in [Copies -> InFlight \cup {"unsent", "gone"}]
        /\ \A m \in Copies : copy'[m] \in {copy[m], "gone"}
    BY <1>8 DEF BrokerRestart, IInv, TypeOK
  <2>. QED BY <2>1, <2>2, <2>3, ChannelsCloseStep
<1>9. ASSUME NEW o \in Orders, TokenExpires(o), UNCHANGED <<authUp, callVars, vouched, denied, severed>>
      PROVE  IInv'
  BY <1>9 DEF TokenExpires, callVars, IInv, TypeOK, GuardTypeOK, AwaitedInv, StageInv, VerdictInv
<1>10. CASE UNCHANGED vars
  BY <1>10 DEF vars, callVars, IInv, TypeOK, GuardTypeOK, AwaitedInv, StageInv, VerdictInv
<1>. QED
  BY <1>1, <1>2, <1>3, <1>4, <1>5, <1>6, <1>7, <1>8, <1>9, <1>10 DEF Next

\* The inductive invariant holds throughout.
THEOREM Invariance == Spec => []IInv
BY InitIInv, Inductive, PTL DEF Spec

\* The states of calls, copies and histories keep their types.
THEOREM TypeCorrect == Spec => []TypeOK
<1>1. IInv => TypeOK
  BY DEF IInv
<1>. QED BY <1>1, Invariance, PTL

\* A call that waits and was not cut off by a fault has exactly one transmission
\* on its way: the auth service answers whatever it takes.
THEOREM OnTheirWay == Spec => []WaitingCallsAreOnTheirWay
<1>1. IInv => WaitingCallsAreOnTheirWay
  BY DEF IInv, AwaitedInv, StageInv, WaitingCallsAreOnTheirWay
<1>. QED BY <1>1, Invariance, PTL

-----------------------------------------------------------------------------
(* Refinement: every step is a step of the contract, or a stutter.         *)

Verdict == [c \in Calls |->
              IF stage[c] \in {"granted", "refused", "dead"} THEN stage[c] ELSE "open"]

\* What the contract takes from JwtGuard and Deployment is what this module takes.
LEMMA ContractTerms ==
  /\ Contract!Calls = Calls
  /\ Contract!Services = Services
  /\ \A kind : Contract!May(kind) = May(kind)
BY DEF Contract!Calls, Calls, Contract!Services, Services, Contract!May, May

\* The contract reads these variables and no others.
LEMMA ContractStutter ==
  ASSUME UNCHANGED <<expired, vouched, denied, severed, Verdict>>
  PROVE  UNCHANGED Contract!vars
BY DEF Contract!vars, Verdict

\* The call starts where its contract does.
LEMMA InitContract == Init => Contract!Init
BY DEF Init, Contract!Init, GuardInit, Contract!GuardInit, Contract!Calls, Calls,
       Contract!Services, Services

\* A step that settles no call leaves every verdict as it is.
LEMMA VerdictStutter ==
  ASSUME \A c \in Calls :
           \/ stage'[c] = stage[c]
           \/ /\ stage[c] \notin {"granted", "refused", "dead"}
              /\ stage'[c] \notin {"granted", "refused", "dead"}
  PROVE  Verdict' = Verdict
BY DEF Verdict

\* What the caller does before the answer is no step of the contract.
LEMMA StutterSteps ==
  ASSUME IInv, NEW c \in Calls, Call(c) \/ Publish(c) \/ Confirm(c)
  PROVE  UNCHANGED Contract!vars
<1>1. UNCHANGED <<expired, vouched, denied, severed>>
  BY DEF Call, Publish, Confirm
<1>2. Verdict' = Verdict
  <2>1. /\ stage[c] \in {"idle", "outbox", "unconfirmed"}
        /\ \E s \in {"outbox", "unconfirmed", "waiting"} : stage' = [stage EXCEPT ![c] = s]
    BY DEF Call, Publish, Confirm
  <2>. QED BY <2>1, VerdictStutter DEF IInv, TypeOK
<1>. QED BY <1>1, <1>2, ContractStutter

\* Verifying the JWT vouches for the call or denies it.
LEMMA TakeCallRefines ==
  ASSUME IInv, NEW m \in Copies, TakeCall(m)
  PROVE  Contract!Next
<1>1. CallOf(m) \in Calls /\ Verdict' = Verdict
  BY CopyOfCall, VerdictStutter DEF TakeCall
<1>2. CASE GuardGrants(CallOf(m)[1])
  <2>1. Contract!Vouch(CallOf(m))
    BY <1>1, <1>2 DEF TakeCall, Answer, Contract!Vouch, Verdict, GuardGrants, Contract!GuardGrants
  <2>. QED BY <1>1, <2>1, ContractTerms DEF Contract!Next
<1>3. CASE ~GuardGrants(CallOf(m)[1])
  <2>1. Contract!Deny(CallOf(m))
    BY <1>1, <1>3 DEF TakeCall, Answer, Contract!Deny, Verdict, GuardGrants, Contract!GuardRefuses
  <2>. QED BY <1>1, <2>1, ContractTerms DEF Contract!Next
<1>. QED BY <1>2, <1>3

\* A failed lookup denies the call; a successful one stutters.
LEMMA LookupUserRefines ==
  ASSUME IInv, NEW m \in Copies, LookupUser(m)
  PROVE  [Contract!Next]_(Contract!vars)
<1>1. CallOf(m) \in Calls /\ Verdict' = Verdict
  BY CopyOfCall, VerdictStutter DEF LookupUser
<1>2. PICK outcome \in GetUser : Answer(m, outcome)
  BY DEF LookupUser
<1>3. CASE outcome = "user"
  BY <1>1, <1>2, <1>3, ContractStutter DEF LookupUser, Answer
<1>4. CASE outcome # "user"
  <2>1. outcome = "error" /\ May("lookup")
    BY <1>2, <1>4 DEF GetUser
  <2>2. Contract!GuardRefuses(CallOf(m)[1])
    BY <2>1, ContractTerms DEF Contract!GuardRefuses
  <2>3. Contract!Deny(CallOf(m))
    BY <1>1, <1>2, <2>1, <2>2 DEF LookupUser, Answer, Contract!Deny, Verdict
  <2>. QED BY <1>1, <2>3, ContractTerms DEF Contract!Next
<1>. QED BY <1>3, <1>4

\* The answer grants or refuses what auth vouched for or denied.
LEMMA SettleRefines ==
  ASSUME IInv, NEW m \in Copies, Grant(m) \/ Refuse(m)
  PROVE  Contract!Next
<1>1. /\ CallOf(m) \in Calls
      /\ m \in awaited
      /\ UNCHANGED <<expired, vouched, denied, severed>>
  BY CopyOfCall DEF Grant, Refuse, Settle
<1>2. /\ stage[CallOf(m)] \in {"unconfirmed", "waiting"}
      /\ CallOf(m) \notin severed
      /\ Verdict[CallOf(m)] = "open"
  BY <1>1 DEF IInv, AwaitedInv, Verdict
<1>3. CASE Grant(m)
  <2>1. CallOf(m) \in vouched
    BY <1>3 DEF Grant, IInv, VerdictInv
  <2>2. Verdict' = [Verdict EXCEPT ![CallOf(m)] = "granted"]
    BY <1>1, <1>3 DEF Grant, Settle, Verdict, IInv, TypeOK
  <2>3. Contract!Grant(CallOf(m))
    BY <1>1, <1>2, <2>1, <2>2 DEF Contract!Grant, Verdict
  <2>. QED BY <1>1, <2>3, ContractTerms DEF Contract!Next
<1>4. CASE Refuse(m)
  <2>1. CallOf(m) \in denied
    BY <1>4 DEF Refuse, IInv, VerdictInv
  <2>2. Verdict' = [Verdict EXCEPT ![CallOf(m)] = "refused"]
    BY <1>1, <1>4 DEF Refuse, Settle, Verdict, IInv, TypeOK
  <2>3. Contract!Refuse(CallOf(m))
    BY <1>1, <1>2, <2>1, <2>2 DEF Contract!Refuse, Verdict
  <2>. QED BY <1>1, <2>3, ContractTerms DEF Contract!Next
<1>. QED BY <1>3, <1>4

\* A fault that settles no call is the contract's disturbance: what it cuts off
\* was still open.
LEMMA DisturbRefines ==
  ASSUME Verdict' = Verdict, UNCHANGED <<expired, vouched, denied>>, GuardUnanswered,
         severed' \in SUBSET Calls,
         \A c \in severed' \ severed : stage[c] \in {"outbox", "unconfirmed", "waiting"}
  PROVE  Contract!Next
<1>1. Contract!GuardUnanswered
  BY ContractTerms DEF Contract!GuardUnanswered, GuardUnanswered
<1>2. \A c \in severed' \ severed : Verdict[c] = "open"
  BY DEF Verdict
<1>3. Contract!Disturb
  BY <1>1, <1>2, ContractTerms DEF Contract!Disturb, Verdict
<1>. QED BY <1>3 DEF Contract!Next

\* Losing answers disturbs open calls only.
LEMMA AuthLosesRefines ==
  ASSUME IInv, NEW lost \in SUBSET Copies, AuthLoses(lost), GuardUnanswered
  PROVE  Contract!Next
<1>1. Verdict' = Verdict /\ UNCHANGED <<expired, vouched, denied>>
  BY VerdictStutter DEF AuthLoses
<1>2. severed' \in SUBSET Calls
  BY CopyOfCall DEF AuthLoses, IInv, TypeOK
<1>3. \A c \in severed' \ severed : stage[c] \in {"outbox", "unconfirmed", "waiting"}
  BY DEF AuthLoses, IInv, AwaitedInv
<1>. QED BY <1>1, <1>2, <1>3, DisturbRefines

\* So does closing channels.
LEMMA ChannelsCloseRefines ==
  ASSUME IInv, NEW services \in SUBSET Services, NEW resending \in SUBSET services,
         ChannelsClose(services, resending), GuardUnanswered
  PROVE  Contract!Next
<1>1. UNCHANGED <<expired, vouched, denied>>
  BY DEF ChannelsClose
<1>2. \A c \in Unsettled(services) : c \in Calls /\ stage[c] \in {"outbox", "unconfirmed"}
  BY DEF Unsettled, CallsOf
<1>3. Verdict' = Verdict
  <2>. SUFFICES ASSUME NEW c \in Calls, stage'[c] # stage[c]
                PROVE  /\ stage[c] \notin {"granted", "refused", "dead"}
                       /\ stage'[c] \notin {"granted", "refused", "dead"}
    BY VerdictStutter
  <2>1. c \in Unsettled(services) /\ stage'[c] \in {"outbox", "waiting"}
    BY DEF ChannelsClose
  <2>. QED BY <2>1, <1>2
<1>4. severed' = (severed \cup {CallOf(m) : m \in awaited \ awaited'}
                          \cup Unsettled(services)) \ Unsettled(resending)
  BY DEF ChannelsClose
<1>5. severed' \in SUBSET Calls
  BY <1>2, <1>4, CopyOfCall DEF IInv, TypeOK
<1>6. \A c \in severed' \ severed : stage[c] \in {"outbox", "unconfirmed", "waiting"}
  BY <1>2, <1>4 DEF IInv, AwaitedInv
<1>. QED BY <1>1, <1>3, <1>5, <1>6, DisturbRefines

\* The end of a calling process ends its open calls.
LEMMA CallerDiesRefines ==
  ASSUME IInv, NEW s \in Services, CallerDies(s)
  PROVE  Contract!Next
<1>. DEFINE ended == {c \in Calls : c[2] = s /\ stage[c] \in {"outbox", "unconfirmed", "waiting"}}
<1>1. ended \in SUBSET {c \in Calls : c[2] = s /\ Verdict[c] = "open"}
  BY DEF Verdict
<1>2. Verdict' = [c \in Calls |-> IF c \in ended THEN "dead" ELSE Verdict[c]]
  BY DEF CallerDies, Verdict
<1>3. May(s) /\ UNCHANGED <<expired, vouched, denied, severed>>
  BY DEF CallerDies
<1>. HIDE DEF ended
<1>4. Contract!Die(s)
  BY <1>1, <1>2, <1>3, ContractTerms DEF Contract!Die, Verdict
<1>. QED BY <1>4, ContractTerms DEF Contract!Next

\* Every step of the call maps to the contract.
LEMMA StepRefines ==
  ASSUME IInv, [Next]_vars
  PROVE  [Contract!Next]_(Contract!vars)
<1>1. ASSUME NEW c \in Calls, Call(c) \/ Publish(c) \/ Confirm(c)
      PROVE  UNCHANGED Contract!vars
  BY <1>1, StutterSteps
<1>2. ASSUME NEW m \in Copies, CallStep(m)
      PROVE  [Contract!Next]_(Contract!vars)
  <2>1. CASE DropAnswer(m)
    <3>1. Verdict' = Verdict
      BY <2>1, VerdictStutter DEF DropAnswer
    <3>. QED BY <2>1, <3>1, ContractStutter DEF DropAnswer
  <2>. QED BY <1>2, <2>1, TakeCallRefines, LookupUserRefines, SettleRefines DEF CallStep
<1>3. ASSUME NEW s \in Services, CallerLosesConnection(s)
      PROVE  Contract!Next
  <2>1. PICK resending \in SUBSET {s} : ChannelsClose({s}, resending)
    BY <1>3 DEF CallerLosesConnection
  <2>2. GuardUnanswered
    BY <1>3 DEF CallerLosesConnection, GuardUnanswered
  <2>. QED BY <2>1, <2>2, ChannelsCloseRefines
<1>4. ASSUME NEW s \in Services, CallerDies(s)
      PROVE  Contract!Next
  BY <1>4, CallerDiesRefines
<1>5. CASE AuthCrash
  <2>1. GuardUnanswered
    BY <1>5 DEF AuthCrash, GuardUnanswered
  <2>. QED BY <1>5, <2>1, AuthLosesRefines DEF AuthCrash
<1>6. CASE AuthLosesConnection
  <2>1. GuardUnanswered
    BY <1>6 DEF AuthLosesConnection, GuardUnanswered
  <2>. QED BY <1>6, <2>1, AuthLosesRefines DEF AuthLosesConnection
<1>7. CASE AuthStart
  <2>1. Verdict' = Verdict
    BY <1>7, VerdictStutter DEF AuthStart, callVars
  <2>. QED BY <1>7, <2>1, ContractStutter DEF AuthStart
<1>8. CASE BrokerRestart
  <2>1. PICK resending \in SUBSET Services : ChannelsClose(Services, resending)
    BY <1>8 DEF BrokerRestart
  <2>2. GuardUnanswered
    BY <1>8 DEF BrokerRestart, GuardUnanswered
  <2>. QED BY <2>1, <2>2, ChannelsCloseRefines
<1>9. ASSUME NEW o \in Orders, TokenExpires(o), UNCHANGED <<authUp, callVars, vouched, denied, severed>>
      PROVE  Contract!Next
  <2>1. Verdict' = Verdict
    BY <1>9, VerdictStutter DEF callVars
  <2>2. Contract!TokenExpires(o)
    BY <1>9, ContractTerms DEF TokenExpires, Contract!TokenExpires
  <2>. QED BY <1>9, <2>1, <2>2 DEF Contract!Next, Verdict
<1>10. CASE UNCHANGED vars
  <2>1. Verdict' = Verdict
    BY <1>10, VerdictStutter DEF vars, callVars
  <2>. QED BY <1>10, <2>1, ContractStutter DEF vars
<1>. QED
  BY <1>1, <1>2, <1>3, <1>4, <1>5, <1>6, <1>7, <1>8, <1>9, <1>10 DEF Next

\* The call over the queue keeps the guard's contract, under every fault and for
\* every bound on its transmissions.
THEOREM Refinement == Spec => ImplementsGuard
<1>1. Init => Contract!Init
  BY InitContract
<1>2. IInv /\ [Next]_vars => [Contract!Next]_(Contract!vars)
  BY StepRefines
<1>. QED BY <1>1, <1>2, Invariance, PTL DEF Spec, ImplementsGuard, Contract!Spec

-----------------------------------------------------------------------------
(* What the callers of the guard take from the contract.                   *)

Settled == {"granted", "refused", "dead"}

\* An outcome has its verdict, and verdict and cut have the causes JwtGuard names.
OutcomesFollowVerdicts ==
  \A c \in Calls :
    /\ stage[c] = "granted" => c \in vouched
    /\ stage[c] = "refused" => c \in denied
    /\ c \in denied => GuardRefuses(c[1])
    /\ c \in severed => GuardUnanswered

\* A verdict is an outcome, or "open".
LEMMA VerdictOf ==
  \A c \in Calls : /\ stage[c] \in Settled => Verdict[c] = stage[c]
                   /\ Verdict[c] \in Settled => stage[c] = Verdict[c]
BY DEF Verdict, Settled

\* The same after a step.
LEMMA VerdictOfNext ==
  \A c \in Calls : /\ stage'[c] \in Settled => Verdict'[c] = stage'[c]
                   /\ Verdict'[c] \in Settled => stage'[c] = Verdict'[c]
BY DEF Verdict, Settled

\* What a step of the contract does to an outcome: it stands, or it was open and
\* has its verdict now.
LEMMA ContractOutcomes ==
  ASSUME IInv, [Next]_vars, NEW c \in Calls
  PROVE  /\ Verdict[c] # "open" => Verdict'[c] = Verdict[c]
         /\ Verdict'[c] # Verdict[c] =>
              \/ Verdict'[c] = "granted" /\ c \in vouched
              \/ Verdict'[c] = "refused" /\ c \in denied
              \/ Verdict'[c] = "dead"
         /\ vouched \subseteq vouched'
         /\ denied \subseteq denied'
         /\ expired \subseteq expired'
         /\ c \in denied' \ denied => GuardRefuses(c[1])
         /\ c \in severed' \ severed => GuardUnanswered
<1>. DEFINE Step ==
       /\ Verdict[c] # "open" => Verdict'[c] = Verdict[c]
       /\ Verdict'[c] # Verdict[c] =>
            \/ Verdict'[c] = "granted" /\ c \in vouched
            \/ Verdict'[c] = "refused" /\ c \in denied
            \/ Verdict'[c] = "dead"
       /\ vouched \subseteq vouched'
       /\ denied \subseteq denied'
       /\ expired \subseteq expired'
       /\ c \in denied' \ denied => GuardRefuses(c[1])
       /\ c \in severed' \ severed => GuardUnanswered
<1>1. [Contract!Next]_(Contract!vars)
  BY StepRefines
<1>2. ASSUME NEW d \in Calls, Contract!Vouch(d) \/ Contract!Deny(d) PROVE Step
  BY <1>2, ContractTerms
  DEF Contract!Vouch, Contract!Deny, Contract!GuardRefuses, GuardRefuses, Verdict
<1>3. ASSUME NEW d \in Calls, Contract!Grant(d) \/ Contract!Refuse(d) PROVE Step
  BY <1>3 DEF Contract!Grant, Contract!Refuse, Verdict
<1>4. ASSUME NEW s \in Services, Contract!Die(s) PROVE Step
  BY <1>4, ContractTerms DEF Contract!Die, Verdict
<1>5. CASE Contract!Disturb
  BY <1>5, ContractTerms DEF Contract!Disturb, Contract!GuardUnanswered, GuardUnanswered, Verdict
<1>6. ASSUME NEW o \in Orders, Contract!TokenExpires(o), UNCHANGED <<vouched, denied, severed, Verdict>>
      PROVE  Step
  BY <1>6 DEF Contract!TokenExpires
<1>7. CASE UNCHANGED Contract!vars
  BY <1>7 DEF Contract!vars, Verdict
<1>. QED
  BY <1>1, <1>2, <1>3, <1>4, <1>5, <1>6, <1>7, ContractTerms DEF Contract!Next, Verdict

\* The outcomes JwtGuard offers its callers cover those of the call: it refuses only
\* for an expired JWT or a failed lookup, however late the refusal arrives, it
\* leaves a call without an answer only for the faults GuardUnanswered names, and a
\* grant means that auth vouched for this very call.
THEOREM OutcomesCovered == Spec => []OutcomesFollowVerdicts
<1>1. Init => OutcomesFollowVerdicts
  BY DEF Init, OutcomesFollowVerdicts
<1>2. IInv /\ OutcomesFollowVerdicts /\ [Next]_vars => OutcomesFollowVerdicts'
  <2>. SUFFICES ASSUME IInv, OutcomesFollowVerdicts, [Next]_vars, NEW c \in Calls
                PROVE  /\ stage'[c] = "granted" => c \in vouched'
                       /\ stage'[c] = "refused" => c \in denied'
                       /\ c \in denied' => GuardRefuses(c[1])'
                       /\ c \in severed' => GuardUnanswered
    BY DEF OutcomesFollowVerdicts, GuardUnanswered
  <2>1. /\ stage[c] = "granted" => c \in vouched
        /\ stage[c] = "refused" => c \in denied
        /\ c \in denied => GuardRefuses(c[1])
        /\ c \in severed => GuardUnanswered
    BY DEF OutcomesFollowVerdicts
  <2>2. \A s \in {"granted", "refused"} : stage'[c] = s => Verdict'[c] = s
    BY VerdictOfNext DEF Settled
  <2>3. \A s \in {"granted", "refused"} : Verdict[c] = s => stage[c] = s
    BY VerdictOf DEF Settled
  <2>4. (stage'[c] = "granted" => c \in vouched') /\ (stage'[c] = "refused" => c \in denied')
    BY <2>1, <2>2, <2>3, ContractOutcomes
  <2>5. GuardRefuses(c[1]) => GuardRefuses(c[1])'
    BY ContractOutcomes DEF GuardRefuses, May
  <2>6. c \in denied' => GuardRefuses(c[1])'
    BY <2>1, <2>5, ContractOutcomes
  <2>7. c \in severed' => GuardUnanswered
    BY <2>1, ContractOutcomes
  <2>. QED BY <2>4, <2>6, <2>7
<1>. QED BY <1>1, <1>2, Invariance, PTL DEF Spec

\* A call is settled once: no late answer, no retry of the AMQP client, no restart and
\* no closing channel changes an outcome.
THEOREM OutcomesAreFinal ==
  Spec => [][\A c \in Calls : stage[c] \in Settled => stage'[c] = stage[c]]_vars
<1>1. ASSUME IInv, [Next]_vars, NEW c \in Calls, stage[c] \in Settled
      PROVE  stage'[c] = stage[c]
  <2>1. Verdict[c] = stage[c] /\ Verdict[c] # "open"
    BY <1>1, VerdictOf DEF Settled
  <2>2. Verdict'[c] = Verdict[c]
    BY <1>1, <2>1, ContractOutcomes
  <2>. QED BY <1>1, <2>1, <2>2, VerdictOfNext
<1>2. IInv /\ [Next]_vars =>
        [\A c \in Calls : stage[c] \in Settled => stage'[c] = stage[c]]_vars
  BY <1>1
<1>. QED BY <1>2, Invariance, PTL DEF Spec

\* send() has no timeout, but only a fault of auth, of the broker or of a connection leaves
\* a caller waiting for nothing: without one, every waiting call has exactly one
\* transmission on its way.
THEOREM OnlyFaultsStrandCalls ==
  Spec => [](~GuardUnanswered =>
               \A c \in Calls :
                 stage[c] \in {"unconfirmed", "waiting"} =>
                   \E m \in awaited :
                     /\ CallOf(m) = c /\ copy[m] \in InFlight
                     /\ \A n \in awaited : CallOf(n) = c => n = m)
<1>1. WaitingCallsAreOnTheirWay /\ OutcomesFollowVerdicts =>
        (~GuardUnanswered =>
           \A c \in Calls :
             stage[c] \in {"unconfirmed", "waiting"} =>
               \E m \in awaited :
                 /\ CallOf(m) = c /\ copy[m] \in InFlight
                 /\ \A n \in awaited : CallOf(n) = c => n = m)
  BY DEF WaitingCallsAreOnTheirWay, OutcomesFollowVerdicts
<1>. QED BY <1>1, OnTheirWay, OutcomesCovered, PTL
=============================================================================
