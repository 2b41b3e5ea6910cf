------------------------ MODULE OrderRefinementProofs ------------------------
(***************************************************************************)
(* OrderFlow implements OrderContract: every step is one of the contract's *)
(* steps or leaves the contract's variables alone.                         *)
(***************************************************************************)
EXTENDS OrderFlowProofs

\* What the contract sees of the state.
seen == <<sends, answer, txn, bills>>

\* The contract sees no more of the flow than seen.
LEMMA SeenStutter == UNCHANGED seen => UNCHANGED Contract!vars
BY DEF seen, Contract!vars, Billed, CopiesOf

\* Billed only looks at bills.
LEMMA BillsStutter ==
  ASSUME UNCHANGED bills
  PROVE  {o \in Orders : Billed(o)}' = {o \in Orders : Billed(o)}
BY DEF Billed, CopiesOf

\* The flow starts where its contract does.
LEMMA InitRefines == Init => Contract!Init
<1> SUFFICES ASSUME Init PROVE Contract!Init
  OBVIOUS
<1>1. {o \in Orders : sends[o] > 0} = {}
  BY DEF Init, OrdersInit
<1>2. {o \in Orders : Billed(o)} = {}
  BY DEF Init, BillingInit, Billed, CopiesOf
<1> QED
  BY <1>1, <1>2 DEF Contract!Init, Init, OrdersInit

-----------------------------------------------------------------------------

\* Answering an error is the contract's Fail, with or without an abort.
LEMMA ReplyRefines ==
  ASSUME TypeOK, NEW o \in Orders, OrderInv(o), pc[o] # "done",
         NEW status \in {"400", "401", "500"},
         answer' = [answer EXCEPT ![o] = status],
         txn' \in {txn, [txn EXCEPT ![o] = "aborted"]},
         UNCHANGED <<sends, bills>>
  PROVE  Contract!Fail(o)
<1>1. answer[o] = "none" /\ txn[o] # "committed"
  BY DEF OrderInv, TypeOK, OrdersTypeOK
<1>2. answer \in [Orders -> {"none", "201", "400", "401", "500"}]
  BY DEF TypeOK, OrdersTypeOK
<1>3. txn \in [Orders -> {"none", "active", "aborted", "committed"}]
  BY DEF TypeOK, OrdersTypeOK
<1> QED
  BY <1>1, <1>2, <1>3, BillsStutter DEF Contract!Fail

\* A transmission announces the order.
LEMMA TransmitRefines ==
  ASSUME TypeOK, NEW o \in Orders, OrderInv(o), Transmit(o), UNCHANGED bills
  PROVE  Contract!Announce(o)
<1>1. answer[o] = "none"
  BY DEF OrderInv, TypeOK, OrdersTypeOK, Transmit, At
<1>2. {p \in Orders : sends[p] > 0}' = {p \in Orders : sends[p] > 0} \cup {o}
  BY DEF TypeOK, OrdersTypeOK, Transmit
<1> QED
  BY <1>1, <1>2, BillsStutter DEF Contract!Announce, Transmit, Goto

\* A confirmed emit accepts the order.
LEMMA ConfirmRefines ==
  ASSUME TypeOK, NEW o \in Orders, OrderInv(o), EmitConfirmed(o), UNCHANGED bills
  PROVE  Contract!Accept(o)
<1>1. answer[o] = "none" /\ sends[o] > 0
  BY DEF OrderInv, TypeOK, OrdersTypeOK, EmitConfirmed, At
<1>2. answer' = [answer EXCEPT ![o] = "201"] /\ UNCHANGED <<sends, txn>>
  BY DEF EmitConfirmed, Reply
<1>3. answer \in [Orders -> {"none", "201", "400", "401", "500"}]
  BY DEF TypeOK, OrdersTypeOK
<1> QED
  BY <1>1, <1>2, <1>3, BillsStutter DEF Contract!Accept

\* The server's commit stores the order.
LEMMA CommitRefines ==
  ASSUME TypeOK, NEW o \in Orders, OrderInv(o), ServerCommits(o), UNCHANGED bills
  PROVE  Contract!Store(o)
<1>1. answer[o] = "201" /\ txn[o] = "active"
  BY DEF OrderInv, ServerCommits
<1>2. txn' = [txn EXCEPT ![o] = "committed"] /\ UNCHANGED <<sends, answer>>
  BY DEF ServerCommits
<1>3. txn \in [Orders -> {"none", "active", "aborted", "committed"}]
  BY DEF TypeOK, OrdersTypeOK
<1> QED
  BY <1>1, <1>2, <1>3, BillsStutter DEF Contract!Store

\* The server's abort drops the order.
LEMMA AbortRefines ==
  ASSUME TypeOK, NEW o \in Orders, ServerAborts(o), UNCHANGED bills
  PROVE  Contract!Drop(o)
<1>1. txn[o] = "active"
  BY DEF ServerAborts
<1>2. txn' = [txn EXCEPT ![o] = "aborted"] /\ UNCHANGED <<sends, answer>>
  BY DEF ServerAborts
<1>3. txn \in [Orders -> {"none", "active", "aborted", "committed"}]
  BY DEF TypeOK, OrdersTypeOK
<1> QED
  BY <1>1, <1>2, <1>3, BillsStutter DEF Contract!Drop

\* A copy that is anywhere in the system was sent, so its order is announced.
LEMMA BillRefines ==
  ASSUME IInv, NEW m \in Copies, Bill(m), msg[m] # "unsent",
         UNCHANGED <<sends, answer, txn>>
  PROVE  Contract!Bill(OrderOf(m))
<1>1. OrderOf(m) \in Orders /\ m[2] \in 1 .. MaxSends
  BY CopyIsPair
<1>2. sends[OrderOf(m)] > 0
  BY <1>1, MaxSendsAssumption DEF IInv, CopyInv, TypeOK, OrdersTypeOK
<1>3. bills \in [Copies -> 0 .. MaxBills] /\ MaxBills \in Nat \ {0}
  BY MaxBillsAssumption DEF IInv, TypeOK, BillingTypeOK
<1>4. bills'[m] > 0 /\ \A n \in Copies : n # m => bills'[n] = bills[n]
  BY <1>3 DEF Bill
<1>5. {o \in Orders : Billed(o)}' = {o \in Orders : Billed(o)} \cup {OrderOf(m)}
  BY <1>1, <1>4 DEF Billed, CopiesOf
<1> QED
  BY <1>1, <1>2, <1>5 DEF Contract!Bill

-----------------------------------------------------------------------------

\* Every step of the orders service maps to the contract.
LEMMA OrdersStepRefines ==
  ASSUME IInv, OrdersNext, UNCHANGED <<billingVars, expired>>
  PROVE  [Contract!Next]_Contract!vars
<1>1. TypeOK /\ (\A o \in Orders : OrderInv(o)) /\ UNCHANGED bills
  BY DEF IInv, billingVars
<1>2. ASSUME NEW o \in Orders, pc[o] # "done", UNCHANGED <<sends, txn>>,
             \E status \in {"400", "401", "500"} : Reply(o, status)
      PROVE  Contract!Next
  BY <1>1, <1>2, ReplyRefines DEF Reply, Contract!Next
<1>3. ASSUME NEW o \in Orders,
             PostOrder(o) \/ OrdersGuardGrants(o) \/ OrdersGuardRefuses(o)
               \/ OrdersGuardHangs(o) \/ StartTransaction(o) \/ EmitRejected(o)
      PROVE  Contract!Next \/ UNCHANGED seen
  BY <1>1, <1>2, <1>3
  DEF PostOrder, GetAuthentication, OrdersGuardGrants, ValidateBody, OrdersGuardRefuses,
      OrdersGuardHangs, StartTransaction,
      EmitRejected, Goto, At, seen
<1>4. ASSUME NEW o \in Orders, InsertOrder(o)
      PROVE  UNCHANGED Contract!vars
  <2>1. txn[o] = "none" /\ UNCHANGED <<sends, answer, bills>>
    BY <1>1, <1>4 DEF InsertOrder, At, OrderInv, Goto
  <2>2. txn' \in {txn, [txn EXCEPT ![o] = "active"]}
    BY <1>4 DEF InsertOrder
  <2>3. txn \in [Orders -> {"none", "active", "aborted", "committed"}]
    BY <1>1 DEF TypeOK, OrdersTypeOK
  <2> QED
    BY <2>1, <2>2, <2>3, BillsStutter DEF Contract!vars
<1>5. ASSUME NEW o \in Orders, AbortTransaction(o)
      PROVE  Contract!Next
  <2>1. /\ pc[o] = "abort"
        /\ answer' = [answer EXCEPT ![o] = "500"]
        /\ UNCHANGED sends
    BY <1>5 DEF AbortTransaction, At, Reply
  <2>2. txn' \in {txn, [txn EXCEPT ![o] = "aborted"]}
    BY <1>1, <1>5 DEF AbortTransaction, TypeOK, OrdersTypeOK
  <2> QED
    BY <1>1, <2>1, <2>2, ReplyRefines DEF Contract!Next
<1>6. ASSUME NEW o \in Orders,
             Transmit(o) \/ EmitConfirmed(o) \/ ServerCommits(o) \/ ServerAborts(o)
      PROVE  Contract!Next
  BY <1>1, <1>6, TransmitRefines, ConfirmRefines, CommitRefines, AbortRefines
  DEF Contract!Next
<1>7. ASSUME (\E o \in Orders : CommitResolves(o)) \/ OrdersProcessDies \/ OrdersStart
               \/ OrdersLoseConnection
      PROVE  UNCHANGED seen
  BY <1>1, <1>7 DEF CommitResolves, OrdersProcessDies, OrdersStart, OrdersLoseConnection, seen
<1> QED
  BY <1>3, <1>4, <1>5, <1>6, <1>7, SeenStutter
  DEF OrdersNext, OrdersHandlerStep, CommitRejects, OrdersCrash

\* Every step of billing maps to a bill or to a stutter.
LEMMA BillingStepRefines ==
  ASSUME IInv, BillingNext, UNCHANGED <<ordersVars, expired>>
  PROVE  [Contract!Next]_Contract!vars
<1>1. UNCHANGED <<sends, answer, txn>>
  BY DEF ordersVars
<1>2. ASSUME NEW m \in Copies, HandleOrderCreated(m) \/ OrphanBills(m)
      PROVE  Contract!Next
  <2>1. Bill(m) /\ msg[m] # "unsent"
    BY <1>2 DEF IInv, CopyInv, HandleOrderCreated, OrphanBills
  <2> QED
    BY <1>1, <2>1, BillRefines, CopyIsPair DEF Contract!Next
<1>3. ASSUME UNCHANGED bills
      PROVE  UNCHANGED Contract!vars
  BY <1>1, <1>3, SeenStutter DEF seen
<1>4. (\E m \in Copies : HandleOrderCreated(m) \/ OrphanBills(m)) \/ UNCHANGED bills
  BY DEF BillingNext, BillingHandlerStep, Deliver, BillingGuardRefuses, BillingGuardHangs,
         OrphanEnds, AckArrives, BillingLosesChannel, ConsumerLosesChannel,
         BillingReconnects, BillingCrash, BillingStart
<1> QED
  BY <1>2, <1>3, <1>4

\* Every step of the flow maps to the contract.
LEMMA StepRefines == IInv /\ [Next]_vars => [Contract!Next]_Contract!vars
<1> SUFFICES ASSUME IInv, [Next]_vars PROVE [Contract!Next]_Contract!vars
  OBVIOUS
<1>1. CASE UNCHANGED seen
  BY <1>1, SeenStutter
<1>2. BrokerRestart => UNCHANGED seen
  BY DEF BrokerRestart, ConsumerLosesChannel, seen
<1>3. UNCHANGED <<ordersVars, billingVars, queueVars>> => UNCHANGED seen
  BY DEF ordersVars, billingVars, seen
<1> QED
  BY <1>1, <1>2, <1>3, OrdersStepRefines, BillingStepRefines DEF Next, vars

\* The orders service, the broker and the billing service together keep the
\* contract of an order, whatever fails: what a customer is told, what billing is
\* told, and what the database keeps happen only in the orders it allows.
THEOREM Refinement == Spec => ImplementsContract
<1>1. Spec => Contract!Init /\ [][Contract!Next]_Contract!vars
  BY InitRefines, StepRefines, Invariance, PTL DEF Spec
<1> QED
  BY <1>1 DEF ImplementsContract, Contract!Spec

=============================================================================
