------------------------ MODULE GatewayPaymentProofs ------------------------
(***************************************************************************)
(* The gateway's ledger, its inbox and the payment agree for any number of  *)
(* concurrent webhook requests and sweeps, whatever is lost, repeated,       *)
(* reordered or refused, and whatever everybody else does to the order.     *)
(***************************************************************************)
EXTENDS GatewayPayment, TLAPS

USE ConstantsAssumption

(* The status sets of OrderLife are those of OrderDomain. *)
LEMMA SameDomain ==
  /\ Life!TerminalPayment = TerminalPayment
  /\ Life!Uploadable = Uploadable
  /\ Life!Cancellable = Cancellable
  /\ Life!OrderStatus = OrderStatus
  /\ \A t : Life!SourcesFor(t) = SourcesFor(t)
  BY DEF TerminalPayment, Uploadable, Cancellable, ActiveOrder, OrderStatus, SourcesFor, Successors,
         Life!TerminalPayment, Life!Uploadable, Life!Cancellable, Life!ActiveOrder,
         Life!OrderStatus, Life!SourcesFor, Life!Successors

(* What every step of the order's life keeps: its types, a decided payment, a    *)
(* cancelled order.                                                             *)
LifeKeeps ==
  /\ payment' \in PaymentStatus
  /\ order' \in OrderStatus
  /\ payment \in TerminalPayment => payment' = payment
  /\ order = "CANCELLED" => order' = "CANCELLED"

LEMMA LifeStepKeeps ==
  ASSUME payment \in PaymentStatus, order \in OrderStatus, Life!Next
  PROVE  LifeKeeps
<1> USE SameDomain DEF LifeKeeps, PaymentStatus, TerminalPayment, OrderStatus, ActiveOrder, Cancellable
<1>1. CASE Life!Settle
    BY <1>1 DEF Life!Settle
<1>2. ASSUME NEW o \in {"FAILED", "EXPIRED"}, NEW r, Life!EndUnpaid(o, r)
      PROVE  LifeKeeps
    BY <1>2 DEF Life!EndUnpaid, Life!CancelAndRestock
<1>3. CASE Life!Cancel
    BY <1>3 DEF Life!Cancel, Life!CancelAndRestock
<1>4. ASSUME NEW i \in Item, Life!ExpireHold(i)
      PROVE  LifeKeeps
    BY <1>4 DEF Life!ExpireHold
<1>5. CASE Life!UploadReceipt
    BY <1>5 DEF Life!UploadReceipt, Uploadable
<1>6. ASSUME NEW t \in OrderStatus, Life!AdvanceOrder(t)
      PROVE  LifeKeeps
    BY <1>6 DEF Life!AdvanceOrder, SourcesFor, Successors
<1>7. CASE Life!CourierCancelsOrder
    BY <1>7 DEF Life!CourierCancelsOrder, SourcesFor
<1> QED
    BY <1>1, <1>2, <1>3, <1>4, <1>5, <1>6, <1>7 DEF Life!Next

(* The transition an answer calls for decides the payment the way it says. *)
LEMMA TransitionDecides ==
  ASSUME payment \in PaymentStatus, order \in OrderStatus, NEW w \in Final, Transition(w)
  PROVE  /\ payment \notin TerminalPayment
         /\ payment' = PaymentOf(w)
         /\ LifeKeeps
<1>1. Life!Next
    BY DEF Transition, Life!Next
<1>2. payment \notin TerminalPayment /\ payment' = PaymentOf(w)
    BY SameDomain DEF Transition, Life!Settle, Life!EndUnpaid
<1> QED
    BY <1>1, <1>2, LifeStepKeeps

(* Every final word calls for a terminal payment. *)
LEMMA FinalDecides ==
  ASSUME NEW w \in Final
  PROVE  /\ PaymentOf(w) \in TerminalPayment
         /\ GatewayStatus(w) \in TerminalGateway
         /\ PaymentOf(w) = "PAID" <=> w = "settlement"
  BY DEF Final, Word, PaymentOf, TerminalPayment, GatewayStatus, TerminalGateway

LEMMA InitIInv == Init => IInv
<1> SUFFICES ASSUME Init PROVE IInv
    OBVIOUS
<1> USE DEF Init, Life!Init
<1>1. TypeOK
    BY DEF TypeOK, PaymentStatus, OrderStatus, ActiveOrder, Never
<1>2. Stages /\ Closed /\ LedgerAgrees /\ SettledMeansDone
    BY DEF Stages, Closed, LedgerAgrees, SettledMeansDone, TerminalSettlement, TerminalGateway, Final, Word
<1>3. ASSUME NEW p \in Proc PROVE Holds(p)
    BY <1>3 DEF Holds, Final, Word
<1> QED
    BY <1>1, <1>2, <1>3 DEF IInv

-----------------------------------------------------------------------------
(* The invariant of the next state from its parts. *)
LEMMA Assemble ==
  ASSUME TypeOK', Stages', Closed', LedgerAgrees', SettledMeansDone', \A q \in Proc : Holds(q)'
  PROVE  IInv'
  BY DEF IInv

(* A step that moves local variables alone leaves what is stored as it was. *)
LEMMA StoredKept ==
  ASSUME IInv, UNCHANGED <<order_life, gateway, inbox>>
  PROVE  Stages' /\ Closed' /\ LedgerAgrees' /\ SettledMeansDone'
  BY DEF IInv, order_life, gateway, inbox, Stages, Closed, Decided, LedgerAgrees, SettledMeansDone

(* The attempt is opened, charged and recorded while nobody has heard of it. *)
LEMMA InitiationIInv ==
  ASSUME IInv, Initiation
  PROVE  IInv'
<1> USE DEF order_life, gateway, inbox, local
<1>1. CASE OpenAttempt
    <2> USE DEF OpenAttempt
    <2>1. TypeOK'
        BY <1>1 DEF IInv, TypeOK
    <2>2. Stages' /\ Closed' /\ LedgerAgrees' /\ SettledMeansDone'
        BY <1>1 DEF IInv, Stages, Closed, Decided, LedgerAgrees, SettledMeansDone
    <2>3. ASSUME NEW q \in Proc PROVE Holds(q)'
        BY <1>1 DEF IInv, Holds, Decided
    <2> QED
        BY <2>1, <2>2, <2>3, Assemble
<1>2. CASE \E w \in Word : CallProvider(w)
    <2>1. PICK w \in Word : CallProvider(w)
        BY <1>2
    <2> USE <2>1 DEF CallProvider
    <2>2. TypeOK'
        BY DEF IInv, TypeOK
    <2>3. ASSUME NEW q \in Proc PROVE Holds(q)'
        BY DEF IInv, TypeOK, Stages, Holds, Decided, Final, Word
    <2>4. Stages'
        BY DEF IInv, Stages, Final, Word
    <2>5. charge = "none"
        BY DEF IInv, Stages
    <2>6. Closed' /\ LedgerAgrees' /\ SettledMeansDone'
        BY <2>5 DEF IInv, Closed, Decided, LedgerAgrees, SettledMeansDone, Final, Word, TerminalSettlement
    <2> QED
        BY <2>2, <2>3, <2>4, <2>6, Assemble
<1>3. CASE \E w \in {"none", "pending"} : ChargeErrors(w)
    <2>1. PICK w \in {"none", "pending"} : ChargeErrors(w)
        BY <1>3
    <2> USE <2>1 DEF ChargeErrors
    <2>2. TypeOK'
        BY DEF IInv, TypeOK, Word
    <2>3. ASSUME NEW q \in Proc PROVE Holds(q)'
        BY DEF IInv, TypeOK, Stages, Holds, Decided, Final, Word
    <2>4. charge = "none"
        BY DEF IInv, Stages
    <2>5. Stages'
        BY <2>4 DEF IInv, Stages, Final, Word
    <2>6. Closed' /\ LedgerAgrees' /\ SettledMeansDone'
        BY <2>4 DEF IInv, Closed, Decided, LedgerAgrees, SettledMeansDone, Final, Word, TerminalSettlement
    <2> QED
        BY <2>2, <2>3, <2>5, <2>6, Assemble
<1>4. CASE MarkFailed
    <2> USE <1>4 DEF MarkFailed
    <2>1. TypeOK'
        BY DEF IInv, TypeOK, TerminalGateway
    <2>2. Stages' /\ Closed' /\ LedgerAgrees' /\ SettledMeansDone'
        BY DEF IInv, Stages, Closed, Decided, LedgerAgrees, SettledMeansDone
    <2>3. ASSUME NEW q \in Proc PROVE Holds(q)'
        BY DEF IInv, Holds, Decided
    <2> QED
        BY <2>1, <2>2, <2>3, Assemble
<1>5. CASE RecordResponse
    <2> USE <1>5 DEF RecordResponse
    <2>1. TypeOK'
        BY DEF IInv, TypeOK, GatewayStatus, TerminalGateway
    <2>2. ASSUME NEW q \in Proc PROVE Holds(q)'
        BY DEF IInv, Holds, Decided
    <2>3. Stages' /\ Closed' /\ SettledMeansDone'
        BY DEF IInv, Stages, Closed, Decided, SettledMeansDone
    <2>4. first \in Final => first = charge
        BY DEF IInv, Stages
    <2>5. first \notin Final => GatewayStatus(first) \notin TerminalGateway
        BY DEF IInv, TypeOK, Stages, Final, Word, GatewayStatus, TerminalGateway
    <2>6. ledger'.status = GatewayStatus(first)
        BY DEF IInv, TypeOK
    <2>7. LedgerAgrees'
        BY <2>4, <2>5, <2>6 DEF LedgerAgrees
    <2> QED
        BY <2>1, <2>2, <2>3, <2>7, Assemble
<1> QED
    BY <1>1, <1>2, <1>3, <1>4, <1>5 DEF Initiation

(* The charge ends once; nothing was known of its end before. *)
LEMMA ProviderIInv ==
  ASSUME IInv, Provider
  PROVE  IInv'
<1> USE DEF order_life, gateway, inbox, local
<1>1. PICK w \in Final : /\ charge = "pending" /\ charge' = w
                         /\ w = "settlement" => attempt = "known"
                         /\ UNCHANGED <<order_life, attempt, first, ledger, inbox, local>>
    BY DEF Provider, CustomerPays, ProviderCloses, Final, Word
<1>2. TypeOK'
    BY <1>1 DEF IInv, TypeOK, Final
<1>3. Stages'
    BY <1>1 DEF IInv, Stages, Final, Word
<1>4. ASSUME NEW q \in Proc PROVE Holds(q)'
    BY <1>1 DEF IInv, TypeOK, Holds, Decided, Final
<1>5. Closed' /\ SettledMeansDone'
    BY <1>1 DEF IInv, Closed, Decided, SettledMeansDone, Final, TerminalSettlement
<1>6. LedgerAgrees'
    <2>1. GatewayStatus("pending") \notin TerminalGateway
        BY DEF GatewayStatus, TerminalGateway
    <2> QED
        BY <1>1, <2>1 DEF IInv, LedgerAgrees
<1> QED
    BY <1>2, <1>3, <1>4, <1>5, <1>6, Assemble

(* A process sets out. *)
LEMMA SetOutIInv ==
  ASSUME IInv, NEW p \in Proc, Sweep(p) \/ \E w \in Word : Deliver(p, w)
  PROVE  IInv'
<1> USE DEF order_life, gateway, inbox
<1>1. UNCHANGED <<order_life, gateway, inbox>>
    BY DEF Sweep, Deliver
<1>2. TypeOK'
    BY DEF IInv, TypeOK, Sweep, Deliver
<1>3. ASSUME NEW q \in Proc PROVE Holds(q)'
    BY DEF IInv, TypeOK, Holds, Decided, Sweep, Candidate, Deliver, Sent, Final, Word
<1> QED
    BY <1>1, <1>2, <1>3, StoredKept, Assemble

(* The first delivery is stored, with its snapshot; later ones find it there. *)
LEMMA RecordIInv ==
  ASSUME IInv, NEW p \in Proc, Record(p)
  PROVE  IInv'
<1> USE DEF order_life
<1>1. job[p] \in Word /\ (job[p] \in Final => job[p] = charge)
    BY DEF Record, IInv, Holds
<1>2. ledger'.status = ledger.status
    BY DEF Record, Snapshot, IInv, TypeOK
<1>3. TypeOK'
    <2>1. ledger' \in [status: {"PENDING"} \cup TerminalGateway, word: Word \cup {"none"}, at: Nat]
        BY <1>1 DEF Record, Snapshot, Stamp, WIB, IInv, TypeOK
    <2>2. event' \in [Word -> SettlementState \cup {"none"}]
        BY <1>1 DEF Record, SettlementState, IInv, TypeOK
    <2> QED
        BY <2>1, <2>2 DEF Record, Goto, IInv, TypeOK
<1>4. ASSUME NEW q \in Proc PROVE Holds(q)'
    BY <1>1 DEF Record, Goto, IInv, TypeOK, Holds, Decided
<1>5. Stages' /\ LedgerAgrees'
    BY <1>2 DEF Record, IInv, Stages, LedgerAgrees
<1>6. SettledMeansDone' /\ Closed'
    BY <1>1 DEF Record, IInv, TypeOK, SettledMeansDone, Closed, Decided, TerminalSettlement, Final
<1> QED
    BY <1>3, <1>4, <1>5, <1>6, Assemble

(* A concluded notification is acknowledged again. *)
LEMMA AlreadyProcessedIInv ==
  ASSUME IInv, NEW p \in Proc, AlreadyProcessed(p)
  PROVE  IInv'
<1> USE DEF order_life, gateway
<1>1. job[p] \in Word
    BY DEF AlreadyProcessed, IInv, Holds
<1>2. TypeOK'
    BY <1>1 DEF AlreadyProcessed, Finish, IInv, TypeOK
<1>3. ASSUME NEW q \in Proc PROVE Holds(q)'
    BY DEF AlreadyProcessed, Finish, IInv, TypeOK, Holds, Decided, Final, Word
<1>4. Stages' /\ LedgerAgrees' /\ SettledMeansDone'
    BY DEF AlreadyProcessed, IInv, Stages, LedgerAgrees, SettledMeansDone
<1>5. Closed'
    BY DEF AlreadyProcessed, IInv, Closed, Decided, TerminalSettlement
<1> QED
    BY <1>2, <1>3, <1>4, <1>5, Assemble

(* Steps that read: they go on, or conclude. *)
LEMMA ReadIInv ==
  ASSUME IInv, NEW p \in Proc, \/ Lookup(p) \/ AskAnswered(p) \/ AskFails(p)
                               \/ AnswerRejected(p) \/ TransactFails(p) \/ MarkFails(p) \/ Crash(p)
  PROVE  IInv'
<1> USE DEF order_life, gateway, inbox, Goto, Conclude, Finish
<1>1. UNCHANGED <<order_life, gateway, inbox>>
    BY DEF Lookup, AskAnswered, AskFails, AnswerRejected, TransactFails, MarkFails, Crash
<1>2. charge \in Word \/ pc[p] = "idle"
    BY DEF IInv, TypeOK, Stages, Holds
<1>3. TypeOK'
    BY <1>2 DEF IInv, TypeOK, SettlementState, Lookup, AskAnswered, AskFails, AnswerRejected, TransactFails,
       MarkFails, Crash
<1>4. ASSUME NEW q \in Proc PROVE Holds(q)'
    <2>1. CASE Lookup(p) \/ Crash(p)
        BY <1>2, <2>1 DEF IInv, TypeOK, Holds, Decided, Lookup, Crash, Final, Word
    <2>2. CASE AskAnswered(p)
        <3>1. charge \in Word /\ charge # "none" /\ (job[p] \in Final => charge \in Final)
            BY <1>2, <2>2 DEF IInv, Stages, Holds, AskAnswered
        <3> QED
            BY <2>2, <3>1 DEF IInv, TypeOK, Holds, Decided, AskAnswered, Final
    <2>3. CASE AskFails(p) \/ TransactFails(p) \/ MarkFails(p)
        BY <1>2, <2>3 DEF IInv, TypeOK, Holds, Decided, AskFails, TransactFails, MarkFails, Final, Word
    <2>4. CASE AnswerRejected(p)
        BY <1>2, <2>4 DEF IInv, TypeOK, Holds, Decided, AnswerRejected, Final, Word
    <2> QED
        BY <2>1, <2>2, <2>3, <2>4
<1> QED
    BY <1>1, <1>3, <1>4, StoredKept, Assemble

(* The applier's first read concludes only what will stay true. *)
LEMMA PreReadIInv ==
  ASSUME IInv, NEW p \in Proc, PreRead(p)
  PROVE  IInv'
<1> USE DEF order_life, gateway, inbox, PreRead, Goto, Conclude, Finish
<1>1. UNCHANGED <<order_life, gateway, inbox>>
    OBVIOUS
<1>2. answer[p] \in Word /\ (answer[p] \in Final => answer[p] = charge)
    BY DEF IInv, TypeOK, Holds
<1>3. answer[p] \in Final <=> PaymentOf(answer[p]) \in TerminalPayment
    BY <1>2, FinalDecides DEF PaymentOf, TerminalPayment, Final, Word
<1>4. TypeOK'
    BY DEF IInv, TypeOK, SettlementState
<1>5. ASSUME NEW q \in Proc PROVE Holds(q)'
    BY <1>2, <1>3 DEF IInv, TypeOK, Holds, Decided, Final, Word
<1> QED
    BY <1>1, <1>4, <1>5, StoredKept, Assemble

(* A refused transition was refused because everything is decided. *)
LEMMA ConflictIInv ==
  ASSUME IInv, NEW p \in Proc, Conflict(p)
  PROVE  IInv'
<1> USE DEF order_life, gateway, inbox, Conflict, Conclude, Finish
<1>1. UNCHANGED <<order_life, gateway, inbox>>
    OBVIOUS
<1>2. answer[p] \in Final /\ answer[p] = charge
    BY DEF IInv, Holds
<1>3. Decided
    BY <1>2, FinalDecides DEF Refused, Decided
<1>4. TypeOK'
    BY DEF IInv, TypeOK, SettlementState
<1>5. ASSUME NEW q \in Proc PROVE Holds(q)'
    BY <1>3 DEF IInv, TypeOK, Holds, Decided, Final, Word
<1> QED
    BY <1>1, <1>4, <1>5, StoredKept, Assemble

(* What is known of a decided payment or a cancelled order outlives every step   *)
(* of the order's life.                                                         *)
LEMMA KnownStaysKnown ==
  ASSUME IInv, LifeKeeps, UNCHANGED <<charge, attempt, first, inbox>>
  PROVE  /\ Decided => Decided'
         /\ Closed'
         /\ SettledMeansDone'
         /\ \A w \in Final : payment = PaymentOf(w) => payment' = PaymentOf(w)
<1> USE DEF inbox, LifeKeeps
<1>1. Decided => Decided'
    BY DEF Decided
<1>2. \A w \in Final : payment = PaymentOf(w) => payment' = PaymentOf(w)
    BY FinalDecides
<1>3. Closed'
    BY <1>1 DEF IInv, Closed
<1>4. SettledMeansDone'
    BY <1>2 DEF IInv, SettledMeansDone
<1> QED
    BY <1>1, <1>2, <1>3, <1>4

(* The payment and the ledger move together, to what the provider answered. *)
LEMMA AppliedIInv ==
  ASSUME IInv, NEW p \in Proc, Transact(p) \/ CommitUnacknowledged(p)
  PROVE  IInv'
<1>1. /\ Applied(p)
      /\ Conclude(p, "SETTLED") \/ Conclude(p, "VERIFICATION_FAILED")
    BY DEF Transact, CommitUnacknowledged
<1>2. answer[p] \in Final /\ answer[p] = charge /\ attempt = "known"
    BY <1>1 DEF IInv, Holds, Applied
<1>3. payment' = PaymentOf(charge) /\ LifeKeeps
    BY <1>1, <1>2, TransitionDecides DEF IInv, TypeOK, Applied
<1>4. UNCHANGED <<charge, attempt, first, inbox>>
    BY <1>1 DEF Applied
<1>5. PICK at \in Clock : ledger' = [status |-> GatewayStatus(charge), word |-> charge, at |-> at]
    BY <1>1, <1>2 DEF Applied
<1>6. GatewayStatus(charge) \in TerminalGateway /\ PaymentOf(charge) \in TerminalPayment
    BY <1>2, FinalDecides
<1>7. TypeOK'
    BY <1>1, <1>2, <1>3, <1>4, <1>5, <1>6
    DEF IInv, TypeOK, LifeKeeps, inbox, Conclude, Finish, SettlementState, Final
<1>8. Closed' /\ SettledMeansDone' /\ (Decided => Decided')
    BY <1>3, <1>4, KnownStaysKnown
<1>9. Stages'
    BY <1>2, <1>4 DEF IInv, Stages
<1>10. LedgerAgrees'
    BY <1>3, <1>4, <1>5 DEF LedgerAgrees
<1>11. ASSUME NEW q \in Proc PROVE Holds(q)'
    BY <1>1, <1>2, <1>3, <1>4, <1>8 DEF IInv, TypeOK, Holds, Conclude, Finish, Final, Word
<1> QED
    BY <1>7, <1>8, <1>9, <1>10, <1>11, Assemble

(* A conclusion is written that was true when reached, and still is. *)
LEMMA MarkIInv ==
  ASSUME IInv, NEW p \in Proc, Mark(p)
  PROVE  IInv'
<1> USE DEF order_life, gateway, Mark, Finish
<1>1. /\ job[p] \in Word /\ (job[p] \in Final => job[p] = charge)
      /\ conclusion[p] \in SettlementState
    BY DEF IInv, TypeOK, Holds
<1>2. TypeOK'
    BY <1>1 DEF IInv, TypeOK
<1>3. ASSUME NEW q \in Proc PROVE Holds(q)'
    BY DEF IInv, TypeOK, Holds, Decided, Final, Word
<1>4. Stages' /\ LedgerAgrees'
    BY DEF IInv, Stages, LedgerAgrees
<1>5. SettledMeansDone'
    BY <1>1 DEF IInv, TypeOK, Holds, SettledMeansDone
<1>6. Closed'
    <2>1. /\ conclusion[p] = "SETTLED" => Decided
          /\ conclusion[p] = "NOT_ELIGIBLE" /\ job[p] \in Final /\ answer[p] # "none" => Decided
        BY FinalDecides DEF IInv, Holds, Decided
    <2>2. Decided' <=> Decided
        BY DEF Decided
    <2>3. anomalous \subseteq anomalous'
        OBVIOUS
    <2> QED
        BY <1>1, <2>1, <2>2, <2>3 DEF IInv, TypeOK, Closed, TerminalSettlement
<1> QED
    BY <1>2, <1>3, <1>4, <1>5, <1>6, Assemble

(* Everybody else decides payments and cancels orders, and undoes neither. *)
LEMMA OthersIInv ==
  ASSUME IInv, Others
  PROVE  IInv'
<1> USE DEF gateway, inbox, local, Others
<1>1. LifeKeeps
    BY LifeStepKeeps DEF IInv, TypeOK
<1>2. TypeOK'
    BY <1>1 DEF IInv, TypeOK, LifeKeeps
<1>3. /\ Closed' /\ SettledMeansDone' /\ (Decided => Decided')
      /\ \A w \in Final : payment = PaymentOf(w) => payment' = PaymentOf(w)
    BY <1>1, KnownStaysKnown
<1>4. Stages'
    BY DEF IInv, Stages
<1>5. LedgerAgrees'
    <2>1. attempt = "known" /\ charge \notin Final => GatewayStatus(charge) \notin TerminalGateway
        BY DEF IInv, TypeOK, Stages, Final, Word, GatewayStatus, TerminalGateway
    <2> QED
        BY <1>3, <2>1 DEF IInv, LedgerAgrees
<1>6. ASSUME NEW q \in Proc PROVE Holds(q)'
    BY <1>3 DEF IInv, Holds
<1> QED
    BY <1>2, <1>3, <1>4, <1>5, <1>6, Assemble

LEMMA NextIInv == IInv /\ [Next]_vars => IInv'
<1> SUFFICES ASSUME IInv, [Next]_vars PROVE IInv'
    OBVIOUS
<1>1. CASE UNCHANGED vars
    BY <1>1 DEF vars, order_life, gateway, inbox, local, IInv, TypeOK, Stages, Holds, Closed, Decided,
       LedgerAgrees, SettledMeansDone
<1>2. ASSUME NEW p \in Proc, Step(p) \/ Failure(p)
      PROVE  IInv'
    BY <1>2, RecordIInv, AlreadyProcessedIInv, ReadIInv, PreReadIInv, ConflictIInv, AppliedIInv, MarkIInv
    DEF Step, Failure
<1> QED
    BY <1>1, <1>2, InitiationIInv, ProviderIInv, SetOutIInv, OthersIInv DEF Next

LEMMA InvariantHolds == Spec => []IInv
    BY InitIInv, NextIInv, PTL DEF Spec

-----------------------------------------------------------------------------
(* The type invariant. *)
THEOREM GatewayTypes == Spec => []TypeOK
<1>1. IInv => TypeOK
    BY DEF IInv
<1> QED
    BY <1>1, InvariantHolds, PTL

(* The final status of an attempt is the provider's, and its payment's. *)
THEOREM LedgerAgreesWithPayment == Spec => []LedgerAgrees
<1>1. IInv => LedgerAgrees
    BY DEF IInv
<1> QED
    BY <1>1, InvariantHolds, PTL

(* A notification closed as SETTLED is carried out. *)
THEOREM SettledIsCarriedOut == Spec => []SettledMeansDone
<1>1. IInv => SettledMeansDone
    BY DEF IInv
<1> QED
    BY <1>1, InvariantHolds, PTL

(* No news of the charge's end is acknowledged and lost. *)
THEOREM NoNewsLost == Spec => []AckedMeansConcluded
<1>1. IInv => AckedMeansConcluded
    BY DEF IInv, TypeOK, Closed, Decided, AckedMeansConcluded
<1> QED
    BY <1>1, InvariantHolds, PTL

(* A final attempt never moves again. *)
THEOREM AttemptEndsOnce == Spec => LedgerFinal
<1>1. ASSUME IInv, [Next]_vars, ledger.status \in TerminalGateway
      PROVE  ledger'.status = ledger.status
    <2>1. CASE \E p \in Proc : Transact(p) \/ CommitUnacknowledged(p)
        <3>1. PICK p \in Proc : Applied(p)
            BY <2>1 DEF Transact, CommitUnacknowledged
        <3>2. /\ answer[p] \in Final /\ answer[p] = charge /\ attempt = "known"
              /\ payment \in PaymentStatus /\ order \in OrderStatus
            BY <1>1, <3>1 DEF IInv, TypeOK, Holds, Applied
        <3>3. ledger'.status = GatewayStatus(charge)
            BY <3>1, <3>2 DEF Applied
        <3> QED
            BY <1>1, <3>2, <3>3 DEF IInv, LedgerAgrees
    <2>2. CASE \E p \in Proc : Record(p)
        BY <1>1, <2>2 DEF IInv, TypeOK, Record, Snapshot
    <2>3. CASE Initiation
        BY <1>1, <2>3 DEF IInv, Stages, Initiation, OpenAttempt, CallProvider, ChargeErrors, MarkFailed,
           RecordResponse, TerminalGateway
    <2>4. CASE UNCHANGED ledger
        BY <2>4
    <2> QED
        BY <1>1, <2>1, <2>2, <2>3, <2>4 DEF Next, Step, Failure, Provider, CustomerPays, ProviderCloses,
           Deliver, Sweep, AlreadyProcessed, Lookup, AskAnswered, AskFails, AnswerRejected, PreRead, Conflict,
           TransactFails, Mark, MarkFails, Crash, Others, gateway, vars
<1>2. IInv /\ [Next]_vars => [ledger.status \in TerminalGateway => ledger'.status = ledger.status]_vars
    BY <1>1
<1> QED
    BY <1>2, InvariantHolds, PTL DEF Spec, LedgerFinal

-----------------------------------------------------------------------------
(* Why a settled attempt has a paid payment although LedgerAgrees lets a charge  *)
(* that ended at once stand before its payment: no charge is paid at once, and an *)
(* attempt that failed has no other end.                                        *)
PaidLater ==
    /\ first # "settlement"
    /\ attempt = "failed" => ledger.status = "FAILED"

LEMMA PaidLaterKept ==
  ASSUME IInv, PaidLater, [Next]_vars
  PROVE  PaidLater'
<1> USE DEF gateway, PaidLater
<1>1. CASE Initiation
    BY <1>1 DEF IInv, TypeOK, Initiation, OpenAttempt, CallProvider, ChargeErrors, MarkFailed, RecordResponse
<1>2. ASSUME NEW p \in Proc, Record(p)
      PROVE  PaidLater'
    BY <1>2 DEF IInv, TypeOK, Record, Snapshot
<1>3. ASSUME NEW p \in Proc, Transact(p) \/ CommitUnacknowledged(p)
      PROVE  PaidLater'
    <2>1. attempt = "known"
        BY <1>3 DEF IInv, Holds, Transact, CommitUnacknowledged, Applied
    <2> QED
        BY <1>3, <2>1 DEF Transact, CommitUnacknowledged, Applied
<1>4. CASE UNCHANGED <<first, attempt, ledger>>
    BY <1>4
<1> QED
    BY <1>1, <1>2, <1>3, <1>4 DEF Next, Step, Failure, Provider, CustomerPays, ProviderCloses,
       Deliver, Sweep, AlreadyProcessed, Lookup, AskAnswered, AskFails, AnswerRejected, PreRead, Conflict,
       TransactFails, Mark, MarkFails, Crash, Others, vars

(* Money the ledger shows as settled is a paid payment, at every moment and      *)
(* whoever else decides payments: the two rows move in one transaction.          *)
SettlementIsPaid == ledger.status = "SETTLEMENT" => payment = "PAID"

THEOREM MoneyIsKept == Spec => []SettlementIsPaid
<1>1. Init => PaidLater
    BY DEF Init, PaidLater
<1>2. IInv /\ PaidLater /\ [Next]_vars => PaidLater'
    BY PaidLaterKept
<1>3. IInv /\ PaidLater => SettlementIsPaid
    <2> SUFFICES ASSUME IInv, PaidLater, ledger.status = "SETTLEMENT"
                 PROVE  payment = "PAID"
        BY DEF SettlementIsPaid
    <2>1. attempt = "known"
        BY DEF IInv, TypeOK, Stages, PaidLater
    <2>2. GatewayStatus(charge) = "SETTLEMENT"
        BY <2>1 DEF IInv, LedgerAgrees, TerminalGateway
    <2>3. charge = "settlement"
        BY <2>2 DEF IInv, TypeOK, Word, GatewayStatus
    <2> QED
        BY <2>1, <2>3 DEF IInv, LedgerAgrees, TerminalGateway, PaidLater, PaymentOf
<1> QED
    BY <1>1, <1>2, <1>3, InvariantHolds, PTL DEF Spec

=============================================================================
