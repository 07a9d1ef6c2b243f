--------------------------- MODULE GatewayPayment ---------------------------
(***************************************************************************)
(* One charge at the payment gateway (Midtrans) and everybody who learns of *)
(* its fate: checkout opens the attempt and calls the provider              *)
(* (PaymentInitiationService), notifications are recorded and concluded     *)
(* (PaymentWebhookService), and the reconciliation worker asks on its own.  *)
(* Both end in GatewayStatusApplier, which moves the payment.               *)
(*                                                                         *)
(* Notifications may be lost, repeated and reordered; a request may die     *)
(* between any two of its database calls; the status API may fail or answer *)
(* something that does not verify.  Meanwhile admins, customers, couriers    *)
(* and the expiry worker move the same payment and order.                    *)
(*                                                                         *)
(* Composed with OrderLife: settle, fail and expire are single steps here,  *)
(* which OrderSettlement justifies (Serializable).                          *)
(***************************************************************************)
EXTENDS Integers, OrderDomain

CONSTANTS
    Proc,       \* concurrent webhook requests and reconciliation sweeps
    Item,       \* the products of the order
    Closing,    \* the ways the provider closes a charge nobody paid
    Clock       \* hours after the charge at which a settlement may run

ASSUME ConstantsAssumption ==
    /\ Closing \subseteq {"deny", "cancel", "expire"}
    /\ Clock \subseteq Nat \ {0}

(* What the provider says of the charge (transaction_status). *)
Word  == {"pending", "settlement"} \cup Closing
Final == Word \ {"pending"}

(* Mutant: the provider's word is stored unmapped. *)
GatewayStatusVerbatim(w) == w

(* mapMidtransStatus *)
GatewayStatus(w) ==
    CASE w = "settlement" -> "SETTLEMENT"
      [] w = "deny"       -> "FAILED"
      [] w = "cancel"     -> "CANCELLED"
      [] w = "expire"     -> "EXPIRED"
      [] OTHER            -> "PENDING"

TerminalGateway == {"SETTLEMENT", "FAILED", "CANCELLED", "EXPIRED"}

(* mapGatewayStatusToPaymentStatus, of a verified answer *)
PaymentOf(w) ==
    CASE w = "settlement"         -> "PAID"
      [] w \in {"deny", "cancel"} -> "FAILED"
      [] w = "expire"             -> "EXPIRED"
      [] OTHER                    -> "PENDING"

SettlementState == {"RECEIVED", "SETTLED", "NOT_ELIGIBLE", "VERIFICATION_FAILED"}

(* Mutant: a recorded notification is not processed again. *)
TerminalSettlementOnReceipt == {"SETTLED", "NOT_ELIGIBLE", "RECEIVED"}

(* TERMINAL_SETTLEMENT_STATES *)
TerminalSettlement == {"SETTLED", "NOT_ELIGIBLE"}

(* Hours on the two clocks.  A notification carries local time (UTC+7) which is *)
(* read as UTC; only a settlement has a time of its own, every other word the    *)
(* time the charge was opened.  The server's clock is UTC.                       *)
Never     == 0
WIB       == 7
Stamp(w)  == IF w = "settlement" THEN WIB + 1 ELSE WIB

VARIABLES
    payment, order, res,    \* OrderLife
    charge,     \* the charge at the provider
    attempt,    \* how far initiate has come; "known": the row has the charged order id
    first,      \* the word the charge call answered with
    ledger,     \* PaymentGatewayTransaction: status, providerStatus, providerStatusAt
    event,      \* [Word -> settlementState of the PaymentWebhookEvent, or "none"]
    acked,      \* notifications answered 200 after their conclusion (history)
    anomalous,  \* notifications closed on an answer that did not verify (history)
    pc, job,    \* requests and sweeps: the next step, the notification or "sweep"
    answer,     \* the verified word of the status API
    conclusion  \* the settlementState a request is about to write

order_life == <<payment, order, res>>
gateway    == <<charge, attempt, first, ledger>>
inbox      == <<event, acked, anomalous>>
local      == <<pc, job, answer, conclusion>>
vars       == <<order_life, gateway, inbox, local>>

Life == INSTANCE OrderLife

TypeOK ==
    /\ payment \in PaymentStatus
    /\ order \in OrderStatus
    /\ charge \in Word \cup {"none"}
    /\ attempt \in {"none", "open", "failing", "failed", "charged", "known"}
    /\ first \in Word \cup {"none"}
    /\ ledger \in [status: {"PENDING"} \cup TerminalGateway, word: Word \cup {"none"}, at: Nat]
    /\ event \in [Word -> SettlementState \cup {"none"}]
    /\ acked \subseteq Word
    /\ anomalous \subseteq Word
    /\ pc \in [Proc -> {"idle", "record", "lookup", "ask", "read", "apply", "mark"}]
    /\ job \in [Proc -> Word \cup {"sweep", "none"}]
    /\ answer \in [Proc -> Word \cup {"none"}]
    /\ conclusion \in [Proc -> SettlementState \cup {"none"}]

Init ==
    /\ Life!Init
    /\ charge = "none"
    /\ attempt = "none"
    /\ first = "none"
    /\ ledger = [status |-> "PENDING", word |-> "none", at |-> Never]
    /\ event = [w \in Word |-> "none"]
    /\ acked = {}
    /\ anomalous = {}
    /\ pc = [p \in Proc |-> "idle"]
    /\ job = [p \in Proc |-> "none"]
    /\ answer = [p \in Proc |-> "none"]
    /\ conclusion = [p \in Proc |-> "none"]

-----------------------------------------------------------------------------
(* Initiation, once per payment, after the checkout has committed.  Until the   *)
(* provider's answer is recorded the row carries the bare order number, which    *)
(* matches no notification and no charge at the provider.                       *)

(* openPricedAttempt: the payment must still be PENDING. *)
OpenAttempt ==
    /\ attempt = "none"
    /\ payment = "PENDING"
    /\ attempt' = "open"
    /\ UNCHANGED <<order_life, charge, first, ledger, inbox, local>>

(* createCharge answers; a denial is an answer too. *)
CallProvider(w) ==
    /\ attempt = "open"
    /\ w \in Word \ {"settlement", "expire"}
    /\ charge' = w
    /\ first' = w
    /\ attempt' = "charged"
    /\ UNCHANGED <<order_life, ledger, inbox, local>>

(* createCharge throws, with or without a charge left behind at the provider. *)
ChargeErrors(w) ==
    /\ attempt = "open"
    /\ w \in {"none", "pending"}
    /\ charge' = w
    /\ attempt' = "failing"
    /\ UNCHANGED <<order_life, first, ledger, inbox, local>>

MarkFailed ==
    /\ attempt = "failing"
    /\ ledger.status \notin TerminalGateway
    /\ ledger' = [ledger EXCEPT !.status = "FAILED"]
    /\ attempt' = "failed"
    /\ UNCHANGED <<order_life, charge, first, inbox, local>>

(* updateGatewayResponse *)
RecordResponse ==
    /\ attempt = "charged"
    /\ ledger' = [ledger EXCEPT !.status = GatewayStatus(first)]
    /\ attempt' = "known"
    /\ UNCHANGED <<order_life, charge, first, inbox, local>>

-----------------------------------------------------------------------------
(* The provider (external) *)

(* The customer pays on the instructions the checkout answered with. *)
CustomerPays ==
    /\ attempt = "known"
    /\ charge = "pending"
    /\ charge' = "settlement"
    /\ UNCHANGED <<order_life, attempt, first, ledger, inbox, local>>

ProviderCloses(w) ==
    /\ charge = "pending"
    /\ w \in Closing
    /\ charge' = w
    /\ UNCHANGED <<order_life, attempt, first, ledger, inbox, local>>

(* Notifications it may deliver, any number of times and in any order. *)
Sent(w) == charge # "none" /\ w \in {"pending", charge}

-----------------------------------------------------------------------------
(* Processes *)

Finish(p) ==
    /\ pc' = [pc EXCEPT ![p] = "idle"]
    /\ job' = [job EXCEPT ![p] = "none"]
    /\ answer' = [answer EXCEPT ![p] = "none"]
    /\ conclusion' = [conclusion EXCEPT ![p] = "none"]

Goto(p, at) ==
    /\ pc' = [pc EXCEPT ![p] = at]
    /\ UNCHANGED <<job, answer, conclusion>>

(* A webhook writes its conclusion next; a sweep has nothing more to do. *)
Conclude(p, c) ==
    IF job[p] = "sweep"
    THEN Finish(p)
    ELSE /\ pc' = [pc EXCEPT ![p] = "mark"]
         /\ conclusion' = [conclusion EXCEPT ![p] = c]
         /\ UNCHANGED <<job, answer>>

(* A signed notification.  Before the attempt is known it is acknowledged as     *)
(* unknown_transaction and changes nothing.                                      *)
Deliver(p, w) ==
    /\ pc[p] = "idle"
    /\ Sent(w)
    /\ attempt = "known"
    /\ pc' = [pc EXCEPT ![p] = "record"]
    /\ job' = [job EXCEPT ![p] = w]
    /\ UNCHANGED <<order_life, gateway, inbox, answer, conclusion>>

Newer(w) == ledger.at = Never \/ ledger.at <= Stamp(w)

(* Mutant: the snapshot moves the status of the attempt too. *)
SnapshotMapped(w) ==
    IF Newer(w) THEN [status |-> GatewayStatus(w), word |-> w, at |-> Stamp(w)] ELSE ledger

(* The snapshot of the attempt, unless an unambiguously newer one is there. *)
Snapshot(w) ==
    IF Newer(w) THEN [status |-> ledger.status, word |-> w, at |-> Stamp(w)] ELSE ledger

(* recordWebhookNotification: the unique fingerprint admits the first delivery. *)
Record(p) ==
    LET w == job[p]
    IN  /\ pc[p] = "record"
        /\ \/ /\ event[w] = "none"
              /\ event' = [event EXCEPT ![w] = "RECEIVED"]
              /\ ledger' = Snapshot(w)
           \/ /\ event[w] # "none"
              /\ UNCHANGED <<event, ledger>>
        /\ Goto(p, "lookup")
        /\ UNCHANGED <<order_life, charge, attempt, first, acked, anomalous>>

(* findWebhookEvent: a concluded notification is acknowledged at once. *)
AlreadyProcessed(p) ==
    /\ pc[p] = "lookup"
    /\ event[job[p]] \in TerminalSettlement
    /\ acked' = acked \cup {job[p]}
    /\ Finish(p)
    /\ UNCHANGED <<order_life, gateway, event, anomalous>>

Lookup(p) ==
    /\ pc[p] = "lookup"
    /\ event[job[p]] \notin TerminalSettlement
    /\ Goto(p, "ask")
    /\ UNCHANGED <<order_life, gateway, inbox>>

(* Mutant: charges whose notifications have all concluded are skipped. *)
CandidateUnconcluded ==
    /\ attempt = "known"
    /\ ledger.status \notin TerminalGateway
    /\ payment \in ExpiryEligible
    /\ \/ \A w \in Word : event[w] = "none"
       \/ \E w \in Word : event[w] \in {"RECEIVED", "VERIFICATION_FAILED"}

(* findCandidates: open on both sides.  (An attempt that is not yet known is      *)
(* asked about under an id the provider does not have, and left alone.)          *)
Candidate ==
    /\ attempt = "known"
    /\ ledger.status \notin TerminalGateway
    /\ payment \in ExpiryEligible

Sweep(p) ==
    /\ pc[p] = "idle"
    /\ Candidate
    /\ pc' = [pc EXCEPT ![p] = "ask"]
    /\ job' = [job EXCEPT ![p] = "sweep"]
    /\ UNCHANGED <<order_life, gateway, inbox, answer, conclusion>>

-----------------------------------------------------------------------------
(* The status API *)

AskAnswered(p) ==
    /\ pc[p] = "ask"
    /\ answer' = [answer EXCEPT ![p] = charge]
    /\ pc' = [pc EXCEPT ![p] = "read"]
    /\ UNCHANGED <<order_life, gateway, inbox, job, conclusion>>

(* No answer: nothing is concluded. *)
AskFails(p) ==
    /\ pc[p] = "ask"
    /\ Conclude(p, "VERIFICATION_FAILED")
    /\ UNCHANGED <<order_life, gateway, inbox>>

(* verifyMidtransStatusResponse: malformed, another order, another amount. *)
AnswerRejected(p) ==
    /\ pc[p] = "ask"
    /\ Conclude(p, "NOT_ELIGIBLE")
    /\ UNCHANGED <<order_life, gateway, inbox>>

-----------------------------------------------------------------------------
(* GatewayStatusApplier.apply *)

(* The read before the transaction: a pending charge warrants nothing, a payment  *)
(* already there is a replay, one that ended otherwise is a conflict.            *)
PreRead(p) ==
    LET target == PaymentOf(answer[p])
    IN  /\ pc[p] = "read"
        /\ \/ /\ target \notin TerminalPayment
              /\ Conclude(p, "NOT_ELIGIBLE")
           \/ /\ target \in TerminalPayment /\ payment = target
              /\ Conclude(p, "SETTLED")
           \/ /\ target \in TerminalPayment /\ payment \in TerminalPayment \ {target}
              /\ Conclude(p, "NOT_ELIGIBLE")
           \/ /\ target \in TerminalPayment /\ payment \notin TerminalPayment
              /\ Goto(p, "apply")
        /\ UNCHANGED <<order_life, gateway, inbox>>

(* settle, fail or expire, with the ledger row in the same transaction. *)
Transition(w) ==
    \/ PaymentOf(w) = "PAID" /\ Life!Settle
    \/ PaymentOf(w) = "FAILED" /\ Life!EndUnpaid("FAILED", "RELEASED")
    \/ PaymentOf(w) = "EXPIRED" /\ Life!EndUnpaid("EXPIRED", "EXPIRED")

Applied(p) ==
    /\ pc[p] = "apply"
    /\ Transition(answer[p])
    /\ \E at \in Clock :
           ledger' = [status |-> GatewayStatus(answer[p]), word |-> answer[p], at |-> at]
    /\ UNCHANGED <<charge, attempt, first, inbox>>

Transact(p) ==
    /\ Applied(p)
    /\ Conclude(p, "SETTLED")

(* The compare-and-swap lost, or the order is cancelled: ConflictException. *)
Refused(w) ==
    \/ payment \in TerminalPayment
    \/ PaymentOf(w) = "PAID" /\ order = "CANCELLED"

(* Mutant: a refused transition is concluded like an applied one. *)
ConflictIsSettled(p) ==
    /\ pc[p] = "apply"
    /\ Refused(answer[p])
    /\ Conclude(p, "SETTLED")
    /\ UNCHANGED <<order_life, gateway, inbox>>

(* Mutant: the ledger is written although the transition was refused. *)
ConflictRecords(p) ==
    /\ pc[p] = "apply"
    /\ Refused(answer[p])
    /\ ledger' = [ledger EXCEPT !.status = GatewayStatus(answer[p])]
    /\ Conclude(p, "NOT_ELIGIBLE")
    /\ UNCHANGED <<order_life, charge, attempt, first, inbox>>

Conflict(p) ==
    /\ pc[p] = "apply"
    /\ Refused(answer[p])
    /\ Conclude(p, "NOT_ELIGIBLE")
    /\ UNCHANGED <<order_life, gateway, inbox>>

(* Any other error, with the transaction rolled back ... *)
TransactFails(p) ==
    /\ pc[p] = "apply"
    /\ Conclude(p, "VERIFICATION_FAILED")
    /\ UNCHANGED <<order_life, gateway, inbox>>

(* ... or committed and the acknowledgement lost. *)
CommitUnacknowledged(p) ==
    /\ Applied(p)
    /\ Conclude(p, "VERIFICATION_FAILED")

-----------------------------------------------------------------------------
(* markWebhookSettlementState, then 200, or 503 if nothing was concluded. *)
Mark(p) ==
    LET w == job[p]
        c == conclusion[p]
    IN  /\ pc[p] = "mark"
        /\ event' = [event EXCEPT ![w] = c]
        /\ acked' = IF c \in TerminalSettlement THEN acked \cup {w} ELSE acked
        /\ anomalous' = IF c = "NOT_ELIGIBLE" /\ answer[p] = "none" THEN anomalous \cup {w}
                                                                    ELSE anomalous
        /\ Finish(p)
        /\ UNCHANGED <<order_life, gateway>>

(* Writing the applier's conclusion fails inside its try: the catch writes another. *)
MarkFails(p) ==
    /\ pc[p] = "mark"
    /\ answer[p] # "none"
    /\ conclusion[p] # "VERIFICATION_FAILED"
    /\ conclusion' = [conclusion EXCEPT ![p] = "VERIFICATION_FAILED"]
    /\ UNCHANGED <<order_life, gateway, inbox, pc, job, answer>>

(* The process is lost, or a database call outside any try fails. *)
Crash(p) ==
    /\ pc[p] # "idle"
    /\ Finish(p)
    /\ UNCHANGED <<order_life, gateway, inbox>>

(* Everybody else: admins, customers, couriers, the expiry worker. *)
Others ==
    /\ Life!Next
    /\ UNCHANGED <<gateway, inbox, local>>

-----------------------------------------------------------------------------
Step(p) ==
    \/ Record(p)
    \/ AlreadyProcessed(p)
    \/ Lookup(p)
    \/ AskAnswered(p)
    \/ PreRead(p)
    \/ Transact(p)
    \/ Conflict(p)
    \/ Mark(p)

Failure(p) ==
    \/ AskFails(p)
    \/ AnswerRejected(p)
    \/ TransactFails(p)
    \/ CommitUnacknowledged(p)
    \/ MarkFails(p)
    \/ Crash(p)

Initiation ==
    \/ OpenAttempt
    \/ \E w \in Word : CallProvider(w)
    \/ \E w \in {"none", "pending"} : ChargeErrors(w)
    \/ MarkFailed
    \/ RecordResponse

Provider ==
    \/ CustomerPays
    \/ \E w \in Closing : ProviderCloses(w)

Next ==
    \/ Initiation
    \/ Provider
    \/ \E p \in Proc : \/ \E w \in Word : Deliver(p, w)
                       \/ Sweep(p)
                       \/ Step(p)
                       \/ Failure(p)
    \/ Others

Spec == Init /\ [][Next]_vars

(* The reconciliation worker reschedules itself after every sweep, and a request *)
(* that is not lost runs on.  Nothing is assumed of notifications.               *)
Fairness == \A p \in Proc : SF_vars(Sweep(p)) /\ SF_vars(Step(p))

FairSpec == Spec /\ Fairness

-----------------------------------------------------------------------------
(* The attempt's final status is the provider's, and it is reached together with *)
(* the payment's: a settled attempt never stands against an unpaid payment,      *)
(* whichever of webhook, sweep, admin and expiry came first.  Only a charge that *)
(* was denied at once is final before its payment.                              *)
LedgerAgrees ==
    attempt = "known" /\ ledger.status \in TerminalGateway =>
        /\ ledger.status = GatewayStatus(charge)
        /\ first = charge \/ payment = PaymentOf(charge)

(* A notification closed as SETTLED left the payment as the provider says, by     *)
(* this delivery or an earlier one.                                             *)
SettledMeansDone ==
    \A w \in Word : event[w] = "SETTLED" => charge \in Final /\ payment = PaymentOf(charge)

(* No notification of the charge's fate is acknowledged, and so never sent again, *)
(* while the money is still undecided; unless the provider's answer made no sense. *)
AckedMeansConcluded ==
    \A w \in acked \ anomalous :
        w \in Final => \/ payment \in TerminalPayment
                       \/ w = "settlement" /\ order = "CANCELLED"

(* "an out-of-order or replayed provider callback can never walk a settled        *)
(* attempt backwards" (transition of the persistence service).                   *)
LedgerFinal ==
    [][ledger.status \in TerminalGateway => ledger'.status = ledger.status]_vars

(* A failure rather than the normal end of a sweep. *)
Fails == \E p \in Proc : Failure(p) /\ ~Step(p)

(* Once requests and the provider stop failing, a charge that has ended decides   *)
(* its payment although every notification of it may be lost.                    *)
Decided == payment \in TerminalPayment \/ (charge = "settlement" /\ order = "CANCELLED")

Recovered ==
    <>[][~Fails]_vars =>
        ((attempt = "known" /\ charge \in Final /\ ledger.status \notin TerminalGateway) ~> Decided)

-----------------------------------------------------------------------------
(* The inductive invariant behind the safety properties. *)

(* What is known of the charge at each stage of the attempt. *)
Stages ==
    /\ attempt \in {"none", "open"} => charge = "none"
    /\ attempt \in {"charged", "known"} => charge # "none" /\ first # "none"
    /\ first \in Final => charge = first
    /\ attempt \in {"none", "open", "failing", "charged"} => ledger.status = "PENDING"
    /\ charge = "settlement" => attempt = "known"

(* What a process holds is still true of the charge: final words never change. *)
Holds(p) ==
    /\ pc[p] # "idle" => attempt = "known"
    /\ pc[p] = "idle" <=> job[p] = "none"
    /\ pc[p] \in {"record", "lookup", "mark"} => job[p] \in Word
    /\ job[p] \in Final => job[p] = charge
    /\ pc[p] \in {"idle", "record", "lookup", "ask"} => answer[p] = "none"
    /\ pc[p] \in {"read", "apply"} => answer[p] # "none"
    /\ answer[p] \in Final => answer[p] = charge
    /\ answer[p] = "pending" => job[p] \notin Final
    /\ pc[p] = "apply" => answer[p] \in Final
    /\ pc[p] = "mark" <=> conclusion[p] # "none"
    /\ conclusion[p] = "SETTLED" => charge \in Final /\ payment = PaymentOf(charge)
    /\ conclusion[p] = "NOT_ELIGIBLE" /\ job[p] \in Final /\ answer[p] # "none" => Decided

(* So does a notification that was closed. *)
Closed ==
    \A w \in Final :
        /\ event[w] # "none" \/ w \in acked => w = charge
        /\ event[w] \in TerminalSettlement \/ w \in acked => w \in anomalous \/ Decided

IInv ==
    /\ TypeOK
    /\ Stages
    /\ \A p \in Proc : Holds(p)
    /\ Closed
    /\ LedgerAgrees
    /\ SettledMeansDone

=============================================================================
