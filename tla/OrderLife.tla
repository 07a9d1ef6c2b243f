----------------------------- MODULE OrderLife -----------------------------
(***************************************************************************)
(* What the settlement, cancellation and reservation services promise        *)
(* together: each of their operations happens at once, on the payment, the   *)
(* order and all its reservations, or not at all                            *)
(* (PaymentSettlementService, class comment, ATOMICITY).                     *)
(***************************************************************************)
EXTENDS OrderDomain

CONSTANT Item

VARIABLES payment, order, res

vars == <<payment, order, res>>

Init ==
    /\ payment = "PENDING"
    /\ order = "PENDING"
    /\ res = [i \in Item |-> "RESERVED"]

(* The reservations in one of the statuses from go to the status to. *)
Moved(from, to) == [i \in Item |-> IF res[i] \in from THEN to ELSE res[i]]

Settle ==
    /\ payment \notin TerminalPayment
    /\ order # "CANCELLED"
    /\ payment' = "PAID"
    /\ order' = IF order = "PENDING" THEN "PROCESSING" ELSE order
    /\ res' = Moved({"RESERVED"}, "COMMITTED")

(* cancelAndRestock *)
CancelAndRestock(release) ==
    /\ order \in Cancellable
    /\ order' = "CANCELLED"
    /\ res' = Moved({"RESERVED", "COMMITTED"}, release)

(* fail and expire: the payment ends, and with it the order if it still can. *)
EndUnpaid(outcome, release) ==
    /\ payment \notin TerminalPayment
    /\ payment' = outcome
    /\ \/ CancelAndRestock(release)
       \/ order \notin Cancellable /\ UNCHANGED <<order, res>>

Cancel ==
    /\ CancelAndRestock("RELEASED")
    /\ UNCHANGED payment

ExpireHold(i) ==
    /\ res[i] = "RESERVED"
    /\ res' = [res EXCEPT ![i] = "EXPIRED"]
    /\ UNCHANGED <<payment, order>>

UploadReceipt ==
    /\ payment \in Uploadable
    /\ payment' = "WAITING_VERIFICATION"
    /\ UNCHANGED <<order, res>>

AdvanceOrder(target) ==
    /\ target # "CANCELLED"
    /\ order \in SourcesFor(target)
    /\ order' = target
    /\ UNCHANGED <<payment, res>>

(* The courier reports its parcel cancelled: the order ends and nothing is restocked. *)
CourierCancelsOrder ==
    /\ order \in SourcesFor("CANCELLED")
    /\ order' = "CANCELLED"
    /\ UNCHANGED <<payment, res>>

Next ==
    \/ Settle
    \/ EndUnpaid("FAILED", "RELEASED")
    \/ EndUnpaid("EXPIRED", "EXPIRED")
    \/ Cancel
    \/ \E i \in Item : ExpireHold(i)
    \/ UploadReceipt
    \/ \E target \in OrderStatus : AdvanceOrder(target)
    \/ CourierCancelsOrder

Spec == Init /\ [][Next]_vars

=============================================================================
