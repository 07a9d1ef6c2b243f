---------------------------- MODULE OrderDomain ----------------------------
(***************************************************************************)
(* The statuses of an order, its payment and its reservations, and the legal *)
(* order transitions (orders/domain/order-status-transitions.ts and the      *)
(* status sets of payments/settlement and orders).                          *)
(***************************************************************************)

TerminalPayment == {"PAID", "FAILED", "EXPIRED"}
PaymentStatus   == {"PENDING", "WAITING_VERIFICATION"} \cup TerminalPayment
ExpiryEligible  == {"PENDING", "WAITING_VERIFICATION"}
Uploadable      == {"PENDING", "WAITING_VERIFICATION"}

ActiveOrder == {"PENDING", "PROCESSING", "PACKING", "SHIPPED", "DELIVERING"}
OrderStatus == ActiveOrder \cup {"DELIVERED", "COMPLETED", "CANCELLED"}

ReservationStatus == {"RESERVED", "COMMITTED", "RELEASED", "EXPIRED"}

(* Mutant: an order is cancellable only until it is packed. *)
CancellableEarly == {"PENDING", "PROCESSING"}

(* The whitelist of cancelAndRestock. *)
Cancellable == ActiveOrder

(* ORDER_STATUS_TRANSITIONS *)
Successors(s) ==
    CASE s = "PENDING"    -> {"PROCESSING", "PACKING", "SHIPPED", "DELIVERING", "DELIVERED", "CANCELLED"}
      [] s = "PROCESSING" -> {"PACKING", "SHIPPED", "DELIVERING", "DELIVERED", "CANCELLED"}
      [] s = "PACKING"    -> {"SHIPPED", "DELIVERING", "DELIVERED", "CANCELLED"}
      [] s = "SHIPPED"    -> {"DELIVERING", "DELIVERED", "CANCELLED"}
      [] s = "DELIVERING" -> {"DELIVERED", "CANCELLED"}
      [] s = "DELIVERED"  -> {"COMPLETED"}
      [] OTHER            -> {}

(* orderStatusSourcesFor, the IN (...) list of the CAS. *)
SourcesFor(target) == {s \in OrderStatus : target \in Successors(s)}

=============================================================================
