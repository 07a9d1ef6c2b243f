------------------------- MODULE MCShipmentBooking -------------------------
(* ShipmentBooking for TLC. *)
EXTENDS ShipmentBooking, TLC

Symmetry == Permutations(Proc)

=============================================================================
