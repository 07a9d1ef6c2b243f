-------------------------- MODULE MCGatewayPayment --------------------------
(* GatewayPayment for TLC: a charge that may be paid or expire. *)
EXTENDS GatewayPayment, TLC

Symmetry == Permutations(Proc)

=============================================================================
