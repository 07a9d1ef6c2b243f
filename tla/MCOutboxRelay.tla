--------------------------- MODULE MCOutboxRelay ---------------------------
(* OutboxRelay for TLC. *)
EXTENDS OutboxRelay, TLC

Symmetry == Permutations(Relay)

=============================================================================
