---------------------- MODULE MCNotificationPipeline ----------------------
(* NotificationPipeline for TLC. *)
EXTENDS NotificationPipeline, TLC

Symmetry == Permutations(Handler) \cup Permutations(Sender) \cup Permutations(Copy)

=============================================================================
