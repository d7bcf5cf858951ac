------------------------- MODULE MCOutboxPublisher -------------------------
(***************************************************************************)
(* Instances of OutboxPublisher for TLC.                                   *)
(***************************************************************************)
EXTENDS OutboxPublisher, TLC

Symmetry == Permutations(Aggregates) \cup Permutations(Publishers)

=============================================================================
