-------------------------- MODULE MCReconciliation --------------------------
(***************************************************************************)
(* Instances of Reconciliation for TLC.                                    *)
(***************************************************************************)
EXTENDS Reconciliation

OneSeat   == [o \in Offerings |-> 1]
NoClash   == {}
PlusMinus == {1, -1}

=============================================================================
