----------------------------- MODULE MCProcesses -----------------------------
(***************************************************************************)
(* Instances of Processes for TLC.                                         *)
(***************************************************************************)
EXTENDS Processes

CONSTANTS a1, a2

\* One enrollment that is dropped again, and another one.
Three == {<<a1, 1>>, <<a1, 2>>, <<a2, 1>>}

=============================================================================
