---------------------------- MODULE MCEnrollment ----------------------------
(***************************************************************************)
(* Instances of Enrollment for TLC.  The students, keys and workers are    *)
(* model values; the offerings are too, with their seats given here.       *)
(***************************************************************************)
EXTENDS Enrollment, TLC

\* One seat in every offering: the smallest course that can be oversold.
OneSeat == [o \in Offerings |-> 1]

NoClash  == {}
\* Any two offerings overlap in time, as one always does with itself.
AllClash == Offerings \X Offerings

Symmetry ==
    Permutations(Students) \cup Permutations(Workers) \cup Permutations(Keys)

=============================================================================
