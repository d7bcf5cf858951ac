------------------------------ MODULE MCLottery ------------------------------
(***************************************************************************)
(* Instances of Lottery for TLC.                                           *)
(***************************************************************************)
EXTENDS Lottery, TLC

CONSTANT Sought  \* the offering of the requests

OneSeat    == [o \in Offerings |-> 1]
NoClash    == {}
AllIntents == Rows
OneCourse  == {<<s, o>> \in Rows : o = Sought}
FirstShard == [o \in Offerings |-> 0]
Symmetry   == Permutations(Runs) \cup Permutations(Students)

=============================================================================
