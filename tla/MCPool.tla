------------------------------- MODULE MCPool -------------------------------
(***************************************************************************)
(* Instances of Pool for TLC: two students who contend for one offering    *)
(* and swap theirs for each other's.                                       *)
(***************************************************************************)
EXTENDS Pool, TLC

OneSeat  == [o \in Offerings |-> 1]
NoClash  == {}
CONSTANTS s1, s2, o1, o2

Contended == {<<s1, o1>>, <<s2, o1>>, <<s2, o2>>}
OwnSwaps  == {q \in Contended \X Rows : q[1][1] = q[2][1] /\ q[1] # q[2]}

=============================================================================
