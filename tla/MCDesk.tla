------------------------------- MODULE MCDesk -------------------------------
(***************************************************************************)
(* Instances of Desk for TLC.                                              *)
(***************************************************************************)
EXTENDS Desk, TLC

CONSTANTS s1, o1, o2, o3, r1, h1, h2, n1, n2

\* o2 and o3 are classes of one course.
MCCode  == o1 :> 2 @@ o2 :> 1 @@ o3 :> 1
MCSeats == o1 :> 1 @@ o2 :> 1 @@ o3 :> 0
MCOwner == r1 :> s1
MCPicks == r1 :> <<o1, o2>>
\* One handler serves everything but searches and the other what can
\* interfere, or one of them serves searches, which nothing but a refresh
\* interferes with.
MCMixes ==
    { h1 :> Kinds \ {"search"} @@ h2 :> {"accept", "ask"},
      h1 :> {"search"} @@ h2 :> {} }
MCFilters == {Offerings \X Names, Offerings \X {n1}}

=============================================================================
