------------------------------ MODULE SeatBook ------------------------------
(***************************************************************************)
(* What the write path of course selection promises, with every lock,      *)
(* retry and cache taken away: each offering has a size and a set of       *)
(* students who hold a seat.  A seat is given in one step, only while one  *)
(* is free, and never twice at a time to one student; it is given back in  *)
(* one step.  The book remembers who gave a seat back and has none; it     *)
(* does not say whether such a student may be seated again: the code       *)
(* refuses, a test expects it (SwapAllOrNothing of Enrollment).            *)
(* The administrator may change the size, never below the number of seats  *)
(* already taken.                                                          *)
(***************************************************************************)
EXTENDS Naturals, FiniteSets

CONSTANTS Students, Offerings

VARIABLES
    size,      \* size[o]: number of seats of offering o
    holders,   \* holders[o]: students seated in o
    former     \* former[o]: students who gave up a seat of o and hold none

bookVars == <<size, holders, former>>

BookInit ==
    /\ size \in [Offerings -> Nat]
    /\ holders = [o \in Offerings |-> {}]
    /\ former = [o \in Offerings |-> {}]

\* Student s is given a seat of offering o.
Take(s, o) ==
    /\ s \notin holders[o]
    /\ Cardinality(holders[o]) < size[o]
    /\ holders' = [holders EXCEPT ![o] = @ \cup {s}]
    /\ former' = [former EXCEPT ![o] = @ \ {s}]
    /\ UNCHANGED size

\* Student s gives the seat back.
Leave(s, o) ==
    /\ s \in holders[o]
    /\ holders' = [holders EXCEPT ![o] = @ \ {s}]
    /\ former' = [former EXCEPT ![o] = @ \cup {s}]
    /\ UNCHANGED size

\* The administrator changes the number of seats of o.
Resize(o) ==
    /\ size' \in [Offerings -> Nat]
    /\ \A p \in Offerings \ {o} : size'[p] = size[p]
    /\ size'[o] >= Cardinality(holders[o])
    /\ UNCHANGED <<holders, former>>

BookNext ==
    \E o \in Offerings :
        \/ \E s \in Students : Take(s, o) \/ Leave(s, o)
        \/ Resize(o)

BookSpec == BookInit /\ [][BookNext]_bookVars

\* A lottery gives several seats in one step, of one offering or of several,
\* none to who gave one up: winners[o] are the students who get one of o.
TakeMany ==
    \E winners \in [Offerings -> SUBSET Students] :
        /\ \A o \in Offerings :
              /\ winners[o] \cap (holders[o] \cup former[o]) = {}
              /\ Cardinality(holders[o] \cup winners[o]) <= size[o]
        /\ holders' = [o \in Offerings |-> holders[o] \cup winners[o]]
        /\ UNCHANGED <<size, former>>

LotterySpec == BookInit /\ [][BookNext \/ TakeMany]_bookVars

=============================================================================
