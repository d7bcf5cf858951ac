------------------------------- MODULE Advisor -------------------------------
(***************************************************************************)
(* The AI advisor (app/services/ai_advisor.py): the conversations of       *)
(* LlmStream, and accept, which enrolls a student in every offering of a   *)
(* recommendation, one after the other, by the write path of Enrollment;   *)
(* EnrollmentProofs shows that one call of enroll is one Take of SeatBook  *)
(* or nothing, which is how it appears here: Enroll.                       *)
(*                                                                         *)
(* The recommendations are external: no code under src/ inserts them.      *)
(***************************************************************************)
EXTENDS SeatBook, LlmStream

CONSTANTS
    Recs,    \* the rows of ai_recommendation_logs
    Owner,   \* Owner[r]: student_id
    Picks    \* Picks[r]: offering_ids

ASSUME RecsAssumption ==
    Owner \in [Recs -> Students] /\ Picks \in [Recs -> Seq(Offerings)]

VARIABLES
    marked,   \* the recommendations with accepted set
    stored,   \* stored[r]: accepted_results
    accept,   \* per handler: the recommendation it accepts, the results so far
    claims    \* history: how often an accept found a row's student "enrolled"

advice == <<marked, stored, accept, claims>>

NoAccept == [results |-> << >>]

Entry == [offering : Offerings, status : {"enrolled", "rejected"}]

AdvisorTypeOK ==
    /\ StreamTypeOK
    /\ marked \subseteq Recs
    /\ stored \in [Recs -> Seq(Entry)]
    /\ accept \in [Handlers -> [rec : Recs, results : Seq(Entry)] \cup {NoAccept}]
    /\ claims \in [Students \X Offerings -> Nat]

AdvisorInit ==
    /\ StreamInit
    /\ marked = {}
    /\ stored = [r \in Recs |-> << >>]
    /\ accept = [h \in Handlers |-> NoAccept]
    /\ claims = [x \in Students \X Offerings |-> 0]

-----------------------------------------------------------------------------
\* accept.  The record is read first; one of another student is NotFound.
\* Whether it was accepted before is not asked.
AcceptBegin(h, r) ==
    /\ accept[h] = NoAccept
    /\ accept' = [accept EXCEPT ![h] = [rec |-> r, results |-> << >>]]
    /\ UNCHANGED <<bookVars, marked, stored, claims>>

\* Handler h is about to enroll its student in offering o.
Tries(h, o) ==
    /\ accept[h] # NoAccept
    /\ Len(accept[h].results) < Len(Picks[accept[h].rec])
    /\ o = Picks[accept[h].rec][Len(accept[h].results) + 1]

For(h) == Owner[accept[h].rec]

Note(h, o, st) ==
    /\ accept' = [accept EXCEPT ![h].results =
                     Append(@, [offering |-> o, status |-> st])]
    /\ claims' = IF st = "enrolled" THEN [claims EXCEPT ![<<For(h), o>>] = @ + 1]
                 ELSE claims
    /\ UNCHANGED <<marked, stored>>

\* A seat is taken: by a student who never had one of o, since the row of a
\* dropped enrollment stays in the way of the INSERT.
Enroll(s, o) == s \notin former[o] /\ Take(s, o)

\* enroll returns: the seat is the student's.
Booked(h, o) == Tries(h, o) /\ Enroll(For(h), o) /\ Note(h, o, "enrolled")

\* Mutant of Rejected: a duplicate is reported as success.
DuplicateIsFine(h, o) ==
    /\ Tries(h, o)
    /\ Note(h, o, IF For(h) \in holders[o] THEN "enrolled" ELSE "rejected")
    /\ UNCHANGED bookVars

\* enroll raises a DomainError: queued, unknown, full, a duplicate, a rule.
Rejected(h, o) == Tries(h, o) /\ Note(h, o, "rejected") /\ UNCHANGED bookVars

\* Mutant of Breaks: the record is marked on the way out as well.
BreaksMarked(h) ==
    /\ accept[h] # NoAccept
    /\ UNCHANGED bookVars
    /\ accept' = [accept EXCEPT ![h] = NoAccept]
    /\ marked' = marked \cup {accept[h].rec}
    /\ stored' = [stored EXCEPT ![accept[h].rec] = accept[h].results]
    /\ UNCHANGED claims

\* Any other exception leaves the loop, a cancelled or killed handler too:
\* the seats taken so far are kept, and so is the last one if its transaction
\* had committed; the record is not marked.
Breaks(h) ==
    /\ accept[h] # NoAccept
    /\ \/ UNCHANGED bookVars
       \/ \E o \in Offerings : Tries(h, o) /\ Enroll(For(h), o)
    /\ accept' = [accept EXCEPT ![h] = NoAccept]
    /\ UNCHANGED <<marked, stored, claims>>

\* SQL_MARK_ACCEPTED, in a transaction of its own.
MarkAccepted(h) ==
    /\ accept[h] # NoAccept
    /\ Len(accept[h].results) = Len(Picks[accept[h].rec])
    /\ marked' = marked \cup {accept[h].rec}
    /\ stored' = [stored EXCEPT ![accept[h].rec] = accept[h].results]
    /\ accept' = [accept EXCEPT ![h] = NoAccept]
    /\ UNCHANGED <<bookVars, claims>>

-----------------------------------------------------------------------------
\* What must hold.

\* A recommendation marked accepted has an answer for each of its offerings,
\* in their order, and an answer "enrolled" tells of a seat that was really
\* the student's, whatever happened to the handler or to other accepts of the
\* same recommendation.
MarkedIsComplete ==
    \A r \in marked :
        /\ Len(stored[r]) = Len(Picks[r])
        /\ \A i \in DOMAIN stored[r] :
              LET e == stored[r][i] IN
              /\ e.offering = Picks[r][i]
              /\ e.status = "enrolled" =>
                     Owner[r] \in holders[e.offering] \cup former[e.offering]

\* A recommendation accepted twice, at once or after a failure, or two that
\* share an offering: one accept at most is told that it enrolled the student.
ClaimedOnce == \A x \in Students \X Offerings : claims[x] <= 1

=============================================================================
