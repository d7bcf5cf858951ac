----------------------------- MODULE RuleEngine -----------------------------
(***************************************************************************)
(* The rules an enrollment is judged by (app/services/rule_engine.py), as  *)
(* operators: the engine does no I/O and keeps no state.                   *)
(*                                                                         *)
(* A context ctx is a record of the fields of RuleContext the rules read:  *)
(*   target      the offering asked for                                    *)
(*   existing    the set of offerings the student is enrolled in           *)
(*   passed      the set of course codes passed                            *)
(*   curriculum  the set of curriculum rules of the student's plan         *)
(*   credits     current_total_credit + target_credit                      *)
(*   cap         credit_cap                                                *)
(*   override    allow_override                                            *)
(* An offering has a course (its course_code), slots and a campus; a slot  *)
(* a day and a set of periods.  The weeks of a slot are kept by no         *)
(* definition here: no rule reads them.  A violation is its error code and *)
(* its severity, and a rule answers with a set of at most one.             *)
(***************************************************************************)
EXTENDS Integers, FiniteSetsExt

CONSTANT NoCampus   \* campus is None

PeriodsOverlap(p, q) == p \cap q # {}

PeriodsAdjacent(p, q) ==
    /\ p # {} /\ q # {}
    /\ Min(p) - Max(q) = 1 \/ Min(q) - Max(p) = 1

\* Some slot of offering o and some slot of offering e meet in time.
TimesMeet(o, e) ==
    \E a \in o.slots, b \in e.slots :
        a.day = b.day /\ PeriodsOverlap(a.periods, b.periods)

SlotsAdjacent(o, e) ==
    \E a \in o.slots, b \in e.slots :
        a.day = b.day /\ PeriodsAdjacent(a.periods, b.periods)

Violated(condition, code, severity) ==
    IF condition THEN {[code |-> code, severity |-> severity]} ELSE {}

-----------------------------------------------------------------------------
\* The rules.  Rules of the curriculum name courses: those a subject
\* requires, or those of a group that exclude one another.

\* Mutant of TimeConflictRule: only the offerings of other courses count.
TimeConflictOtherCourses(ctx) ==
    Violated(\E e \in ctx.existing :
                e.course # ctx.target.course /\ TimesMeet(ctx.target, e),
             "TIME_CONFLICT", "hard")

TimeConflictRule(ctx) ==
    Violated(\E e \in ctx.existing : TimesMeet(ctx.target, e),
             "TIME_CONFLICT", "hard")

PrerequisiteRule(ctx) ==
    Violated(\E r \in ctx.curriculum :
                /\ r.type = "prerequisite"
                /\ r.subject = ctx.target.course
                /\ ~ r.courses \subseteq ctx.passed,
             "PREREQUISITE", "hard")

ExclusiveRule(ctx) ==
    Violated(\E r \in ctx.curriculum, e \in ctx.existing :
                /\ r.type = "exclusive"
                /\ {ctx.target.course, e.course} \subseteq r.courses
                /\ e.course # ctx.target.course,
             "RULE_REJECTED", "hard")

CreditCapRule(ctx) ==
    Violated(ctx.credits > ctx.cap /\ ~ ctx.override, "CREDIT_CAP", "soft")

\* It borrows the code of the credit cap.
CampusCommuteRule(ctx) ==
    Violated(/\ ~ ctx.override
             /\ ctx.target.campus # NoCampus
             /\ \E e \in ctx.existing :
                   /\ e.campus \notin {NoCampus, ctx.target.campus}
                   /\ SlotsAdjacent(ctx.target, e),
             "CREDIT_CAP", "soft")

-----------------------------------------------------------------------------
\* The engine.

Validate(ctx) ==
    TimeConflictRule(ctx) \cup PrerequisiteRule(ctx) \cup ExclusiveRule(ctx)
        \cup CreditCapRule(ctx) \cup CampusCommuteRule(ctx)

HasHardViolation(violations) == \E v \in violations : v.severity = "hard"

=============================================================================
