------------------------------ MODULE RuleGate ------------------------------
(***************************************************************************)
(* What decides whether a student may ask for a seat: the enroll request   *)
(* up to its verdict (app/services/enrollment_service.py, enroll and       *)
(* _build_rule_context), which reads the cached offering, the student's    *)
(* timetable and the student's plan one after the other, while a refresh   *)
(* rewrites the cache and the student saves plans.                         *)
(*                                                                         *)
(* One student, who enrolls or looks at a plan, one request at a time; any *)
(* number of drops and saves meanwhile.  (What two enrolls at a time lead  *)
(* to is checked on Enrollment.)  The seat itself, with its stock and its  *)
(* transaction, is Enrollment's matter: here an accepted request gets it   *)
(* or does not.                                                            *)
(***************************************************************************)
EXTENDS Catalogue, StudyPlan

CONSTANT CreditCap   \* credit_cap

VARIABLES
    rows,   \* the student's enrollments: offering -> "enrolled", "canceled"
    gate    \* the enroll request: where it is and what it has read

vars == <<catalogue, moved, studyPlan, rows, gate>>

Enrolled == {o \in DOMAIN rows : rows[o] = "enrolled"}

\* The offerings whose cached times the request or the student relies on.
InUse == Enrolled \cup (IF gate.at = "idle" THEN {} ELSE {gate.target.offering})

NoRequest == [at |-> "idle", target |-> << >>, existing |-> {},
              rules |-> {}]

Init ==
    /\ CatalogueInit
    /\ StudyPlanInit
    /\ rows = << >>
    /\ gate = NoRequest
    /\ moved = {}

GTypeOK ==
    /\ CatalogueTypeOK
    /\ StudyPlanTypeOK
    /\ DOMAIN rows \subseteq DOMAIN cached
    /\ \A o \in DOMAIN rows : rows[o] \in {"enrolled", "canceled"}
    /\ gate.at \in {"idle", "target", "timetable", "judged"}
    /\ moved \subseteq SUBSET InUse

-----------------------------------------------------------------------------
\* The enroll request.

\* The pairs of moved that offering o is in.
Pairs(o) == {pair \in moved : o \in pair}

\* The offering is read; one that is not cached ends the request at once.
GateBegin(o) ==
    /\ gate.at = "idle" /\ view.at = "idle"
    /\ o \in DOMAIN cached
    /\ gate' = [NoRequest EXCEPT !.at = "target", !.target = cached[o]]
    /\ UNCHANGED <<catalogue, moved, studyPlan, rows>>

\* The offerings the student is enrolled in, as they are cached now.
Timetable == {cached[o] : o \in Enrolled}

ReadTimetable ==
    /\ gate.at = "target"
    /\ gate' = [gate EXCEPT !.at = "timetable", !.existing = Timetable]
    /\ UNCHANGED <<catalogue, moved, studyPlan, rows>>

\* get_by_student takes one of the student's plans, whichever the database
\* returns first; its stored major and version choose the rules.
ReadPlan ==
    /\ gate.at = "timetable"
    /\ \/ /\ plans = << >>
          /\ gate' = [gate EXCEPT !.at = "judged", !.rules = {}]
       \/ \E v \in DOMAIN plans :
             gate' = [gate EXCEPT !.at = "judged",
                                  !.rules = RulesFor(plans[v].major, v)]
    /\ UNCHANGED <<catalogue, moved, studyPlan, rows>>

\* No grades are to be had yet, and offerings carry no credits.  override is
\* set by an administrator, who may ask for the student.
Context(override) ==
    [target |-> gate.target, existing |-> gate.existing, passed |-> {},
     curriculum |-> gate.rules, credits |-> 0, cap |-> CreditCap,
     override |-> override]

\* The verdict: no hard violation, and the student has never had a row for
\* the offering.
Accept ==
    /\ gate.at = "judged"
    /\ \E override \in BOOLEAN : ~ HasHardViolation(Validate(Context(override)))
    /\ gate.target.offering \notin DOMAIN rows
    /\ rows' = [o \in DOMAIN rows \cup {gate.target.offering} |->
                   IF o \in DOMAIN rows THEN rows[o] ELSE "enrolled"]
    /\ gate' = NoRequest
    /\ UNCHANGED <<catalogue, moved, studyPlan>>

\* Refused by a rule, or later by the stock or the transaction.
Refuse ==
    /\ gate.at # "idle"
    /\ gate' = NoRequest
    /\ moved' = IF gate.target.offering \in Enrolled THEN moved
                ELSE moved \ Pairs(gate.target.offering)
    /\ UNCHANGED <<catalogue, studyPlan, rows>>

DropOffering(o) ==
    /\ o \in Enrolled
    /\ rows' = [rows EXCEPT ![o] = "canceled"]
    /\ moved' = moved \ Pairs(o)
    /\ UNCHANGED <<catalogue, studyPlan, gate>>

\* Mutant of Precheck: only the first periods of two slots are compared.
PrecheckFirstPeriods(o) ==
    \E e \in Timetable : e.offering # o /\ \E a \in cached[o].slots, b \in e.slots :
        a.day = b.day /\ Min(a.periods) = Min(b.periods)

\* The conflicts the student is shown before asking (courses.py), which
\* leaves out the offering itself.
Precheck(o) ==
    \E e \in Timetable : e.offering # o /\ \E a \in cached[o].slots, b \in e.slots :
        a.day = b.day /\ a.periods \cap b.periods # {}

-----------------------------------------------------------------------------
Refresh ==
    /\ ListCatalogue \/ ListSchedules \/ RefreshCommit(InUse) \/ RefreshFails
    /\ UNCHANGED <<studyPlan, rows, gate>>

SaveStep(s) == SaveBegin(s) \/ UpsertPlan(s) \/ DeleteItems(s)
                   \/ SaveCommit(s) \/ SaveFails(s)

Plan ==
    /\ \/ \E s \in Saves : SaveStep(s)
       \/ \E v \in Versions : \E i \in items[v] : DeleteItem(v, i)
       \/ gate.at = "idle" /\ ViewPlan
       \/ ViewItems \/ ViewEnds
    /\ UNCHANGED <<catalogue, moved, rows, gate>>

Request ==
    \/ \E o \in Offerings : GateBegin(o)
    \/ ReadTimetable \/ ReadPlan
    \/ Accept \/ Refuse
    \/ \E o \in Offerings : DropOffering(o)

Next == Refresh \/ Plan \/ Request

Spec == Init /\ [][Next]_vars

-----------------------------------------------------------------------------
\* What must hold.

\* The rules keep a student's timetable free of clashes: two offerings the
\* student is enrolled in meet in time only if a refresh has moved one of
\* them since it was asked for.
TimetableClashFree ==
    \A o, p \in Enrolled :
        o # p /\ TimesMeet(cached[o], cached[p]) => {o, p} \in moved

\* What a student is shown before asking is what asking leads to: unless the
\* cache or the timetable changes in between, the conflicts of an offering
\* the student has no row for are those the rule finds.  (The two pieces of
\* code compare the slots each in its own way.)
PrecheckAgrees ==
    \A o \in DOMAIN cached \ DOMAIN rows :
        Precheck(o) <=>
            TimeConflictRule([target |-> cached[o], existing |-> Timetable]) # {}

=============================================================================
