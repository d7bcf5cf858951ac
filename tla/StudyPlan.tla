------------------------------ MODULE StudyPlan ------------------------------
(***************************************************************************)
(* The study plans of one student (app/services/study_plan_service.py,     *)
(* app/repositories/study_plan_repo.py): saved whole, checked against the  *)
(* curriculum, and read by the rule engine.                                *)
(*                                                                         *)
(* A plan is a row of study_plans, one for each curriculum version, and    *)
(* rows of study_plan_items.  Saves are requests that may run together;    *)
(* their statements are steps, under READ COMMITTED.  Items are records    *)
(* with a category and a credit, made unlike any other by the save that    *)
(* wrote them (each is given a fresh plan_item_id).                        *)
(***************************************************************************)
EXTENDS Integers, FiniteSetsExt

CONSTANTS
    Saves,            \* save requests
    Majors, Versions, \* major codes, curriculum versions
    ItemLists,        \* the lists of items a student may send, as sets
    CurriculumRules   \* the table curriculum_rules, loaded beforehand

\* What a payload lacks is 0, "" or {}.
Rule == [major : Majors, version : Versions,
         type : {"min_total", "min_category", "prerequisite", "exclusive"},
         category : STRING, min : Nat, subject : Nat, courses : SUBSET Nat]
ASSUME CurriculumAssumption == CurriculumRules \subseteq Rule

VARIABLES
    plans,    \* study_plans: version -> row, for the versions with a plan
    items,    \* study_plan_items: version -> rows
    save,     \* per request: where it is, its plan, the rows it has deleted
    view      \* the reader of a plan: what it has been answered

studyPlan == <<plans, items, save, view>>

NotSent == [at |-> "new", version |-> "", row |-> << >>, sent |-> {}, gone |-> {}]

NoView == [at |-> "idle", version |-> "", past |-> {}, items |-> {}]

StudyPlanInit ==
    /\ view = NoView
    /\ plans = << >>
    /\ items = [v \in Versions |-> {}]
    /\ save = [s \in Saves |-> NotSent]

StudyPlanTypeOK ==
    /\ DOMAIN plans \subseteq Versions
    /\ \A v \in DOMAIN plans :
          /\ plans[v].major \in Majors
          /\ plans[v].status \in {"valid", "invalid"}
          /\ plans[v].from \in Saves
    /\ \A v \in Versions : items[v] # {} => v \in DOMAIN plans
    /\ \A s \in Saves :
          save[s].at \in {"new", "checked", "upserted", "replacing", "ended"}
    \* A plan's row is locked by the transaction that wrote it last.
    /\ \A s, t \in Saves :
          /\ save[s].at \in {"upserted", "replacing"}
          /\ save[t].at \in {"upserted", "replacing"}
          /\ save[s].version = save[t].version
          => s = t

-----------------------------------------------------------------------------
\* The checks of a plan.

RulesFor(major, version) ==
    {r \in CurriculumRules : r.major = major /\ r.version = version}

Credits(list) == MapThenSumSet(LAMBDA i : i.credit, list)

\* The rules on credits that a list of items breaks; rules of other types
\* are not looked at here.
Broken(list, rules) ==
    {r \in rules :
        \/ r.type = "min_total" /\ Credits(list) < r.min
        \/ /\ r.type = "min_category"
           /\ Credits({i \in list : i.category = r.category}) < r.min}

-----------------------------------------------------------------------------
\* A save.

\* Validation reads the curriculum before the transaction.
SaveBegin(s) ==
    /\ save[s].at = "new"
    /\ \E major \in Majors, version \in Versions, list \in ItemLists :
          LET broken == Broken(list, RulesFor(major, version))
          IN  save' = [save EXCEPT ![s] =
                         [at |-> "checked", version |-> version, gone |-> {},
                          sent |-> {[save |-> s, item |-> i] : i \in list},
                          row |-> [major  |-> major,
                                   status |-> IF broken = {} THEN "valid"
                                              ELSE "invalid",
                                   total  |-> Credits(list),
                                   from   |-> s]]]
    /\ UNCHANGED <<plans, items, view>>

\* Another save's transaction has written the row of this version.
RowLocked(s) ==
    \E t \in Saves \ {s} : /\ save[t].version = save[s].version
                           /\ save[t].at \in {"upserted", "replacing"}

\* Mutant of UpsertPlan: nothing is locked.
UpsertUnlocked(s) ==
    /\ save[s].at = "checked"
    /\ save' = [save EXCEPT ![s].at = "upserted"]
    /\ UNCHANGED <<plans, items, view>>

\* SQL_UPSERT_PLAN.  A conflicting insert waits like an update.
UpsertPlan(s) ==
    /\ save[s].at = "checked"
    /\ ~ RowLocked(s)
    /\ save' = [save EXCEPT ![s].at = "upserted"]
    /\ UNCHANGED <<plans, items, view>>

\* Mutant of DeleteItems: the old items stay.
DeleteNothing(s) ==
    /\ save[s].at = "upserted"
    /\ save' = [save EXCEPT ![s].at = "replacing"]
    /\ UNCHANGED <<plans, items, view>>

\* SQL_DELETE_ITEMS, of the rows committed by now; the inserts follow.
DeleteItems(s) ==
    /\ save[s].at = "upserted"
    /\ save' = [save EXCEPT ![s].at = "replacing",
                            ![s].gone = items[save[s].version]]
    /\ UNCHANGED <<plans, items, view>>

\* Commit.  A row that was there keeps its major code: SQL_UPSERT_PLAN does
\* not set it.
SaveCommit(s) ==
    /\ save[s].at = "replacing"
    /\ LET v   == save[s].version
           row == IF v \in DOMAIN plans
                  THEN [save[s].row EXCEPT !.major = plans[v].major]
                  ELSE save[s].row
       IN  /\ plans' = [w \in DOMAIN plans \cup {v} |->
                           IF w = v THEN row ELSE plans[w]]
           /\ items' = [items EXCEPT ![v] = (@ \ save[s].gone) \cup save[s].sent]
    /\ save' = [save EXCEPT ![s] = [NotSent EXCEPT !.at = "ended"]]
    /\ UNCHANGED view

\* An exception, at any point before the commit.
SaveFails(s) ==
    /\ save[s].at \notin {"new", "ended"}
    /\ save' = [save EXCEPT ![s] = [NotSent EXCEPT !.at = "ended"]]
    /\ UNCHANGED <<plans, items, view>>

\* SQL_DELETE_ITEM, a transaction of one statement; it waits for a save that
\* has deleted the row.  The plan's status and total stay as they are.
DeleteItem(v, i) ==
    /\ i \in items[v]
    /\ \A s \in Saves : i \notin save[s].gone
    /\ items' = [items EXCEPT ![v] = @ \ {i}]
    /\ UNCHANGED <<plans, save, view>>

-----------------------------------------------------------------------------
\* The plan as it is shown to the student: two statements, the row and then
\* its items, each with a snapshot of its own.

\* SQL_GET_PLAN.  past are the saves that had ended by then and are not the
\* one this row is from.
ViewPlan ==
    /\ view.at = "idle"
    /\ \E v \in DOMAIN plans :
          view' = [at |-> "row", version |-> v, items |-> {},
                   past |-> {s \in Saves : save[s].at = "ended"} \ {plans[v].from}]
    /\ UNCHANGED <<plans, items, save>>

\* SQL_GET_ITEMS
ViewItems ==
    /\ view.at = "row"
    /\ view' = [view EXCEPT !.at = "shown", !.items = items[view.version]]
    /\ UNCHANGED <<plans, items, save>>

\* The plan is shown, or the request fails.
ViewEnds ==
    /\ view.at # "idle"
    /\ view' = NoView
    /\ UNCHANGED <<plans, items, save>>

-----------------------------------------------------------------------------
\* The items of a plan are never mixed from two saves: they are those the
\* plan's row was checked and summed for, less items deleted one by one.
PlanFromOneSave ==
    \A v \in DOMAIN plans : \A i \in items[v] : i.save = plans[v].from

\* No item is shown under a row that had replaced it: a save that commits
\* between the two statements of the reader can only make the items newer
\* than the row, never older.
ViewNeverStale == \A i \in view.items : i.save \notin view.past

=============================================================================
