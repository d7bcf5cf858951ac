------------------------------ MODULE Catalogue ------------------------------
(***************************************************************************)
(* The local cache of one semester's offerings and the job that refreshes  *)
(* it (app/tasks/prefetch_offerings.py): service A lists the offerings and *)
(* their capacities, service B their times and rooms; one transaction      *)
(* writes the cache and seeds capacities.                                  *)
(*                                                                         *)
(* Offerings and courses are both numbered by the upstreams, each in its   *)
(* own range of numbers; the two may overlap.  What no rule reads is left  *)
(* out of a row: names, teachers and rooms.                                *)
(***************************************************************************)
EXTENDS RuleEngine

CONSTANTS
    Offerings,         \* numbers of offerings
    Courses,           \* numbers of courses
    NoOffering,        \* an entry of service B without offering_id
    CatalogueAnswers,  \* what service A may answer: sets of offerings
    ScheduleAnswers,   \* what service B may answer: sets of timed groups
    MaxRefreshes       \* bound on the refreshes started

\* An offering of service A (only ACTIVE ones are kept).
Entry == [offering : Offerings, course : Courses, capacity : Nat]
ASSUME CatalogueAssumption ==
    \A answer \in CatalogueAnswers :
        /\ \A e \in answer : e \in Entry
        /\ \A e, f \in answer : e.offering = f.offering => e = f

VARIABLES
    cached,     \* cached_offerings: offering -> row, for those with a row
    seats,      \* course_capacity: offering -> max_capacity
    refresh,    \* the refresh under way: where it is and what it has read
    refreshes,  \* number of refreshes started
    moved       \* history: pairs of offerings in use, one moved by a refresh

catalogue == <<cached, seats, refresh, refreshes>>

NoRefresh == [at |-> "idle", entries |-> {}, groups |-> {}]

CatalogueInit ==
    /\ cached = << >>
    /\ seats = << >>
    /\ refresh = NoRefresh
    /\ refreshes = 0

CatalogueTypeOK ==
    /\ DOMAIN cached \subseteq Offerings
    /\ \A o \in DOMAIN cached :
          /\ cached[o].offering = o
          /\ cached[o].course \in Courses
    /\ DOMAIN cached = DOMAIN seats
    /\ \A o \in DOMAIN seats : seats[o] \in Nat
    /\ refresh.at \in {"idle", "catalogue", "schedule"}
    /\ refreshes \in 0 .. MaxRefreshes

-----------------------------------------------------------------------------
\* What is made of the upstreams' answers.

\* Groups of service B go by offering, or by course if they have none.
Key(g) == IF g.offering = NoOffering THEN g.course ELSE g.offering

\* The groups the times of entry e may come from: the one filed under its
\* offering's number, else the last one listed of its course.
GroupsFor(e) ==
    LET own    == {g \in refresh.groups : Key(g) = e.offering}
        course == {g \in refresh.groups : g.course = e.course}
    IN  IF own # {} THEN own ELSE course

\* A row for entry e, from one of its groups if it has any.
Rows(e) ==
    IF GroupsFor(e) = {}
    THEN {[offering |-> e.offering, course |-> e.course,
           slots |-> {}, campus |-> NoCampus]}
    ELSE {[offering |-> e.offering, course |-> e.course,
           slots |-> g.slots, campus |-> g.campus] : g \in GroupsFor(e)}

\* An upsert leaves the course of an existing row.
Upserted(row) ==
    IF row.offering \in DOMAIN cached
    THEN [row EXCEPT !.course = cached[row.offering].course]
    ELSE row

-----------------------------------------------------------------------------
\* The refresh.  Each step ends where it awaits an answer.

\* Service A's offerings; none, and the refresh ends.
ListCatalogue ==
    /\ refresh.at = "idle"
    /\ refreshes < MaxRefreshes
    /\ refreshes' = refreshes + 1
    /\ \E answer \in CatalogueAnswers :
          refresh' = IF answer = {} THEN NoRefresh
                     ELSE [NoRefresh EXCEPT !.at = "catalogue",
                                            !.entries = answer]
    /\ UNCHANGED <<cached, seats, moved>>

\* Service B's entries and classrooms.
ListSchedules ==
    /\ refresh.at = "catalogue"
    /\ \E answer \in ScheduleAnswers :
          refresh' = [refresh EXCEPT !.at = "schedule", !.groups = answer]
    /\ UNCHANGED <<cached, seats, refreshes, moved>>

Listed == {e.offering : e \in refresh.entries}

\* The entry of offering o, and the capacity it gives.
EntryOf(o) == CHOOSE e \in refresh.entries : e.offering = o

\* Mutant of Seeded: the seed overwrites.
Overwritten ==
    [o \in DOMAIN seats \cup Listed |->
        IF o \in Listed THEN EntryOf(o).capacity ELSE seats[o]]

\* seed_capacity leaves the row an offering already has.
Seeded ==
    [o \in DOMAIN seats \cup Listed |->
        IF o \in DOMAIN seats THEN seats[o] ELSE EntryOf(o).capacity]

\* The names of the teachers are fetched, and the transaction runs.  inUse
\* are the offerings whose times matter to the history.
RefreshCommit(inUse) ==
    /\ refresh.at = "schedule"
    /\ \E row \in [Listed -> UNION {Rows(e) : e \in refresh.entries}] :
          /\ \A o \in Listed : row[o] \in Rows(EntryOf(o))
          /\ cached' = [o \in DOMAIN cached \cup Listed |->
                           IF o \in Listed THEN Upserted(row[o]) ELSE cached[o]]
    /\ LET shifted == {o \in inUse : cached'[o].slots # cached[o].slots}
       IN  moved' = moved \cup {{o, p} : o \in shifted, p \in inUse}
    /\ seats' = Seeded
    /\ refresh' = NoRefresh
    /\ UNCHANGED refreshes

\* An answer fails, a teacher is not found (the exception is not caught), or
\* the transaction is rolled back.
RefreshFails ==
    /\ refresh.at # "idle"
    /\ refresh' = NoRefresh
    /\ UNCHANGED <<cached, seats, refreshes, moved>>

-----------------------------------------------------------------------------
\* A refresh leaves the capacity of every offering it finds one for, whatever
\* service A says now (an administrator may have adjusted it, and students
\* hold seats of it), caches none without a capacity, and takes none from the
\* cache: students may be enrolled in an offering service A no longer lists,
\* and their timetables and listings look it up.
RefreshKeepsSeats ==
    [][refresh.at # "idle" /\ refresh'.at = "idle"
          => /\ \A o \in DOMAIN seats : seats'[o] = seats[o]
             /\ DOMAIN cached' \subseteq DOMAIN seats'
             /\ DOMAIN cached \subseteq DOMAIN cached']_catalogue

=============================================================================
