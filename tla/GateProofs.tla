----------------------------- MODULE GateProofs -----------------------------
(***************************************************************************)
(* Proofs about RuleGate and its parts: a plan is never mixed from two     *)
(* saves nor shown stale, a refresh keeps the capacities it finds, and the *)
(* rules keep a timetable free of clashes although everything they read    *)
(* may change before the verdict.                                          *)
(***************************************************************************)
EXTENDS RuleGate, TLAPS

-----------------------------------------------------------------------------
(***************************************************************************)
(* Study plans.                                                            *)
(***************************************************************************)

SavedItem == [save : Saves, item : UNION ItemLists]

PlanRow == [major : Majors, status : {"valid", "invalid"},
            total : {Credits(list) : list \in ItemLists}, from : Saves]

SaveRecord == [at : {"new", "checked", "upserted", "replacing", "ended"},
               version : Versions \cup {""}, row : PlanRow \cup {<< >>},
               sent : SUBSET SavedItem, gone : SUBSET SavedItem]

ViewRecord == [at : {"idle", "row", "shown"}, version : Versions \cup {""},
               past : SUBSET Saves, items : SUBSET SavedItem]

Locking(s) == save[s].at \in {"upserted", "replacing"}

PlanType ==
    /\ \A v \in DOMAIN plans : v \in Versions /\ plans[v] \in PlanRow
    /\ items \in [Versions -> SUBSET SavedItem]
    /\ save \in [Saves -> SaveRecord]
    /\ view \in ViewRecord
    /\ view.at = "row" => view.version \in Versions

\* What a save under way carries: its own items and a row of its own.
Carries(s, r) ==
    /\ r.version \in Versions
    /\ r.row \in PlanRow /\ r.row.from = s
    /\ \A i \in r.sent : i.save = s

SaveCarries ==
    \A s \in Saves :
        save[s].at \in {"checked", "upserted", "replacing"} => Carries(s, save[s])

\* One save at a time holds the row of a version.
RowLocks ==
    \A s, t \in Saves :
        Locking(s) /\ Locking(t) /\ save[s].version = save[t].version => s = t

\* Whoever is replacing the items of a version has deleted all there are.
AllGone ==
    \A s \in Saves :
        save[s].at = "replacing" => items[save[s].version] \subseteq save[s].gone

\* The saves a reader must not be shown had ended before it read the row.
PastEnded == \A s \in view.past : save[s].at = "ended"

\* What a reader is about to be shown is not from them.
NextNotPast ==
    view.at = "row" => \A i \in items[view.version] : i.save \notin view.past

PlanInv ==
    /\ PlanType /\ SaveCarries /\ RowLocks /\ AllGone
    /\ PlanFromOneSave
    /\ PastEnded /\ NextNotPast /\ ViewNeverStale

LEMMA InitPlan == StudyPlanInit => PlanInv
<1> SUFFICES ASSUME StudyPlanInit PROVE PlanInv
  OBVIOUS
<1>1. DOMAIN plans = {}
  BY DEF StudyPlanInit
<1>2. \A s \in Saves : save[s].at = "new"
  <2>1. NotSent.at = "new"
    BY DEF NotSent
  <2>2. QED BY <2>1 DEF StudyPlanInit
<1>3. PlanType
  <2>1. NotSent \in SaveRecord
    BY DEF NotSent, SaveRecord
  <2>2. NoView \in ViewRecord /\ NoView.at = "idle"
    BY DEF NoView, ViewRecord
  <2>3. /\ items \in [Versions -> SUBSET SavedItem]
        /\ save \in [Saves -> SaveRecord]
    BY <2>1 DEF StudyPlanInit
  <2>4. view \in ViewRecord /\ view.at = "idle"
    BY <2>2 DEF StudyPlanInit
  <2>5. QED BY <1>1, <2>3, <2>4 DEF PlanType
<1>4. SaveCarries /\ RowLocks /\ AllGone
  BY <1>2 DEF SaveCarries, RowLocks, Locking, AllGone
<1>5. PlanFromOneSave /\ PastEnded /\ NextNotPast /\ ViewNeverStale
  BY <1>1 DEF StudyPlanInit, NoView, PlanFromOneSave, PastEnded, NextNotPast,
              ViewNeverStale
<1>6. QED BY <1>3, <1>4, <1>5 DEF PlanInv

\* A step of save s that touches nothing but its own record.
LEMMA SaveMoves ==
  ASSUME PlanInv, NEW s \in Saves, NEW r,
         save' = [save EXCEPT ![s] = r],
         UNCHANGED <<plans, items, view>>,
         r \in SaveRecord, r.at # "new",
         save[s].at # "ended",
         r.at # "ended" => Carries(s, r),
         r.at \in {"upserted", "replacing"}
             => ~ \E t \in Saves \ {s} : Locking(t) /\ save[t].version = r.version,
         r.at = "replacing" => items[r.version] \subseteq r.gone
  PROVE  PlanInv'
<1>1. save'[s] = r /\ \A t \in Saves \ {s} : save'[t] = save[t]
  BY DEF PlanInv, PlanType
<1>2. PlanType'
  BY <1>1 DEF PlanInv, PlanType
<1>3. SaveCarries'
  BY <1>1 DEF PlanInv, SaveCarries
<1>4. RowLocks'
  BY <1>1 DEF PlanInv, RowLocks, Locking
<1>5. AllGone'
  BY <1>1 DEF PlanInv, AllGone
<1>6. PastEnded'
  BY <1>1 DEF PlanInv, PlanType, PastEnded
<1>7. PlanFromOneSave' /\ NextNotPast' /\ ViewNeverStale'
  BY DEF PlanInv, PlanFromOneSave, NextNotPast, ViewNeverStale
<1>8. QED BY <1>2, <1>3, <1>4, <1>5, <1>6, <1>7 DEF PlanInv

LEMMA BeginKeeps ==
  ASSUME PlanInv, NEW s \in Saves, SaveBegin(s)
  PROVE  PlanInv'
<1>1. PICK major \in Majors, version \in Versions, list \in ItemLists :
        save' = [save EXCEPT ![s] =
                   [at |-> "checked", version |-> version, gone |-> {},
                    sent |-> {[save |-> s, item |-> i] : i \in list},
                    row |-> [major  |-> major,
                             status |-> IF Broken(list, RulesFor(major, version)) = {}
                                        THEN "valid" ELSE "invalid",
                             total  |-> Credits(list),
                             from   |-> s]]]
  BY DEF SaveBegin
<1> DEFINE row == [major  |-> major,
                   status |-> IF Broken(list, RulesFor(major, version)) = {}
                              THEN "valid" ELSE "invalid",
                   total  |-> Credits(list),
                   from   |-> s]
           sent == {[save |-> s, item |-> i] : i \in list}
           r == [at |-> "checked", version |-> version, gone |-> {},
                 sent |-> sent, row |-> row]
<1>2. row \in PlanRow /\ row.from = s
  BY DEF PlanRow
<1>3. sent \in SUBSET SavedItem /\ \A i \in sent : i.save = s
  BY DEF SavedItem
<1>4. /\ save' = [save EXCEPT ![s] = r]
      /\ r.at = "checked" /\ r.version = version /\ r.row = row /\ r.sent = sent
  BY <1>1
<1> HIDE DEF row, sent
<1>5. r \in SaveRecord
  BY <1>2, <1>3 DEF SaveRecord
<1> HIDE DEF r
<1>6. Carries(s, r)
  BY <1>2, <1>3, <1>4 DEF Carries
<1>7. QED
  BY <1>4, <1>5, <1>6, SaveMoves DEF SaveBegin

LEMMA UpsertKeeps ==
  ASSUME PlanInv, NEW s \in Saves, UpsertPlan(s)
  PROVE  PlanInv'
<1> DEFINE r == [save[s] EXCEPT !.at = "upserted"]
<1>1. save' = [save EXCEPT ![s] = r]
  BY DEF UpsertPlan
<1>2. /\ r.at = "upserted" /\ r.version = save[s].version /\ r.row = save[s].row
      /\ r.sent = save[s].sent
      /\ r \in SaveRecord
  BY DEF PlanInv, PlanType, SaveRecord
<1>3. ~ \E t \in Saves \ {s} : Locking(t) /\ save[t].version = r.version
  BY <1>2 DEF UpsertPlan, RowLocked, Locking
<1>4. Carries(s, r)
  BY <1>2 DEF UpsertPlan, PlanInv, SaveCarries, Carries
<1> HIDE DEF r
<1>5. QED
  BY <1>1, <1>2, <1>3, <1>4, SaveMoves DEF UpsertPlan

LEMMA DeleteKeeps ==
  ASSUME PlanInv, NEW s \in Saves, DeleteItems(s)
  PROVE  PlanInv'
<1> DEFINE r == [save[s] EXCEPT !.at = "replacing", !.gone = items[save[s].version]]
<1>1. save' = [save EXCEPT ![s] = r]
  BY DEF DeleteItems
<1>2. save[s].version \in Versions /\ items[save[s].version] \in SUBSET SavedItem
  BY DEF DeleteItems, PlanInv, PlanType, SaveCarries, Carries
<1>3. /\ r.at = "replacing" /\ r.version = save[s].version /\ r.row = save[s].row
      /\ r.sent = save[s].sent /\ r.gone = items[save[s].version]
      /\ r \in SaveRecord
  BY <1>2 DEF PlanInv, PlanType, SaveRecord
<1>4. ~ \E t \in Saves \ {s} : Locking(t) /\ save[t].version = r.version
  BY <1>3 DEF DeleteItems, PlanInv, RowLocks, Locking
<1>5. Carries(s, r)
  BY <1>3 DEF DeleteItems, PlanInv, SaveCarries, Carries
<1> HIDE DEF r
<1>6. QED
  BY <1>1, <1>3, <1>4, <1>5, SaveMoves DEF DeleteItems

LEMMA EndedRecord ==
  [NotSent EXCEPT !.at = "ended"]
    \in SaveRecord
  /\ [NotSent EXCEPT !.at = "ended"].at = "ended"
  BY DEF NotSent, SaveRecord

LEMMA FailKeeps ==
  ASSUME PlanInv, NEW s \in Saves, SaveFails(s)
  PROVE  PlanInv'
<1> DEFINE r == [NotSent EXCEPT !.at = "ended"]
<1>1. save' = [save EXCEPT ![s] = r] /\ save[s].at # "ended"
  BY DEF SaveFails
<1> HIDE DEF r
<1>2. QED
  BY <1>1, EndedRecord, SaveMoves DEF SaveFails, r

LEMMA CommitKeeps ==
  ASSUME PlanInv, NEW s \in Saves, SaveCommit(s)
  PROVE  PlanInv'
<1> DEFINE v == save[s].version
           r == [NotSent EXCEPT !.at = "ended"]
<1>1. v \in Versions /\ save[s].row \in PlanRow /\ save[s].row.from = s
  BY DEF SaveCommit, PlanInv, SaveCarries, Carries
<1>2. save' = [save EXCEPT ![s] = r] /\ save[s].at = "replacing"
  BY DEF SaveCommit
<1>3. r \in SaveRecord /\ r.at = "ended"
  BY EndedRecord
<1> HIDE DEF r
<1>4. save'[s] = r /\ \A t \in Saves \ {s} : save'[t] = save[t]
  BY <1>2 DEF PlanInv, PlanType
\* The row that is stored, and the items.
<1>5. /\ DOMAIN plans' = DOMAIN plans \cup {v}
      /\ \A w \in DOMAIN plans \ {v} : plans'[w] = plans[w]
      /\ plans'[v] \in PlanRow /\ plans'[v].from = s
  <2>1. CASE v \in DOMAIN plans
    <3>1. [save[s].row EXCEPT !.major = plans[v].major] \in PlanRow
          /\ [save[s].row EXCEPT !.major = plans[v].major].from = s
      BY <1>1, <2>1 DEF PlanInv, PlanType, PlanRow
    <3>2. plans' = [w \in DOMAIN plans \cup {v} |->
                      IF w = v THEN [save[s].row EXCEPT !.major = plans[v].major]
                               ELSE plans[w]]
      BY <2>1 DEF SaveCommit
    <3>3. QED BY <3>1, <3>2
  <2>2. CASE v \notin DOMAIN plans
    <3>1. plans' = [w \in DOMAIN plans \cup {v} |->
                      IF w = v THEN save[s].row ELSE plans[w]]
      BY <2>2 DEF SaveCommit
    <3>2. QED BY <1>1, <3>1
  <2>3. QED BY <2>1, <2>2
<1>6. /\ items' = [items EXCEPT ![v] = (@ \ save[s].gone) \cup save[s].sent]
      /\ items[v] \subseteq save[s].gone /\ save[s].sent \subseteq SavedItem
  BY <1>2 DEF SaveCommit, PlanInv, PlanType, AllGone, SaveRecord
<1>7. /\ items' \in [Versions -> SUBSET SavedItem]
      /\ items'[v] = save[s].sent
      /\ \A w \in Versions \ {v} : items'[w] = items[w]
  BY <1>1, <1>6 DEF PlanInv, PlanType
<1>8. \A i \in items'[v] : i.save = s
  BY <1>2, <1>7 DEF PlanInv, SaveCarries, Carries
<1>9. UNCHANGED view
  BY DEF SaveCommit
<1>a. PlanType'
  <2>1. save' \in [Saves -> SaveRecord]
    BY <1>2, <1>3 DEF PlanInv, PlanType
  <2>2. \A w \in DOMAIN plans' : w \in Versions /\ plans'[w] \in PlanRow
    BY <1>1, <1>5 DEF PlanInv, PlanType
  <2>3. QED BY <1>7, <1>9, <2>1, <2>2 DEF PlanInv, PlanType
<1>b. SaveCarries' /\ RowLocks'
  BY <1>3, <1>4 DEF PlanInv, SaveCarries, RowLocks, Locking
<1>c. AllGone'
  <2>1. SUFFICES ASSUME NEW t \in Saves, save'[t].at = "replacing"
                 PROVE  items'[save'[t].version] \subseteq save'[t].gone
    BY DEF AllGone
  <2>2. t # s /\ save'[t] = save[t] /\ save[t].version # v
    BY <1>2, <1>3, <1>4, <2>1 DEF PlanInv, RowLocks, Locking
  <2>3. save[t].version \in Versions
    BY <2>1, <2>2 DEF PlanInv, SaveCarries, Carries
  <2>4. QED BY <1>7, <2>1, <2>2, <2>3 DEF PlanInv, AllGone
<1>d. PlanFromOneSave'
  BY <1>5, <1>7, <1>8 DEF PlanInv, PlanFromOneSave, PlanType
<1>e. s \notin view.past
  BY <1>2 DEF PlanInv, PastEnded
<1>f. PastEnded' /\ NextNotPast' /\ ViewNeverStale'
  <2>1. PastEnded'
    BY <1>3, <1>4, <1>9 DEF PlanInv, PastEnded, PlanType, ViewRecord
  <2>2. NextNotPast'
    BY <1>7, <1>8, <1>9, <1>e DEF PlanInv, NextNotPast, PlanType
  <2>3. QED BY <1>9, <2>1, <2>2 DEF PlanInv, ViewNeverStale
<1>g. QED BY <1>a, <1>b, <1>c, <1>d, <1>f DEF PlanInv

LEMMA DeleteItemKeeps ==
  ASSUME PlanInv, NEW v \in Versions, NEW i \in items[v], DeleteItem(v, i)
  PROVE  PlanInv'
<1>1. /\ items' \in [Versions -> SUBSET SavedItem]
      /\ \A w \in Versions : items'[w] \subseteq items[w]
  BY DEF DeleteItem, PlanInv, PlanType
<1>2. UNCHANGED <<plans, save, view>>
  BY DEF DeleteItem
<1>3. PlanType' /\ SaveCarries' /\ RowLocks' /\ PastEnded' /\ ViewNeverStale'
  BY <1>1, <1>2 DEF PlanInv, PlanType, SaveCarries, RowLocks, Locking, PastEnded,
                    ViewNeverStale
<1>4. AllGone'
  BY <1>1, <1>2 DEF PlanInv, AllGone, SaveCarries, Carries
<1>5. PlanFromOneSave'
  BY <1>1, <1>2 DEF PlanInv, PlanFromOneSave, PlanType
<1>6. NextNotPast'
  BY <1>1, <1>2 DEF PlanInv, NextNotPast, PlanType
<1>7. QED BY <1>3, <1>4, <1>5, <1>6 DEF PlanInv

LEMMA ReaderKeeps ==
  ASSUME PlanInv, ViewPlan \/ ViewItems \/ ViewEnds
  PROVE  PlanInv'
<1>1. UNCHANGED <<plans, items, save>>
  BY DEF ViewPlan, ViewItems, ViewEnds
<1>2. SaveCarries' /\ RowLocks' /\ AllGone' /\ PlanFromOneSave'
  BY <1>1 DEF PlanInv, SaveCarries, RowLocks, Locking, AllGone, PlanFromOneSave
<1>3. CASE ViewPlan
  <2>1. PICK v \in DOMAIN plans :
          view' = [at |-> "row", version |-> v, items |-> {},
                   past |-> {s \in Saves : save[s].at = "ended"} \ {plans[v].from}]
    BY <1>3 DEF ViewPlan
  <2>2. v \in Versions
    BY DEF PlanInv, PlanType
  <2>3. /\ view'.version = v /\ view'.items = {}
        /\ view'.past = {s \in Saves : save[s].at = "ended"} \ {plans[v].from}
        /\ view' \in ViewRecord
    BY <2>1, <2>2 DEF ViewRecord
  <2>4. PlanType'
    BY <1>1, <2>2, <2>3 DEF PlanInv, PlanType
  <2>5. PastEnded' /\ ViewNeverStale'
    BY <1>1, <2>3 DEF PastEnded, ViewNeverStale
  <2>6. NextNotPast'
    BY <1>1, <2>3 DEF PlanInv, PlanFromOneSave, NextNotPast
  <2>7. QED BY <1>2, <2>4, <2>5, <2>6 DEF PlanInv
<1>4. CASE ViewItems
  <2>1. view.at = "row" /\ view.version \in Versions
    BY <1>4 DEF ViewItems, PlanInv, PlanType
  <2>2. items[view.version] \subseteq SavedItem
    BY <2>1 DEF PlanInv, PlanType
  <2>3. /\ view'.at = "shown" /\ view'.items = items[view.version]
        /\ view'.past = view.past /\ view' \in ViewRecord
    BY <1>4, <2>2 DEF ViewItems, PlanInv, PlanType, ViewRecord
  <2>4. PlanType' /\ PastEnded' /\ NextNotPast'
    BY <1>1, <2>3 DEF PlanInv, PlanType, PastEnded, NextNotPast
  <2>5. ViewNeverStale'
    BY <2>1, <2>3 DEF PlanInv, NextNotPast, ViewNeverStale
  <2>6. QED BY <1>2, <2>4, <2>5 DEF PlanInv
<1>5. CASE ViewEnds
  <2>1. view' \in ViewRecord /\ view'.at = "idle" /\ view'.past = {} /\ view'.items = {}
    BY <1>5 DEF ViewEnds, NoView, ViewRecord
  <2>2. QED BY <1>1, <1>2, <2>1 DEF PlanInv, PlanType, PastEnded, NextNotPast,
                                   ViewNeverStale
<1>6. QED BY <1>3, <1>4, <1>5

LEMMA NextPlan ==
  ASSUME PlanInv, [Next]_vars
  PROVE  PlanInv'
<1>1. CASE UNCHANGED studyPlan
  BY <1>1 DEF studyPlan, PlanInv, PlanType, SaveCarries, Carries, RowLocks, Locking,
              AllGone, PlanFromOneSave, PastEnded, NextNotPast, ViewNeverStale
<1>2. CASE Refresh \/ Request \/ UNCHANGED vars
  <2>1. UNCHANGED studyPlan
    BY <1>2 DEF vars, Refresh, Request, GateBegin, ReadTimetable, ReadPlan,
                Accept, Refuse, DropOffering
  <2>2. QED BY <1>1, <2>1
<1>3. CASE Plan
  <2>1. ASSUME NEW s \in Saves, SaveStep(s)
        PROVE  PlanInv'
    BY <2>1, BeginKeeps, UpsertKeeps, DeleteKeeps, CommitKeeps, FailKeeps
       DEF SaveStep
  <2>2. ASSUME NEW v \in Versions, NEW i \in items[v], DeleteItem(v, i)
        PROVE  PlanInv'
    BY <2>2, DeleteItemKeeps
  <2>3. QED BY <1>3, <2>1, <2>2, ReaderKeeps DEF Plan
<1>4. QED BY <1>2, <1>3 DEF Next

LEMMA PlanInvariant == Spec => []PlanInv
<1>1. Init => PlanInv
  BY InitPlan DEF Init
<1>2. PlanInv /\ [Next]_vars => PlanInv'
  BY NextPlan
<1>3. QED BY <1>1, <1>2, PTL DEF Spec

\* The items stored under a plan are those its row was checked and summed
\* for, whatever saves and deletions run together (study_plan_repo.py).
THEOREM PlansNotMixed == Spec => []PlanFromOneSave
<1>1. PlanInv => PlanFromOneSave
  BY DEF PlanInv
<1>2. QED BY <1>1, PlanInvariant, PTL

\* The reader of a plan, two statements with snapshots of their own, is never
\* shown items under a row that had replaced them.
THEOREM NeverShownStale == Spec => []ViewNeverStale
<1>1. PlanInv => ViewNeverStale
  BY DEF PlanInv
<1>2. QED BY <1>1, PlanInvariant, PTL

-----------------------------------------------------------------------------
(***************************************************************************)
(* The catalogue.                                                          *)
(***************************************************************************)

RefreshRecord ==
    [at : {"idle", "catalogue", "schedule"}, entries : SUBSET Entry,
     groups : ScheduleAnswers \cup {{}}]

\* Cached offerings have their own number and a capacity, and a refresh has
\* at most one entry for each.
CatalogueInv ==
    /\ DOMAIN cached = DOMAIN seats
    /\ \A o \in DOMAIN cached : cached[o].offering = o
    /\ refresh \in RefreshRecord
    /\ \A e, f \in refresh.entries : e.offering = f.offering => e = f

LEMMA InitCatalogue == CatalogueInit => CatalogueInv
<1> SUFFICES ASSUME CatalogueInit PROVE CatalogueInv
  OBVIOUS
<1>1. DOMAIN cached = {} /\ DOMAIN seats = {}
  BY DEF CatalogueInit
<1>2. NoRefresh \in RefreshRecord /\ NoRefresh.entries = {}
  BY DEF NoRefresh, RefreshRecord
<1>3. QED BY <1>1, <1>2 DEF CatalogueInit, CatalogueInv

\* What a commit writes for a listed offering is a row of that offering.
LEMMA RowsOfOffering ==
  ASSUME CatalogueInv, NEW o \in Listed, NEW row \in Rows(EntryOf(o))
  PROVE  Upserted(row).offering = o /\ Upserted(row).slots = row.slots
<1>1. PICK e \in refresh.entries : e.offering = o
  BY DEF Listed
<1>2. EntryOf(o) \in refresh.entries /\ EntryOf(o).offering = o
  BY <1>1 DEF EntryOf
<1>3. row = [offering |-> row.offering, course |-> row.course,
             slots |-> row.slots, campus |-> row.campus] /\ row.offering = o
  BY <1>2 DEF Rows
<1>4. QED BY <1>3 DEF Upserted

\* What a commit does to the cache and to the capacities.
LEMMA CommitFacts ==
  ASSUME CatalogueInv, NEW inUse, RefreshCommit(inUse)
  PROVE  /\ DOMAIN cached' = DOMAIN cached \cup Listed
         /\ \A o \in DOMAIN cached' : cached'[o].offering = o
         /\ DOMAIN seats' = DOMAIN seats \cup Listed
         /\ \A o \in DOMAIN seats : seats'[o] = seats[o]
<1>1. PICK row \in [Listed -> UNION {Rows(e) : e \in refresh.entries}] :
        /\ \A o \in Listed : row[o] \in Rows(EntryOf(o))
        /\ cached' = [o \in DOMAIN cached \cup Listed |->
                         IF o \in Listed THEN Upserted(row[o]) ELSE cached[o]]
  BY DEF RefreshCommit
<1>2. \A o \in Listed : Upserted(row[o]).offering = o
  BY <1>1, RowsOfOffering
<1>3. /\ DOMAIN cached' = DOMAIN cached \cup Listed
      /\ \A o \in DOMAIN cached' : cached'[o].offering = o
  BY <1>1, <1>2 DEF CatalogueInv
<1>4. seats' = Seeded
  BY DEF RefreshCommit
<1>5. QED BY <1>3, <1>4 DEF Seeded

LEMMA NextCatalogue ==
  ASSUME CatalogueInv, [Next]_vars
  PROVE  CatalogueInv'
<1>1. CASE UNCHANGED catalogue
  BY <1>1 DEF catalogue, CatalogueInv
<1>2. CASE Plan \/ Request \/ UNCHANGED vars
  <2>1. UNCHANGED catalogue
    BY <1>2 DEF vars, Plan, Request, GateBegin, ReadTimetable, ReadPlan,
                Accept, Refuse, DropOffering
  <2>2. QED BY <1>1, <2>1
<1>3. CASE ListCatalogue
  <2>1. UNCHANGED <<cached, seats>>
    BY <1>3 DEF ListCatalogue
  <2>2. PICK answer \in CatalogueAnswers :
          refresh' = IF answer = {} THEN NoRefresh
                     ELSE [NoRefresh EXCEPT !.at = "catalogue", !.entries = answer]
    BY <1>3 DEF ListCatalogue
  <2>3. answer \in SUBSET Entry /\ \A e, f \in answer : e.offering = f.offering => e = f
    BY CatalogueAssumption
  <2>4. refresh' \in RefreshRecord /\ refresh'.entries = answer
    BY <2>2, <2>3 DEF NoRefresh, RefreshRecord
  <2>5. QED BY <2>1, <2>3, <2>4 DEF CatalogueInv
<1>4. CASE ListSchedules
  <2>1. PICK answer \in ScheduleAnswers :
          refresh' = [refresh EXCEPT !.at = "schedule", !.groups = answer]
    BY <1>4 DEF ListSchedules
  <2>2. refresh' \in RefreshRecord /\ refresh'.entries = refresh.entries
    BY <2>1 DEF CatalogueInv, RefreshRecord
  <2>3. QED BY <1>4, <2>2 DEF ListSchedules, CatalogueInv
<1>5. NoRefresh \in RefreshRecord /\ NoRefresh.entries = {}
  BY DEF NoRefresh, RefreshRecord
<1>6. CASE RefreshCommit(InUse)
  <2>1. refresh' = NoRefresh
    BY <1>6 DEF RefreshCommit
  <2>2. QED BY <1>5, <1>6, <2>1, CommitFacts DEF CatalogueInv
<1>7. CASE RefreshFails
  BY <1>5, <1>7 DEF RefreshFails, CatalogueInv
<1>8. QED BY <1>2, <1>3, <1>4, <1>6, <1>7 DEF Next, Refresh

LEMMA CatalogueInvariant == Spec => []CatalogueInv
<1>1. Init => CatalogueInv
  BY InitCatalogue DEF Init
<1>2. CatalogueInv /\ [Next]_vars => CatalogueInv'
  BY NextCatalogue
<1>3. QED BY <1>1, <1>2, PTL DEF Spec

\* seed_capacity (offering_cache_repo.py) leaves the capacities that are
\* there, no offering is cached without one, and none is taken from the
\* cache, for any answers of the services.
THEOREM CapacitiesAreKept == Spec => RefreshKeepsSeats
<1> DEFINE Kept == refresh.at # "idle" /\ refresh'.at = "idle"
                     => /\ \A o \in DOMAIN seats : seats'[o] = seats[o]
                        /\ DOMAIN cached' \subseteq DOMAIN seats'
                        /\ DOMAIN cached \subseteq DOMAIN cached'
<1>1. ASSUME CatalogueInv, [Next]_vars PROVE [Kept]_catalogue
  <2>1. CASE Plan \/ Request \/ UNCHANGED vars
    BY <2>1 DEF vars, catalogue, Plan, Request, GateBegin, ReadTimetable,
                ReadPlan, Accept, Refuse, DropOffering
  <2>2. CASE ListCatalogue
    BY <2>2 DEF ListCatalogue
  <2>3. CASE ListSchedules
    BY <2>3, <1>1 DEF ListSchedules, CatalogueInv, RefreshRecord
  <2>4. CASE RefreshCommit(InUse)
    BY <1>1, <2>4, CommitFacts DEF CatalogueInv
  <2>5. CASE RefreshFails
    BY <1>1, <2>5 DEF RefreshFails, CatalogueInv
  <2>6. QED BY <1>1, <2>1, <2>2, <2>3, <2>4, <2>5 DEF Next, Refresh
<1>2. QED BY <1>1, CatalogueInvariant, PTL DEF Spec, RefreshKeepsSeats

-----------------------------------------------------------------------------
(***************************************************************************)
(* The rules.                                                              *)
(***************************************************************************)

\* The time conflict rule does not care which offering is asked for first.
LEMMA TimesMeetSymmetric ==
  ASSUME NEW o, NEW e
  PROVE  TimesMeet(o, e) <=> TimesMeet(e, o)
  BY DEF TimesMeet, PeriodsOverlap

\* The verdict is that of the three hard rules: the rules on credits and on
\* campuses never change it.
LEMMA VerdictOfHardRules ==
  ASSUME NEW ctx
  PROVE  HasHardViolation(Validate(ctx)) <=>
            \/ TimeConflictRule(ctx) # {}
            \/ PrerequisiteRule(ctx) # {}
            \/ ExclusiveRule(ctx) # {}
<1>1. /\ \A v \in TimeConflictRule(ctx) : v.severity = "hard"
      /\ \A v \in PrerequisiteRule(ctx) : v.severity = "hard"
      /\ \A v \in ExclusiveRule(ctx) : v.severity = "hard"
  BY DEF TimeConflictRule, PrerequisiteRule, ExclusiveRule, Violated
<1>2. /\ \A v \in CreditCapRule(ctx) : v.severity = "soft"
      /\ \A v \in CampusCommuteRule(ctx) : v.severity = "soft"
  BY DEF CreditCapRule, CampusCommuteRule, Violated
<1>3. QED BY <1>1, <1>2 DEF HasHardViolation, Validate

\* allow_override, which proxy_enroll sets for an administrator, never
\* changes a verdict (rule_engine.py reads it in soft rules only, and
\* enrollment_service.py acts on hard violations only).
THEOREM OverrideIsIdle ==
  HasHardViolation(Validate(Context(TRUE)))
    <=> HasHardViolation(Validate(Context(FALSE)))
<1>1. \A b \in BOOLEAN :
        /\ TimeConflictRule(Context(b)) = TimeConflictRule(Context(FALSE))
        /\ PrerequisiteRule(Context(b)) = PrerequisiteRule(Context(FALSE))
        /\ ExclusiveRule(Context(b)) = ExclusiveRule(Context(FALSE))
  BY DEF Context, TimeConflictRule, PrerequisiteRule, ExclusiveRule
<1>2. QED BY <1>1, VerdictOfHardRules

-----------------------------------------------------------------------------
(***************************************************************************)
(* The timetable.                                                          *)
(***************************************************************************)

Target == gate.target.offering

\* Rows are of cached offerings, and so is the offering asked for.
RowsCached ==
    /\ gate = [at |-> gate.at, target |-> gate.target,
               existing |-> gate.existing, rules |-> gate.rules]
    /\ DOMAIN rows \subseteq DOMAIN cached
    /\ gate.at # "idle" => Target \in DOMAIN cached

\* If the cache no longer says of the target what the request has read, all
\* the pairs this may matter for are in the history.
TargetRead ==
    gate.at # "idle" /\ Target \notin DOMAIN rows
            /\ gate.target.slots # cached[Target].slots
        => \A p \in InUse : {Target, p} \in moved

\* And so for the offerings the student is enrolled in.
ExistingRead ==
    gate.at \in {"timetable", "judged"} /\ Target \notin DOMAIN rows
        => \A p \in Enrolled :
              \/ {Target, p} \in moved
              \/ \E e \in gate.existing : e.slots = cached[p].slots

TimetableInv ==
    CatalogueInv /\ RowsCached /\ TargetRead /\ ExistingRead /\ TimetableClashFree

LEMMA InitTimetable == Init => TimetableInv
<1> SUFFICES ASSUME Init PROVE TimetableInv
  OBVIOUS
<1>1. CatalogueInv
  BY InitCatalogue DEF Init
<1>2. DOMAIN rows = {} /\ Enrolled = {}
  BY DEF Init, Enrolled
<1>3. /\ gate = [at |-> "idle", target |-> << >>, existing |-> {}, rules |-> {}]
      /\ gate.at = "idle"
  BY DEF Init, NoRequest
<1>4. RowsCached
  BY <1>2, <1>3 DEF RowsCached
<1>5. TargetRead /\ ExistingRead /\ TimetableClashFree
  BY <1>2, <1>3 DEF TargetRead, ExistingRead, TimetableClashFree
<1>6. QED BY <1>1, <1>4, <1>5 DEF TimetableInv

LEMMA RefreshKeepsTimetable ==
  ASSUME TimetableInv, Refresh
  PROVE  RowsCached' /\ TargetRead' /\ ExistingRead' /\ TimetableClashFree'
<1>1. UNCHANGED <<rows, gate>> /\ Enrolled' = Enrolled /\ InUse' = InUse
  BY DEF Refresh, Enrolled, InUse
<1>2. CASE UNCHANGED <<cached, moved>>
  BY <1>1, <1>2 DEF TimetableInv, RowsCached, TargetRead, ExistingRead,
                    TimetableClashFree, Target
<1>3. CASE RefreshCommit(InUse)
  <2>1. /\ DOMAIN cached \subseteq DOMAIN cached'
        /\ \A o \in DOMAIN cached' : cached'[o].offering = o
    BY <1>3, CommitFacts DEF TimetableInv
  <2>2. /\ moved \subseteq moved'
        /\ \A o, p \in InUse : cached'[o].slots # cached[o].slots
                                => {o, p} \in moved' /\ {p, o} \in moved'
    <3> DEFINE shifted == {o \in InUse : cached'[o].slots # cached[o].slots}
    <3>1. moved' = moved \cup {{o, p} : o \in shifted, p \in InUse}
      BY <1>3 DEF RefreshCommit
    <3>2. \A o \in shifted, p \in InUse : {o, p} \in moved'
      BY <3>1
    <3>3. \A o, p \in InUse : {o, p} = {p, o}
      OBVIOUS
    <3>4. QED BY <3>1, <3>2, <3>3
  <2>3. /\ Enrolled \subseteq InUse
        /\ gate.at # "idle" => Target \in InUse
    BY DEF InUse, Target
  <2>4. RowsCached'
    BY <1>1, <2>1 DEF TimetableInv, RowsCached, Target
  <2>5. TargetRead'
    BY <1>1, <2>2, <2>3 DEF TimetableInv, TargetRead, Target
  <2>6. ExistingRead'
    BY <1>1, <2>2, <2>3 DEF TimetableInv, ExistingRead, Target
  <2>7. TimetableClashFree'
    <3>1. SUFFICES ASSUME NEW o \in Enrolled, NEW p \in Enrolled, o # p,
                          TimesMeet(cached'[o], cached'[p]), {o, p} \notin moved'
                   PROVE  FALSE
      BY <1>1 DEF TimetableClashFree
    <3>2. cached'[o].slots = cached[o].slots /\ cached'[p].slots = cached[p].slots
      BY <2>2, <2>3, <3>1
    <3>3. TimesMeet(cached[o], cached[p])
      BY <3>1, <3>2 DEF TimesMeet
    <3>4. QED BY <2>2, <3>1, <3>3 DEF TimetableInv, TimetableClashFree
  <2>8. QED BY <2>4, <2>5, <2>6, <2>7
<1>4. QED BY <1>2, <1>3 DEF Refresh, ListCatalogue, ListSchedules, RefreshFails

LEMMA ReadsKeepTimetable ==
  ASSUME TimetableInv, \/ \E o \in Offerings : GateBegin(o)
                       \/ ReadTimetable \/ ReadPlan
  PROVE  RowsCached' /\ TargetRead' /\ ExistingRead' /\ TimetableClashFree'
<1>1. UNCHANGED <<cached, moved, rows>> /\ Enrolled' = Enrolled
  BY DEF GateBegin, ReadTimetable, ReadPlan, catalogue, Enrolled
<1>2. TimetableClashFree'
  BY <1>1 DEF TimetableInv, TimetableClashFree
<1>3. ASSUME NEW o \in Offerings, GateBegin(o)
      PROVE  RowsCached' /\ TargetRead' /\ ExistingRead'
  <2>1. /\ gate' = [at |-> "target", target |-> cached[o], existing |-> {},
                    rules |-> {}]
        /\ o \in DOMAIN cached
    BY <1>3 DEF GateBegin, NoRequest
  <2>2. gate'.at = "target" /\ gate'.target = cached[o] /\ Target' = o
    BY <2>1 DEF TimetableInv, CatalogueInv, Target
  <2>3. RowsCached'
    BY <1>1, <2>1, <2>2 DEF TimetableInv, RowsCached
  <2>4. TargetRead' /\ ExistingRead'
    BY <1>1, <2>2 DEF TargetRead, ExistingRead
  <2>5. QED BY <2>3, <2>4
<1>4. ASSUME ReadTimetable
      PROVE  RowsCached' /\ TargetRead' /\ ExistingRead'
  <2>1. gate' = [at |-> "timetable", target |-> gate.target,
                 existing |-> Timetable, rules |-> gate.rules]
    BY <1>4 DEF ReadTimetable, TimetableInv, RowsCached
  <2>2. /\ gate.at = "target" /\ gate'.at = "timetable"
        /\ gate'.target = gate.target /\ gate'.existing = Timetable
        /\ Target' = Target /\ InUse' = InUse
    BY <1>1, <1>4, <2>1 DEF ReadTimetable, Target, InUse
  <2>3. RowsCached'
    BY <1>1, <2>1, <2>2 DEF TimetableInv, RowsCached
  <2>4. TargetRead'
    BY <1>1, <2>2 DEF TimetableInv, TargetRead
  <2>5. ExistingRead'
    BY <1>1, <2>2 DEF ExistingRead, Timetable
  <2>6. QED BY <2>3, <2>4, <2>5
<1>5. ASSUME ReadPlan
      PROVE  RowsCached' /\ TargetRead' /\ ExistingRead'
  <2>1. PICK chosen :
          gate' = [gate EXCEPT !.at = "judged", !.rules = chosen]
    BY <1>5 DEF ReadPlan
  <2>2. gate' = [at |-> "judged", target |-> gate.target,
                 existing |-> gate.existing, rules |-> chosen]
    BY <2>1 DEF TimetableInv, RowsCached
  <2>3. /\ gate.at = "timetable" /\ gate'.at = "judged"
        /\ gate'.target = gate.target /\ gate'.existing = gate.existing
        /\ Target' = Target /\ InUse' = InUse
    BY <1>1, <1>5, <2>2 DEF ReadPlan, Target, InUse
  <2>4. RowsCached'
    BY <1>1, <2>2, <2>3 DEF TimetableInv, RowsCached
  <2>5. TargetRead' /\ ExistingRead'
    BY <1>1, <2>3 DEF TimetableInv, TargetRead, ExistingRead
  <2>6. QED BY <2>4, <2>5
<1>6. QED BY <1>2, <1>3, <1>4, <1>5

\* An accepted request: the time conflict rule has found nothing in what was
\* read, so what meets the target now has been moved since.
LEMMA AcceptKeepsTimetable ==
  ASSUME TimetableInv, Accept
  PROVE  RowsCached' /\ TargetRead' /\ ExistingRead' /\ TimetableClashFree'
<1>1. /\ gate.at = "judged" /\ Target \notin DOMAIN rows
      /\ UNCHANGED <<cached, moved>>
      /\ DOMAIN rows' = DOMAIN rows \cup {Target}
      /\ Enrolled' = Enrolled \cup {Target}
  BY DEF Accept, catalogue, Target, Enrolled
<1>2. /\ gate' = [at |-> "idle", target |-> << >>, existing |-> {}, rules |-> {}]
      /\ gate'.at = "idle"
  BY DEF Accept, NoRequest
<1>3. RowsCached' /\ TargetRead' /\ ExistingRead'
  BY <1>1, <1>2 DEF TimetableInv, RowsCached, TargetRead, ExistingRead
<1>4. \A e \in gate.existing : ~ TimesMeet(gate.target, e)
  <2>1. PICK override \in BOOLEAN : ~ HasHardViolation(Validate(Context(override)))
    BY DEF Accept
  <2>2. TimeConflictRule(Context(override)) = {}
    BY <2>1, VerdictOfHardRules
  <2>3. QED BY <2>2 DEF TimeConflictRule, Violated, Context
<1>5. ASSUME NEW p \in Enrolled, TimesMeet(cached[Target], cached[p])
      PROVE  {Target, p} \in moved
  <2>1. CASE gate.target.slots = cached[Target].slots
    <3>1. ASSUME NEW e \in gate.existing, e.slots = cached[p].slots
          PROVE  FALSE
      BY <1>4, <1>5, <2>1, <3>1 DEF TimesMeet
    <3>2. QED BY <1>1, <3>1 DEF TimetableInv, ExistingRead
  <2>2. CASE gate.target.slots # cached[Target].slots
    BY <1>1, <2>2 DEF TimetableInv, TargetRead, InUse
  <2>3. QED BY <2>1, <2>2
<1>6. TimetableClashFree'
  <2>1. SUFFICES ASSUME NEW o \in Enrolled', NEW p \in Enrolled', o # p,
                        TimesMeet(cached[o], cached[p])
                 PROVE  {o, p} \in moved
    BY <1>1 DEF TimetableClashFree
  <2>2. CASE o \in Enrolled /\ p \in Enrolled
    BY <2>1, <2>2 DEF TimetableInv, TimetableClashFree
  <2>3. CASE o = Target /\ p \in Enrolled
    BY <1>5, <2>1, <2>3
  <2>4. CASE p = Target /\ o \in Enrolled
    <3>1. {Target, o} \in moved
      BY <1>5, <2>1, <2>4, TimesMeetSymmetric
    <3>2. {o, p} = {Target, o}
      BY <2>4
    <3>3. QED BY <3>1, <3>2
  <2>5. QED BY <1>1, <2>1, <2>2, <2>3, <2>4
<1>7. QED BY <1>3, <1>6

LEMMA RefuseKeepsTimetable ==
  ASSUME TimetableInv, Refuse
  PROVE  RowsCached' /\ TargetRead' /\ ExistingRead' /\ TimetableClashFree'
<1>1. UNCHANGED <<cached, rows>> /\ Enrolled' = Enrolled
  BY DEF Refuse, catalogue, Enrolled
<1>2. /\ gate' = [at |-> "idle", target |-> << >>, existing |-> {}, rules |-> {}]
      /\ gate'.at = "idle"
  BY DEF Refuse, NoRequest
<1>3. \A o, p \in Enrolled : {o, p} \in moved => {o, p} \in moved'
  BY DEF Refuse, Pairs
<1>4. RowsCached' /\ TargetRead' /\ ExistingRead'
  BY <1>1, <1>2 DEF TimetableInv, RowsCached, TargetRead, ExistingRead
<1>5. TimetableClashFree'
  BY <1>1, <1>3 DEF TimetableInv, TimetableClashFree
<1>6. QED BY <1>4, <1>5

LEMMA DropKeepsTimetable ==
  ASSUME TimetableInv, NEW o \in Offerings, DropOffering(o)
  PROVE  RowsCached' /\ TargetRead' /\ ExistingRead' /\ TimetableClashFree'
<1>1. /\ UNCHANGED <<cached, gate>> /\ DOMAIN rows' = DOMAIN rows
      /\ Enrolled' = Enrolled \ {o} /\ o \in DOMAIN rows
      /\ Target' = Target
  BY DEF DropOffering, catalogue, Enrolled, Target
<1>2. \A a, b : a # o /\ b # o /\ {a, b} \in moved => {a, b} \in moved'
  BY DEF DropOffering, Pairs
<1>3. Target \notin DOMAIN rows => Target # o
  BY <1>1
<1>4. RowsCached'
  BY <1>1 DEF TimetableInv, RowsCached
<1>5. TargetRead'
  BY <1>1, <1>2, <1>3 DEF TimetableInv, TargetRead, InUse, Target
<1>6. ExistingRead'
  BY <1>1, <1>2, <1>3 DEF TimetableInv, ExistingRead
<1>7. TimetableClashFree'
  BY <1>1, <1>2 DEF TimetableInv, TimetableClashFree
<1>8. QED BY <1>4, <1>5, <1>6, <1>7

LEMMA NextTimetable ==
  ASSUME TimetableInv, [Next]_vars
  PROVE  TimetableInv'
<1>1. CatalogueInv'
  BY NextCatalogue DEF TimetableInv
<1>2. CASE Plan \/ UNCHANGED vars
  <2>1. UNCHANGED <<cached, moved, rows, gate>>
    BY <1>2 DEF vars, Plan, catalogue
  <2>2. QED BY <1>1, <2>1 DEF TimetableInv, RowsCached, TargetRead, ExistingRead,
                              TimetableClashFree, Target, InUse, Enrolled
<1>3. QED
  BY <1>1, <1>2, RefreshKeepsTimetable, ReadsKeepTimetable, AcceptKeepsTimetable,
     RefuseKeepsTimetable, DropKeepsTimetable
     DEF Next, Request, TimetableInv

LEMMA TimetableInvariant == Spec => []TimetableInv
<1>1. QED BY InitTimetable, NextTimetable, PTL DEF Spec

\* A student's timetable is free of clashes that no refresh has made,
\* although the offering, the timetable and the plan are read one after the
\* other (_build_rule_context) and the cache may be rewritten in between.
THEOREM TimetableNeverClashes == Spec => []TimetableClashFree
<1>1. TimetableInv => TimetableClashFree
  BY DEF TimetableInv
<1>2. QED BY <1>1, TimetableInvariant, PTL

\* The conflict check of courses.py and the rule of rule_engine.py agree on
\* every offering the student has no row for, whatever is cached.
THEOREM TwoChecksAgree == Spec => []PrecheckAgrees
<1>1. ASSUME TimetableInv PROVE PrecheckAgrees
  <2>1. SUFFICES ASSUME NEW o \in DOMAIN cached \ DOMAIN rows
                 PROVE  Precheck(o) <=>
                          TimeConflictRule([target |-> cached[o],
                                            existing |-> Timetable]) # {}
    BY DEF PrecheckAgrees
  <2>2. \A e \in Timetable : e.offering # o
    BY <1>1, <2>1 DEF Timetable, Enrolled, TimetableInv, RowsCached, CatalogueInv
  <2>3. TimeConflictRule([target |-> cached[o], existing |-> Timetable]) # {}
          <=> \E e \in Timetable : TimesMeet(cached[o], e)
    BY DEF TimeConflictRule, Violated
  <2>4. Precheck(o) <=> \E e \in Timetable : TimesMeet(cached[o], e)
    BY <2>2 DEF Precheck, TimesMeet, PeriodsOverlap
  <2>5. QED BY <2>3, <2>4
<1>2. QED BY <1>1, TimetableInvariant, PTL

=============================================================================
