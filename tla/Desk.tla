-------------------------------- MODULE Desk --------------------------------
(***************************************************************************)
(* What a student does at the front end: search the catalogue page by page *)
(* (app/api/handlers/courses.py, offering_cache_repo.py), list what he is  *)
(* enrolled in (handlers/enrollments.py, teaching.py), accept what the     *)
(* advisor recommends and talk to it (Advisor), while others take and drop *)
(* seats and the cache is refreshed.                                       *)
(*                                                                         *)
(* A handler serves one request at a time.  Each statement of a query has  *)
(* a snapshot of its own (READ COMMITTED).  The walk over the pages is the *)
(* client's: it asks for the next page until the pages cover the total it  *)
(* was told last.  Of a cached row only what a search looks at and a       *)
(* refresh may rewrite is kept, as one value.  The numbers of seats shown  *)
(* with each item, one more statement per item, are left out.              *)
(***************************************************************************)
EXTENDS Advisor

CONSTANTS
    Mixes,     \* the traffic there may be: kinds of requests per handler
    Seats,     \* Seats[o]: capacity the refresh seeds
    Code,      \* Code[o]: course_code, by its place in the order
    Names,     \* course_name with teacher_name
    Filters,   \* the searches: each the pairs <<o, n>> that match, o named n
    PageSize   \* page_size

Kinds == {"search", "list", "accept", "ask"}

ASSUME DeskAssumption ==
    /\ IsFiniteSet(Offerings)
    /\ Mixes \subseteq [Handlers -> SUBSET Kinds]
    /\ Seats \in [Offerings -> Nat] /\ Code \in [Offerings -> Nat] /\ PageSize \in Nat \ {0}
    /\ Filters \subseteq SUBSET (Offerings \X Names)

VARIABLES
    names,   \* cached_offerings: names[o] of each row o
    query,   \* per handler: the search or listing it serves
    serves   \* the traffic there is

dvars == <<bookVars, llm, advice, names, query, serves>>

\* The rows of cached_offerings.
cached == DOMAIN names

NoQuery == [at |-> "idle"]

DeskTypeOK ==
    /\ AdvisorTypeOK
    /\ cached \subseteq Offerings /\ names \in [cached -> Names]
    /\ \A h \in Handlers :
          query[h].at \in {"idle", "page", "count", "row", "shown"}
    /\ serves \in Mixes

Init ==
    /\ size = Seats
    /\ holders = [o \in Offerings |-> {}]
    /\ former = [o \in Offerings |-> {}]
    /\ AdvisorInit
    /\ \E c \in SUBSET Offerings : names \in [c -> Names]
    /\ query = [h \in Handlers |-> NoQuery]
    /\ serves \in Mixes

\* The handler serves nobody, and may be asked for this.
Free(h, kind) ==
    /\ kind \in serves[h]
    /\ stream[h] = "idle" /\ accept[h] = NoAccept /\ query[h] = NoQuery

-----------------------------------------------------------------------------
\* The search.

\* The WHERE clause: keyword on name and code, teacher's name, semester.
Matching(table, filter) == {o \in DOMAIN table : <<o, table[o]>> \in filter}

Result(filter) == Matching(names, filter)

\* The ways ORDER BY course_code may list the rows: ties come in any order,
\* and not in the same one each time.
Listings(filter) ==
    {q \in Bijection(1..Cardinality(Result(filter)), Result(filter)) :
        \A i, j \in DOMAIN q : i < j => Code[q[i]] <= Code[q[j]]}

\* LIMIT page_size OFFSET offset
Slice(q, page) ==
    {q[i] : i \in {j \in DOMAIN q : (page - 1) * PageSize < j /\ j <= page * PageSize}}

\* A walk begins at page 1.  Its history: since, what has matched ever since
\* it began, and left, what has ceased to match meanwhile.
SearchBegin(h) ==
    /\ Free(h, "search")
    /\ \E filter \in Filters :
          query' = [query EXCEPT ![h] =
                       [at |-> "page", page |-> 1, filter |-> filter,
                        since |-> Result(filter), left |-> {}, rows |-> {}, shown |-> {}]]

\* SQL_SEARCH
ReadPage(h) ==
    /\ query[h].at = "page"
    /\ \E q \in Listings(query[h].filter) :
          query' = [query EXCEPT ![h].at = "count",
                                 ![h].rows = Slice(q, query[h].page)]

\* The rows of page k are shown and total is told: the client asks for the
\* next page, or has seen them all.
Answer(h, total) ==
    query' = [query EXCEPT ![h].at = IF query[h].page * PageSize < total THEN "page" ELSE "shown",
                           ![h].page = @ + 1,
                           ![h].rows = {},
                           ![h].shown = @ \cup query[h].rows]

\* Mutant of ReadCount: the rows were counted before the page was read.
CountFirst(h) ==
    /\ query[h].at = "count"
    /\ \E c \in SUBSET Result(query[h].filter) :
          query[h].since \subseteq c /\ Answer(h, Cardinality(c))

\* SQL_SEARCH_COUNT, under the same WHERE clause, and the answer.
ReadCount(h) ==
    query[h].at = "count" /\ Answer(h, Cardinality(Result(query[h].filter)))

-----------------------------------------------------------------------------
\* The listing of a student's enrollments, dropped ones too.

\* SQL_LIST_BY_STUDENT
ListBegin(h, s) ==
    /\ Free(h, "list")
    /\ query' = [query EXCEPT ![h] =
                    [at |-> "row", unknown |-> {},
                     rows |-> {o \in Offerings : s \in holders[o] \cup former[o]}]]

\* The offering of each row, one statement after the other; None if it is not
\* cached.
ReadOffering(h) ==
    /\ query[h].at = "row"
    /\ \E o \in query[h].rows :
          query' = [query EXCEPT ![h].rows = @ \ {o},
                                 ![h].unknown = @ \cup ({o} \ cached)]

\* The answer is given, or the request fails or is given up.
QueryEnds(h) ==
    /\ query[h].at # "idle"
    /\ query' = [query EXCEPT ![h] = NoQuery]

Query(h) ==
    /\ \/ SearchBegin(h) \/ ReadPage(h) \/ ReadCount(h)
       \/ \E s \in Students : ListBegin(h, s)
       \/ ReadOffering(h)
       \/ QueryEnds(h)
    /\ UNCHANGED <<bookVars, llm, advice, names>>

-----------------------------------------------------------------------------
\* What a walk remembers when the rows become those of table.
Watched(q, table) ==
    IF q.at \in {"page", "count"}
    THEN [q EXCEPT !.since = @ \cap Matching(table, q.filter),
                   !.left = @ \cup (Result(q.filter) \ Matching(table, q.filter))]
    ELSE q

\* A refresh commits: SQL_UPSERT adds offerings and renames cached ones; none
\* is ever removed.
Refresh ==
    /\ \E c \in SUBSET Offerings : cached \subseteq c /\ names' \in [c -> Names]
    /\ names' # names
    /\ query' = [h \in Handlers |-> Watched(query[h], names')]
    /\ UNCHANGED <<bookVars, llm, advice>>

\* enroll and drop by other requests; enroll finds its offering in the cache.
Others ==
    /\ \E s \in Students, o \in Offerings :
          (o \in cached /\ Enroll(s, o)) \/ Leave(s, o)
    /\ UNCHANGED <<llm, advice, names, query>>

Accepts(h) ==
    /\ \/ \E r \in Recs : Free(h, "accept") /\ AcceptBegin(h, r)
       \/ \E o \in cached : Booked(h, o)
       \/ \E o \in Offerings : Rejected(h, o)
       \/ Breaks(h) /\ \A o \in Offerings : holders'[o] # holders[o] => o \in cached
       \/ MarkAccepted(h)
    /\ UNCHANGED <<llm, names, query>>

Converses(h) ==
    /\ \/ Free(h, "ask") /\ Ask(h)
       \/ Grant(h) \/ Leaves(h) \/ Ends(h) \/ BreaksOff(h)
       \/ Refuses(h) \/ RecordGuardrail(h)
    /\ UNCHANGED <<bookVars, advice, names, query>>

Closes == Finalize /\ UNCHANGED <<bookVars, advice, names, query>>

Next ==
    /\ \/ \E h \in Handlers : Query(h) \/ Accepts(h) \/ Converses(h)
       \/ Closes \/ Refresh \/ Others
    /\ UNCHANGED serves

Spec == Init /\ [][Next]_dvars

\* The event loop hands a free slot to the oldest waiter and closes what was
\* left behind; the language model finishes or times out, and an audit row is
\* written or fails.
FairSpec ==
    /\ Spec
    /\ WF_dvars(Closes /\ UNCHANGED serves)
    /\ \A h \in Handlers :
          WF_dvars((Grant(h) \/ Ends(h) \/ RecordGuardrail(h))
                       /\ UNCHANGED <<bookVars, advice, names, query, serves>>)

-----------------------------------------------------------------------------
\* What must hold.

\* Walking the pages misses nothing: an offering that matched the search from
\* the beginning of the walk to its end, the only one of its course, has been
\* shown, however many were inserted before it or renamed meanwhile.  Only one
\* renamed out of the result before it, which pulls it over the OFFSET of the
\* next page, can hide it.
WalkMissesNothing ==
    \A h \in Handlers : query[h].at = "shown" =>
        \A o \in query[h].since :
            (\A p \in Offerings : Code[p] = Code[o] => p = o) =>
                \/ o \in query[h].shown
                \/ \E p \in query[h].left : Code[p] < Code[o]

\* What a student is or was enrolled in can be named: its offering is still
\* cached when the listing looks it up, some statements after the rows.
ListedAreKnown ==
    \A h \in Handlers : query[h].at = "row" => query[h].unknown = {}

=============================================================================
