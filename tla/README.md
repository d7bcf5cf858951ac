# Course selection backend: TLA+ models, checks and proofs

The repository is the backend of a course selection service: FastAPI request
handlers (`api` mode) and a background worker (`worker` mode) around PostgreSQL,
Redis and RabbitMQ. Students enroll in, drop and swap offerings, save study
plans and queue in a waiting room; administrators adjust capacities, enroll for
students and trigger a lottery. This directory models the parts that change
shared state, checks them with TLC and proves the core with TLAPS.

## 1. The system

| Component | State it keeps | Operations | Hard part |
|---|---|---|---|
| Enrollment write path (`services/enrollment_service.py`, repositories) | `enrollments`, `course_capacity`, `outbox_events`, Redis `stock:<offering>` | `enroll`, `drop`, `swap`, `proxy_enroll` | requests interleave at every await; a Redis command and a transaction must stay in step through exceptions, lost acknowledgements and crashes |
| Transactions and pool (`core/db.py`) | connections of one process | `connection`, `transaction` | handlers that wait for rows keep connections others wait for |
| Reconciler (`services/reconciler.py`), capacity adjustment (`handlers/admin.py`) | `last_reconciled_at`, the same stock | `run_once`, `adjust_capacity` | blind SETs of values read earlier, beside the requests |
| Outbox publisher (`tasks/publish_outbox.py`, `core/mq.py`) | `outbox_events.status` | fetch, publish with confirm, mark | lost confirms, restarts between publish and mark, order |
| Process lifecycle (`main.py`, `core/db.py`) | open resources, the schema | start, migrate, serve, stop | processes that start together on an empty database, and die on the way |
| Lottery (`services/lottery_service.py`, `engine/lottery_runner.py`) | `enrollment_intents`, `lottery_runs`, the enrollment tables | `trigger`, one transaction per shard | writes the counter without the optimistic lock, locks in another order |
| Waiting room (`engine/waiting_room.py`) | Redis stream, consumer group, admitted set, markers | `is_admitted`, `consume_admission`, `enqueue`, `admit_worker_tick`, throttle | several Redis commands per operation, TTLs, a tick that dies |
| Upstream clients (`integrations/*.py`, `core/http.py`) | breaker, cached service token | `_get`, login | concurrent calls share both; late answers |
| Offering cache (`tasks/prefetch_offerings.py`, `offering_cache_repo.py`) | `cached_offerings`, seeded `course_capacity` rows | `refresh_offerings` | rewrites what the gate is reading |
| Study plans (`services/study_plan_service.py`, `study_plan_repo.py`) | `study_plans`, `study_plan_items`, `curriculum_rules` | `save`, `delete_item`, `get` | concurrent full replacements, a read of two statements |
| Rule engine (`services/rule_engine.py`) | none | `validate` | decides on data read before the transaction; a second copy of one rule in `courses.py` |
| AI advisor (`services/ai_advisor.py`, `integrations/llm_client.py`) | the semaphore of the process, `ai_recommendation_logs` | `stream_message`, `accept` | streams that end in many ways; a recommendation accepted seat by seat |
| Queries (`handlers/courses.py`, `enrollments.py`, `teaching.py`) | none | search, listings | pages and lookups by several statements, beside the writers |
| Windows, curriculum refresh, HTTP shell | little or none | see section 7 | |

Interactions: a request passes the waiting room, then the rule engine (which
reads the offering cache, the timetable and the plan), then the stock counter,
then one PostgreSQL transaction that inserts the row, raises the counter under
its `version` and emits an event. The publisher sends the events; the reconciler
and the administrator rewrite the stock from `course_capacity`; the lottery
writes the same two tables from its own transactions; the advisor's `accept`
calls `enroll` once per offering. All of it runs inside processes that start,
migrate an empty database, stop and die.

What each component must get right is listed as hazards, each at its line, in
`PROJECT.json`; section 4 says which property stands for which.

## 2. The modules

| Module | Models | How its state and steps correspond to the code |
|---|---|---|
| `SeatBook` | the promise of the write path: seats given and given back in atomic steps, never more than there are, never twice to one student at a time | abstract; no code of its own. It lets a student who left take a seat again, as the tests expect; the code refines it without ever doing so (`swap_atomic`). `TakeMany` gives several seats in one step, as a lottery does |
| `Enrollment` | enroll, drop, swap and the stock | a worker is one request handler; `pc` is the await it is at. Database variables hold committed state; a transaction's writes take effect in its commit step and are noticed before through the locks it holds (`HoldsInsert`, `HoldsCapacity`, `HoldsRow`), as under READ COMMITTED. `drift` is a history variable: tokens that failures lost or invented |
| `Pool` | extends `Enrollment` with the connection pool | `conn` are the handlers that hold a connection: from `Open` until their step leaves the `async with` block (`GiveBack`), row-lock waits included |
| `Reconciliation` | extends `Enrollment` with the reconciler, administrators, a flush of Redis | `listed` is the list the round read at its start, `adjusted` the value an administrator still has to SET |
| `Lottery` | extends `Enrollment` with lottery runs | a shard's transaction is `picked`, `won`, `raised`, `lowered`; the requests wait for what it has locked. An aborted deadlock is one of `RunFails`, `TxnError`, `Crash` |
| `OutboxPublisher` | the table of events, the publisher, the broker | `accepted[e]` counts what the broker took; `createdAt` ranks the rows by `created_at`, which is when their transaction began, so a row can appear before older ones |
| `Processes` | extends `OutboxPublisher` with the life of the `api` and `worker` processes | `life[p]` is where `lifespan` or `run_worker` is, `opened[p]` how many resources are open; `Write` needs an api process that serves, `Work` a worker that is up; a death ends the round it is in |
| `WaitingRoom` | one offering's room and the gate of `enroll` | every Redis command is a step; a key with a TTL may expire at any moment |
| `Upstream` | one client with its breaker and token | what a call does between two awaits is a step; instants are distances that a `Tick` counts |
| `RuleEngine` | the five rules and the engine | operators on records: a violation is a code and a severity |
| `Catalogue` | the refresh and the cache | a refresh is three steps, one per upstream answer, and a transaction |
| `StudyPlan` | the plans of one student | each save is its validation, its upsert (which locks the row), its delete and its commit; `view` is the reader between its two statements |
| `RuleGate` | composes the last three with the enroll request up to its verdict | `gate` holds what the request has read so far; `Precheck` is the conflict check of `courses.py` |
| `LlmStream` | the conversations and the semaphore of the language model | `stream[h]` is where the generator of handler h is; `abandoned` counts inner generators left behind, whose slot returns when the event loop finalizes them |
| `Advisor` | `LlmStream` and `accept`, on top of `SeatBook` | one call of `enroll` is one `Enroll` (a `Take` by a student without a dropped row in the way) or nothing, which `EnrollmentProofs` justifies; `claims` is a history variable |
| `Desk` | composes the advisor with the search, the listings, the refresh and the requests of others | each statement of a query is a step; a search is the set of pairs of offering and names that match its WHERE clause, and a refresh rewrites `names`; `since` and `left` are the history of a walk over the pages: what has matched all along, and what has ceased to match |

`MC*` modules instantiate them for TLC; `*Proofs` modules hold theorems.
Definitions called a mutant in their comment are altered forms of the definition
they precede. They model no code: each run is repeated with one put in, and must
then fail.

Abstractions common to all: one semester; messages, names and identifiers are
model values or members of small sets; logging, wording and the audit rows are
left out. The `status` of an enrollment takes the three values the code writes.
The type invariants of all modules were checked; the ones the runs name are those
that a theorem rests on.

## 3. Fidelity notes

- *Optimistic lock.* `ReadVersion` reads the committed version; `Increment`
  waits for the capacity row and re-evaluates `version = seen` and
  `enrolled_count + 1 <= max_capacity` on the committed row. A mismatch is
  reported as a full course even when seats are left.
- *Failures.* `TxnError` is any exception in the transaction of `enroll`
  (rollback, then the compensation); `EnrollCommitLost` commits while the handler
  sees an exception; `Crash` ends a worker anywhere, also for an exception in
  `drop`, whose transaction has no handler. `MaxDrift` bounds how far these may
  move the counter; it appears in the guards of the failure steps only.
- *Pool.* `psycopg_pool` hands a returned connection to the oldest waiter; the model hands
  it to any waiter and asks for strong fairness. A pool timeout is a step that
  may happen to a waiter and on which no liveness property counts.
- *Redis.* A missing key counts as zero (`get_remaining`, and DECR of a missing
  key). `try_consume` is two commands, DECR and possibly INCR.
- *Rules in `Enrollment`* are reduced to a relation `Clash` on offerings;
  `RuleGate` has the rules themselves.
- *Statements of one read.* `_build_rule_context` holds one connection, but under
  READ COMMITTED each of its statements has its own snapshot, so each is a step.
- *Cache rows.* `SQL_UPSERT` leaves the course and the teacher id of an existing
  row (`Upserted`); a group of service B without `offering_id` is filed under its
  course number and may be taken for the offering of that number (`GroupsFor`).
- *Plans.* `SQL_UPSERT_PLAN` does not set `major_code`; `SaveCommit` keeps it.
- *Migration.* The script is one `execute` without parameters, hence one implicit
  transaction: its tables appear together or not at all. A second process that
  runs it meets the first one's uncommitted catalogue keys, waits, and fails when
  they commit (`RunScript`, `ScriptFails`).
- *Streams.* Python closes an async generator that is left at a `yield` only when
  the event loop finalizes it; the slot of the semaphore is kept until then
  (`BreaksOff`, `RecordGuardrail`, `Finalize`). An exception or cancellation at an
  `await` runs the generator to its end at once (`Ends`).
- *Throttle.* It changes the settings of the process that serves it; in the model
  that is the process that admits, which is the only case in which it matters.
- *Pages.* Rows of equal `course_code` come in any order, each time anew; the walk
  is the client's, page by page until the total it was told last is covered. Of
  the columns a search looks at, `SQL_UPSERT` rewrites `course_name` and
  `teacher_name` (together one value of `Names`); `course_code` and `semester` of
  a cached row never change, and belong to the filter.
- *Timeouts.* httpx counts `timeout` per phase (connect, write, read, pool), so an
  attempt may last a few times as long; `Timeout` stands for the longest an attempt
  takes, whatever sum that is, and `ShutBounded` is in terms of it.
- *Token lifetimes.* `max(expires_in - 60, 60)` is modelled as it stands. A token
  issued for less than the margin is used for the whole margin: `TokenFresh` says
  of it that it is overdue by less than it was short, and of any other that it is
  alive when a request leaves.
- *Streams that stall.* A client that stops reading without closing its connection
  holds its slot for as long as it likes; the model has every stream end, break off
  or time out.

## 4. The runs

All passing runs finish within five minutes with two workers. Bounds are small on
purpose: one seat per offering is the smallest course that can be oversold, two
students the smallest crowd, and three handlers let two transactions contend
while a third fails.

| Run | Instance | Shows |
|---|---|---|
| `enroll_safety` | 2 students, 1 offering of 1 seat, 1 key, 3 handlers, drift 1; symmetric | `TypeOK`; `TransactionsExclude` (locks and what they protect); `NoOversell`; `CountMatchesRoster`; `StockLedger` (every token settled once on each path); `KeyBuysOneSeat`; `OutboxTellsHistory`; `ImplementsSeatBook` (refinement) |
| `pool` | 2 students who contend for an offering and swap, 2 handlers, a pool of 1 or 2, fair | `ConnectionsOnlyForPostgres`: nobody awaits Redis with a connection in hand; `EveryRequestReturns`: no ring of waits for rows and connections |
| `swap_atomic` (violation) | 1 student, 1 offering, 1 handler, nothing breaks | `SwapAllOrNothing` fails: the drop commits before the enroll starts, and the canceled row has the enroll refused as a duplicate |
| `clash` (violation) | 1 student, 2 clashing offerings, 2 handlers | `NoClashingEnrollments` fails: both requests read the timetable before either commits |
| `reconcile` | 1 student, 1 seat, 2 handlers, 1 administrator who raises and lowers, drift 1, 1 flush, fair | `CountWithinCapacity` whatever is adjusted while an enroll waits; `Converges`: once requests stop and rounds finish, stock and table agree for good |
| `outbox` | an api and a worker process, an empty or a migrated database, 3 events of 2 enrollments, batch 2, 1 cut round, 1 restart, fair | `PublishedWasAccepted`, `AcceptedInOrder`, `DuplicatesNeedDeaths`, `EveryEventSettles` over processes that come and go; `UpOnWholeSchema`, `EveryProcessComesUp` |
| `outbox_dead` (violation) | 1 enrollment, no cut rounds, fair | `AtLeastOnce` fails: a dead row is never selected again |
| `lottery` | 2 runs, 4 intents, batch 2, 2 shards, 1 handler | `CountMatchesRoster`, `ReportIsTrue`, `LosersMetFullCourse`; `ImplementsLotteryBook`: a shard is one step of the seat book (refinement) |
| `waiting_room` | 2 users, 2 handlers, 3 stream entries, rates 1 and 2, 1 cut tick | `OneUse`, `AdmittedInOrder`, `LostIsPending`, also when the throttle is turned in the middle of a tick, by whomever it is run |
| `upstream` | 3 calls, threshold 2, cooldown 2, 1 retry, 2 outages, lifetimes of 1, 3 and 5 around a margin of 2, fair | `TripNeedsFailures`, `ShutBounded`, `TokenFresh`, `Recovers` |
| `rule_gate` | 3 offerings of 2 courses, 2 refreshes, 2 saves of one version, a reader; symmetric in the saves | `PlanFromOneSave`; `ViewNeverStale` (a plan is never shown with items that its row replaced); `PrecheckAgrees` (the two copies of the conflict rule); `TimetableClashFree`; `RefreshKeepsSeats` |
| `desk` | 3 offerings of 2 names and 2 courses; 1 recommendation of 2 offerings, 2 handlers, 1 slot, or a walk a row a page, searching for all or by name; fair | `SlotsAccounted`, `WaitersServed`: no end of a stream keeps a slot; `MarkedIsComplete`, `ClaimedOnce`: what `accept` tells of seats is true; `WalkMissesNothing`: a walk by several statements, while refreshes insert and rename |

Every bound and why it is enough:

- `Workers`, `Runs`, `Handlers`, `Calls`, `Saves`, `Apis`: two contend for each lock,
  key, slot or set (an api and a worker start in the same way); three where a
  third is needed to fail in between.
- `MaxDrift`, `MaxDeaths`, `MaxRestarts`, `MaxCuts`, `MaxFlushes`, `MaxOutages`: one or
  two failures in any place; each failure leaves a state that the same steps can
  fail from again.
- `MaxVersion` and `MaxEntries` bound counters that only grow. Capacities go down
  and up from one seat.
- `MaxRefreshes` = 2: a refresh that inserts rows and one that finds them.
- `Batch`, `PerTick` = 2: smaller than the backlog, larger than one. `PageSize` = 1
  over three offerings: each page begins at an offset that a refresh can shift.
- `Names` has two values, so that a refresh can rename a row into and out of a search.
- `Mixes` of `desk` are two: everything but searches at two handlers, or a search at
  one. A walk shares only the cache with the rest, so more at once adds nothing to it.
- `PoolSizes` = {1, 2}: one connection for two handlers, and one each.
- `MaxConcurrency` = 1: one handler streams while the other waits.
- `Threshold`, `Cooldown`, `Lifetimes`, `Margin` are scaled: what matters is that a
  token can expire while a call waits, that failures can arrive after opening, and
  that lifetimes lie below the margin, below twice the margin, where the floor of
  `max(expires_in - 60, 60)` applies, and above.

`CHECK_DEADLOCK FALSE` stands where a system may come to rest: all events
settled, the stream at its bound, or no offering in the cache and no refresh left.

Fairness. `EveryRequestReturns`: handlers are asyncio tasks, the pool serves its
waiters in turn and PostgreSQL grants a lock to the one that waits longest, so
each handler's next step is strongly fair (failures and timeouts are not).
`Converges`: the scheduler of `run_worker` starts a round every minute and
runs one at a time; nothing is assumed of requests or administrators, and that
rounds eventually run to their end is a hypothesis of the property itself.
`EveryEventSettles`: rounds are weakly fair while their process is up, and
nothing is asked of the broker; `EveryProcessComesUp`: containers are restarted
(`deploy/docker-compose.yml`; a process that ended in an orderly way, by its operator)
and start-up steps are weakly fair, deaths being bounded. `outbox_dead` assumes in
addition strong fairness of a confirmed publish: a broker asked again and again
accepts some time, and still the event is not delivered. Of the waiting room
nothing is assumed: no process of `main.py` runs the tick (section 6). `Recovers`: time passes, and every request is answered
or times out. `WaitersServed`: the event loop hands a free slot to the oldest
waiter and finalizes generators; a language model's answer is finite, and
`llm_timeout_ms` ends a stream on which nothing arrives any more.

## 5. The proofs

TLAPS proves for every value of the constants (any number of students, offerings,
handlers, keys, seats, failures, connections, processes, runs, saves, calls,
stream entries). With it every invariant, and every action property but the
liveness ones, that a run checks on a small instance is also a theorem. Each
inductive invariant below was first checked by TLC on the instance of the run.

**The write path** (`EnrollmentProofs`).

- `TypeOK` and `TransactionsExclude`; the second is inductive together with the
  first. Each step moves one worker only (`MovesAlone`); steps that take no lock
  are dispatched at once (`LocklessStep`), those that take or use one have a
  lemma each.
- `CountMatchesRoster`, `NoOversell`, `KeyBuysOneSeat`, `OutboxTellsHistory`. None
  is inductive alone: that a commit raises the roster by exactly one needs the row
  to be still absent, which `TransactionsExclude` says; that the count stays
  within the capacity needs the seat found by `Increment` to be there at the
  commit. `CountInv` = `TypeOK` /\ `TransactionsExclude` /\ `CountMatchesRoster`
  /\ `CountWithinCapacity` is inductive, and `SeatInv` adds the keys and the
  events. `NoOversell` follows: the count is the roster and is within the capacity.
- `StockLedger`, by the change of each summand in each step: a worker moves a
  token from the counter to its hands, from its hands to the count, or back, and
  the failures book the difference in `drift`. `Balance` is the step that all
  actions share: it asks only what one worker and one offering did to the four
  summands.
- `Spec => ImplementsSeatBook`. Commits map to `Take` and `Leave`, every other step
  to stuttering.

**The pool** (`PoolProofs`): `PSpec => Spec` (`PoolRefines`), so everything above
holds over a pool of any size, `NoOversell` restated; and
`ConnectionsOnlyForPostgres`, inductive with the types.

**The other writers** (`WriterProofs`).

- The reconciler, the administrators, a flush: the same invariants and the
  refinement for `RSpec`. Every step that is not a step of `Enrollment` touches the
  stock and the drift by the same amount (`BesideTheLedger`), or raises or lowers
  one capacity under the guard of `SQL_ADJUST_MAX` while no transaction holds that
  row. So that no offering is oversold depends on nothing Redis says.
- The lottery: `CountMatchesRoster`, `NoOversell`, `ReportIsTrue`,
  `LosersMetFullCourse` for `LSpec`. Neither counter nor report is inductive by
  itself, for a shard writes at its commit what it reckoned long before. `LInv`
  says what the open shard has: what it locked nobody else has (`LockInv`); every
  increment was undone, has its row, or is in hand (`TallyInv`); the space it found
  is still there (`SpaceInv`); whom it turned away met a course whose seats all have
  rows or winners (`LostInv`). A step of a request changes neither the counter of a
  drawn offering nor a row a shard inserted (`RequestLocks`, `RequestSpares`); a step
  of a run concerns that run (`RunKeeps`), so `LInv` is split by runs (`RunParts`);
  the commit adds two disjoint sets (`WinnersJoin`). The losers' theorem counts rows
  that are or were there, which no request removes (`EverGrows`).
  `LSpec => ImplementsLotteryBook` maps a shard's commit to `TakeMany`, its other
  steps to stuttering.

**The outbox and the processes** (`OutboxProofs`).

- `PublishedWasAccepted` for any number of publishers; `AcceptedInOrder` for one,
  from an invariant that what is in a publisher's hands is ordered and that whatever
  ranks before it is settled or in hand.
- `DuplicatesNeedDeaths` for one publisher: an event nobody is sending, and that is not
  settled, has been accepted no more often than rounds were cut short
  (`FreshInv`).
- `ProcSpec => Spec` (`ProcessesRefine`): a start or an orderly stop stutters, a
  death is a cut round. All three carry over to processes. `UpOnWholeSchema` from
  `SchemaInv`: the committed tables are none or all, and a process past its check
  has seen all of them.

**The waiting room** (`WaitingRoomProofs`). `RoomInv` says what the stream, the batches
and the set of the added entries have to do with one another: no entry is in two
batches, only the head of a batch may have been added. `LostIsPending` follows with
the pending list; `AdmittedInOrder` needs that the one admitter's batch is the end of
what was delivered (`OrderInv`; with several admitters the property claims nothing);
`OneUse` that a user's passes and its presence in the admitted set together are within
the entries added, and that a serial client has one request in flight (`SerialInv`).

**The upstream client** (`UpstreamProofs`). `TripNeedsFailures`: the counter, cut off
at the threshold, never exceeds the calls that have lost all their attempts since the
breaker last closed or saw a 2xx answer (`TripInv`); attempts and 4xx answers count
for nothing.
`ShutBounded`: how long the breaker has been shut plus how long a call in flight may
still fail is bounded (`ShutInv`), so late failures postpone the end of the cooldown by
one call's length, however many there are. `TokenFresh`, an action property, from
`TokenInv`: what the client believes of its token is within what the service grants,
and what it was short of the margin when it was issued. Nothing is assumed of the
lifetimes.

**The gate** (`GateProofs`).

- `PlanFromOneSave` and `ViewNeverStale` from `PlanInv`: one save at a time holds the row
  of a version, and has deleted all the items it found (`RowLocks`, `AllGone`); what a
  reader is about to be shown stems from no save that had ended before (`NextNotPast`).
- `RefreshKeepsSeats`, an action property, from `CatalogueInv`; it is also why a
  listing finds the offering of every row (`ListedAreKnown` of `DeskProofs`).
- `TimetableClashFree` from `TimetableInv`: what the request has read of the target and
  of the timetable is what the tables say, but for pairs that a refresh has moved.
  `PrecheckAgrees` from the same.
- `OverrideIsIdle`: `allow_override` changes no verdict.

**The desk** (`DeskProofs`).

- `SlotsAccounted` from `SlotInv`: the queue of the semaphore holds whoever waits, once.
- `MarkedIsComplete` and `ClaimedOnce` from `SeatsInv`: what was answered so far is true
  (`ToldInv`), and stays so, since a seat is never forgotten (`NothingForgotten`).
- `ListedAreKnown` (only proved, no run checks it) and `WalkMissesNothing` from
  `QueryInv`: an offering that has matched the search since the walk began, alone in its
  course, has been shown, or its place in the order is not yet behind the page, or a
  row before it has left the result (`WalkInv`). Without the last case, which pulls
  the rest of the result over the OFFSET of the next page, it is false.

Assumptions: finitely many students, handlers, admitters, intents and aggregates,
capacities that are natural numbers, a token margin longer than a request's timeout,
one publisher for the order and the duplicates of events (`worker` is deployed once in
`deploy/docker-compose.yml`), and the constants for "nothing" being no members of the
sets they are added to. All but the one publisher, which is a hypothesis of the
theorem, are `ASSUME`s that TLC evaluates.

Only model-checked: the liveness properties (`EveryRequestReturns`, `Converges`,
`EveryEventSettles`, `EveryProcessComesUp`, `Recovers`,
`WaitersServed`), which are out of reach of this prover.

## 6. Where code and documents differ

Four disagreements are shown by violation runs:

- `swap_atomic`, twice: a swap is a drop and then an enroll, not one transaction
  (`docs/接口文档-前端对内.md:228`); and enroll after drop is refused, since the
  canceled row still holds the unique key (`enrollment_repo.py:18`;
  `tests/unit/test_enrollment_service.py:185` swaps an offering for itself and
  expects to be enrolled, over a fake repository that ignores canceled rows). The
  counterexample is that test, run on the code's own SQL.
- `clash`: two requests of one student enroll him in clashing offerings, each
  validated before the other commits (`rule_engine.py:43`).
- `outbox_dead`: an event whose publish failed once is never sent
  (`publish_outbox.py:4` has it retried).

Others met while modelling, kept in the models as the code has
them:

- A concurrent request with the same key gets `DuplicateEnrollment`, not the first
  result (`docs/接口文档-前端对内.md:16`).
- A version conflict raises `CapacityFull` with seats left.
- The reconciler writes the value computed from its list, stale by the time it
  writes; a later round repairs it.
- `accept` does not ask whether a recommendation was accepted before and the last
  writer's results are stored: they may say "rejected" for a seat that an earlier
  accept booked. No code inserts rows of `ai_recommendation_logs`
  (`SQL_SAVE_REC` is never executed); `recommend` answers with an identifier that
  is stored nowhere and is no UUID, so accepting it fails.
- A refused tool is said to answer 502 (docstring of `ai_advisor.py`,
  `docs/TEST_REPORT.md:56`): the event stream has begun with 200 by then, and
  `UpstreamDown` maps to 503. Continuation pieces of a tool call carry no name and
  are refused too. The quotas of `docs/接口文档-前端对内.md:280` are not enforced.
- Pages: rows with equal course codes may be shown twice or not at all across
  pages; a refresh that renames a row out of the result of a search makes a walk skip
  the row that moves up over the OFFSET. `snapshot_at` is never set (`docs/接口契约-跨组对外.md:150`). The roster does
  not ask whether the offering is the teacher's own.
- A plan may be shown with the items of a newer save under the row of an older one.
- A queue position never falls, as the stream is never trimmed
  (`docs/接口文档-前端对内.md:220` has clients wait until they are near the front).
- Events carry no `occurred_at` (`docs/接口契约-跨组对外.md:180`); lottery winners get
  no `enrollment.created` event (`:188`), and the lottery leaves the Redis stock alone.
- Lottery: an intent is never marked or removed, so `LIMIT 1000` leaves the rest of a
  shard undrawn in this run and in all later ones; `random()` in the query makes
  a seed not reproducible and shuffles priorities; a failed run stays 'running'.
- Waiting room: `run_worker` schedules no `admit_worker_tick`, and nothing but a test
  calls it, so as deployed nobody who queues is ever admitted (`waiting_room.py:3`
  says that the worker mode of `main.py` does it). Two concurrent requests pass on
  one admission, as `enroll` ignores the result of the SREM (`waiting_room.py:53`
  calls it a one-time token). Each admission renews the TTL of all; a tick that dies
  before SADD loses the admission, as only new entries are ever read; the throttle
  changes the settings of the process that served it only.
- Breaker: half-open forgets the failures, so it takes the full threshold to
  open again; a late failure prolongs the cooldown, a late success ends it; a
  401 does not discard the token; a token issued for less than 60 seconds is used for
  60 (`info_client.py:130`).
- Offering cache: a teacher's name is updated without the teacher's id; one
  unknown teacher aborts a whole refresh; no scheduler runs the refresh.
- Study plans: saving a version again for another major keeps the old major code,
  by which enrollments are then judged; deleting an item leaves 'valid' as it was;
  with several versions the gate takes any; `validated_at` is never set.
- Rules: weeks are ignored, no student has passed courses (so any prerequisite
  refuses) and credits are zero; soft rules never change a verdict, hence neither
  does `allow_override`; asking again for an offering one has reports a clash with itself.

## 7. Not modelled

- *Single-statement queries* (one offering, the teacher's offerings, the timetable,
  the roster with the names asked of service A, the dashboard, the probes):
  nothing can come between the statements of a read that has one.
- *Enrollment windows*: stored and listed; no request is refused by one, so there
  is nothing a property could relate them to.
- *Curriculum refresh*: a stub that is never called.
- *HTTP shell*: authentication, error mapping, path rewriting, logging, settings,
  the declarations of ports and schemas: no state of their own.
- *What the language model says*, `recommend`, `new_conversation`, `embed`: data
  without a state to change.
- *Intents* and *recommendations* are external: rows of both tables are read by the
  code and written by none of it.

## 8. Plan

Done: the modules above in the order write path, reconciliation, outbox, lottery,
waiting room, upstream, rule gate, pool, processes, desk; a theorem for every
invariant and action property the runs check.

Next, by worth:

1. The lottery beside swaps and administrators: one specification of all writers of
   `course_capacity`, with `LInv` as its invariant.
2. The waiting room composed with `Enrollment`, and an abstract queue it implements.
