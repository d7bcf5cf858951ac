----------------------------- MODULE Enrollment -----------------------------
(***************************************************************************)
(* The single write path of the service: EnrollmentService.enroll, drop    *)
(* and swap (app/services/enrollment_service.py), together with the Redis  *)
(* stock counter (app/engine/capacity_lock.py) and the two PostgreSQL      *)
(* tables it keeps in step (enrollments, course_capacity).                 *)
(*                                                                         *)
(* A worker is one request handler (an asyncio task of some api process).  *)
(* Between two awaits of the handler any other worker may run, so every    *)
(* await that reads or writes shared state is a step of its own.           *)
(*                                                                         *)
(* The database variables hold COMMITTED state.  A transaction's own       *)
(* writes take effect in its commit step; until then what other            *)
(* transactions notice of them is the locks they take (READ COMMITTED):    *)
(*   - an inserted row holds its unique keys: another INSERT of the same   *)
(*     (student, offering) or idempotency key waits for the outcome;       *)
(*   - an updated row holds its row lock: another UPDATE of it waits, and  *)
(*     then re-evaluates its WHERE clause on the committed row.            *)
(* Which worker holds which lock follows from its program counter.         *)
(***************************************************************************)
EXTENDS Integers, FiniteSets, Sequences

CONSTANTS
    Students,
    Offerings,
    Keys,        \* idempotency keys a client may send
    NoKey,       \* the request carries no key
    NoRow,       \* "no enrollment"
    Workers,     \* request handlers running concurrently
    Seats,       \* Seats[o]: capacity the catalogue refresh seeded
    Clash,       \* <<o, p>> : a hard rule refuses o to a student who has p
    MaxDrift     \* bound on the tokens lost to, or invented by, failures

\* A row of the enrollments table.  (student_id, offering_id, semester) is
\* UNIQUE and rows are never deleted; one semester is modelled.
Rows == Students \X Offerings

ASSUME FiniteAssumption == IsFiniteSet(Students) /\ IsFiniteSet(Workers)
ASSUME SeatsAssumption  == Seats \in [Offerings -> Nat]
ASSUME NoRowAssumption  == NoRow \notin Rows
ASSUME NoKeyAssumption  == NoKey \notin Keys
ASSUME DriftAssumption  == MaxDrift \in Nat

VARIABLES
    status,         \* enrollments.status of each row, "absent" before INSERT
    keyOf,          \* enrollments.idempotency_key of each row
    maxCapacity,    \* course_capacity.max_capacity
    enrolledCount,  \* course_capacity.enrolled_count
    version,        \* course_capacity.version
    outbox,         \* outbox[r]: events emitted for row r, oldest first
    stock,          \* Redis stock:<offering>; a missing key counts as 0
    pc,             \* where each worker's handler is
    req,            \* the request each worker serves
    seen,           \* course_capacity.version read by the worker
    reason,         \* the error a failing enroll is about to raise
    drift           \* history: tokens failures created (+) or destroyed (-)

dbVars  == <<status, keyOf, maxCapacity, enrolledCount, version, outbox>>
reqVars == <<pc, req, seen, reason>>
vars    == <<dbVars, stock, reqVars, drift>>

-----------------------------------------------------------------------------
Status  == {"absent", "enrolled", "canceled"}
Events  == {"created", "canceled"}
Reasons == {"none", "duplicate", "full", "error"}

EnrollSteps == {"check", "consume", "undo", "insert", "version", "cas",
                "commit", "compensate"}
DropSteps   == {"decrement", "dropCommit", "dropRelease"}

\* row: the enrollment the handler is working on; other: in the drop half of
\* a swap the row to take next, in its enroll half the row given up.
NoReq    == [row |-> NoRow, key |-> NoKey, other |-> NoRow]
Requests == [row : Rows, key : Keys \cup {NoKey}, other : Rows \cup {NoRow}]

Row(w)      == req[w].row
Offering(w) == req[w].row[2]

\* The open transaction of w has inserted its row / its row's unique keys.
HoldsInsert(w) == pc[w] \in {"version", "cas", "commit"}
\* ... has updated the offering's course_capacity row.
HoldsCapacity(w) == pc[w] \in {"commit", "dropCommit"}
\* ... has updated the enrollment it cancels.
HoldsRow(w) == pc[w] \in {"decrement", "dropCommit"}
\* w took a token from the stock, or owes one to it, and has not settled.
HoldsToken(w) == pc[w] \in (EnrollSteps \cup {"dropRelease"})
                           \ {"check", "consume"}

\* Mutant of CapacityFree: swap is one transaction, so it still holds the
\* capacity row of the seat it gave up while it enrolls.
CapacityKeptBySwap(o) ==
    \A v \in Workers :
        /\ HoldsCapacity(v) => Offering(v) # o
        /\ pc[v] \in EnrollSteps /\ req[v].other # NoRow
               => req[v].other[2] # o \/ Offering(v) = o

CapacityFree(o) == \A v \in Workers : HoldsCapacity(v) => Offering(v) # o

\* Mutant of RowFree: soft_cancel reads the status and updates by id.
RowUnlocked(r) == TRUE

RowFree(r) == \A v \in Workers : HoldsRow(v) => Row(v) # r

TypeOK ==
    /\ status \in [Rows -> Status]
    /\ keyOf \in [Rows -> Keys \cup {NoKey}]
    /\ maxCapacity \in [Offerings -> Nat]
    /\ enrolledCount \in [Offerings -> Nat]
    /\ version \in [Offerings -> Nat]
    /\ outbox \in [Rows -> Seq(Events)]
    /\ stock \in [Offerings -> Int]
    /\ pc \in [Workers -> {"idle"} \cup EnrollSteps \cup DropSteps]
    /\ req \in [Workers -> Requests \cup {NoReq}]
    /\ \A w \in Workers : pc[w] # "idle" => req[w] \in Requests
    /\ \A w \in Workers : pc[w] = "idle" => req[w] = NoReq
    /\ seen \in [Workers -> Nat]
    /\ reason \in [Workers -> Reasons]
    /\ drift \in [Offerings -> Int]

\* The catalogue has been refreshed (capacity rows seeded) and the stock
\* counters agree with it; nobody is enrolled yet.
Init ==
    /\ status = [r \in Rows |-> "absent"]
    /\ keyOf = [r \in Rows |-> NoKey]
    /\ maxCapacity = Seats
    /\ enrolledCount = [o \in Offerings |-> 0]
    /\ version = [o \in Offerings |-> 0]
    /\ outbox = [r \in Rows |-> << >>]
    /\ stock = Seats
    /\ pc = [w \in Workers |-> "idle"]
    /\ req = [w \in Workers |-> NoReq]
    /\ seen = [w \in Workers |-> 0]
    /\ reason = [w \in Workers |-> "none"]
    /\ drift = [o \in Offerings |-> 0]

-----------------------------------------------------------------------------
\* Helpers of the handlers.

Goto(w, label) == pc' = [pc EXCEPT ![w] = label]

\* The handler returns or raises: the worker forgets its request.
Finish(w) ==
    /\ Goto(w, "idle")
    /\ req' = [req EXCEPT ![w] = NoReq]
    /\ seen' = [seen EXCEPT ![w] = 0]
    /\ reason' = [reason EXCEPT ![w] = "none"]

\* Roll the transaction back and go on to the compensation.
Fail(w, why) ==
    /\ Goto(w, "compensate")
    /\ reason' = [reason EXCEPT ![w] = why]
    /\ UNCHANGED <<req, seen>>

AddStock(o, d) == stock' = [stock EXCEPT ![o] = @ + d]

\* RedisStockStore.release: INCR.
Release(o) == AddStock(o, 1)

\* Mutant of KeyUsed: the key of a canceled enrollment may be used again.
KeyUsedByEnrolled(k) ==
    k # NoKey /\ \E r \in Rows : keyOf[r] = k /\ status[r] = "enrolled"

\* The stored key k already belongs to an enrollment.
KeyUsed(k) == k # NoKey /\ \E r \in Rows : keyOf[r] = k

\* The student of row r is enrolled in an offering that clashes with it.
Clashes(r) ==
    \E o \in Offerings : <<r[2], o>> \in Clash /\ status[<<r[1], o>>] = "enrolled"

-----------------------------------------------------------------------------
\* enroll

\* A request arrives.  A key found in the table short-circuits: the handler
\* answers with the stored enrollment and changes nothing.
EnrollBegin(w, r, k) ==
    /\ pc[w] = "idle"
    /\ ~ KeyUsed(k)
    /\ Goto(w, "check")
    /\ req' = [req EXCEPT ![w] = [row |-> r, key |-> k, other |-> NoRow]]
    /\ UNCHANGED <<dbVars, stock, seen, reason, drift>>

\* The waiting room, a missing offering or a hard rule turns the request
\* away.  A clash with the timetable always does; the other hard rules and
\* the waiting room read nothing this module keeps.
TurnedAway(w) ==
    /\ pc[w] = "check"
    /\ Finish(w)
    /\ UNCHANGED <<dbVars, stock, drift>>

RulesPass(w) ==
    /\ pc[w] = "check"
    /\ ~ Clashes(Row(w))
    /\ Goto(w, "consume")
    /\ UNCHANGED <<dbVars, stock, req, seen, reason, drift>>

\* try_consume, first command: DECR.  A negative result must be undone.
Consume(w) ==
    /\ pc[w] = "consume"
    /\ AddStock(Offering(w), -1)
    /\ Goto(w, IF stock[Offering(w)] - 1 < 0 THEN "undo" ELSE "insert")
    /\ UNCHANGED <<dbVars, req, seen, reason, drift>>

\* try_consume, second command: INCR; then enroll raises CapacityFull.
Undo(w) ==
    /\ pc[w] = "undo"
    /\ AddStock(Offering(w), 1)
    /\ Finish(w)
    /\ UNCHANGED <<dbVars, drift>>

\* Another open transaction has inserted the same row, or the same key.
InsertBlocked(w) ==
    \E v \in Workers \ {w} :
        /\ HoldsInsert(v)
        /\ \/ Row(v) = Row(w)
           \/ req[w].key # NoKey /\ req[v].key = req[w].key

\* INSERT ... ON CONFLICT (student, offering, semester) DO NOTHING.
Insert(w) ==
    /\ pc[w] = "insert"
    /\ ~ InsertBlocked(w)
    /\ status[Row(w)] = "absent"
    /\ ~ KeyUsed(req[w].key)
    /\ Goto(w, "version")
    /\ UNCHANGED <<dbVars, stock, req, seen, reason, drift>>

\* The row exists, whatever its status: DuplicateEnrollment.  (The INSERT
\* waits for a transaction that is updating the row.)
InsertDuplicate(w) ==
    /\ pc[w] = "insert"
    /\ RowFree(Row(w))
    /\ status[Row(w)] # "absent"
    /\ Fail(w, "duplicate")
    /\ UNCHANGED <<dbVars, stock, drift>>

\* The key belongs to another row: not the conflict target of the INSERT,
\* so PostgreSQL raises UniqueViolation.
InsertKeyTaken(w) ==
    /\ pc[w] = "insert"
    /\ ~ InsertBlocked(w)
    /\ status[Row(w)] = "absent"
    /\ KeyUsed(req[w].key)
    /\ Fail(w, "error")
    /\ UNCHANGED <<dbVars, stock, drift>>

\* SELECT ... FROM course_capacity: the committed version, no lock.
ReadVersion(w) ==
    /\ pc[w] = "version"
    /\ seen' = [seen EXCEPT ![w] = version[Offering(w)]]
    /\ Goto(w, "cas")
    /\ UNCHANGED <<dbVars, stock, req, reason, drift>>

\* Mutant of CanIncrement: the optimistic lock alone, no capacity check.
SameVersion(w) == version[Offering(w)] = seen[w]

\* The WHERE clause of SQL_INCR.
CanIncrement(w) ==
    /\ version[Offering(w)] = seen[w]
    /\ enrolledCount[Offering(w)] + 1 <= maxCapacity[Offering(w)]

\* increment_enrolled succeeds; the transaction now holds the capacity row.
Increment(w) ==
    /\ pc[w] = "cas"
    /\ CapacityFree(Offering(w))
    /\ CanIncrement(w)
    /\ Goto(w, "commit")
    /\ UNCHANGED <<dbVars, stock, req, seen, reason, drift>>

\* Mutant of IncrementRefused: the error leaves enroll without passing the
\* compensation.
IncrementRaises(w) ==
    /\ pc[w] = "cas"
    /\ ~ CanIncrement(w)
    /\ Finish(w)
    /\ UNCHANGED <<dbVars, stock, drift>>

\* increment_enrolled matches no row: CapacityFull, whichever half of the
\* WHERE clause failed.  A committed row that does not match is not waited for.
IncrementRefused(w) ==
    /\ pc[w] = "cas"
    /\ ~ CanIncrement(w)
    /\ Fail(w, "full")
    /\ UNCHANGED <<dbVars, stock, drift>>

\* What the transaction makes visible: the row, the count, the audit entry
\* and the enrollment.created event (audit_logs is written with the outbox
\* in the same transaction and is not modelled apart).
WriteEnrollment(r, k) ==
    /\ status' = [status EXCEPT ![r] = "enrolled"]
    /\ keyOf' = [keyOf EXCEPT ![r] = k]
    /\ enrolledCount' = [enrolledCount EXCEPT ![r[2]] = @ + 1]
    /\ version' = [version EXCEPT ![r[2]] = @ + 1]
    /\ outbox' = [outbox EXCEPT ![r] = Append(@, "created")]
    /\ UNCHANGED maxCapacity

EnrollCommit(w) ==
    /\ pc[w] = "commit"
    /\ WriteEnrollment(Row(w), req[w].key)
    /\ Finish(w)
    /\ UNCHANGED <<stock, drift>>

\* The server commits but the acknowledgement is lost: the handler sees an
\* exception and compensates the stock for a seat that is taken.
EnrollCommitLost(w) ==
    /\ pc[w] = "commit"
    /\ drift[Offering(w)] < MaxDrift
    /\ WriteEnrollment(Row(w), req[w].key)
    /\ Fail(w, "error")
    /\ drift' = [drift EXCEPT ![Offering(w)] = @ + 1]
    /\ UNCHANGED stock

\* Any other exception inside the transaction block: rollback.
TxnError(w) ==
    /\ pc[w] = "insert" \/ HoldsInsert(w)
    /\ Fail(w, "error")
    /\ UNCHANGED <<dbVars, stock, drift>>

\* stock.release, then the exception is raised again.
Compensate(w) ==
    /\ pc[w] = "compensate"
    /\ Release(Offering(w))
    /\ Finish(w)
    /\ UNCHANGED <<dbVars, drift>>

-----------------------------------------------------------------------------
\* drop and swap

\* Mutant of DropBegin: soft_cancel matches a row of any status.
DropAnyBegin(w, r, next) ==
    /\ pc[w] = "idle"
    /\ RowFree(r)
    /\ status[r] # "absent"
    /\ Goto(w, "decrement")
    /\ req' = [req EXCEPT ![w] = [row |-> r, key |-> NoKey, other |-> next]]
    /\ UNCHANGED <<dbVars, stock, seen, reason, drift>>

\* soft_cancel matches an enrolled row and locks it.  The route does not ask
\* whose enrollment it is.  (No match: drop returns False, swap NotFound, and
\* nothing changes.)  next is the row a swap takes afterwards, NoRow in drop.
DropBegin(w, r, next) ==
    /\ pc[w] = "idle"
    /\ RowFree(r)
    /\ status[r] = "enrolled"
    /\ Goto(w, "decrement")
    /\ req' = [req EXCEPT ![w] = [row |-> r, key |-> NoKey, other |-> next]]
    /\ UNCHANGED <<dbVars, stock, seen, reason, drift>>

\* decrement_enrolled: no version check, waits for the row lock.
Decrement(w) ==
    /\ pc[w] = "decrement"
    /\ CapacityFree(Offering(w))
    /\ Goto(w, "dropCommit")
    /\ UNCHANGED <<dbVars, stock, req, seen, reason, drift>>

\* GREATEST(n - 1, 0)
LessOne(n) == IF n > 0 THEN n - 1 ELSE 0

\* Mutant of DropCommit: the row is deleted.
DropDeletes(w) ==
    LET r == Row(w) IN
    /\ pc[w] = "dropCommit"
    /\ status' = [status EXCEPT ![r] = "absent"]
    /\ enrolledCount' = [enrolledCount EXCEPT ![r[2]] = LessOne(@)]
    /\ version' = [version EXCEPT ![r[2]] = @ + 1]
    /\ outbox' = [outbox EXCEPT ![r] = Append(@, "canceled")]
    /\ Goto(w, "dropRelease")
    /\ UNCHANGED <<keyOf, maxCapacity, stock, req, seen, reason, drift>>

DropCommit(w) ==
    LET r == Row(w) IN
    /\ pc[w] = "dropCommit"
    /\ status' = [status EXCEPT ![r] = "canceled"]
    /\ enrolledCount' = [enrolledCount EXCEPT ![r[2]] = LessOne(@)]
    /\ version' = [version EXCEPT ![r[2]] = @ + 1]
    /\ outbox' = [outbox EXCEPT ![r] = Append(@, "canceled")]
    /\ Goto(w, "dropRelease")
    /\ UNCHANGED <<keyOf, maxCapacity, stock, req, seen, reason, drift>>

\* After the commit, outside the transaction: stock.release.
\* drop returns; swap goes on with enroll, which has no idempotency key.
DropRelease(w) ==
    /\ pc[w] = "dropRelease"
    /\ req[w].other = NoRow
    /\ Release(Offering(w))
    /\ Finish(w)
    /\ UNCHANGED <<dbVars, drift>>

\* Mutant of SwapRelease: drop runs on into enroll as well.
DropRunsOn(w) ==
    /\ pc[w] = "dropRelease"
    /\ Release(Offering(w))
    /\ Goto(w, "check")
    /\ req' = [req EXCEPT ![w] = [row |-> req[w].other, key |-> NoKey,
                                  other |-> req[w].row]]
    /\ UNCHANGED <<dbVars, seen, reason, drift>>

SwapRelease(w) ==
    /\ pc[w] = "dropRelease"
    /\ req[w].other # NoRow
    /\ Release(Offering(w))
    /\ Goto(w, "check")
    /\ req' = [req EXCEPT ![w] = [row |-> req[w].other, key |-> NoKey,
                                  other |-> req[w].row]]
    /\ UNCHANGED <<dbVars, seen, reason, drift>>

-----------------------------------------------------------------------------
\* A worker dies: its process is killed, the task is cancelled when the
\* client disconnects (CancelledError is no Exception, so nothing is
\* compensated), or the transaction block of drop raises.  PostgreSQL rolls
\* an open transaction back; Redis keeps what it has, so a token that was
\* not settled is gone (and so is one that an undo or a release never gave
\* back).
Crash(w) ==
    /\ pc[w] # "idle"
    /\ IF HoldsToken(w)
       THEN /\ drift[Offering(w)] > -MaxDrift
            /\ drift' = [drift EXCEPT ![Offering(w)] = @ - 1]
       ELSE UNCHANGED drift
    /\ Finish(w)
    /\ UNCHANGED <<dbVars, stock>>

-----------------------------------------------------------------------------
Arrive(w) ==
    \/ \E r \in Rows, k \in Keys \cup {NoKey} : EnrollBegin(w, r, k)
    \/ \E r \in Rows, next \in Rows \cup {NoRow} : DropBegin(w, r, next)

EnrollStep(w) ==
    \/ TurnedAway(w) \/ RulesPass(w)
    \/ Consume(w) \/ Undo(w)
    \/ Insert(w) \/ InsertDuplicate(w) \/ InsertKeyTaken(w)
    \/ ReadVersion(w) \/ Increment(w) \/ IncrementRefused(w)
    \/ EnrollCommit(w) \/ Compensate(w)

DropStep(w) ==
    \/ Decrement(w) \/ DropCommit(w) \/ DropRelease(w) \/ SwapRelease(w)

Failure(w) == EnrollCommitLost(w) \/ TxnError(w) \/ Crash(w)

Next == \E w \in Workers :
            Arrive(w) \/ EnrollStep(w) \/ DropStep(w) \/ Failure(w)

Spec == Init /\ [][Next]_vars

-----------------------------------------------------------------------------
\* What must hold.

Roster(o) == {s \in Students : status[<<s, o>>] = "enrolled"}
Tokens(o) == {w \in Workers : HoldsToken(w) /\ Offering(w) = o}

\* The transactions exclude one another where they must.  At most one open
\* transaction has inserted a given row or key, and neither exists yet; at
\* most one has updated a capacity row, and an enroll that has found a free
\* seat still finds it when it commits; at most one cancels a given row, and
\* the row is still enrolled when it commits.
InsertsExclude ==
    /\ \A v, w \in Workers :
          /\ HoldsInsert(v) /\ HoldsInsert(w)
          /\ Row(v) = Row(w) \/ (req[v].key = req[w].key /\ req[v].key # NoKey)
          => v = w
    /\ \A w \in Workers :
          HoldsInsert(w) => status[Row(w)] = "absent" /\ ~ KeyUsed(req[w].key)

CapacityExcludes ==
    /\ \A v, w \in Workers :
          HoldsCapacity(v) /\ HoldsCapacity(w) /\ Offering(v) = Offering(w)
              => v = w
    /\ \A w \in Workers :
          pc[w] = "commit" => enrolledCount[Offering(w)] < maxCapacity[Offering(w)]

CancelsExclude ==
    /\ \A v, w \in Workers :
          HoldsRow(v) /\ HoldsRow(w) /\ Row(v) = Row(w) => v = w
    /\ \A w \in Workers : HoldsRow(w) => status[Row(w)] = "enrolled"

TransactionsExclude == InsertsExclude /\ CapacityExcludes /\ CancelsExclude

\* No offering is ever oversold: not by concurrent enrolls that all passed
\* the Redis counter, nor after a lost acknowledgement put back a token for
\* a seat that was taken.
NoOversell == \A o \in Offerings : Cardinality(Roster(o)) <= maxCapacity[o]

\* The CHECK constraint of course_capacity, which the WHERE clauses of the
\* updates keep without ever running into it.
CountWithinCapacity ==
    \A o \in Offerings : enrolledCount[o] <= maxCapacity[o]

\* The counter the optimistic lock works on is the number of enrolled rows:
\* enroll and drop keep enrollments and course_capacity in step through
\* aborts, crashes and concurrent drops of one enrollment.
CountMatchesRoster ==
    \A o \in Offerings : enrolledCount[o] = Cardinality(Roster(o))

\* Every seat is in the Redis counter, in the hands of one request, or sold,
\* but for what failures destroyed or invented: each path of enroll, drop
\* and swap settles its token exactly once.
StockLedger ==
    \A o \in Offerings :
        stock[o] + Cardinality(Tokens(o)) + enrolledCount[o]
            = maxCapacity[o] + drift[o]

\* An idempotency key never buys two seats, even when two requests that
\* carry it passed the lookup together.
KeyBuysOneSeat ==
    \A r1, r2 \in Rows :
        keyOf[r1] = keyOf[r2] /\ keyOf[r1] # NoKey => r1 = r2

\* The events a consumer will be sent tell the history of the row: created
\* once when it was inserted, canceled once when it was dropped, in that
\* order, and none for a transaction that rolled back.
OutboxTellsHistory ==
    \A r \in Rows :
        outbox[r] = CASE status[r] = "absent"   -> << >>
                      [] status[r] = "enrolled" -> <<"created">>
                      [] status[r] = "canceled" -> Append(<<"created">>, "canceled")

\* Taken together the requests behave as if each seat were given or given
\* back in one atomic step, at the commit of the transaction.
Book == INSTANCE SeatBook
            WITH size    <- maxCapacity,
                 holders <- [o \in Offerings |-> Roster(o)],
                 former  <- [o \in Offerings |->
                               {s \in Students : status[<<s, o>>] = "canceled"}]

ImplementsSeatBook == Book!BookSpec

-----------------------------------------------------------------------------
\* What documents, comments and tests of the repository say, and the code
\* does not do.

\* Swap gives one offering up and takes the other, or does neither
\* (docs/接口文档-前端对内.md: 要么都成、要么全回滚): when nothing breaks, a swap
\* that is refused its seat leaves the student with the one he had.  The code
\* commits the drop before enroll starts.  With one student and free seats
\* everywhere the swap is refused as a duplicate: a canceled row stays, and
\* the INSERT conflicts with it whatever its status, where
\* test_swap_drops_then_enrolls swaps an offering for itself and expects its
\* fake repository to enroll the student again.
SwapAllOrNothing ==
    [][\A w \in Workers :
          req[w].other # NoRow /\ pc'[w] = "idle"
              /\ (pc[w] = "undo" \/ (pc[w] = "compensate" /\ reason[w] # "error"))
          => status'[req[w].other] = "enrolled"]_vars

\* No student is enrolled in two offerings that a hard rule keeps apart.  The
\* timetable is read before the transaction, so two concurrent requests both
\* pass.
NoClashingEnrollments ==
    \A r1, r2 \in Rows :
        /\ r1[1] = r2[1] /\ r1 # r2
        /\ status[r1] = "enrolled" /\ status[r2] = "enrolled"
        => <<r1[2], r2[2]>> \notin Clash

=============================================================================
