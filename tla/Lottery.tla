------------------------------ MODULE Lottery ------------------------------
(***************************************************************************)
(* The lottery (app/services/lottery_service.py, app/engine/               *)
(* lottery_runner.py) beside the write path of Enrollment: an              *)
(* administrator triggers a run, which draws the intents of one shard      *)
(* after the other, each shard in one transaction, while students go on    *)
(* enrolling and dropping.                                                 *)
(*                                                                         *)
(* Unlike the transactions of Enrollment, a shard keeps the capacity rows  *)
(* of every offering it has drawn for and the rows it has inserted until   *)
(* it commits, and takes a capacity row BEFORE the row it inserts.  The    *)
(* requests wait for the rows it has locked, and it waits for theirs; of a *)
(* ring of waits PostgreSQL aborts one transaction, which is a RunFails, a *)
(* TxnError or a Crash below.                                              *)
(***************************************************************************)
EXTENDS Enrollment

CONSTANTS
    Runs,      \* lottery runs an administrator may trigger
    NoRun,     \* nobody
    Intents,   \* rows students want: enrollment_intents, which nothing here writes
    Asked,     \* rows the requests of add/drop are about
    Batch,     \* LIMIT of SQL_FETCH_INTENTS (1000)
    Shards,    \* number of shards, total_shards
    ShardOf    \* ShardOf[o] \in 0 .. Shards - 1

ASSUME IntentsAssumption == Intents \subseteq Rows /\ IsFiniteSet(Intents) /\ Asked \subseteq Rows
ASSUME BatchAssumption   == Batch \in Nat
ASSUME ShardsAssumption  == Shards \in Nat /\ ShardOf \in [Offerings -> Nat]
ASSUME NoRunAssumption   == NoRun \notin Runs

VARIABLES
    runPc,      \* where each run is; the run record exists unless "new"
    shard,      \* the shard the run is at
    picked,     \* intents the open transaction has locked
    batch,      \* those of them not yet drawn
    current,    \* the intent being drawn, NoRow between two
    won,        \* rows the open transaction has inserted
    raised,     \* raised[r][o]: increments of o's capacity row in it
    lowered,    \* lowered[r][o]: decrements that undid one of them
    succeeded,  \* seats the committed shards of the run gave away
    decided,    \* history: intents drawn, won or lost, in a committed shard
    wonBy       \* history: the run that inserted a row

history == <<succeeded, decided, wonBy>>
runVars == <<runPc, shard, picked, batch, current, won, raised, lowered, history>>
lvars   == <<vars, runVars>>

Untouched == [o \in Offerings |-> 0]

LTypeOK ==
    /\ TypeOK
    /\ runPc \in [Runs -> {"new", "fetch", "draw", "insert", "completed", "running"}]
    /\ shard \in [Runs -> 0 .. Shards]
    /\ picked \in [Runs -> SUBSET Intents]
    /\ \A r \in Runs : batch[r] \subseteq picked[r]
    /\ current \in [Runs -> Intents \cup {NoRow}]
    /\ \A r \in Runs : current[r] # NoRow <=> runPc[r] = "insert"
    /\ \A r \in Runs : won[r] \subseteq picked[r] \ batch[r]
    /\ raised \in [Runs -> [Offerings -> Nat]]
    /\ lowered \in [Runs -> [Offerings -> Nat]]
    /\ succeeded \in [Runs -> Nat]
    /\ decided \subseteq Intents
    /\ wonBy \in [Rows -> Runs \cup {NoRun}]

LInit ==
    /\ Init
    /\ runPc = [r \in Runs |-> "new"]
    /\ shard = [r \in Runs |-> 0]
    /\ picked = [r \in Runs |-> {}]
    /\ batch = [r \in Runs |-> {}]
    /\ current = [r \in Runs |-> NoRow]
    /\ won = [r \in Runs |-> {}]
    /\ raised = [r \in Runs |-> Untouched]
    /\ lowered = [r \in Runs |-> Untouched]
    /\ succeeded = [r \in Runs |-> 0]
    /\ decided = {}
    /\ wonBy = [x \in Rows |-> NoRun]

-----------------------------------------------------------------------------
\* The transaction of the shard run r is at.

\* An UPDATE of the capacity row has succeeded in it; it holds the row even
\* when the decrement has undone it.
Draws(r, o) == raised[r][o] > 0

\* enrolled_count of o, as the transaction sees it.
Taken(r, o) == enrolledCount[o] + raised[r][o] - lowered[r][o]

\* The transaction ends, one way or the other.
EndTxn(r) ==
    /\ picked' = [picked EXCEPT ![r] = {}]
    /\ batch' = [batch EXCEPT ![r] = {}]
    /\ current' = [current EXCEPT ![r] = NoRow]
    /\ won' = [won EXCEPT ![r] = {}]
    /\ raised' = [raised EXCEPT ![r] = Untouched]
    /\ lowered' = [lowered EXCEPT ![r] = Untouched]

At(r, label) == runPc' = [runPc EXCEPT ![r] = label]

-----------------------------------------------------------------------------
\* SQL_CREATE_RUN
Trigger(r) ==
    /\ runPc[r] = "new"
    /\ At(r, "fetch")
    /\ UNCHANGED <<vars, shard, picked, batch, current, won, raised, lowered, history>>

\* The intents of the shard no other run has locked.  Neither a draw nor an
\* enrollment ever removes one.
Available(r) ==
    {x \in Intents : ShardOf[x[2]] = shard[r]} \ UNION {picked[q] : q \in Runs}

Smaller(m, n) == IF m < n THEN m ELSE n

\* SQL_FETCH_INTENTS: FOR UPDATE SKIP LOCKED LIMIT.  Which intents a batch
\* too small for the shard leaves out is not modelled (ORDER BY).
Fetch(r) ==
    /\ runPc[r] = "fetch" /\ shard[r] < Shards
    /\ \E S \in SUBSET Available(r) :
          /\ Cardinality(S) = Smaller(Batch, Cardinality(Available(r)))
          /\ picked' = [picked EXCEPT ![r] = S]
          /\ batch' = [batch EXCEPT ![r] = S]
    /\ At(r, "draw")
    /\ UNCHANGED <<vars, shard, current, won, raised, lowered, history>>

\* Another transaction holds the capacity row of o.
CapacityTaken(r, o) ==
    \/ ~ CapacityFree(o)
    \/ \E q \in Runs \ {r} : Draws(q, o)

\* The WHERE clause of SQL_INCR_CAPACITY: no version.
SeatLeft(r, o) == Taken(r, o) + 1 <= maxCapacity[o]

\* SQL_INCR_CAPACITY succeeds for intent x; the shuffle makes any intent of
\* the batch the next one.
Raise(r, x) ==
    /\ runPc[r] = "draw" /\ x \in batch[r]
    /\ ~ CapacityTaken(r, x[2])
    /\ SeatLeft(r, x[2])
    /\ batch' = [batch EXCEPT ![r] = @ \ {x}]
    /\ current' = [current EXCEPT ![r] = x]
    /\ raised' = [raised EXCEPT ![r][x[2]] = @ + 1]
    /\ At(r, "insert")
    /\ UNCHANGED <<vars, shard, picked, won, lowered, history>>

\* Mutant of Lose: a capacity row somebody else has locked counts as full.
LoseToLock(r, x) ==
    /\ runPc[r] = "draw" /\ x \in batch[r]
    /\ ~ SeatLeft(r, x[2]) \/ CapacityTaken(r, x[2])
    /\ batch' = [batch EXCEPT ![r] = @ \ {x}]
    /\ UNCHANGED <<vars, runPc, shard, picked, current, won, raised, lowered, history>>

\* It matches no row: the intent has failed.
Lose(r, x) ==
    /\ runPc[r] = "draw" /\ x \in batch[r]
    /\ ~ SeatLeft(r, x[2])
    /\ batch' = [batch EXCEPT ![r] = @ \ {x}]
    /\ UNCHANGED <<vars, runPc, shard, picked, current, won, raised, lowered, history>>

\* Another open transaction has inserted row x, or is canceling it.
RowTaken(r, x) ==
    \/ \E w \in Workers : HoldsInsert(w) /\ Row(w) = x
    \/ ~ RowFree(x)
    \/ \E q \in Runs \ {r} : x \in won[q]

\* Mutant of Win: a canceled row is taken up again.
WinOrRevive(r) ==
    /\ runPc[r] = "insert"
    /\ ~ RowTaken(r, current[r])
    /\ status[current[r]] # "enrolled"
    /\ won' = [won EXCEPT ![r] = @ \cup {current[r]}]
    /\ current' = [current EXCEPT ![r] = NoRow]
    /\ At(r, "draw")
    /\ UNCHANGED <<vars, shard, picked, batch, raised, lowered, history>>

\* SQL_INSERT_ENROLLMENT inserts the row.
Win(r) ==
    /\ runPc[r] = "insert"
    /\ ~ RowTaken(r, current[r])
    /\ status[current[r]] = "absent"
    /\ won' = [won EXCEPT ![r] = @ \cup {current[r]}]
    /\ current' = [current EXCEPT ![r] = NoRow]
    /\ At(r, "draw")
    /\ UNCHANGED <<vars, shard, picked, batch, raised, lowered, history>>

\* Mutant of Duplicate: the seat taken for the row is not given back.
DuplicateKeepsSeat(r) ==
    /\ runPc[r] = "insert"
    /\ ~ RowTaken(r, current[r])
    /\ status[current[r]] # "absent"
    /\ current' = [current EXCEPT ![r] = NoRow]
    /\ At(r, "draw")
    /\ UNCHANGED <<vars, shard, picked, batch, won, raised, lowered, history>>

\* The row exists, in whatever status: SQL_DECR_CAPACITY, and the intent has
\* failed.  The version stays as the increment left it.
Duplicate(r) ==
    /\ runPc[r] = "insert"
    /\ ~ RowTaken(r, current[r])
    /\ status[current[r]] # "absent"
    /\ lowered' = [lowered EXCEPT ![r][current[r][2]] = @ + 1]
    /\ current' = [current EXCEPT ![r] = NoRow]
    /\ At(r, "draw")
    /\ UNCHANGED <<vars, shard, picked, batch, won, raised, history>>

\* Rows and counters of the shard become visible.  Redis and the outbox are
\* left alone, so the seats are missing in the stock's ledger.
Commits(r) ==
    /\ runPc[r] = "draw" /\ batch[r] = {}
    /\ status' = [x \in Rows |-> IF x \in won[r] THEN "enrolled" ELSE status[x]]
    /\ enrolledCount' = [o \in Offerings |-> Taken(r, o)]
    /\ version' = [o \in Offerings |-> version[o] + raised[r][o]]
    /\ drift' = [o \in Offerings |-> drift[o] + Taken(r, o) - enrolledCount[o]]
    /\ decided' = decided \cup picked[r]
    /\ wonBy' = [x \in Rows |-> IF x \in won[r] THEN r ELSE wonBy[x]]
    /\ At(r, "fetch")
    /\ EndTxn(r)
    /\ UNCHANGED <<keyOf, maxCapacity, outbox, stock, reqVars>>

\* Mutant of CommitShard: the result of the last shard is reported instead
\* of the sum.
CommitLast(r) ==
    /\ Commits(r)
    /\ succeeded' = [succeeded EXCEPT ![r] = Cardinality(won[r])]
    /\ shard' = [shard EXCEPT ![r] = @ + 1]

CommitShard(r) ==
    /\ Commits(r)
    /\ succeeded' = [succeeded EXCEPT ![r] = @ + Cardinality(won[r])]
    /\ shard' = [shard EXCEPT ![r] = @ + 1]

\* SQL_FINISH_RUN, with the lottery.completed event.
FinishRun(r) ==
    /\ runPc[r] = "fetch" /\ shard[r] = Shards
    /\ At(r, "completed")
    /\ UNCHANGED <<vars, shard, picked, batch, current, won, raised, lowered, history>>

\* An exception ends the request: the open transaction is rolled back, the
\* shards before it stay committed and the run record stays 'running'.
RunFails(r) ==
    /\ runPc[r] \in {"fetch", "draw", "insert"}
    /\ At(r, "running")
    /\ EndTxn(r)
    /\ UNCHANGED <<vars, shard, history>>

-----------------------------------------------------------------------------
\* The requests wait for the rows a shard has locked.  A swap is a drop and
\* an enroll one after the other, and locks nothing new; keys are unique, and
\* the lottery writes none.

CapacityUndrawn(o) == \A r \in Runs : ~ Draws(r, o)
RowUndrawn(x)      == \A r \in Runs : x \notin won[r]

WaitingStep(w) ==
    \/ Insert(w) /\ RowUndrawn(Row(w))
    \/ (Increment(w) \/ Decrement(w)) /\ CapacityUndrawn(Offering(w))

FreeStep(w) ==
    \/ TurnedAway(w) \/ RulesPass(w)
    \/ Consume(w) \/ Undo(w)
    \/ InsertDuplicate(w) \/ ReadVersion(w) \/ IncrementRefused(w)
    \/ EnrollCommit(w) \/ Compensate(w)
    \/ DropCommit(w) \/ DropRelease(w)

LArrive(w) ==
    \E x \in Asked : EnrollBegin(w, x, NoKey) \/ DropBegin(w, x, NoRow)

Serve(w) == WaitingStep(w) \/ FreeStep(w)

DrawStep(r) ==
    \/ Fetch(r)
    \/ \E x \in batch[r] : Raise(r, x) \/ Lose(r, x)
    \/ Win(r) \/ Duplicate(r)
    \/ CommitShard(r)
    \/ FinishRun(r)

LNext ==
    \/ \E w \in Workers :
          (LArrive(w) \/ Serve(w) \/ TxnError(w) \/ Crash(w)) /\ UNCHANGED runVars
    \/ \E r \in Runs : Trigger(r) \/ DrawStep(r) \/ RunFails(r)

LSpec == LInit /\ [][LNext]_lvars

-----------------------------------------------------------------------------
\* What must hold, beside NoOversell and CountMatchesRoster of Enrollment:
\* the lottery writes the same counter without the optimistic lock.

\* A run that is reported completed enrolled exactly as many students as it
\* reports, over all its shards and whatever the requests did between them.
ReportIsTrue ==
    \A r \in Runs :
        runPc[r] = "completed"
            => succeeded[r] = Cardinality({x \in Rows : wonBy[x] = r})

\* A student whose intent was drawn and who got no row lost it to a course
\* that was sold out: neither a lock, another run nor a request that ends
\* without enrolling makes the lottery skip a free seat.
LosersMetFullCourse ==
    \A x \in decided :
        status[x] = "absent" =>
            Cardinality({s \in Students : status[<<s, x[2]>>] # "absent"})
                >= maxCapacity[x[2]]

\* Beside a lottery too the enrollments are the seat book: a shard gives all
\* its seats at its commit, only free ones, and none to a student who has one
\* of that offering or has given one back.
ImplementsLotteryBook == Book!LotterySpec

=============================================================================
