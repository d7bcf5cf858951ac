--------------------------- MODULE Reconciliation ---------------------------
(***************************************************************************)
(* The write path of Enrollment together with everybody else who writes    *)
(* the Redis stock: the reconciliation task of the worker process          *)
(* (app/services/reconciler.py), the administrator who adjusts a capacity  *)
(* (app/api/handlers/admin.py), and Redis losing its data.                 *)
(*                                                                         *)
(* Both writers compute the value from a row they read before and set it   *)
(* with a blind SET, while enroll and drop keep moving the counter.  What  *)
(* they add or remove beside the ledger of Enrollment goes into drift.     *)
(***************************************************************************)
EXTENDS Enrollment

CONSTANTS
    Admins,      \* administrators adjusting a capacity
    NoWork,      \* an administrator or the reconciler has nothing in hand
    Deltas,      \* the changes of capacity an administrator asks for
    MaxVersion,  \* bound: no adjustment of a row of this version
    MaxFlushes   \* bound on the number of times Redis loses its data

\* A value a writer is about to set: the remaining seats of an offering as
\* the row it read says.
Targets == [off : Offerings, left : Int]

ASSUME NoWorkAssumption == NoWork \notin Targets
ASSUME DeltasAssumption == Deltas \subseteq Int

VARIABLES
    due,      \* due[o]: last_reconciled_at is older than the threshold
    listed,   \* the stale rows of this round not yet looked at
    fixing,   \* the row the round is working on, or NoWork
    recPc,    \* "next", "reset" or "mark": where the round is
    adjusted, \* adjusted[a]: what administrator a still has to set
    flushes   \* number of times Redis lost its data so far

taskVars == <<due, listed, fixing, recPc>>
rvars    == <<vars, taskVars, adjusted, flushes>>

RTypeOK ==
    /\ TypeOK
    /\ due \in [Offerings -> BOOLEAN]
    /\ listed \subseteq Targets
    /\ fixing \in Targets \cup {NoWork}
    /\ recPc \in {"next", "reset", "mark"}
    /\ recPc # "next" => fixing \in Targets
    /\ adjusted \in [Admins -> Targets \cup {NoWork}]
    /\ flushes \in Nat

RInit ==
    /\ Init
    /\ due = [o \in Offerings |-> FALSE]
    /\ listed = {}
    /\ fixing = NoWork
    /\ recPc = "next"
    /\ adjusted = [a \in Admins |-> NoWork]
    /\ flushes = 0

-----------------------------------------------------------------------------
\* max_capacity - enrolled_count of the committed row.
Left(o) == maxCapacity[o] - enrolledCount[o]

\* RedisStockStore.reset: a blind SET.
Reset(t) ==
    /\ stock' = [stock EXCEPT ![t.off] = t.left]
    /\ drift' = [drift EXCEPT ![t.off] = @ + t.left - stock[t.off]]

\* The clock: a row was last reconciled more than the threshold ago.
Age(o) ==
    /\ ~ due[o]
    /\ due' = [due EXCEPT ![o] = TRUE]
    /\ UNCHANGED <<vars, listed, fixing, recPc, adjusted, flushes>>

-----------------------------------------------------------------------------
\* The reconciler.  APScheduler runs one round at a time.

\* SQL_LIST_STALE: the rows as they are now; the loop works through the list.
List ==
    /\ recPc = "next" /\ listed = {}
    /\ \E o \in Offerings : due[o]
    /\ listed' = {[off |-> o, left |-> Left(o)] : o \in {p \in Offerings : due[p]}}
    /\ UNCHANGED <<vars, due, fixing, recPc, adjusted, flushes>>

\* Mutant of GetRemaining: only a counter that is too high is set right.
GetTooHigh(t) ==
    /\ recPc = "next" /\ t \in listed
    /\ listed' = listed \ {t}
    /\ fixing' = t
    /\ recPc' = IF stock[t.off] > t.left THEN "reset" ELSE "mark"
    /\ UNCHANGED <<vars, due, adjusted, flushes>>

\* get_remaining, and the comparison with the listed row.
GetRemaining(t) ==
    /\ recPc = "next" /\ t \in listed
    /\ listed' = listed \ {t}
    /\ fixing' = t
    /\ recPc' = IF stock[t.off] # t.left THEN "reset" ELSE "mark"
    /\ UNCHANGED <<vars, due, adjusted, flushes>>

ResetStock ==
    /\ recPc = "reset"
    /\ Reset(fixing)
    /\ recPc' = "mark"
    /\ UNCHANGED <<dbVars, reqVars, due, listed, fixing, adjusted, flushes>>

\* mark_reconciled, with the audit entry of a fix in the same transaction:
\* an UPDATE of the capacity row that changes nothing else in it.
MarkReconciled ==
    /\ recPc = "mark"
    /\ CapacityFree(fixing.off)
    /\ due' = [due EXCEPT ![fixing.off] = FALSE]
    /\ fixing' = NoWork
    /\ recPc' = "next"
    /\ UNCHANGED <<vars, listed, adjusted, flushes>>

\* An exception or a restart of the worker process ends the round.
RoundFails ==
    /\ recPc # "next" \/ listed # {}
    /\ listed' = {}
    /\ fixing' = NoWork
    /\ recPc' = "next"
    /\ UNCHANGED <<vars, due, adjusted, flushes>>

-----------------------------------------------------------------------------
\* The administrator.

\* Mutant of AdjustMax: the UPDATE does not wait for the row lock.
AdjustUnlocked(a, o, d) ==
    /\ adjusted[a] = NoWork
    /\ maxCapacity[o] + d >= enrolledCount[o]
    /\ version[o] < MaxVersion
    /\ maxCapacity' = [maxCapacity EXCEPT ![o] = @ + d]
    /\ version' = [version EXCEPT ![o] = @ + 1]
    /\ adjusted' = [adjusted EXCEPT ![a] = [off |-> o, left |-> Left(o) + d]]
    /\ drift' = [drift EXCEPT ![o] = @ - d]
    /\ UNCHANGED <<status, keyOf, enrolledCount, outbox, stock, reqVars,
                   taskVars, flushes>>

\* SQL_ADJUST_MAX, committed at once: no other statement is in its
\* transaction.  (No match: BadRequest, and nothing changes.)
AdjustMax(a, o, d) ==
    /\ adjusted[a] = NoWork
    /\ CapacityFree(o)
    /\ maxCapacity[o] + d >= enrolledCount[o]
    /\ version[o] < MaxVersion
    /\ maxCapacity' = [maxCapacity EXCEPT ![o] = @ + d]
    /\ version' = [version EXCEPT ![o] = @ + 1]
    /\ adjusted' = [adjusted EXCEPT ![a] = [off |-> o, left |-> Left(o) + d]]
    /\ drift' = [drift EXCEPT ![o] = @ - d]
    /\ UNCHANGED <<status, keyOf, enrolledCount, outbox, stock, reqVars,
                   taskVars, flushes>>

\* After the commit: the remaining seats of the row the UPDATE returned.
AdjustReset(a) ==
    /\ adjusted[a] # NoWork
    /\ Reset(adjusted[a])
    /\ adjusted' = [adjusted EXCEPT ![a] = NoWork]
    /\ UNCHANGED <<dbVars, reqVars, taskVars, flushes>>

\* The handler dies between the commit and the reset.
AdjustFails(a) ==
    /\ adjusted[a] # NoWork
    /\ adjusted' = [adjusted EXCEPT ![a] = NoWork]
    /\ UNCHANGED <<vars, taskVars, flushes>>

\* Redis loses its data: every key is missing, and counts as 0.
Flush ==
    /\ flushes < MaxFlushes
    /\ flushes' = flushes + 1
    /\ stock' = [o \in Offerings |-> 0]
    /\ drift' = [o \in Offerings |-> drift[o] - stock[o]]
    /\ UNCHANGED <<dbVars, reqVars, taskVars, adjusted>>

-----------------------------------------------------------------------------
Round == \/ List
         \/ \E t \in listed : GetRemaining(t)
         \/ ResetStock
         \/ MarkReconciled

Adjustment(a) == \/ \E o \in Offerings, d \in Deltas : AdjustMax(a, o, d)
                 \/ AdjustReset(a)
                 \/ AdjustFails(a)

RNext ==
    \/ Next /\ UNCHANGED <<taskVars, adjusted, flushes>>
    \/ \E o \in Offerings : Age(o)
    \/ Round
    \/ RoundFails
    \/ \E a \in Admins : Adjustment(a)
    \/ Flush

RSpec == RInit /\ [][RNext]_rvars

\* Time passes, and the scheduler starts a round every minute and runs it to
\* its end.  Nothing is assumed of the requests and the administrators.
FairRSpec ==
    /\ RSpec
    /\ \A o \in Offerings : WF_rvars(Age(o))
    /\ WF_rvars(Round)

-----------------------------------------------------------------------------
\* What must hold.  NoOversell, StockLedger and ImplementsSeatBook of
\* Enrollment are proved here again (WriterProofs): none of them may
\* depend on what Redis says.

\* Nobody is between the first and the last step of a request or of an
\* adjustment.
Quiet == /\ \A w \in Workers : pc[w] = "idle"
         /\ \A a \in Admins : adjusted[a] = NoWork

\* Redis agrees with PostgreSQL on the seats that are left.
Aligned == \A o \in Offerings : stock[o] = Left(o)

\* Whatever crashed requests, lost acknowledgements, stale writers and a
\* flush of Redis did to the counter, once the requests stop the reconciler
\* sets it right, rebuilding it from course_capacity, and it stays right
\* (app/services/reconciler.py: it may itself write a stale value once).
Converges == (<>[]Quiet /\ <>[][~ RoundFails]_rvars) => <>[]Aligned

=============================================================================
