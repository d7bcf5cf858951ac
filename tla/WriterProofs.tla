---------------------------- MODULE WriterProofs ----------------------------
(***************************************************************************)
(* What Enrollment guarantees it still guarantees when others write its    *)
(* tables and its stock: the reconciler, an administrator and a flush of   *)
(* Redis (Reconciliation), and the lottery (Lottery), whose steps preserve *)
(* the invariants too.                                                     *)
(***************************************************************************)
EXTENDS Reconciliation, Lottery, EnrollmentProofs

-----------------------------------------------------------------------------
TaskType ==
    /\ due \in [Offerings -> BOOLEAN]
    /\ listed \subseteq Targets
    /\ fixing \in Targets \cup {NoWork}
    /\ recPc \in {"next", "reset", "mark"}
    /\ recPc # "next" => fixing \in Targets
    /\ adjusted \in [Admins -> Targets \cup {NoWork}]
    /\ flushes \in Nat

RInv == SeatInv /\ StockLedger /\ TaskType

LEMMA TypeParts == RTypeOK <=> TypeOK /\ TaskType
  BY DEF RTypeOK, TaskType

LEMMA InitRInv == RInit => RInv
<1> SUFFICES ASSUME RInit PROVE RInv
  OBVIOUS
<1>1. SeatInv /\ StockLedger
  BY InitSeat, InitLedger DEF RInit
<1>2. TaskType
  BY DEF RInit, TaskType
<1>3. QED BY <1>1, <1>2 DEF RInv

-----------------------------------------------------------------------------
\* Writers of the stock.

\* A step that touches neither the database nor a request, and enters in
\* drift what it does to the stock.
BesideTheLedger ==
    /\ UNCHANGED <<dbVars, reqVars>>
    /\ stock' \in [Offerings -> Int]
    /\ drift' \in [Offerings -> Int]
    /\ \A o \in Offerings : drift'[o] - stock'[o] = drift[o] - stock[o]

LEMMA BesideKeeps ==
  ASSUME SeatInv, StockLedger, BesideTheLedger
  PROVE  SeatInv' /\ StockLedger'
<1>d. UNCHANGED <<status, keyOf, maxCapacity, enrolledCount, version, outbox,
                  pc, req, seen, reason>>
  BY DEF BesideTheLedger, dbVars, reqVars
<1>1. TypeOK'
  BY <1>d DEF SeatInv, TypeOK, BesideTheLedger
<1>2. TransactionsExclude'
  BY <1>d DEF SeatInv, TransactionsExclude, InsertsExclude, CapacityExcludes,
              CancelsExclude, HoldsInsert, HoldsCapacity, HoldsRow, Row,
              Offering, KeyUsed
<1>3. /\ CountMatchesRoster' /\ CountWithinCapacity'
      /\ KeyBuysOneSeat' /\ OutboxTellsHistory'
  BY <1>d DEF SeatInv, CountMatchesRoster, CountWithinCapacity, Roster,
              KeyBuysOneSeat, OutboxTellsHistory
<1>4. ASSUME NEW o \in Offerings
      PROVE  stock'[o] + Cardinality(Tokens(o)') + enrolledCount'[o]
               = maxCapacity'[o] + drift'[o]
  <2>1. Tokens(o)' = Tokens(o)
    BY <1>d DEF Tokens, HoldsToken, Offering
  <2>2. /\ stock[o] \in Int /\ drift[o] \in Int /\ enrolledCount[o] \in Nat
        /\ stock'[o] \in Int /\ drift'[o] \in Int /\ maxCapacity[o] \in Nat
    BY DEF SeatInv, TypeOK, BesideTheLedger
  <2>3. Cardinality(Tokens(o)) \in Nat
    BY TokensFinite
  <2>4. /\ stock[o] + Cardinality(Tokens(o)) + enrolledCount[o]
             = maxCapacity[o] + drift[o]
        /\ drift'[o] - stock'[o] = drift[o] - stock[o]
    BY DEF StockLedger, BesideTheLedger
  <2>5. QED BY <1>d, <2>1, <2>2, <2>3, <2>4
<1>5. QED BY <1>1, <1>2, <1>3, <1>4 DEF SeatInv, StockLedger

LEMMA ResetBeside ==
  ASSUME TypeOK, NEW t \in Targets, Reset(t), UNCHANGED <<dbVars, reqVars>>
  PROVE  BesideTheLedger
<1>1. t.off \in Offerings /\ t.left \in Int
  BY DEF Targets
<1>2. stock \in [Offerings -> Int] /\ drift \in [Offerings -> Int]
  BY DEF TypeOK
<1>3. /\ stock' \in [Offerings -> Int] /\ drift' \in [Offerings -> Int]
      /\ \A o \in Offerings : drift'[o] - stock'[o] = drift[o] - stock[o]
  BY <1>1, <1>2 DEF Reset
<1>4. QED BY <1>3 DEF BesideTheLedger

LEMMA FlushBeside == TypeOK /\ Flush => BesideTheLedger
  BY DEF TypeOK, Flush, BesideTheLedger

-----------------------------------------------------------------------------
\* The administrator.

LEMMA AdjustKeeps ==
  ASSUME SeatInv, StockLedger, NEW a \in Admins, NEW p \in Offerings,
         NEW d \in Deltas, AdjustMax(a, p, d)
  PROVE  SeatInv' /\ StockLedger'
<1>d. /\ UNCHANGED <<status, keyOf, enrolledCount, outbox, stock,
                     pc, req, seen, reason>>
      /\ maxCapacity' = [maxCapacity EXCEPT ![p] = @ + d]
      /\ version' = [version EXCEPT ![p] = @ + 1]
      /\ drift' = [drift EXCEPT ![p] = @ - d]
      /\ maxCapacity[p] + d >= enrolledCount[p]
      /\ CapacityFree(p)
  BY DEF AdjustMax, reqVars
<1>t. /\ d \in Int /\ maxCapacity \in [Offerings -> Nat]
      /\ enrolledCount \in [Offerings -> Nat] /\ version \in [Offerings -> Nat]
      /\ drift \in [Offerings -> Int] /\ stock \in [Offerings -> Int]
  BY DeltasAssumption DEF SeatInv, TypeOK
<1>1. /\ maxCapacity' \in [Offerings -> Nat] /\ version' \in [Offerings -> Nat]
      /\ drift' \in [Offerings -> Int]
  BY <1>d, <1>t
<1>2. TypeOK'
  BY <1>d, <1>1 DEF SeatInv, TypeOK
<1>3. ASSUME NEW w \in Workers, pc[w] = "commit"
      PROVE  maxCapacity'[Offering(w)] = maxCapacity[Offering(w)]
  <2>1. Offering(w) # p
    BY <1>3, <1>d DEF CapacityFree, HoldsCapacity
  <2>2. Offering(w) \in Offerings
    BY <1>3, RowType DEF SeatInv
  <2>3. QED BY <2>1, <2>2, <1>d, <1>t
<1>4. TransactionsExclude'
  <2>1. InsertsExclude' /\ CancelsExclude'
    BY <1>d DEF SeatInv, TransactionsExclude, InsertsExclude, CancelsExclude,
                HoldsInsert, HoldsRow, Row, KeyUsed
  <2>2. CapacityExcludes'
    BY <1>d, <1>3 DEF SeatInv, TransactionsExclude, CapacityExcludes,
                      HoldsCapacity, Offering
  <2>3. QED BY <2>1, <2>2 DEF TransactionsExclude
<1>5. CountMatchesRoster' /\ KeyBuysOneSeat' /\ OutboxTellsHistory'
  BY <1>d DEF SeatInv, CountMatchesRoster, Roster, KeyBuysOneSeat,
              OutboxTellsHistory
<1>6. CountWithinCapacity'
  BY <1>d, <1>t DEF SeatInv, CountWithinCapacity
<1>7. ASSUME NEW o \in Offerings
      PROVE  stock'[o] + Cardinality(Tokens(o)') + enrolledCount'[o]
               = maxCapacity'[o] + drift'[o]
  <2>1. Tokens(o)' = Tokens(o)
    BY <1>d DEF Tokens, HoldsToken, Offering
  <2>2. Cardinality(Tokens(o)) \in Nat
    BY TokensFinite
  <2>3. stock[o] + Cardinality(Tokens(o)) + enrolledCount[o]
          = maxCapacity[o] + drift[o]
    BY DEF StockLedger
  <2>4. maxCapacity'[o] + drift'[o] = maxCapacity[o] + drift[o]
    BY <1>d, <1>t
  <2>5. QED BY <1>d, <1>t, <2>1, <2>2, <2>3, <2>4
<1>8. QED BY <1>2, <1>4, <1>5, <1>6, <1>7 DEF SeatInv, StockLedger

\* For the seats, an adjustment is a Resize.
LEMMA AdjustResizes ==
  ASSUME SeatInv, NEW a \in Admins, NEW p \in Offerings,
         NEW d \in Deltas, AdjustMax(a, p, d)
  PROVE  Book!BookNext
<1>d. /\ UNCHANGED status
      /\ maxCapacity' = [maxCapacity EXCEPT ![p] = @ + d]
      /\ maxCapacity[p] + d >= enrolledCount[p]
  BY DEF AdjustMax
<1>t. /\ d \in Int /\ maxCapacity \in [Offerings -> Nat]
      /\ enrolledCount \in [Offerings -> Nat]
  BY DeltasAssumption DEF SeatInv, TypeOK
<1>1. /\ maxCapacity' \in [Offerings -> Nat]
      /\ \A o \in Offerings \ {p} : maxCapacity'[o] = maxCapacity[o]
      /\ maxCapacity'[p] >= enrolledCount[p]
  BY <1>d, <1>t
<1>2. maxCapacity'[p] >= Cardinality(Roster(p))
  BY <1>1 DEF SeatInv, CountMatchesRoster
<1>3. UNCHANGED <<Holders, Former>>
  BY <1>d DEF Holders, Former, Roster, Gone
<1>4. Book!Resize(p)
  BY <1>1, <1>2, <1>3, SameCardinality DEF Book!Resize, Holders, Former, Gone
<1>5. QED BY <1>4 DEF Book!BookNext

-----------------------------------------------------------------------------
\* Every step is a step of Enrollment, an adjustment, or beside the ledger.

LEMMA TargetType ==
  ASSUME TypeOK, NEW o \in Offerings
  PROVE  Left(o) \in Int
  BY DEF TypeOK, Left

LEMMA RNextCases ==
  ASSUME RInv, [RNext]_rvars
  PROVE  \/ [Next]_vars
         \/ \E a \in Admins, o \in Offerings, d \in Deltas : AdjustMax(a, o, d)
         \/ BesideTheLedger
<1>t. TypeOK /\ TaskType
  BY DEF RInv, SeatInv
<1>1. CASE UNCHANGED rvars
  BY <1>1 DEF rvars
<1>2. CASE Next
  BY <1>2
<1>3. CASE \/ \E o \in Offerings : Age(o)
           \/ List
           \/ \E t \in listed : GetRemaining(t)
           \/ MarkReconciled
           \/ RoundFails
           \/ \E a \in Admins : AdjustFails(a)
  BY <1>3 DEF Age, List, GetRemaining, MarkReconciled, RoundFails, AdjustFails
<1>4. CASE ResetStock
  <2>1. fixing \in Targets /\ Reset(fixing) /\ UNCHANGED <<dbVars, reqVars>>
    BY <1>4, <1>t DEF ResetStock, TaskType
  <2>2. QED BY <2>1, <1>t, ResetBeside
<1>5. CASE \E a \in Admins : AdjustReset(a)
  <2>1. PICK a \in Admins : AdjustReset(a)
    BY <1>5
  <2>2. /\ adjusted[a] \in Targets /\ Reset(adjusted[a])
        /\ UNCHANGED <<dbVars, reqVars>>
    BY <2>1, <1>t DEF AdjustReset, TaskType
  <2>3. QED BY <2>2, <1>t, ResetBeside
<1>6. CASE Flush
  BY <1>6, <1>t, FlushBeside
<1>7. QED BY <1>1, <1>2, <1>3, <1>4, <1>5, <1>6 DEF RNext, Round, Adjustment

LEMMA NextTaskType ==
  ASSUME RInv, [RNext]_rvars
  PROVE  TaskType'
<1>t. TypeOK /\ TaskType
  BY DEF RInv, SeatInv
<1>1. CASE UNCHANGED rvars \/ (Next /\ UNCHANGED <<taskVars, adjusted, flushes>>)
  BY <1>1, <1>t DEF rvars, taskVars, TaskType
<1>2. CASE \E o \in Offerings : Age(o)
  BY <1>2, <1>t DEF Age, TaskType
<1>3. CASE List
  <2>1. listed' \subseteq Targets
    BY <1>3, <1>t, TargetType DEF List, Targets
  <2>2. QED BY <2>1, <1>3, <1>t DEF List, TaskType
<1>4. CASE \E t \in listed : GetRemaining(t)
  BY <1>4, <1>t DEF GetRemaining, TaskType
<1>5. CASE ResetStock \/ MarkReconciled \/ RoundFails \/ Flush
  <2>1. CASE ResetStock
    BY <2>1, <1>t DEF ResetStock, TaskType
  <2>2. CASE MarkReconciled
    BY <2>2, <1>t DEF MarkReconciled, TaskType
  <2>3. CASE RoundFails
    BY <2>3, <1>t DEF RoundFails, TaskType
  <2>4. CASE Flush
    BY <2>4, <1>t DEF Flush, taskVars, TaskType
  <2>5. QED BY <1>5, <2>1, <2>2, <2>3, <2>4
<1>6. CASE \E a \in Admins, o \in Offerings, d \in Deltas : AdjustMax(a, o, d)
  <2>1. PICK a \in Admins, o \in Offerings, d \in Deltas : AdjustMax(a, o, d)
    BY <1>6
  <2>2. [off |-> o, left |-> Left(o) + d] \in Targets
    BY <1>t, TargetType, DeltasAssumption DEF Targets
  <2>3. QED BY <2>1, <2>2, <1>t DEF AdjustMax, taskVars, TaskType
<1>7. CASE \E a \in Admins : AdjustReset(a) \/ AdjustFails(a)
  BY <1>7, <1>t DEF AdjustReset, AdjustFails, taskVars, TaskType
<1>8. QED BY <1>1, <1>2, <1>3, <1>4, <1>5, <1>6, <1>7
          DEF RNext, Round, Adjustment

LEMMA NextRInv ==
  ASSUME RInv, [RNext]_rvars
  PROVE  RInv'
<1>1. TaskType'
  BY NextTaskType
<1>2. SeatInv' /\ StockLedger'
  <2>1. CASE [Next]_vars
    BY <2>1, NextSeat, NextLedger DEF RInv
  <2>2. CASE \E a \in Admins, o \in Offerings, d \in Deltas : AdjustMax(a, o, d)
    BY <2>2, AdjustKeeps DEF RInv
  <2>3. CASE BesideTheLedger
    BY <2>3, BesideKeeps DEF RInv
  <2>4. QED BY <2>1, <2>2, <2>3, RNextCases
<1>3. QED BY <1>1, <1>2 DEF RInv

LEMMA RInvariant == RSpec => []RInv
  BY InitRInv, NextRInv, PTL DEF RSpec

-----------------------------------------------------------------------------
\* The variables of both modules keep their types.
THEOREM RTypeCorrect == RSpec => []RTypeOK
<1>1. RInv => RTypeOK
  BY TypeParts DEF RInv, SeatInv
<1>2. QED BY <1>1, RInvariant, PTL

\* Stale writers of the stock and a flush of Redis never lead to more
\* enrolled students than seats, nor does an adjustment of the capacity.
THEOREM NeverOversoldWithWriters == RSpec => []NoOversell
<1>1. RInv => NoOversell
  BY DEF RInv, SeatInv, CountMatchesRoster, CountWithinCapacity, NoOversell
<1>2. QED BY <1>1, RInvariant, PTL

\* The CHECK constraint of course_capacity never fires.
THEOREM CheckNeverFires == RSpec => []CountWithinCapacity
<1>1. RInv => CountWithinCapacity
  BY DEF RInv, SeatInv
<1>2. QED BY <1>1, RInvariant, PTL

\* The ledger of the stock balances with all its writers.
THEOREM LedgerBalancesWithWriters == RSpec => []StockLedger
<1>1. RInv => StockLedger
  BY DEF RInv
<1>2. QED BY <1>1, RInvariant, PTL

\* The whole system behaves as SeatBook, an adjustment being its Resize.
THEOREM RefinementWithWriters == RSpec => ImplementsSeatBook
<1>1. RInit => Book!BookInit
  BY InitBook DEF RInit
<1>2. RInv /\ [RNext]_rvars => [Book!BookNext]_Book!bookVars
  <2> SUFFICES ASSUME RInv, [RNext]_rvars
               PROVE  [Book!BookNext]_Book!bookVars
    OBVIOUS
  <2>1. CASE [Next]_vars
    BY <2>1, NextBook DEF RInv, SeatInv, CountInv
  <2>2. CASE \E a \in Admins, o \in Offerings, d \in Deltas : AdjustMax(a, o, d)
    BY <2>2, AdjustResizes DEF RInv
  <2>3. CASE BesideTheLedger
    BY <2>3 DEF BesideTheLedger, dbVars, Book!bookVars, Roster
  <2>4. QED BY <2>1, <2>2, <2>3, RNextCases
<1>3. QED BY <1>1, <1>2, RInvariant, PTL
          DEF RSpec, ImplementsSeatBook, Book!BookSpec

-----------------------------------------------------------------------------
(***************************************************************************)
(* The lottery, which counts seats up before it inserts a row and writes   *)
(* neither key nor event: what holds of the counters needs the tally of    *)
(* every open shard.                                                       *)
(***************************************************************************)

RunType ==
    /\ runPc \in [Runs -> {"new", "fetch", "draw", "insert", "completed", "running"}]
    /\ picked \in [Runs -> SUBSET Intents]
    /\ batch \in [Runs -> SUBSET Intents]
    /\ current \in [Runs -> Intents \cup {NoRow}]
    /\ won \in [Runs -> SUBSET Intents]
    /\ raised \in [Runs -> [Offerings -> Nat]]
    /\ lowered \in [Runs -> [Offerings -> Nat]]
    /\ succeeded \in [Runs -> Nat]
    /\ decided \subseteq Intents
    /\ wonBy \in [Rows -> Runs \cup {NoRun}]

\* The intents of an open shard are undrawn, won, in hand or lost, and belong
\* to one run; without an open shard there are none, and no row is locked.
ShardInv ==
    /\ \A r \in Runs : batch[r] \subseteq picked[r]
    /\ \A r \in Runs : won[r] \subseteq picked[r] \ batch[r]
    /\ \A r \in Runs : runPc[r] = "insert"
                          => current[r] \in picked[r] \ (batch[r] \cup won[r])
    /\ \A q, r \in Runs : \A x \in picked[q] \cap picked[r] : q = r
    /\ \A r \in Runs : runPc[r] \notin {"draw", "insert"}
                          => picked[r] = {} /\ raised[r] = Untouched /\ lowered[r] = Untouched

\* What a shard has locked nobody else has: no request and no other run
\* holds its capacity rows, and the rows it has inserted are no one's.
LockInv ==
    /\ \A r \in Runs, o \in Offerings : Draws(r, o) => CapacityFree(o)
    /\ \A q, r \in Runs, o \in Offerings : Draws(q, o) /\ Draws(r, o) => q = r
    /\ \A r \in Runs : \A x \in won[r] :
          /\ status[x] = "absent"
          /\ \A w \in Workers : HoldsInsert(w) => Row(w) # x

Winners(r, o) == {s \in Students : <<s, o>> \in won[r]}

\* The seat taken for the row about to be inserted.
Hand(r, o) == IF runPc[r] = "insert" /\ current[r][2] = o THEN 1 ELSE 0

\* Every increment was undone, has its row, or is in hand.
TallyInv ==
    \A r \in Runs, o \in Offerings :
        raised[r][o] = lowered[r][o] + Cardinality(Winners(r, o)) + Hand(r, o)

\* The WHERE clause of the increment, still true because the row is locked.
SpaceInv == \A r \in Runs, o \in Offerings : Taken(r, o) <= maxCapacity[o]

Prizes(r) == {x \in Rows : wonBy[x] = r}

ReportInv ==
    /\ \A r \in Runs : succeeded[r] = Cardinality(Prizes(r))
    /\ \A x \in Rows : wonBy[x] # NoRun => x \in Intents /\ status[x] # "absent"

\* The students who have, or once had, a row of o.
Ever(o) == {s \in Students : status[<<s, o>>] # "absent"}

\* Lost in the open shard of r.
Lost(r, x) ==
    /\ x \in picked[r] /\ x \notin batch[r] /\ x \notin won[r]
    /\ runPc[r] = "insert" => x # current[r]

LostInv ==
    /\ \A r \in Runs, x \in Intents : Lost(r, x) /\ status[x] = "absent"
          => Cardinality(Ever(x[2])) + Cardinality(Winners(r, x[2])) >= maxCapacity[x[2]]
    /\ \A x \in decided : status[x] = "absent" => Cardinality(Ever(x[2])) >= maxCapacity[x[2]]

LInv ==
    /\ CountInv /\ RunType /\ ShardInv /\ LockInv
    /\ TallyInv /\ SpaceInv /\ ReportInv /\ LostInv

\* The same by runs: what concerns one run, and what keeps two apart.
OneRun(q) ==
    /\ batch[q] \subseteq picked[q]
    /\ won[q] \subseteq picked[q] \ batch[q]
    /\ runPc[q] = "insert" => current[q] \in picked[q] \ (batch[q] \cup won[q])
    /\ runPc[q] \notin {"draw", "insert"}
          => picked[q] = {} /\ raised[q] = Untouched /\ lowered[q] = Untouched
    /\ \A o \in Offerings : Draws(q, o) => CapacityFree(o)
    /\ \A x \in won[q] : /\ status[x] = "absent"
                         /\ \A w \in Workers : HoldsInsert(w) => Row(w) # x
    /\ \A o \in Offerings :
          /\ raised[q][o] = lowered[q][o] + Cardinality(Winners(q, o)) + Hand(q, o)
          /\ Taken(q, o) <= maxCapacity[o]
    /\ \A x \in Intents : Lost(q, x) /\ status[x] = "absent"
          => Cardinality(Ever(x[2])) + Cardinality(Winners(q, x[2])) >= maxCapacity[x[2]]

\* Runs have neither intents nor capacity rows in common.
Apart ==
    /\ \A q, r \in Runs : \A x \in picked[q] \cap picked[r] : q = r
    /\ \A q, r \in Runs, o \in Offerings : Draws(q, o) /\ Draws(r, o) => q = r

DecidedInv ==
    \A x \in decided : status[x] = "absent" => Cardinality(Ever(x[2])) >= maxCapacity[x[2]]

LEMMA RunParts ==
  LInv <=> /\ CountInv /\ RunType /\ Apart /\ ReportInv /\ DecidedInv
           /\ \A q \in Runs : OneRun(q)
BY DEF LInv, ShardInv, LockInv, TallyInv, SpaceInv, LostInv, Apart, DecidedInv, OneRun

LEMMA WinnersFinite ==
  ASSUME NEW r, NEW o
  PROVE  IsFiniteSet(Winners(r, o)) /\ Cardinality(Winners(r, o)) \in Nat
<1>1. Winners(r, o) \in SUBSET Students
  BY DEF Winners
<1>2. QED BY <1>1, FiniteAssumption, FS_Subset, FS_CardinalityType

LEMMA EverFinite ==
  ASSUME NEW o
  PROVE  IsFiniteSet(Ever(o)) /\ Cardinality(Ever(o)) \in Nat
<1>1. Ever(o) \in SUBSET Students
  BY DEF Ever
<1>2. QED BY <1>1, FiniteAssumption, FS_Subset, FS_CardinalityType

\* The current state of one run's tally, with its types.
LEMMA TallyOf ==
  ASSUME LInv, NEW r \in Runs, NEW o \in Offerings
  PROVE  /\ raised[r][o] \in Nat /\ lowered[r][o] \in Nat /\ Hand(r, o) \in {0, 1}
         /\ Cardinality(Winners(r, o)) \in Nat
         /\ raised[r][o] = lowered[r][o] + Cardinality(Winners(r, o)) + Hand(r, o)
         /\ enrolledCount[o] \in Nat /\ maxCapacity[o] \in Nat
         /\ enrolledCount[o] + raised[r][o] - lowered[r][o] <= maxCapacity[o]
BY WinnersFinite DEF LInv, RunType, TallyInv, SpaceInv, Taken, Hand, CountInv, TypeOK

-----------------------------------------------------------------------------
\* A step of a request.

Request(w) == LArrive(w) \/ Serve(w) \/ TxnError(w) \/ Crash(w)

LEMMA RequestIsStep ==
  ASSUME TypeOK, NEW w \in Workers, Request(w)
  PROVE  Next /\ OnlyMoves(w)
<1>1. CASE LArrive(w)
  <2>1. \/ \E r \in Rows, k \in Keys \cup {NoKey} : EnrollBegin(w, r, k)
        \/ \E r \in Rows, next \in Rows \cup {NoRow} : DropBegin(w, r, next)
    BY <1>1, IntentsAssumption DEF LArrive
  <2>2. QED BY <2>1, MovesAlone DEF Next, Arrive
<1>2. CASE Serve(w)
  <2>1. EnrollStep(w) \/ DropStep(w)
    BY <1>2 DEF Serve, WaitingStep, FreeStep, EnrollStep, DropStep
  <2>2. QED BY <2>1, MovesAlone DEF Next
<1>3. CASE TxnError(w) \/ Crash(w)
  <2>1. Failure(w)
    BY <1>3 DEF Failure
  <2>2. QED BY <2>1, MovesAlone DEF Next
<1>4. QED BY <1>1, <1>2, <1>3 DEF Request

\* A request takes a capacity row, or inserts a row, only when no shard has it.
LEMMA RequestLocks ==
  ASSUME TypeOK, NEW w \in Workers, Request(w)
  PROVE  /\ HoldsCapacity(w)' => /\ Offering(w)' = Offering(w)
                                 /\ HoldsCapacity(w) \/ CapacityUndrawn(Offering(w))
         /\ HoldsInsert(w)' => /\ Row(w)' = Row(w)
                               /\ HoldsInsert(w) \/ RowUndrawn(Row(w))
<1>0. pc \in [Workers -> {"idle"} \cup EnrollSteps \cup DropSteps]
  BY DEF TypeOK
<1>1. CASE LArrive(w)
  <2>1. pc'[w] \in {"check", "decrement"}
    BY <1>0, <1>1 DEF LArrive, EnrollBegin, DropBegin, Goto
  <2>2. QED BY <2>1 DEF HoldsCapacity, HoldsInsert
<1>2. CASE \/ TurnedAway(w) \/ RulesPass(w) \/ Consume(w) \/ Undo(w)
           \/ InsertDuplicate(w) \/ IncrementRefused(w)
           \/ EnrollCommit(w) \/ Compensate(w) \/ DropCommit(w) \/ DropRelease(w)
           \/ TxnError(w) \/ Crash(w)
  <2>1. pc'[w] \in {"idle", "consume", "undo", "insert", "compensate", "dropRelease"}
    BY <1>0, <1>2 DEF TurnedAway, RulesPass, Consume, Undo, InsertDuplicate,
                      IncrementRefused, EnrollCommit, Compensate, DropCommit, DropRelease,
                      TxnError, Crash, Finish, Fail, Goto
  <2>2. QED BY <2>1 DEF HoldsCapacity, HoldsInsert
<1>3. CASE ReadVersion(w)
  <2>1. pc[w] = "version" /\ pc'[w] = "cas" /\ req' = req
    BY <1>0, <1>3 DEF ReadVersion, Goto
  <2>2. QED BY <2>1 DEF HoldsCapacity, HoldsInsert, Row
<1>4. CASE Insert(w) /\ RowUndrawn(Row(w))
  <2>1. pc'[w] = "version" /\ req' = req
    BY <1>0, <1>4 DEF Insert, Goto
  <2>2. QED BY <1>4, <2>1 DEF HoldsCapacity, Row
<1>5. CASE (Increment(w) \/ Decrement(w)) /\ CapacityUndrawn(Offering(w))
  <2>1. /\ req' = req
        /\ \/ pc[w] = "cas" /\ pc'[w] = "commit"
           \/ pc[w] = "decrement" /\ pc'[w] = "dropCommit"
    BY <1>0, <1>5 DEF Increment, Decrement, Goto
  <2>2. QED BY <1>5, <2>1 DEF HoldsInsert, Row, Offering
<1>6. QED BY <1>1, <1>2, <1>3, <1>4, <1>5 DEF Request, Serve, WaitingStep, FreeStep

\* What a request leaves alone: the counters of drawn offerings, the rows a
\* shard has inserted, and that a row is there at all.
LEMMA RequestSpares ==
  ASSUME LInv, NEW w \in Workers, Request(w)
  PROVE  /\ \A r \in Runs, o \in Offerings :
               Draws(r, o) => enrolledCount'[o] = enrolledCount[o]
         /\ \A r \in Runs : \A x \in won[r] : status'[x] = status[x]
         /\ \A x \in Rows : status[x] # "absent" => status'[x] # "absent"
         /\ maxCapacity' = maxCapacity
<1>0. /\ TypeOK /\ TransactionsExclude /\ [Next]_vars /\ LockInv /\ RunType
      /\ status \in [Rows -> Status] /\ enrolledCount \in [Offerings -> Nat]
  BY RequestIsStep DEF LInv, CountInv, TypeOK
<1>1. CASE UNCHANGED dbVars
  BY <1>1 DEF dbVars
<1>2. CASE \E v \in Workers : pc[v] = "commit" /\ WriteEnrollment(Row(v), req[v].key)
  <2>1. PICK v \in Workers : pc[v] = "commit" /\ WriteEnrollment(Row(v), req[v].key)
    BY <1>2
  <2>2. PICK y \in Rows :
            /\ y = Row(v) /\ status[y] = "absent" /\ y[2] \in Offerings
            /\ status' = [status EXCEPT ![y] = "enrolled"]
            /\ enrolledCount' = [enrolledCount EXCEPT ![y[2]] = @ + 1]
            /\ maxCapacity' = maxCapacity
    BY <1>0, <2>1, EnrollWrites
  <2>3. HoldsInsert(v) /\ HoldsCapacity(v) /\ Offering(v) = y[2]
    BY <2>1, <2>2 DEF HoldsInsert, HoldsCapacity, Offering, Row
  <2>4. ASSUME NEW r \in Runs, NEW o \in Offerings, Draws(r, o)
        PROVE  enrolledCount'[o] = enrolledCount[o]
    <3>1. o # y[2]
      BY <1>0, <2>3, <2>4 DEF LockInv, CapacityFree
    <3>2. QED BY <1>0, <2>2, <3>1
  <2>5. ASSUME NEW r \in Runs, NEW x \in won[r] PROVE status'[x] = status[x]
    <3>1. x # y
      BY <1>0, <2>2, <2>3 DEF LockInv
    <3>2. x \in Rows
      BY <1>0, IntentsAssumption DEF RunType
    <3>3. QED BY <1>0, <2>2, <3>1, <3>2
  <2>6. \A x \in Rows : status[x] # "absent" => status'[x] # "absent"
    BY <1>0, <2>2
  <2>7. QED BY <2>2, <2>4, <2>5, <2>6
<1>3. CASE \E v \in Workers : DropCommit(v)
  <2>1. PICK v \in Workers : DropCommit(v)
    BY <1>3
  <2>2. PICK y \in Rows :
            /\ y = Row(v) /\ status[y] = "enrolled" /\ y[2] \in Offerings
            /\ status' = [status EXCEPT ![y] = "canceled"]
            /\ enrolledCount' = [enrolledCount EXCEPT ![y[2]] = LessOne(@)]
            /\ maxCapacity' = maxCapacity
    BY <1>0, <2>1, DropWrites
  <2>3. HoldsCapacity(v) /\ Offering(v) = y[2]
    BY <2>1, <2>2 DEF DropCommit, HoldsCapacity, Offering, Row
  <2>4. ASSUME NEW r \in Runs, NEW o \in Offerings, Draws(r, o)
        PROVE  enrolledCount'[o] = enrolledCount[o]
    <3>1. o # y[2]
      BY <1>0, <2>3, <2>4 DEF LockInv, CapacityFree
    <3>2. QED BY <1>0, <2>2, <3>1
  <2>5. ASSUME NEW r \in Runs, NEW x \in won[r] PROVE status'[x] = status[x]
    <3>1. x # y /\ x \in Rows
      BY <1>0, <2>2, IntentsAssumption DEF LockInv, RunType
    <3>2. QED BY <1>0, <2>2, <3>1
  <2>6. \A x \in Rows : status[x] # "absent" => status'[x] # "absent"
    BY <1>0, <2>2
  <2>7. QED BY <2>2, <2>4, <2>5, <2>6
<1>4. QED BY <1>0, <1>1, <1>2, <1>3, CommitCases

\* Who has, or had, a row still counts.
LEMMA EverGrows ==
  ASSUME NEW o \in Offerings, \A x \in Rows : status[x] # "absent" => status'[x] # "absent"
  PROVE  /\ Cardinality(Ever(o)) <= Cardinality(Ever(o)')
         /\ Cardinality(Ever(o)') \in Nat
<1>1. Ever(o) \in SUBSET (Ever(o)')
  BY DEF Ever, Rows
<1>2. IsFiniteSet(Ever(o)')
  <2>1. Ever(o)' \in SUBSET Students
    BY DEF Ever
  <2>2. QED BY <2>1, FiniteAssumption, FS_Subset
<1>3. QED BY <1>1, <1>2, FS_Subset, FS_CardinalityType

\* What others do to the database leaves the obligations of a run as they were
\* if it spares what the run has locked.
LEMMA OneRunSpared ==
  ASSUME LInv, CountInv', NEW r \in Runs,
         runPc'[r] = runPc[r], picked'[r] = picked[r], batch'[r] = batch[r],
         current'[r] = current[r], won'[r] = won[r],
         raised'[r] = raised[r], lowered'[r] = lowered[r],
         maxCapacity' = maxCapacity,
         \A o \in Offerings : Draws(r, o)
             => enrolledCount'[o] = enrolledCount[o] /\ CapacityFree(o)',
         \A x \in won[r] : /\ status'[x] = status[x]
                           /\ \A w \in Workers : HoldsInsert(w)' => Row(w)' # x,
         \A x \in Rows : status[x] # "absent" => status'[x] # "absent"
  PROVE  OneRun(r)'
<1>0. OneRun(r) /\ CountInv
  BY RunParts
<1>1. \A o \in Offerings : /\ Winners(r, o)' = Winners(r, o) /\ Hand(r, o)' = Hand(r, o)
                           /\ Draws(r, o)' = Draws(r, o)
  BY DEF Winners, Hand, Draws
<1>2. ASSUME NEW o \in Offerings PROVE Taken(r, o)' <= maxCapacity'[o]
  <2>1. CASE Draws(r, o)
    <3>1. Taken(r, o)' = Taken(r, o)
      BY <2>1 DEF Taken
    <3>2. QED BY <1>0, <3>1 DEF OneRun
  <2>2. CASE ~ Draws(r, o)
    <3>1. raised[r][o] = 0 /\ lowered[r][o] = 0
      BY <2>2, TallyOf DEF Draws
    <3>2. enrolledCount'[o] <= maxCapacity'[o] /\ enrolledCount'[o] \in Nat
      BY DEF CountInv, CountWithinCapacity, TypeOK
    <3>3. Taken(r, o)' = enrolledCount'[o]
      BY <3>1, <3>2 DEF Taken
    <3>4. QED BY <3>2, <3>3
  <2>3. QED BY <2>1, <2>2
<1>3. ASSUME NEW x \in Intents, Lost(r, x)', status'[x] = "absent"
      PROVE  Cardinality(Ever(x[2])') + Cardinality(Winners(r, x[2])') >= maxCapacity'[x[2]]
  <2>1. x \in Rows /\ x[2] \in Offerings
    BY IntentsAssumption DEF Rows
  <2>2. Lost(r, x) /\ status[x] = "absent"
    BY <1>3, <2>1 DEF Lost
  <2>3. Cardinality(Ever(x[2])) + Cardinality(Winners(r, x[2])) >= maxCapacity[x[2]]
    BY <1>0, <2>2 DEF OneRun
  <2>4. /\ Cardinality(Ever(x[2])) <= Cardinality(Ever(x[2])')
        /\ Cardinality(Ever(x[2])) \in Nat /\ Cardinality(Ever(x[2])') \in Nat
        /\ maxCapacity[x[2]] \in Nat
    BY <1>0, <2>1, EverFinite, EverGrows DEF CountInv, TypeOK
  <2>5. QED BY <1>1, <2>1, <2>3, <2>4, WinnersFinite
<1>4. \A o \in Offerings : Draws(r, o)' => CapacityFree(o)'
  BY <1>1
<1>5. QED BY <1>0, <1>1, <1>2, <1>3, <1>4 DEF OneRun

LEMMA RequestKeeps ==
  ASSUME LInv, NEW w \in Workers, Request(w), UNCHANGED runVars
  PROVE  LInv'
<1>0. /\ CountInv /\ RunType /\ Apart /\ ReportInv /\ DecidedInv /\ LockInv
  BY RunParts DEF LInv
<1>u. UNCHANGED <<runPc, picked, batch, current, won, raised, lowered, succeeded,
                  decided, wonBy>>
  BY DEF runVars, history
<1>s. Next /\ OnlyMoves(w)
  BY <1>0, RequestIsStep DEF CountInv
<1>1. CountInv'
  BY <1>0, <1>s, NextCount
<1>2. RunType' /\ Apart'
  BY <1>0, <1>u DEF RunType, Apart, Draws
<1>3. ASSUME NEW r \in Runs, NEW o \in Offerings, Draws(r, o)
      PROVE  CapacityFree(o)'
  <2>1. ASSUME NEW v \in Workers, HoldsCapacity(v)' PROVE Offering(v)' # o
    <3>1. CASE v = w
      BY <1>0, <1>3, <2>1, <3>1, RequestLocks
         DEF LockInv, CapacityFree, CapacityUndrawn, CountInv
    <3>2. CASE v # w
      BY <1>0, <1>3, <1>s, <2>1, <3>2
         DEF OnlyMoves, HoldsCapacity, Offering, LockInv, CapacityFree
    <3>3. QED BY <3>1, <3>2
  <2>2. QED BY <2>1 DEF CapacityFree
<1>4. ASSUME NEW r \in Runs, NEW x \in won[r], NEW v \in Workers, HoldsInsert(v)'
      PROVE  Row(v)' # x
  <2>1. CASE v = w
    BY <1>0, <1>4, <2>1, RequestLocks DEF LockInv, RowUndrawn, CountInv
  <2>2. CASE v # w
    BY <1>0, <1>s, <1>4, <2>2 DEF OnlyMoves, HoldsInsert, Row, LockInv
  <2>3. QED BY <2>1, <2>2
<1>5. ASSUME NEW r \in Runs PROVE OneRun(r)'
  BY <1>1, <1>3, <1>4, <1>u, RequestSpares, OneRunSpared
<1>6. ReportInv'
  BY <1>0, <1>u, RequestSpares DEF ReportInv, Prizes
<1>7. DecidedInv'
  <2>1. ASSUME NEW x \in decided, status'[x] = "absent"
        PROVE  Cardinality(Ever(x[2])') >= maxCapacity'[x[2]]
    <3>1. x \in Rows /\ x[2] \in Offerings
      BY <1>0, IntentsAssumption DEF RunType, Rows
    <3>2. status[x] = "absent" /\ maxCapacity' = maxCapacity
      BY <2>1, <3>1, RequestSpares
    <3>3. Cardinality(Ever(x[2])) >= maxCapacity[x[2]]
      BY <1>0, <3>2 DEF DecidedInv
    <3>4. /\ Cardinality(Ever(x[2])) <= Cardinality(Ever(x[2])')
          /\ Cardinality(Ever(x[2])) \in Nat /\ Cardinality(Ever(x[2])') \in Nat
          /\ maxCapacity[x[2]] \in Nat
      BY <1>0, <3>1, RequestSpares, EverFinite, EverGrows DEF CountInv, TypeOK
    <3>5. QED BY <3>2, <3>3, <3>4
  <2>2. QED BY <1>u, <2>1 DEF DecidedInv
<1>8. QED BY <1>1, <1>2, <1>5, <1>6, <1>7
          DEF LInv, ShardInv, LockInv, TallyInv, SpaceInv, LostInv, Apart, DecidedInv, OneRun

-----------------------------------------------------------------------------
\* A step of a run, but for the commit, changes what concerns that run only.

Others(r) ==
    \A q \in Runs \ {r} :
        /\ runPc'[q] = runPc[q] /\ picked'[q] = picked[q] /\ batch'[q] = batch[q]
        /\ current'[q] = current[q] /\ won'[q] = won[q]
        /\ raised'[q] = raised[q] /\ lowered'[q] = lowered[q]

LEMMA RunKeeps ==
  ASSUME LInv, NEW r \in Runs, UNCHANGED <<vars, history>>, Others(r),
         RunType', OneRun(r)',
         \A q \in Runs \ {r} : picked'[r] \cap picked[q] = {},
         \A q \in Runs \ {r}, o \in Offerings : ~ (Draws(q, o) /\ Draws(r, o)')
  PROVE  LInv'
<1>0. CountInv /\ RunType /\ Apart /\ ReportInv /\ DecidedInv /\ \A q \in Runs : OneRun(q)
  BY RunParts
<1>u. UNCHANGED <<status, enrolledCount, maxCapacity, pc, req, succeeded, decided, wonBy>>
  BY DEF vars, dbVars, reqVars, history
<1>1. CountInv'
  BY <1>0, NextCount
<1>2. ASSUME NEW q \in Runs PROVE OneRun(q)'
  <2>1. CASE q = r
    BY <2>1
  <2>2. CASE q # r
    <3>1. /\ OneRun(q)
          /\ runPc'[q] = runPc[q] /\ picked'[q] = picked[q] /\ batch'[q] = batch[q]
          /\ current'[q] = current[q] /\ won'[q] = won[q]
          /\ raised'[q] = raised[q] /\ lowered'[q] = lowered[q]
      BY <1>0, <2>2 DEF Others
    <3>2. \A o \in Offerings : /\ Winners(q, o)' = Winners(q, o) /\ Hand(q, o)' = Hand(q, o)
                               /\ Taken(q, o)' = Taken(q, o) /\ Draws(q, o)' = Draws(q, o)
                               /\ CapacityFree(o)' = CapacityFree(o)
      BY <1>u, <3>1 DEF Winners, Hand, Taken, Draws, CapacityFree, HoldsCapacity, Offering
    <3>3. \A x \in Intents : /\ Lost(q, x)' <=> Lost(q, x)
                             /\ Ever(x[2])' = Ever(x[2]) /\ x[2] \in Offerings
      BY <1>u, <3>1, IntentsAssumption DEF Lost, Ever, Rows
    <3>4. \A w \in Workers : (HoldsInsert(w)' <=> HoldsInsert(w)) /\ Row(w)' = Row(w)
      BY <1>u DEF HoldsInsert, Row
    <3>5. QED BY <1>u, <3>1, <3>2, <3>3, <3>4 DEF OneRun
  <2>3. QED BY <2>1, <2>2
<1>3. Apart'
  <2>1. ASSUME NEW p \in Runs, NEW q \in Runs, p # q
        PROVE  /\ picked'[p] \cap picked'[q] = {}
               /\ \A o \in Offerings : ~ (Draws(p, o)' /\ Draws(q, o)')
    <3>1. CASE p # r /\ q # r
      BY <1>0, <2>1, <3>1 DEF Others, Apart, Draws
    <3>2. CASE p = r \/ q = r
      BY <2>1, <3>2 DEF Others, Draws
    <3>3. QED BY <3>1, <3>2
  <2>2. QED BY <2>1 DEF Apart
<1>4. ReportInv' /\ DecidedInv'
  BY <1>0, <1>u DEF ReportInv, Prizes, DecidedInv, Ever
<1>5. QED BY <1>1, <1>2, <1>3, <1>4
          DEF LInv, ShardInv, LockInv, TallyInv, SpaceInv, LostInv, Apart, DecidedInv, OneRun

\* Between two shards a run has nothing.
LEMMA BetweenShards ==
  ASSUME LInv, NEW r \in Runs, runPc[r] \notin {"draw", "insert"}
  PROVE  /\ picked[r] = {} /\ batch[r] = {} /\ won[r] = {}
         /\ raised[r] = Untouched /\ lowered[r] = Untouched
BY RunParts DEF OneRun

\* A run that has no open shard now has no obligations.
LEMMA EmptyRun ==
  ASSUME NEW r \in Runs, picked'[r] = {}, batch'[r] = {}, won'[r] = {},
         raised'[r] = Untouched, lowered'[r] = Untouched,
         runPc'[r] # "insert", CountInv'
  PROVE  OneRun(r)'
<1>1. \A o \in Offerings : raised'[r][o] = 0 /\ lowered'[r][o] = 0 /\ ~ Draws(r, o)'
  BY DEF Untouched, Draws
<1>2. \A o \in Offerings : Winners(r, o)' = {} /\ Hand(r, o)' = 0
  BY DEF Winners, Hand
<1>3. Cardinality({}) = 0
  BY FS_EmptySet
<1>4. \A o \in Offerings : Taken(r, o)' <= maxCapacity'[o]
  <2>1. \A o \in Offerings : enrolledCount'[o] <= maxCapacity'[o] /\ enrolledCount'[o] \in Nat
    BY DEF CountInv, CountWithinCapacity, TypeOK
  <2>2. \A o \in Offerings : Taken(r, o)' = enrolledCount'[o]
    BY <1>1, <2>1 DEF Taken
  <2>3. QED BY <2>1, <2>2
<1>5. QED BY <1>1, <1>2, <1>3, <1>4 DEF OneRun, Lost, Untouched

LEMMA TriggerKeeps ==
  ASSUME LInv, NEW r \in Runs, Trigger(r) \/ FinishRun(r)
  PROVE  LInv'
<1>1. /\ UNCHANGED <<vars, history, picked, batch, current, won, raised, lowered>>
      /\ runPc[r] \notin {"draw", "insert"}
  BY DEF Trigger, FinishRun
<1>2. PICK l \in {"fetch", "completed"} : runPc' = [runPc EXCEPT ![r] = l]
  BY DEF Trigger, FinishRun, At
<1>0. RunType /\ CountInv /\ Apart
  BY RunParts
<1>3. RunType'
  BY <1>0, <1>1, <1>2 DEF RunType, history
<1>4. runPc'[r] = l /\ \A q \in Runs \ {r} : runPc'[q] = runPc[q]
  BY <1>0, <1>2 DEF RunType
<1>5. CountInv'
  BY <1>0, <1>1, NextCount
<1>6. OneRun(r)'
  BY <1>1, <1>4, <1>5, BetweenShards, EmptyRun
<1>7. Others(r)
  BY <1>1, <1>4 DEF Others
<1>8. \A o \in Offerings : ~ Draws(r, o)'
  BY <1>1, BetweenShards DEF Draws, Untouched
<1>9. QED BY <1>1, <1>3, <1>6, <1>7, <1>8, BetweenShards, RunKeeps

LEMMA FetchKeeps ==
  ASSUME LInv, NEW r \in Runs, Fetch(r)
  PROVE  LInv'
<1>0. RunType /\ CountInv /\ Apart
  BY RunParts
<1>1. PICK S \in SUBSET Available(r) :
          picked' = [picked EXCEPT ![r] = S] /\ batch' = [batch EXCEPT ![r] = S]
  BY DEF Fetch
<1>2. /\ runPc[r] = "fetch" /\ runPc' = [runPc EXCEPT ![r] = "draw"]
      /\ UNCHANGED <<vars, history, current, won, raised, lowered>>
  BY DEF Fetch, At
<1>3. /\ S \subseteq Intents
      /\ \A q \in Runs : S \cap picked[q] = {}
  BY DEF Available
<1>4. RunType'
  BY <1>0, <1>1, <1>2, <1>3 DEF RunType, history
<1>5. /\ runPc'[r] = "draw" /\ picked'[r] = S /\ batch'[r] = S
      /\ Others(r)
  BY <1>0, <1>1, <1>2 DEF RunType, Others
<1>6. won'[r] = {} /\ raised'[r] = Untouched /\ lowered'[r] = Untouched
  BY <1>2, BetweenShards
<1>7. CountInv'
  BY <1>0, <1>2, NextCount
<1>8. OneRun(r)'
  <2>1. \A o \in Offerings : raised'[r][o] = 0 /\ lowered'[r][o] = 0 /\ ~ Draws(r, o)'
    BY <1>6 DEF Untouched, Draws
  <2>2. \A o \in Offerings : Winners(r, o)' = {} /\ Hand(r, o)' = 0
    BY <1>5, <1>6 DEF Winners, Hand
  <2>3. Cardinality({}) = 0
    BY FS_EmptySet
  <2>4. \A o \in Offerings : Taken(r, o)' <= maxCapacity'[o]
    <3>1. \A o \in Offerings : enrolledCount'[o] <= maxCapacity'[o] /\ enrolledCount'[o] \in Nat
      BY <1>7 DEF CountInv, CountWithinCapacity, TypeOK
    <3>2. \A o \in Offerings : Taken(r, o)' = enrolledCount'[o]
      BY <2>1, <3>1 DEF Taken
    <3>3. QED BY <3>1, <3>2
  <2>5. \A x \in Intents : ~ Lost(r, x)'
    BY <1>5 DEF Lost
  <2>6. QED BY <1>5, <1>6, <2>1, <2>2, <2>3, <2>4, <2>5 DEF OneRun
<1>9. \A o \in Offerings : ~ Draws(r, o)'
  BY <1>6 DEF Draws, Untouched
<1>10. QED BY <1>2, <1>3, <1>4, <1>5, <1>8, <1>9, RunKeeps

\* A run that loses its open shard.
LEMMA FailKeeps ==
  ASSUME LInv, NEW r \in Runs, RunFails(r)
  PROVE  LInv'
<1>0. RunType /\ CountInv
  BY RunParts
<1>1. /\ runPc' = [runPc EXCEPT ![r] = "running"]
      /\ picked' = [picked EXCEPT ![r] = {}] /\ batch' = [batch EXCEPT ![r] = {}]
      /\ current' = [current EXCEPT ![r] = NoRow] /\ won' = [won EXCEPT ![r] = {}]
      /\ raised' = [raised EXCEPT ![r] = Untouched]
      /\ lowered' = [lowered EXCEPT ![r] = Untouched]
      /\ UNCHANGED <<vars, history>>
  BY DEF RunFails, At, EndTxn
<1>2. Untouched \in [Offerings -> Nat]
  BY DEF Untouched
<1>3. RunType'
  BY <1>0, <1>1, <1>2 DEF RunType, history
<1>4. /\ runPc'[r] = "running" /\ picked'[r] = {} /\ batch'[r] = {} /\ won'[r] = {}
      /\ raised'[r] = Untouched /\ lowered'[r] = Untouched /\ Others(r)
  BY <1>0, <1>1 DEF RunType, Others
<1>5. CountInv'
  BY <1>0, <1>1, NextCount
<1>6. OneRun(r)'
  BY <1>4, <1>5, EmptyRun
<1>7. \A o \in Offerings : ~ Draws(r, o)'
  BY <1>4 DEF Draws, Untouched
<1>8. QED BY <1>1, <1>3, <1>4, <1>6, <1>7, RunKeeps

\* The increment: the row is free, so it is the run's now, and there is space.
LEMMA RaiseKeeps ==
  ASSUME LInv, NEW r \in Runs, NEW x \in batch[r], Raise(r, x)
  PROVE  LInv'
<1>0. RunType /\ CountInv /\ Apart /\ OneRun(r)
  BY RunParts
<1>1. /\ runPc[r] = "draw" /\ ~ CapacityTaken(r, x[2]) /\ SeatLeft(r, x[2])
      /\ batch' = [batch EXCEPT ![r] = @ \ {x}]
      /\ current' = [current EXCEPT ![r] = x]
      /\ raised' = [raised EXCEPT ![r][x[2]] = @ + 1]
      /\ runPc' = [runPc EXCEPT ![r] = "insert"]
      /\ UNCHANGED <<vars, history, picked, won, lowered>>
  BY DEF Raise, At
<1>2. x \in Intents /\ x \in picked[r] /\ x \notin won[r] /\ x[2] \in Offerings
  BY <1>0, IntentsAssumption DEF OneRun, RunType, Rows
<1>3. RunType'
  BY <1>0, <1>1, <1>2 DEF RunType, history
<1>4. /\ runPc'[r] = "insert" /\ batch'[r] = batch[r] \ {x} /\ current'[r] = x
      /\ \A o \in Offerings : raised'[r][o] = raised[r][o] + IF o = x[2] THEN 1 ELSE 0
      /\ won'[r] = won[r] /\ lowered'[r] = lowered[r] /\ picked'[r] = picked[r]
      /\ Others(r)
  BY <1>0, <1>1, <1>2 DEF RunType, Others
<1>u. UNCHANGED <<status, enrolledCount, maxCapacity, pc, req>>
  BY <1>1 DEF vars, dbVars, reqVars
<1>w. /\ \A o : Winners(r, o)' = Winners(r, o)
      /\ \A o : CapacityFree(o)' = CapacityFree(o)
      /\ \A w \in Workers : (HoldsInsert(w)' <=> HoldsInsert(w)) /\ Row(w)' = Row(w)
      /\ \A o : Ever(o)' = Ever(o)
  BY <1>4, <1>u DEF Winners, CapacityFree, HoldsCapacity, HoldsInsert, Offering, Row, Ever
<1>5. ASSUME NEW o \in Offerings, Draws(r, o)'
      PROVE  CapacityFree(o) /\ \A q \in Runs \ {r} : ~ Draws(q, o)
  <2>1. CASE o = x[2]
    BY <1>1, <2>1 DEF CapacityTaken
  <2>2. CASE o # x[2]
    <3>1. Draws(r, o)
      BY <1>0, <1>4, <1>5, <2>2 DEF Draws, RunType
    <3>2. QED BY <1>0, <3>1 DEF OneRun, Apart
  <2>3. QED BY <2>1, <2>2
<1>6. ASSUME NEW o \in Offerings
      PROVE  /\ raised'[r][o] = lowered'[r][o] + Cardinality(Winners(r, o)') + Hand(r, o)'
             /\ Taken(r, o)' <= maxCapacity'[o]
  <2>1. /\ Hand(r, o) = 0 /\ Hand(r, o)' = IF o = x[2] THEN 1 ELSE 0
    BY <1>1, <1>4 DEF Hand
  <2>2. raised[r][o] = lowered[r][o] + Cardinality(Winners(r, o))
    BY <2>1, TallyOf
  <2>3. Taken(r, o)' = enrolledCount[o] + (raised[r][o] + IF o = x[2] THEN 1 ELSE 0) - lowered[r][o]
    BY <1>4, <1>u DEF Taken
  <2>4. enrolledCount[o] + (raised[r][o] + IF o = x[2] THEN 1 ELSE 0) - lowered[r][o]
           <= maxCapacity[o]
    BY <1>1, TallyOf DEF SeatLeft, Taken
  <2>5. raised[r][o] + (IF o = x[2] THEN 1 ELSE 0)
           = lowered[r][o] + Cardinality(Winners(r, o)) + (IF o = x[2] THEN 1 ELSE 0)
    BY <2>2, TallyOf
  <2>6. QED BY <1>4, <1>u, <1>w, <2>1, <2>3, <2>4, <2>5
<1>7. ASSUME NEW y \in Intents, Lost(r, y)', status'[y] = "absent"
      PROVE  Cardinality(Ever(y[2])') + Cardinality(Winners(r, y[2])') >= maxCapacity'[y[2]]
  <2>1. Lost(r, y)
    BY <1>1, <1>4, <1>7 DEF Lost
  <2>2. QED BY <1>0, <1>u, <1>w, <1>7, <2>1 DEF OneRun
<1>8. OneRun(r)'
  <2>1. /\ batch'[r] \subseteq picked'[r] /\ won'[r] \subseteq picked'[r] \ batch'[r]
        /\ current'[r] \in picked'[r] \ (batch'[r] \cup won'[r])
    BY <1>0, <1>2, <1>4 DEF OneRun
  <2>2. \A y \in won'[r] : /\ status'[y] = "absent"
                           /\ \A w \in Workers : HoldsInsert(w)' => Row(w)' # y
    BY <1>0, <1>4, <1>u, <1>w DEF OneRun
  <2>3. QED BY <1>4, <1>5, <1>6, <1>7, <1>w, <2>1, <2>2 DEF OneRun
<1>9. \A q \in Runs \ {r} : picked'[r] \cap picked[q] = {}
  BY <1>0, <1>4 DEF Apart
<1>10. QED BY <1>1, <1>3, <1>4, <1>5, <1>8, <1>9, RunKeeps

\* The course is full: everybody counted has a row, or is about to get one.
LEMMA LoseKeeps ==
  ASSUME LInv, NEW r \in Runs, NEW x \in batch[r], Lose(r, x)
  PROVE  LInv'
<1>0. RunType /\ CountInv /\ Apart /\ OneRun(r)
  BY RunParts
<1>1. /\ runPc[r] = "draw" /\ ~ SeatLeft(r, x[2])
      /\ batch' = [batch EXCEPT ![r] = @ \ {x}]
      /\ UNCHANGED <<vars, history, runPc, picked, current, won, raised, lowered>>
  BY DEF Lose, history
<1>2. x \in Intents /\ x[2] \in Offerings
  BY <1>0, IntentsAssumption DEF RunType, Rows
<1>3. RunType'
  BY <1>0, <1>1 DEF RunType, history
<1>4. batch'[r] = batch[r] \ {x} /\ Others(r)
  BY <1>0, <1>1 DEF RunType, Others
<1>u. UNCHANGED <<status, enrolledCount, maxCapacity, pc, req>>
  BY <1>1 DEF vars, dbVars, reqVars
<1>w. /\ \A o : /\ Winners(r, o)' = Winners(r, o) /\ Hand(r, o)' = Hand(r, o)
                /\ Taken(r, o)' = Taken(r, o) /\ Draws(r, o)' = Draws(r, o)
                /\ CapacityFree(o)' = CapacityFree(o)
      /\ \A w \in Workers : (HoldsInsert(w)' <=> HoldsInsert(w)) /\ Row(w)' = Row(w)
      /\ \A o : Ever(o)' = Ever(o)
  BY <1>1, <1>u DEF Winners, Hand, Taken, Draws, CapacityFree, HoldsCapacity, HoldsInsert,
                    Offering, Row, Ever
<1>5. Cardinality(Ever(x[2])) + Cardinality(Winners(r, x[2])) >= maxCapacity[x[2]]
  <2>1. Roster(x[2]) \in SUBSET Ever(x[2])
    BY DEF Roster, Ever
  <2>2. Cardinality(Roster(x[2])) <= Cardinality(Ever(x[2])) /\ Cardinality(Ever(x[2])) \in Nat
    BY <2>1, EverFinite, FS_Subset
  <2>3. enrolledCount[x[2]] = Cardinality(Roster(x[2]))
    BY <1>0, <1>2 DEF CountInv, CountMatchesRoster
  <2>4. Hand(r, x[2]) = 0
    BY <1>1 DEF Hand
  <2>5. ~ (enrolledCount[x[2]] + raised[r][x[2]] - lowered[r][x[2]] + 1 <= maxCapacity[x[2]])
    BY <1>1 DEF SeatLeft, Taken
  <2>6. QED BY <1>2, <2>2, <2>3, <2>4, <2>5, TallyOf
<1>6. ASSUME NEW y \in Intents, Lost(r, y)', status'[y] = "absent"
      PROVE  Cardinality(Ever(y[2])') + Cardinality(Winners(r, y[2])') >= maxCapacity'[y[2]]
  <2>1. CASE y = x
    BY <1>5, <1>u, <1>w, <2>1
  <2>2. CASE y # x
    <3>1. Lost(r, y)
      BY <1>1, <1>4, <1>6, <2>2 DEF Lost
    <3>2. QED BY <1>0, <1>u, <1>w, <1>6, <3>1 DEF OneRun
  <2>3. QED BY <2>1, <2>2
<1>7. OneRun(r)'
  BY <1>0, <1>1, <1>4, <1>6, <1>u, <1>w DEF OneRun
<1>8. QED BY <1>0, <1>1, <1>3, <1>4, <1>7, <1>w, RunKeeps DEF Apart

\* The row goes in: the seat in hand has its row.
LEMMA WinKeeps ==
  ASSUME LInv, NEW r \in Runs, Win(r)
  PROVE  LInv'
<1>0. RunType /\ CountInv /\ Apart /\ OneRun(r)
  BY RunParts
<1>1. /\ runPc[r] = "insert" /\ ~ RowTaken(r, current[r]) /\ status[current[r]] = "absent"
      /\ won' = [won EXCEPT ![r] = @ \cup {current[r]}]
      /\ current' = [current EXCEPT ![r] = NoRow]
      /\ runPc' = [runPc EXCEPT ![r] = "draw"]
      /\ UNCHANGED <<vars, history, picked, batch, raised, lowered>>
  BY DEF Win, At
<1>2. PICK x \in Intents : x = current[r]
  BY <1>0, <1>1 DEF OneRun, RunType
<1>3. /\ x \in picked[r] /\ x \notin batch[r] /\ x \notin won[r]
      /\ x \in Rows /\ x = <<x[1], x[2]>> /\ x[1] \in Students /\ x[2] \in Offerings
  BY <1>0, <1>1, <1>2, IntentsAssumption DEF OneRun, Rows
<1>4. RunType'
  BY <1>0, <1>1, <1>2 DEF RunType, history
<1>5. /\ runPc'[r] = "draw" /\ won'[r] = won[r] \cup {x}
      /\ Others(r)
  BY <1>0, <1>1, <1>2 DEF RunType, Others
<1>u. UNCHANGED <<status, enrolledCount, maxCapacity, pc, req>>
  BY <1>1 DEF vars, dbVars, reqVars
<1>w. /\ \A o : /\ Taken(r, o)' = Taken(r, o) /\ Draws(r, o)' = Draws(r, o)
                /\ CapacityFree(o)' = CapacityFree(o) /\ Ever(o)' = Ever(o)
      /\ \A w \in Workers : (HoldsInsert(w)' <=> HoldsInsert(w)) /\ Row(w)' = Row(w)
  BY <1>1, <1>u DEF Taken, Draws, CapacityFree, HoldsCapacity, HoldsInsert,
                    Offering, Row, Ever
<1>6. ASSUME NEW o \in Offerings
      PROVE  Cardinality(Winners(r, o)') = Cardinality(Winners(r, o)) + Hand(r, o)
  <2>1. CASE o = x[2]
    <3>1. Winners(r, o)' = Winners(r, o) \cup {x[1]} /\ x[1] \notin Winners(r, o)
      <4>1. ASSUME NEW s \in Students PROVE <<s, o>> = x <=> s = x[1]
        BY <1>3, <2>1
      <4>2. QED BY <1>3, <1>5, <4>1 DEF Winners
    <3>2. Hand(r, o) = 1
      BY <1>1, <1>2, <2>1 DEF Hand
    <3>3. QED BY <3>1, <3>2, WinnersFinite, FS_AddElement
  <2>2. CASE o # x[2]
    <3>1. Winners(r, o)' = Winners(r, o)
      <4>1. ASSUME NEW s \in Students PROVE <<s, o>> # x
        BY <1>3, <2>2
      <4>2. QED BY <1>5, <4>1 DEF Winners
    <3>2. Hand(r, o) = 0
      BY <1>2, <2>2 DEF Hand
    <3>3. QED BY <3>1, <3>2, WinnersFinite
  <2>3. QED BY <2>1, <2>2
<1>7. ASSUME NEW o \in Offerings
      PROVE  raised'[r][o] = lowered'[r][o] + Cardinality(Winners(r, o)') + Hand(r, o)'
  <2>1. Hand(r, o)' = 0
    BY <1>5 DEF Hand
  <2>2. raised[r][o] = lowered[r][o] + (Cardinality(Winners(r, o)) + Hand(r, o)) + 0
    BY TallyOf
  <2>3. QED BY <1>1, <1>6, <2>1, <2>2
<1>8. ASSUME NEW y \in Intents, Lost(r, y)', status'[y] = "absent"
      PROVE  Cardinality(Ever(y[2])') + Cardinality(Winners(r, y[2])') >= maxCapacity'[y[2]]
  <2>1. Lost(r, y) /\ y[2] \in Offerings
    BY <1>1, <1>2, <1>5, <1>8, IntentsAssumption DEF Lost, Rows
  <2>2. Cardinality(Ever(y[2])) + Cardinality(Winners(r, y[2])) >= maxCapacity[y[2]]
    BY <1>0, <1>u, <1>8, <2>1 DEF OneRun
  <2>3. Cardinality(Ever(y[2])) + (Cardinality(Winners(r, y[2])) + Hand(r, y[2]))
           >= maxCapacity[y[2]]
    BY <2>1, <2>2, TallyOf, EverFinite
  <2>4. QED BY <1>6, <1>u, <1>w, <2>1, <2>3
<1>9. \A y \in won'[r] : /\ status'[y] = "absent"
                         /\ \A w \in Workers : HoldsInsert(w)' => Row(w)' # y
  BY <1>0, <1>1, <1>2, <1>5, <1>u, <1>w DEF OneRun, RowTaken
<1>10. /\ won'[r] \subseteq picked'[r] \ batch'[r] /\ batch'[r] \subseteq picked'[r]
       /\ \A o \in Offerings : Draws(r, o)' => CapacityFree(o)'
       /\ \A o \in Offerings : Taken(r, o)' <= maxCapacity'[o]
  BY <1>0, <1>1, <1>3, <1>5, <1>u, <1>w DEF OneRun
<1>11. OneRun(r)'
  BY <1>5, <1>7, <1>8, <1>9, <1>10 DEF OneRun
<1>12. QED BY <1>0, <1>1, <1>4, <1>5, <1>11, <1>w, RunKeeps DEF Apart

\* There is a row already: the seat in hand is given back.
LEMMA DuplicateKeeps ==
  ASSUME LInv, NEW r \in Runs, Duplicate(r)
  PROVE  LInv'
<1>0. RunType /\ CountInv /\ Apart /\ OneRun(r)
  BY RunParts
<1>1. /\ runPc[r] = "insert" /\ status[current[r]] # "absent"
      /\ lowered' = [lowered EXCEPT ![r][current[r][2]] = @ + 1]
      /\ current' = [current EXCEPT ![r] = NoRow]
      /\ runPc' = [runPc EXCEPT ![r] = "draw"]
      /\ UNCHANGED <<vars, history, picked, batch, won, raised>>
  BY DEF Duplicate, At
<1>2. PICK x \in Intents : x = current[r]
  BY <1>0, <1>1 DEF OneRun, RunType
<1>3. x[2] \in Offerings
  BY <1>2, IntentsAssumption DEF Rows
<1>4. RunType'
  BY <1>0, <1>1, <1>2, <1>3 DEF RunType, history
<1>5. /\ runPc'[r] = "draw"
      /\ \A o \in Offerings : lowered'[r][o] = lowered[r][o] + Hand(r, o)
      /\ Others(r)
  BY <1>0, <1>1, <1>2, <1>3 DEF RunType, Others, Hand
<1>u. UNCHANGED <<status, enrolledCount, maxCapacity, pc, req>>
  BY <1>1 DEF vars, dbVars, reqVars
<1>w. /\ \A o : /\ Winners(r, o)' = Winners(r, o) /\ Draws(r, o)' = Draws(r, o)
                /\ CapacityFree(o)' = CapacityFree(o) /\ Ever(o)' = Ever(o)
      /\ \A w \in Workers : (HoldsInsert(w)' <=> HoldsInsert(w)) /\ Row(w)' = Row(w)
  BY <1>1, <1>u DEF Winners, Draws, CapacityFree, HoldsCapacity, HoldsInsert,
                    Offering, Row, Ever
<1>6. ASSUME NEW o \in Offerings
      PROVE  /\ raised'[r][o] = lowered'[r][o] + Cardinality(Winners(r, o)') + Hand(r, o)'
             /\ Taken(r, o)' <= maxCapacity'[o]
  <2>1. Hand(r, o)' = 0
    BY <1>5 DEF Hand
  <2>2. raised[r][o] = (lowered[r][o] + Hand(r, o)) + Cardinality(Winners(r, o)) + 0
    BY TallyOf
  <2>3. enrolledCount[o] + raised[r][o] - (lowered[r][o] + Hand(r, o)) <= maxCapacity[o]
    BY TallyOf
  <2>4. Taken(r, o)' = enrolledCount[o] + raised[r][o] - (lowered[r][o] + Hand(r, o))
    BY <1>1, <1>5, <1>u DEF Taken
  <2>5. QED BY <1>1, <1>5, <1>u, <1>w, <2>1, <2>2, <2>3, <2>4
<1>7. ASSUME NEW y \in Intents, Lost(r, y)', status'[y] = "absent"
      PROVE  Cardinality(Ever(y[2])') + Cardinality(Winners(r, y[2])') >= maxCapacity'[y[2]]
  <2>1. Lost(r, y)
    BY <1>1, <1>2, <1>5, <1>7, <1>u DEF Lost
  <2>2. QED BY <1>0, <1>u, <1>w, <1>7, <2>1 DEF OneRun
<1>8. \A y \in won'[r] : /\ status'[y] = "absent"
                         /\ \A w \in Workers : HoldsInsert(w)' => Row(w)' # y
  BY <1>0, <1>1, <1>u, <1>w DEF OneRun
<1>9. /\ won'[r] \subseteq picked'[r] \ batch'[r] /\ batch'[r] \subseteq picked'[r]
      /\ \A o \in Offerings : Draws(r, o)' => CapacityFree(o)'
  BY <1>0, <1>1, <1>w DEF OneRun
<1>10. OneRun(r)'
  BY <1>5, <1>6, <1>7, <1>8, <1>9 DEF OneRun
<1>11. QED BY <1>0, <1>1, <1>4, <1>5, <1>10, <1>w, RunKeeps DEF Apart

-----------------------------------------------------------------------------
\* The commit: what a shard has won becomes visible.

\* Two disjoint sets of students, counted together.
LEMMA CountTogether ==
  ASSUME NEW S \in SUBSET Students, NEW T \in SUBSET Students, S \cap T = {}
  PROVE  Cardinality(S \cup T) = Cardinality(S) + Cardinality(T)
<1>1. IsFiniteSet(S) /\ IsFiniteSet(T)
  BY FiniteAssumption, FS_Subset
<1>2. /\ Cardinality(S) \in Nat /\ Cardinality(T) \in Nat
      /\ Cardinality(S \cup T) = Cardinality(S) + Cardinality(T) - Cardinality(S \cap T)
  BY <1>1, FS_CardinalityType, FS_Union
<1>3. Cardinality(S \cap T) = 0
  BY FS_EmptySet
<1>4. QED BY <1>2, <1>3

\* Before the commit nothing is in hand: the run has taken one seat per row.
LEMMA TakenIsWon ==
  ASSUME LInv, NEW r \in Runs, runPc[r] = "draw", NEW o \in Offerings
  PROVE  /\ Taken(r, o) = enrolledCount[o] + Cardinality(Winners(r, o))
         /\ Taken(r, o) \in Nat /\ Taken(r, o) <= maxCapacity[o]
         /\ ~ Draws(r, o) => Taken(r, o) = enrolledCount[o]
<1>1. Hand(r, o) = 0
  BY DEF Hand
<1>2. raised[r][o] = lowered[r][o] + Cardinality(Winners(r, o))
  BY <1>1, TallyOf
<1>3. Taken(r, o) = enrolledCount[o] + raised[r][o] - lowered[r][o]
  BY DEF Taken
<1>4. QED BY <1>2, <1>3, TallyOf DEF Draws

\* The rows are new, so their students join those enrolled and those counted.
LEMMA WinnersJoin ==
  ASSUME LInv, NEW r \in Runs, Commits(r), NEW o \in Offerings
  PROVE  /\ Roster(o)' = Roster(o) \cup Winners(r, o)
         /\ Ever(o)' = Ever(o) \cup Winners(r, o)
         /\ Cardinality(Roster(o)') = Cardinality(Roster(o)) + Cardinality(Winners(r, o))
         /\ Cardinality(Ever(o)') = Cardinality(Ever(o)) + Cardinality(Winners(r, o))
<1>1. OneRun(r)
  BY RunParts
<1>2. ASSUME NEW s \in Students
      PROVE  /\ <<s, o>> \in Rows
             /\ status'[<<s, o>>] = IF s \in Winners(r, o) THEN "enrolled"
                                    ELSE status[<<s, o>>]
             /\ s \in Winners(r, o) => status[<<s, o>>] = "absent"
  <2>1. <<s, o>> \in Rows
    BY DEF Rows
  <2>2. QED BY <1>1, <2>1 DEF Commits, Winners, OneRun
<1>3. Roster(o)' = Roster(o) \cup Winners(r, o) /\ Roster(o) \cap Winners(r, o) = {}
  BY <1>2 DEF Roster, Winners
<1>4. Ever(o)' = Ever(o) \cup Winners(r, o) /\ Ever(o) \cap Winners(r, o) = {}
  BY <1>2 DEF Ever, Winners
<1>5. /\ Roster(o) \in SUBSET Students /\ Ever(o) \in SUBSET Students
      /\ Winners(r, o) \in SUBSET Students
  BY DEF Roster, Ever, Winners
<1>6. QED BY <1>3, <1>4, <1>5, CountTogether

\* The counters of the write path survive the commit.
LEMMA CommitCounts ==
  ASSUME LInv, NEW r \in Runs, Commits(r)
  PROVE  CountInv'
<1>0. CountInv /\ TypeOK /\ OneRun(r) /\ RunType
  BY RunParts DEF CountInv
<1>1. /\ runPc[r] = "draw"
      /\ UNCHANGED <<keyOf, maxCapacity, outbox, stock, pc, req, seen, reason>>
      /\ status' = [x \in Rows |-> IF x \in won[r] THEN "enrolled" ELSE status[x]]
      /\ enrolledCount' = [o \in Offerings |-> Taken(r, o)]
      /\ version' = [o \in Offerings |-> version[o] + raised[r][o]]
      /\ drift' = [o \in Offerings |-> drift[o] + Taken(r, o) - enrolledCount[o]]
  BY DEF Commits, reqVars
<1>2. TypeOK'
  <2>1. status' \in [Rows -> Status]
    BY <1>0, <1>1 DEF TypeOK, Status
  <2>2. enrolledCount' \in [Offerings -> Nat]
    BY <1>1, TakenIsWon
  <2>3. version' \in [Offerings -> Nat]
    <3>1. \A o \in Offerings : version[o] + raised[r][o] \in Nat
      BY <1>0, TallyOf DEF TypeOK
    <3>2. QED BY <1>1, <3>1
  <2>4. drift' \in [Offerings -> Int]
    <3>1. \A o \in Offerings : drift[o] + Taken(r, o) - enrolledCount[o] \in Int
      BY <1>0, <1>1, TakenIsWon DEF TypeOK
    <3>2. QED BY <1>1, <3>1
  <2>5. QED BY <1>0, <1>1, <2>1, <2>2, <2>3, <2>4 DEF TypeOK
<1>3. ASSUME NEW x \in Rows, x \notin won[r]
      PROVE  status'[x] = status[x]
  BY <1>1, <1>3
<1>4. TransactionsExclude'
  <2>1. InsertsExclude'
    <3>1. ASSUME NEW w \in Workers, HoldsInsert(w)
          PROVE  status'[Row(w)] = "absent"
      <4>1. Row(w) \notin won[r] /\ Row(w) \in Rows
        BY <1>0, <3>1, RowType DEF OneRun, HoldsInsert
      <4>2. QED BY <1>0, <1>3, <3>1, <4>1
                DEF CountInv, TransactionsExclude, InsertsExclude
    <3>2. QED BY <1>0, <1>1, <3>1
              DEF CountInv, TransactionsExclude, InsertsExclude, HoldsInsert, Row, KeyUsed
  <2>2. CapacityExcludes'
    <3>1. ASSUME NEW w \in Workers, pc[w] = "commit"
          PROVE  enrolledCount'[Offering(w)] < maxCapacity[Offering(w)]
      <4>1. HoldsCapacity(w) /\ Offering(w) \in Offerings
        BY <1>0, <3>1, RowType DEF HoldsCapacity
      <4>2. ~ Draws(r, Offering(w))
        BY <1>0, <4>1 DEF OneRun, CapacityFree
      <4>3. enrolledCount'[Offering(w)] = enrolledCount[Offering(w)]
        BY <1>1, <4>1, <4>2, TakenIsWon
      <4>4. QED BY <1>0, <3>1, <4>3 DEF CountInv, TransactionsExclude, CapacityExcludes
    <3>2. QED BY <1>0, <1>1, <3>1
              DEF CountInv, TransactionsExclude, CapacityExcludes, HoldsCapacity, Offering
  <2>3. CancelsExclude'
    <3>1. ASSUME NEW w \in Workers, HoldsRow(w)
          PROVE  status'[Row(w)] = "enrolled"
      <4>1. status[Row(w)] = "enrolled" /\ Row(w) \in Rows
        BY <1>0, <3>1, RowType
           DEF CountInv, TransactionsExclude, CancelsExclude, HoldsRow
      <4>2. QED BY <1>1, <4>1
    <3>2. QED BY <1>0, <1>1, <3>1
              DEF CountInv, TransactionsExclude, CancelsExclude, HoldsRow, Row
  <2>4. QED BY <2>1, <2>2, <2>3 DEF TransactionsExclude
<1>5. CountMatchesRoster'
  <2>1. ASSUME NEW o \in Offerings
        PROVE  enrolledCount'[o] = Cardinality(Roster(o)')
    <3>1. enrolledCount'[o] = enrolledCount[o] + Cardinality(Winners(r, o))
      BY <1>1, TakenIsWon
    <3>2. enrolledCount[o] = Cardinality(Roster(o))
      BY <1>0 DEF CountInv, CountMatchesRoster
    <3>3. QED BY <3>1, <3>2, WinnersJoin
  <2>2. QED BY <2>1 DEF CountMatchesRoster
<1>6. CountWithinCapacity'
  BY <1>1, TakenIsWon DEF CountWithinCapacity
<1>7. QED BY <1>2, <1>4, <1>5, <1>6 DEF CountInv

\* The report counts each row once, and no other run's rows.
LEMMA CommitReports ==
  ASSUME LInv, NEW r \in Runs, CommitShard(r)
  PROVE  ReportInv'
<1>0. OneRun(r) /\ RunType /\ ReportInv
  BY RunParts
<1>1. /\ status' = [x \in Rows |-> IF x \in won[r] THEN "enrolled" ELSE status[x]]
      /\ wonBy' = [x \in Rows |-> IF x \in won[r] THEN r ELSE wonBy[x]]
      /\ succeeded' = [succeeded EXCEPT ![r] = @ + Cardinality(won[r])]
  BY DEF CommitShard, Commits
<1>2. won[r] \in SUBSET Intents /\ won[r] \subseteq Rows
  BY <1>0, IntentsAssumption DEF RunType
<1>3. \A x \in won[r] : wonBy[x] = NoRun /\ status[x] = "absent"
  BY <1>0, <1>2 DEF OneRun, ReportInv
<1>4. \A q \in Runs : q # NoRun
  BY NoRunAssumption
<1>5. ASSUME NEW q \in Runs PROVE succeeded'[q] = Cardinality(Prizes(q)')
  <2>1. succeeded[q] = Cardinality(Prizes(q)) /\ succeeded[q] \in Nat
    BY <1>0 DEF ReportInv, RunType
  <2>2. CASE q # r
    <3>1. Prizes(q)' = Prizes(q)
      BY <1>1, <1>3, <1>4, <2>2 DEF Prizes
    <3>2. succeeded'[q] = succeeded[q]
      BY <1>0, <1>1, <2>2 DEF RunType
    <3>3. QED BY <2>1, <3>1, <3>2
  <2>3. CASE q = r
    <3>1. Prizes(r)' = Prizes(r) \cup won[r] /\ Prizes(r) \cap won[r] = {}
      BY <1>1, <1>2, <1>3, <1>4 DEF Prizes
    <3>2. Prizes(r) \in SUBSET Intents
      BY <1>0, <1>4 DEF Prizes, ReportInv
    <3>3. IsFiniteSet(Prizes(r)) /\ IsFiniteSet(won[r])
      BY <1>2, <3>2, IntentsAssumption, FS_Subset
    <3>4. /\ Cardinality(Prizes(r)) \in Nat /\ Cardinality(won[r]) \in Nat
          /\ Cardinality(Prizes(r) \cup won[r])
               = Cardinality(Prizes(r)) + Cardinality(won[r])
                   - Cardinality(Prizes(r) \cap won[r])
      BY <3>3, FS_CardinalityType, FS_Union
    <3>5. Cardinality(Prizes(r) \cap won[r]) = 0
      BY <3>1, FS_EmptySet
    <3>6. Cardinality(Prizes(r) \cup won[r]) = succeeded[r] + Cardinality(won[r])
      BY <2>1, <2>3, <3>4, <3>5
    <3>7. succeeded'[r] = succeeded[r] + Cardinality(won[r])
      BY <1>0, <1>1 DEF RunType
    <3>8. QED BY <2>3, <3>1, <3>6, <3>7
  <2>4. QED BY <2>2, <2>3
<1>6. ASSUME NEW x \in Rows, wonBy'[x] # NoRun
      PROVE  x \in Intents /\ status'[x] # "absent"
  BY <1>0, <1>1, <1>2, <1>6 DEF ReportInv
<1>7. QED BY <1>5, <1>6 DEF ReportInv

\* An intent decided in the shard without a row met a course whose seats all
\* have, or had, a row now.
LEMMA CommitDecides ==
  ASSUME LInv, NEW r \in Runs, Commits(r)
  PROVE  DecidedInv'
<1>0. OneRun(r) /\ RunType /\ DecidedInv /\ CountInv
  BY RunParts
<1>1. /\ runPc[r] = "draw" /\ batch[r] = {} /\ maxCapacity' = maxCapacity
      /\ status' = [x \in Rows |-> IF x \in won[r] THEN "enrolled" ELSE status[x]]
      /\ decided' = decided \cup picked[r]
  BY DEF Commits
<1>2. ASSUME NEW x \in decided', status'[x] = "absent"
      PROVE  Cardinality(Ever(x[2])') >= maxCapacity'[x[2]]
  <2>1. x \in Intents /\ x \in Rows /\ x[2] \in Offerings
    BY <1>0, <1>1, IntentsAssumption DEF RunType, Rows
  <2>2. x \notin won[r] /\ status[x] = "absent"
    BY <1>1, <1>2, <2>1
  <2>3. /\ Cardinality(Ever(x[2])') = Cardinality(Ever(x[2])) + Cardinality(Winners(r, x[2]))
        /\ Cardinality(Ever(x[2])) \in Nat /\ Cardinality(Winners(r, x[2])) \in Nat
        /\ maxCapacity[x[2]] \in Nat
    BY <1>0, <2>1, WinnersJoin, EverFinite, WinnersFinite DEF CountInv, TypeOK
  <2>4. Cardinality(Ever(x[2])) + Cardinality(Winners(r, x[2])) >= maxCapacity[x[2]]
    <3>1. CASE x \in decided
      BY <1>0, <2>2, <2>3, <3>1 DEF DecidedInv
    <3>2. CASE x \in picked[r]
      <4>1. Lost(r, x)
        BY <1>1, <2>2, <3>2 DEF Lost
      <4>2. QED BY <1>0, <2>1, <2>2, <4>1 DEF OneRun
    <3>3. QED BY <1>1, <3>1, <3>2
  <2>5. QED BY <1>1, <2>3, <2>4
<1>3. QED BY <1>2 DEF DecidedInv

LEMMA CommitKeeps ==
  ASSUME LInv, NEW r \in Runs, CommitShard(r)
  PROVE  LInv'
<1>0. RunType /\ CountInv /\ Apart /\ OneRun(r)
  BY RunParts
<1>1. /\ Commits(r) /\ runPc' = [runPc EXCEPT ![r] = "fetch"]
      /\ picked' = [picked EXCEPT ![r] = {}] /\ batch' = [batch EXCEPT ![r] = {}]
      /\ current' = [current EXCEPT ![r] = NoRow] /\ won' = [won EXCEPT ![r] = {}]
      /\ raised' = [raised EXCEPT ![r] = Untouched]
      /\ lowered' = [lowered EXCEPT ![r] = Untouched]
      /\ decided' = decided \cup picked[r]
      /\ wonBy' = [x \in Rows |-> IF x \in won[r] THEN r ELSE wonBy[x]]
      /\ succeeded' = [succeeded EXCEPT ![r] = @ + Cardinality(won[r])]
  BY DEF CommitShard, Commits, EndTxn, At
<1>2. /\ UNCHANGED <<maxCapacity, pc, req>>
      /\ status' = [x \in Rows |-> IF x \in won[r] THEN "enrolled" ELSE status[x]]
      /\ enrolledCount' = [o \in Offerings |-> Taken(r, o)]
      /\ runPc[r] = "draw"
  BY <1>1 DEF Commits, reqVars
<1>3. CountInv' /\ ReportInv' /\ DecidedInv'
  BY <1>1, CommitCounts, CommitReports, CommitDecides
<1>4. RunType'
  <2>1. Untouched \in [Offerings -> Nat]
    BY DEF Untouched
  <2>2. succeeded' \in [Runs -> Nat]
    <3>1. won[r] \in SUBSET Intents
      BY <1>0 DEF RunType
    <3>2. Cardinality(won[r]) \in Nat
      BY <3>1, IntentsAssumption, FS_Subset, FS_CardinalityType
    <3>3. QED BY <1>0, <1>1, <3>2 DEF RunType
  <2>3. QED BY <1>0, <1>1, <2>1, <2>2 DEF RunType
<1>5. /\ runPc'[r] = "fetch" /\ picked'[r] = {} /\ batch'[r] = {} /\ won'[r] = {}
      /\ raised'[r] = Untouched /\ lowered'[r] = Untouched
      /\ \A o \in Offerings : ~ Draws(r, o)'
      /\ Others(r)
  BY <1>0, <1>1 DEF RunType, Others, Draws, Untouched
<1>6. Apart'
  <2>1. ASSUME NEW p \in Runs, NEW q \in Runs, p # q
        PROVE  /\ picked'[p] \cap picked'[q] = {}
               /\ \A o \in Offerings : ~ (Draws(p, o)' /\ Draws(q, o)')
    <3>1. CASE p # r /\ q # r
      BY <1>0, <1>5, <2>1, <3>1 DEF Others, Apart, Draws
    <3>2. CASE p = r \/ q = r
      BY <1>5, <3>2
    <3>3. QED BY <3>1, <3>2
  <2>2. QED BY <2>1 DEF Apart
<1>7. \A x \in Rows : status[x] # "absent" => status'[x] # "absent"
  BY <1>2
<1>8. ASSUME NEW q \in Runs, q # r PROVE OneRun(q)'
  <2>0. OneRun(q)
    BY RunParts
  <2>1. ASSUME NEW o \in Offerings, Draws(q, o)
        PROVE  enrolledCount'[o] = enrolledCount[o] /\ CapacityFree(o)'
    <3>1. ~ Draws(r, o) /\ CapacityFree(o)
      BY <1>0, <1>8, <2>0, <2>1 DEF Apart, OneRun
    <3>2. QED BY <1>2, <3>1, TakenIsWon DEF CapacityFree, HoldsCapacity, Offering
  <2>2. ASSUME NEW x \in won[q]
        PROVE  /\ status'[x] = status[x]
               /\ \A w \in Workers : HoldsInsert(w)' => Row(w)' # x
    <3>1. x \notin won[r] /\ x \in Rows
      BY <1>0, <1>8, <2>0, IntentsAssumption DEF Apart, OneRun, RunType
    <3>2. QED BY <1>2, <2>0, <3>1 DEF OneRun, HoldsInsert, Row
  <2>3. /\ runPc'[q] = runPc[q] /\ picked'[q] = picked[q] /\ batch'[q] = batch[q]
        /\ current'[q] = current[q] /\ won'[q] = won[q]
        /\ raised'[q] = raised[q] /\ lowered'[q] = lowered[q]
    BY <1>5, <1>8 DEF Others
  <2>4. QED BY <1>2, <1>3, <1>7, <2>1, <2>2, <2>3, OneRunSpared
<1>9. OneRun(r)'
  BY <1>3, <1>5, EmptyRun
<1>10. \A q \in Runs : OneRun(q)'
  BY <1>8, <1>9
<1>11. QED BY <1>3, <1>4, <1>6, <1>10
           DEF LInv, ShardInv, LockInv, TallyInv, SpaceInv, LostInv, Apart, DecidedInv, OneRun

-----------------------------------------------------------------------------
LEMMA InitLInv == LInit => LInv
<1> SUFFICES ASSUME LInit PROVE LInv
  OBVIOUS
<1>1. CountInv
  BY InitSeat DEF LInit, SeatInv, CountInv
<1>2. RunType
  <2>1. Untouched \in [Offerings -> Nat]
    BY DEF Untouched
  <2>2. QED BY <2>1 DEF LInit, RunType
<1>3. Apart /\ DecidedInv
  BY DEF LInit, Apart, DecidedInv, Draws, Untouched
<1>4. ReportInv
  <2>1. \A r \in Runs : Prizes(r) = {}
    BY NoRunAssumption DEF LInit, Prizes
  <2>2. QED BY <2>1, FS_EmptySet DEF LInit, ReportInv
<1>5. ASSUME NEW r \in Runs PROVE OneRun(r)
  <2>1. /\ runPc[r] = "new" /\ picked[r] = {} /\ batch[r] = {} /\ won[r] = {}
        /\ raised[r] = Untouched /\ lowered[r] = Untouched
    BY DEF LInit
  <2>2. \A o \in Offerings : raised[r][o] = 0 /\ lowered[r][o] = 0 /\ ~ Draws(r, o)
    BY <2>1 DEF Untouched, Draws
  <2>3. \A o \in Offerings : Cardinality(Winners(r, o)) = 0 /\ Hand(r, o) = 0
    BY <2>1, FS_EmptySet DEF Winners, Hand
  <2>4. \A o \in Offerings : Taken(r, o) <= maxCapacity[o]
    BY <1>1, <2>2 DEF Taken, CountInv, TypeOK, CountWithinCapacity
  <2>5. QED BY <2>1, <2>2, <2>3, <2>4 DEF OneRun, Lost
<1>6. QED BY <1>1, <1>2, <1>3, <1>4, <1>5, RunParts

LEMMA NextLInv ==
  ASSUME LInv, [LNext]_lvars
  PROVE  LInv'
<1>1. CASE UNCHANGED lvars
  <2>0. /\ CountInv /\ RunType /\ ShardInv /\ LockInv
        /\ TallyInv /\ SpaceInv /\ ReportInv /\ LostInv
    BY DEF LInv
  <2>1. UNCHANGED vars /\ UNCHANGED runVars
    BY <1>1 DEF lvars
  <2>2. /\ UNCHANGED <<status, enrolledCount, maxCapacity, pc, req>>
        /\ UNCHANGED <<runPc, picked, batch, current, won, raised, lowered,
                       succeeded, decided, wonBy>>
    BY <2>1 DEF vars, dbVars, reqVars, runVars, history
  <2>3. CountInv'
    BY <2>0, <2>1, NextCount
  <2>4. RunType' /\ ShardInv' /\ ReportInv'
    BY <2>0, <2>2 DEF RunType, ShardInv, ReportInv, Prizes
  <2>5. LockInv'
    BY <2>0, <2>2 DEF LockInv, Draws, CapacityFree, HoldsCapacity, HoldsInsert,
                      Row, Offering
  <2>6. TallyInv' /\ SpaceInv'
    BY <2>0, <2>2 DEF TallyInv, SpaceInv, Winners, Hand, Taken
  <2>7. LostInv'
    BY <2>0, <2>2 DEF LostInv, Lost, Winners, Ever
  <2>8. QED BY <2>3, <2>4, <2>5, <2>6, <2>7 DEF LInv
<1>2. CASE \E w \in Workers : Request(w) /\ UNCHANGED runVars
  BY <1>2, RequestKeeps
<1>3. ASSUME NEW r \in Runs, Trigger(r) \/ DrawStep(r) \/ RunFails(r)
      PROVE  LInv'
  <2>1. CASE Trigger(r) \/ FinishRun(r)
    BY <2>1, TriggerKeeps
  <2>2. CASE Fetch(r)
    BY <2>2, FetchKeeps
  <2>3. CASE \E x \in batch[r] : Raise(r, x) \/ Lose(r, x)
    BY <2>3, RaiseKeeps, LoseKeeps
  <2>4. CASE Win(r) \/ Duplicate(r)
    BY <2>4, WinKeeps, DuplicateKeeps
  <2>5. CASE CommitShard(r)
    BY <2>5, CommitKeeps
  <2>6. CASE RunFails(r)
    BY <2>6, FailKeeps
  <2>7. QED BY <1>3, <2>1, <2>2, <2>3, <2>4, <2>5, <2>6 DEF DrawStep
<1>4. QED BY <1>1, <1>2, <1>3 DEF LNext, Request

LEMMA LInvariant == LSpec => []LInv
  BY InitLInv, NextLInv, PTL DEF LSpec

\* The lottery writes enrolled_count without the optimistic lock, and keeps it
\* equal to the number of enrolled rows all the same: what a shard counted up
\* it gave back or has a row for when it commits.
THEOREM LotteryCountsTrue == LSpec => []CountMatchesRoster
<1>1. LInv => CountMatchesRoster
  BY DEF LInv, CountInv
<1>2. QED BY <1>1, LInvariant, PTL

\* Draws and enrollments that run side by side never fill a course beyond its
\* capacity: the space a shard's UPDATE found is still there at its commit.
THEOREM LotteryNeverOversells == LSpec => []NoOversell
<1>1. LInv => NoOversell
  BY DEF LInv, CountInv, CountMatchesRoster, CountWithinCapacity, NoOversell
<1>2. QED BY <1>1, LInvariant, PTL

\* The number of winners a completed run reports is the number of rows it
\* inserted, over all its shards and beside any other run.
THEOREM RunReportsTrue == LSpec => []ReportIsTrue
<1>1. LInv => ReportIsTrue
  BY DEF LInv, ReportInv, ReportIsTrue, Prizes
<1>2. QED BY <1>1, LInvariant, PTL

\* A drawn intent that got no row lost to a course as many students have, or
\* had, a row of as it has seats: no lock and no unfinished request makes the
\* lottery pass a seat over.
THEOREM LosersLostToRows == LSpec => []LosersMetFullCourse
<1>1. LInv => LosersMetFullCourse
  BY DEF LInv, LostInv, Ever, LosersMetFullCourse
<1>2. QED BY <1>1, LInvariant, PTL

-----------------------------------------------------------------------------
\* For the seats, the commit of a shard is a TakeMany; its other steps are
\* nothing.

LEMMA CommitTakes ==
  ASSUME LInv, NEW r \in Runs, CommitShard(r)
  PROVE  Book!TakeMany
<1> DEFINE W == [o \in Offerings |-> Winners(r, o)]
<1>c. Commits(r)
  BY DEF CommitShard
<1>0. OneRun(r) /\ CountInv'
  BY <1>c, CommitCounts, RunParts
<1>1. /\ UNCHANGED maxCapacity
      /\ status' = [x \in Rows |-> IF x \in won[r] THEN "enrolled" ELSE status[x]]
  BY <1>c DEF Commits
<1>2. ASSUME NEW s \in Students, NEW o \in Offerings
      PROVE  /\ <<s, o>> \in Rows
             /\ s \in Winners(r, o) <=> <<s, o>> \in won[r]
             /\ s \in Winners(r, o) => status[<<s, o>>] = "absent"
  BY <1>0 DEF Rows, Winners, OneRun
<1>3. \A o \in Offerings :
         /\ Winners(r, o) \in SUBSET Students
         /\ Winners(r, o) \cap (Roster(o) \cup Gone(o)) = {}
         /\ Gone(o)' = Gone(o)
         /\ Roster(o)' = Roster(o) \cup Winners(r, o)
  BY <1>1, <1>2 DEF Roster, Gone, Winners
<1>4. \A o \in Offerings : Cardinality(Roster(o) \cup Winners(r, o)) <= maxCapacity[o]
  <2>1. ASSUME NEW o \in Offerings PROVE Cardinality(Roster(o)') <= maxCapacity'[o]
    BY <1>0 DEF CountInv, CountMatchesRoster, CountWithinCapacity
  <2>2. QED BY <1>1, <1>3, <2>1
<1>5. /\ Holders' = [o \in Offerings |-> Holders[o] \cup W[o]]
      /\ Former' = Former
  BY <1>3 DEF Holders, Former
<1>6. W \in [Offerings -> SUBSET Students]
  BY <1>3
<1>7. \A o \in Offerings : /\ W[o] \cap (Holders[o] \cup Former[o]) = {}
                           /\ Book!Cardinality(Holders[o] \cup W[o]) <= maxCapacity[o]
  BY <1>3, <1>4, SameCardinality DEF Holders, Former
<1> HIDE DEF W
<1>8. QED BY <1>1, <1>5, <1>6, <1>7 DEF Book!TakeMany, Holders, Former, Gone

LEMMA LNextBook ==
  ASSUME LInv, [LNext]_lvars
  PROVE  [Book!BookNext \/ Book!TakeMany]_Book!bookVars
<1>0. CountInv /\ TypeOK
  BY DEF LInv, CountInv
<1>1. CASE UNCHANGED vars
  BY <1>1 DEF vars, dbVars, Book!bookVars, Roster
<1>2. CASE \E w \in Workers : Request(w)
  BY <1>0, <1>2, RequestIsStep, NextBook
<1>3. CASE \E r \in Runs : CommitShard(r)
  BY <1>3, CommitTakes
<1>4. CASE \E r \in Runs : Trigger(r) \/ DrawStep(r) \/ RunFails(r)
  <2>1. PICK r \in Runs : Trigger(r) \/ DrawStep(r) \/ RunFails(r)
    BY <1>4
  <2>2. UNCHANGED vars \/ CommitShard(r)
    BY <2>1 DEF Trigger, DrawStep, RunFails, Fetch, Raise, Lose, Win, Duplicate, FinishRun
  <2>3. QED BY <1>1, <1>3, <2>2
<1>5. QED BY <1>1, <1>2, <1>3, <1>4 DEF LNext, Request, lvars

\* Whatever runs and requests do side by side, seats are given and given back
\* as in the abstract book, a shard giving all of its at its commit
\* (lottery_runner.py: one transaction per shard).
THEOREM LotteryRefinement == LSpec => ImplementsLotteryBook
<1>1. LInit => Book!BookInit
  BY InitBook DEF LInit
<1>2. LInv /\ [LNext]_lvars => [Book!BookNext \/ Book!TakeMany]_Book!bookVars
  BY LNextBook
<1>3. QED BY <1>1, <1>2, LInvariant, PTL
          DEF LSpec, ImplementsLotteryBook, Book!LotterySpec

=============================================================================
