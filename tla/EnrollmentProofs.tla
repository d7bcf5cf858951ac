-------------------------- MODULE EnrollmentProofs --------------------------
(***************************************************************************)
(* What TLAPS proves of Enrollment, for any numbers of students,           *)
(* offerings, keys, workers and seats.                                     *)
(***************************************************************************)
EXTENDS Enrollment, FiniteSetTheorems, TLAPS

-----------------------------------------------------------------------------
\* Types

LEMMA InitType == Init => TypeOK
  BY SeatsAssumption DEF Init, TypeOK, Status, Events, Reasons, NoReq

\* The shape every proof by cases on the next-state relation starts from.
LEMMA NextCases ==
  ASSUME Next
  PROVE  \E w \in Workers :
           \/ \E r \in Rows, k \in Keys \cup {NoKey} : EnrollBegin(w, r, k)
           \/ \E r \in Rows, next \in Rows \cup {NoRow} : DropBegin(w, r, next)
           \/ EnrollStep(w)
           \/ DropStep(w)
           \/ Failure(w)
  BY Zenon DEF Next, Arrive

\* A handler under way works on a row, hence on an offering.
LEMMA RowType ==
  ASSUME TypeOK, NEW w \in Workers, pc[w] # "idle"
  PROVE  /\ Row(w) \in Rows
         /\ Row(w)[1] \in Students
         /\ Offering(w) \in Offerings
         /\ Offering(w) = Row(w)[2]
         /\ req[w] \in Requests
<1>1. req[w] \in Requests
  BY DEF TypeOK
<1>2. Row(w) \in Rows
  BY <1>1 DEF Requests, Row
<1>3. QED BY <1>1, <1>2 DEF Rows, Row, Offering

\* TypeOK in the three groups of variables that the steps write together.
DbType ==
    /\ status \in [Rows -> Status]
    /\ keyOf \in [Rows -> Keys \cup {NoKey}]
    /\ maxCapacity \in [Offerings -> Nat]
    /\ enrolledCount \in [Offerings -> Nat]
    /\ version \in [Offerings -> Nat]
    /\ outbox \in [Rows -> Seq(Events)]

ReqType ==
    /\ pc \in [Workers -> {"idle"} \cup EnrollSteps \cup DropSteps]
    /\ req \in [Workers -> Requests \cup {NoReq}]
    /\ \A w \in Workers : pc[w] # "idle" => req[w] \in Requests
    /\ \A w \in Workers : pc[w] = "idle" => req[w] = NoReq
    /\ seen \in [Workers -> Nat]
    /\ reason \in [Workers -> Reasons]

TokenType ==
    /\ stock \in [Offerings -> Int]
    /\ drift \in [Offerings -> Int]

LEMMA TypeGroups == TypeOK <=> DbType /\ ReqType /\ TokenType
  BY DEF TypeOK, DbType, ReqType, TokenType

LEMMA FinishType ==
  ASSUME ReqType, NEW w \in Workers, Finish(w)
  PROVE  ReqType'
  BY DEF ReqType, Finish, Goto, Reasons

LEMMA GotoType ==
  ASSUME ReqType, NEW w \in Workers, pc[w] # "idle",
         NEW label \in EnrollSteps \cup DropSteps, Goto(w, label),
         UNCHANGED <<req, seen, reason>>
  PROVE  ReqType'
  BY DEF ReqType, Goto, EnrollSteps, DropSteps

LEMMA FailType ==
  ASSUME ReqType, NEW w \in Workers, pc[w] # "idle",
         NEW why \in Reasons, Fail(w, why)
  PROVE  ReqType'
  BY DEF ReqType, Fail, Goto, EnrollSteps, DropSteps, Reasons

LEMMA RequestType ==
  ASSUME ReqType, NEW w \in Workers, NEW rq \in Requests,
         NEW label \in EnrollSteps \cup DropSteps, Goto(w, label),
         req' = [req EXCEPT ![w] = rq], UNCHANGED <<seen, reason>>
  PROVE  ReqType'
  BY DEF ReqType, Goto, EnrollSteps, DropSteps

LEMMA StockType ==
  ASSUME TokenType, NEW o \in Offerings, NEW d \in Int, AddStock(o, d),
         UNCHANGED drift
  PROVE  TokenType'
  BY DEF TokenType, AddStock

\* One value of a function changes, to one of its range.
LEMMA UpdateType ==
  ASSUME NEW D, NEW R, NEW f \in [D -> R], NEW x \in D, NEW v \in R
  PROVE  [f EXCEPT ![x] = v] \in [D -> R]
  OBVIOUS

LEMMA WriteEnrollmentType ==
  ASSUME DbType, NEW r \in Rows, NEW k \in Keys \cup {NoKey},
         WriteEnrollment(r, k)
  PROVE  DbType'
<1>1. r[2] \in Offerings
  BY DEF Rows
<1>2. outbox' \in [Rows -> Seq(Events)]
  <2>1. outbox \in [Rows -> Seq(Events)] /\ "created" \in Events
    BY DEF DbType, Events
  <2>2. Append(outbox[r], "created") \in Seq(Events)
    <3>1. outbox[r] \in Seq(Events)
      BY <2>1
    <3>2. QED BY <2>1, <3>1
  <2>3. [outbox EXCEPT ![r] = Append(outbox[r], "created")] \in [Rows -> Seq(Events)]
    BY <2>1, <2>2, UpdateType, Zenon
  <2>4. outbox' = [outbox EXCEPT ![r] = Append(outbox[r], "created")]
    BY DEF WriteEnrollment
  <2>5. QED BY <2>3, <2>4, Zenon
<1>3. status' \in [Rows -> Status]
  BY DEF DbType, WriteEnrollment, Status
<1>4. keyOf' \in [Rows -> Keys \cup {NoKey}] /\ maxCapacity' \in [Offerings -> Nat]
  BY DEF DbType, WriteEnrollment
<1>5. enrolledCount' \in [Offerings -> Nat] /\ version' \in [Offerings -> Nat]
  BY <1>1 DEF DbType, WriteEnrollment
<1>6. QED BY <1>2, <1>3, <1>4, <1>5 DEF DbType

LEMMA DropCommitType ==
  ASSUME TypeOK, NEW w \in Workers, DropCommit(w)
  PROVE  DbType'
<1> DEFINE r == Row(w)
<1>1. r \in Rows /\ r[2] \in Offerings
  BY RowType DEF DropCommit
<1> HIDE DEF r
<1>2. outbox' \in [Rows -> Seq(Events)]
  <2>1. outbox \in [Rows -> Seq(Events)] /\ "canceled" \in Events
    BY DEF TypeOK, Events
  <2>2. Append(outbox[r], "canceled") \in Seq(Events)
    <3>1. outbox[r] \in Seq(Events)
      BY <1>1, <2>1
    <3>2. QED BY <2>1, <3>1
  <2>3. [outbox EXCEPT ![r] = Append(outbox[r], "canceled")] \in [Rows -> Seq(Events)]
    BY <1>1, <2>1, <2>2, UpdateType, Zenon
  <2>4. outbox' = [outbox EXCEPT ![r] = Append(outbox[r], "canceled")]
    BY DEF DropCommit, r
  <2>5. QED BY <2>3, <2>4, Zenon
<1>3. enrolledCount' \in [Offerings -> Nat]
  BY <1>1 DEF TypeOK, DropCommit, LessOne, r
<1>4. status' \in [Rows -> Status]
  BY <1>1 DEF TypeOK, DropCommit, Status, r
<1>5. version' \in [Offerings -> Nat]
  BY <1>1 DEF TypeOK, DropCommit, r
<1>6. UNCHANGED <<keyOf, maxCapacity>>
  BY DEF DropCommit
<1>7. QED BY <1>2, <1>3, <1>4, <1>5, <1>6 DEF TypeOK, DbType

LEMMA NextType ==
  ASSUME TypeOK, [Next]_vars
  PROVE  TypeOK'
<1>t. DbType /\ ReqType /\ TokenType
  BY TypeGroups
<1>1. CASE UNCHANGED vars
  BY <1>1 DEF vars, dbVars, reqVars, TypeOK
<1>2. CASE Next
  <2> SUFFICES DbType' /\ ReqType' /\ TokenType'
    BY DEF TypeOK, DbType, ReqType, TokenType
  <2>1. PICK w \in Workers :
           \/ \E r \in Rows, k \in Keys \cup {NoKey} : EnrollBegin(w, r, k)
           \/ \E r \in Rows, next \in Rows \cup {NoRow} : DropBegin(w, r, next)
           \/ EnrollStep(w)
           \/ DropStep(w)
           \/ Failure(w)
    BY <1>2, NextCases
  <2>a. pc[w] # "idle" => /\ Row(w) \in Rows
                          /\ Offering(w) \in Offerings
                          /\ req[w] \in Requests
                          /\ req[w].key \in Keys \cup {NoKey}
    BY RowType DEF Requests
  <2>b. UNCHANGED dbVars => DbType'
    BY <1>t DEF DbType, dbVars
  <2>c. UNCHANGED <<stock, drift>> => TokenType'
    BY <1>t DEF TokenType
  <2>d. /\ EnrollSteps \subseteq EnrollSteps \cup DropSteps
        /\ "check" \in EnrollSteps /\ "consume" \in EnrollSteps
        /\ "undo" \in EnrollSteps /\ "insert" \in EnrollSteps
        /\ "version" \in EnrollSteps /\ "cas" \in EnrollSteps
        /\ "commit" \in EnrollSteps /\ "decrement" \in DropSteps
        /\ "dropCommit" \in DropSteps /\ "dropRelease" \in DropSteps
        /\ "duplicate" \in Reasons /\ "full" \in Reasons /\ "error" \in Reasons
    BY DEF EnrollSteps, DropSteps, Reasons
  <2>2. ASSUME NEW r \in Rows, NEW k \in Keys \cup {NoKey}, EnrollBegin(w, r, k)
        PROVE  DbType' /\ ReqType' /\ TokenType'
    <3>1. [row |-> r, key |-> k, other |-> NoRow] \in Requests
      BY DEF Requests
    <3>2. QED BY <1>t, <2>2, <2>b, <2>c, <2>d, <3>1, RequestType DEF EnrollBegin
  <2>3. ASSUME NEW r \in Rows, NEW next \in Rows \cup {NoRow},
               DropBegin(w, r, next)
        PROVE  DbType' /\ ReqType' /\ TokenType'
    <3>1. [row |-> r, key |-> NoKey, other |-> next] \in Requests
      BY DEF Requests
    <3>2. QED BY <1>t, <2>3, <2>b, <2>c, <2>d, <3>1, RequestType DEF DropBegin
  <2>4. CASE EnrollStep(w)
    <3>1. CASE TurnedAway(w)
      BY <3>1, <1>t, <2>b, <2>c, FinishType DEF TurnedAway
    <3>2. CASE RulesPass(w)
      BY <3>2, <1>t, <2>b, <2>c, <2>d, GotoType DEF RulesPass
    <3>3. CASE Consume(w)
      <4>1. TokenType'
        BY <3>3, <1>t, <2>a, StockType DEF Consume
      <4>2. ReqType'
        BY <3>3, <1>t, <2>d, GotoType DEF Consume
      <4>3. QED BY <3>3, <4>1, <4>2, <2>b DEF Consume
    <3>4. CASE Undo(w)
      <4>1. TokenType'
        BY <3>4, <1>t, <2>a, StockType DEF Undo
      <4>2. QED BY <3>4, <4>1, <1>t, <2>b, FinishType DEF Undo
    <3>5. CASE Insert(w)
      BY <3>5, <1>t, <2>b, <2>c, <2>d, GotoType DEF Insert
    <3>6. CASE InsertDuplicate(w)
      BY <3>6, <1>t, <2>b, <2>c, <2>d, FailType DEF InsertDuplicate
    <3>7. CASE InsertKeyTaken(w)
      BY <3>7, <1>t, <2>b, <2>c, <2>d, FailType DEF InsertKeyTaken
    <3>8. CASE ReadVersion(w)
      <4>1. version[Offering(w)] \in Nat
        BY <3>8, <1>t, <2>a DEF DbType, ReadVersion
      <4>2. ReqType'
        BY <3>8, <4>1, <1>t, <2>d
           DEF ReadVersion, ReqType, Goto, EnrollSteps, DropSteps
      <4>3. QED BY <3>8, <4>2, <2>b, <2>c DEF ReadVersion
    <3>9. CASE Increment(w)
      BY <3>9, <1>t, <2>b, <2>c, <2>d, GotoType DEF Increment
    <3>10. CASE IncrementRefused(w)
      BY <3>10, <1>t, <2>b, <2>c, <2>d, FailType DEF IncrementRefused
    <3>11. CASE EnrollCommit(w)
      <4>1. DbType'
        BY <3>11, <1>t, <2>a, WriteEnrollmentType DEF EnrollCommit
      <4>2. QED BY <3>11, <4>1, <1>t, <2>c, FinishType DEF EnrollCommit
    <3>12. CASE Compensate(w)
      <4>1. TokenType'
        BY <3>12, <1>t, <2>a, StockType DEF Compensate, Release
      <4>2. QED BY <3>12, <4>1, <1>t, <2>b, FinishType DEF Compensate
    <3>13. QED BY <2>4, <3>1, <3>2, <3>3, <3>4, <3>5, <3>6, <3>7, <3>8, <3>9,
                  <3>10, <3>11, <3>12 DEF EnrollStep
  <2>5. CASE DropStep(w)
    <3>1. CASE Decrement(w)
      BY <3>1, <1>t, <2>b, <2>c, <2>d, GotoType DEF Decrement
    <3>2. CASE DropCommit(w)
      <4>1. DbType'
        BY <3>2, DropCommitType
      <4>2. ReqType'
        BY <3>2, <1>t, <2>d, GotoType DEF DropCommit
      <4>3. QED BY <3>2, <4>1, <4>2, <2>c DEF DropCommit
    <3>3. CASE DropRelease(w)
      <4>1. TokenType'
        BY <3>3, <1>t, <2>a, StockType DEF DropRelease, Release
      <4>2. QED BY <3>3, <4>1, <1>t, <2>b, FinishType DEF DropRelease
    <3>4. CASE SwapRelease(w)
      <4>1. TokenType'
        BY <3>4, <1>t, <2>a, StockType DEF SwapRelease, Release
      <4>2. [row |-> req[w].other, key |-> NoKey, other |-> req[w].row]
              \in Requests
        BY <3>4, <2>a DEF SwapRelease, Requests
      <4>3. ReqType'
        BY <3>4, <4>2, <1>t, <2>d, RequestType DEF SwapRelease
      <4>4. QED BY <3>4, <4>1, <4>3, <2>b DEF SwapRelease
    <3>5. QED BY <2>5, <3>1, <3>2, <3>3, <3>4 DEF DropStep
  <2>6. CASE Failure(w)
    <3>1. CASE EnrollCommitLost(w)
      <4>1. DbType'
        BY <3>1, <1>t, <2>a, WriteEnrollmentType DEF EnrollCommitLost
      <4>2. ReqType'
        BY <3>1, <1>t, <2>d, FailType DEF EnrollCommitLost
      <4>3. TokenType'
        BY <3>1, <1>t, <2>a DEF EnrollCommitLost, TokenType
      <4>4. QED BY <4>1, <4>2, <4>3
    <3>2. CASE TxnError(w)
      BY <3>2, <1>t, <2>b, <2>c, <2>d, FailType DEF TxnError, HoldsInsert
    <3>3. CASE Crash(w)
      <4>1. TokenType'
        BY <3>3, <1>t, <2>a DEF Crash, TokenType
      <4>2. QED BY <3>3, <4>1, <1>t, <2>b, FinishType DEF Crash
    <3>4. QED BY <2>6, <3>1, <3>2, <3>3 DEF Failure
  <2>7. QED BY <2>1, <2>2, <2>3, <2>4, <2>5, <2>6
<1>3. QED BY <1>1, <1>2

\* Type correctness: enrolled_count never goes below zero, and a handler is
\* working on a request exactly while it is under way.
THEOREM TypeCorrect == Spec => []TypeOK
<1>1. QED BY InitType, NextType, PTL DEF Spec

-----------------------------------------------------------------------------
\* Exclusion

\* A step of w leaves the other handlers where they are.
OnlyMoves(w) == \A v \in Workers \ {w} : pc'[v] = pc[v] /\ req'[v] = req[v]

LEMMA MovesAlone ==
  ASSUME TypeOK, NEW w \in Workers,
         \/ \E r \in Rows, k \in Keys \cup {NoKey} : EnrollBegin(w, r, k)
         \/ \E r \in Rows, next \in Rows \cup {NoRow} : DropBegin(w, r, next)
         \/ EnrollStep(w)
         \/ DropStep(w)
         \/ Failure(w)
  PROVE  OnlyMoves(w)
<1> USE DEF OnlyMoves, TypeOK, Goto, Finish, Fail
<1>1. CASE \E r \in Rows, k \in Keys \cup {NoKey} : EnrollBegin(w, r, k)
  BY <1>1 DEF EnrollBegin
<1>2. CASE \E r \in Rows, next \in Rows \cup {NoRow} : DropBegin(w, r, next)
  BY <1>2 DEF DropBegin
<1>3. CASE EnrollStep(w)
  BY <1>3 DEF EnrollStep, TurnedAway, RulesPass, Consume, Undo, Insert,
              InsertDuplicate, InsertKeyTaken, ReadVersion, Increment,
              IncrementRefused, EnrollCommit, Compensate
<1>4. CASE DropStep(w)
  BY <1>4 DEF DropStep, Decrement, DropCommit, DropRelease, SwapRelease
<1>5. CASE Failure(w)
  BY <1>5 DEF Failure, EnrollCommitLost, TxnError, Crash
<1>6. QED BY <1>1, <1>2, <1>3, <1>4, <1>5

\* A step that takes no lock and commits nothing.
Lockless(w) ==
    /\ HoldsInsert(w)' => HoldsInsert(w)
    /\ HoldsCapacity(w)' => HoldsCapacity(w)
    /\ HoldsRow(w)' => HoldsRow(w)
    /\ pc'[w] = "commit" => pc[w] = "commit"
    /\ HoldsInsert(w)' \/ HoldsCapacity(w)' \/ HoldsRow(w)' => req'[w] = req[w]
    /\ UNCHANGED dbVars

LEMMA LocklessStep ==
  ASSUME TypeOK, TransactionsExclude, NEW w \in Workers, OnlyMoves(w), Lockless(w)
  PROVE  TransactionsExclude'
<1> USE DEF OnlyMoves, Lockless, Row, Offering, dbVars
<1>1. InsertsExclude'
  BY DEF TransactionsExclude, InsertsExclude, HoldsInsert, KeyUsed
<1>2. CapacityExcludes'
  BY DEF TransactionsExclude, CapacityExcludes, HoldsCapacity
<1>3. CancelsExclude'
  BY DEF TransactionsExclude, CancelsExclude, HoldsRow
<1>4. QED BY <1>1, <1>2, <1>3 DEF TransactionsExclude

\* The transaction of an enroll commits: w lets its locks go, its row is
\* enrolled, and the count of its offering is one higher.
LEMMA EnrollCommitExcludes ==
  ASSUME TypeOK, TransactionsExclude, NEW w \in Workers, OnlyMoves(w),
         pc[w] = "commit", WriteEnrollment(Row(w), req[w].key),
         pc'[w] \in {"idle", "compensate"}
  PROVE  TransactionsExclude'
<1> DEFINE r == Row(w)
<1>r. r \in Rows /\ r[2] \in Offerings /\ Offering(w) = r[2]
  BY RowType
<1>1. InsertsExclude'
  <2>1. ASSUME NEW v \in Workers, HoldsInsert(v)'
        PROVE  v # w /\ HoldsInsert(v) /\ Row(v)' = Row(v) /\ req'[v] = req[v]
    BY <2>1 DEF HoldsInsert, OnlyMoves, Row
  <2>2. HoldsInsert(w)
    BY DEF HoldsInsert
  <2>3. ASSUME NEW v \in Workers, HoldsInsert(v)'
        PROVE  status'[Row(v)'] = "absent" /\ ~ KeyUsed(req[v].key)'
    <3>1. Row(v) # r /\ (req[v].key # NoKey => req[v].key # req[w].key)
      BY <2>1, <2>2, <2>3 DEF TransactionsExclude, InsertsExclude
    <3>2. status[Row(v)] = "absent" /\ ~ KeyUsed(req[v].key)
      BY <2>1, <2>3 DEF TransactionsExclude, InsertsExclude
    <3>3. Row(v) \in Rows
      BY <2>1, <2>3, RowType DEF HoldsInsert
    <3>4. status'[Row(v)] = status[Row(v)]
      BY <3>1, <3>3 DEF WriteEnrollment, TypeOK
    <3>5. ~ KeyUsed(req[v].key)'
      <4>1. req'[v] = req[v]
        BY <2>1, <2>3
      <4>2. ASSUME NEW x \in Rows, keyOf'[x] = req[v].key, req[v].key # NoKey
            PROVE  FALSE
        <5>1. CASE x = r
          BY <5>1, <4>2, <3>1, <1>r DEF WriteEnrollment, TypeOK
        <5>2. CASE x # r
          BY <5>2, <4>2, <3>2, <1>r DEF WriteEnrollment, TypeOK, KeyUsed
        <5>3. QED BY <5>1, <5>2
      <4>3. QED BY <4>1, <4>2 DEF KeyUsed
    <3>6. QED BY <2>1, <2>3, <3>2, <3>4, <3>5
  <2>4. QED BY <2>1, <2>3 DEF TransactionsExclude, InsertsExclude
<1>2. CapacityExcludes'
  <2>1. ASSUME NEW v \in Workers, HoldsCapacity(v)'
        PROVE  /\ v # w /\ HoldsCapacity(v) /\ pc'[v] = pc[v]
               /\ Offering(v)' = Offering(v)
    BY <2>1 DEF HoldsCapacity, OnlyMoves, Offering
  <2>2. HoldsCapacity(w)
    BY DEF HoldsCapacity
  <2>3. ASSUME NEW v \in Workers, pc'[v] = "commit"
        PROVE  (enrolledCount[Offering(v)] < maxCapacity[Offering(v)])'
    <3>1. HoldsCapacity(v)' /\ pc[v] = "commit"
      BY <2>3, <2>1 DEF HoldsCapacity
    <3>2. Offering(v) # Offering(w) /\ Offering(v) \in Offerings
      BY <3>1, <2>1, <2>2, RowType DEF TransactionsExclude, CapacityExcludes
    <3>3. enrolledCount'[Offering(v)] = enrolledCount[Offering(v)]
      BY <3>2, <1>r DEF WriteEnrollment, TypeOK
    <3>4. QED BY <3>1, <3>3, <2>1
              DEF TransactionsExclude, CapacityExcludes, WriteEnrollment
  <2>4. QED BY <2>1, <2>3 DEF TransactionsExclude, CapacityExcludes
<1>3. CancelsExclude'
  <2>1. ASSUME NEW v \in Workers, HoldsRow(v)'
        PROVE  v # w /\ HoldsRow(v) /\ Row(v)' = Row(v)
    BY <2>1 DEF HoldsRow, OnlyMoves, Row
  <2>2. ASSUME NEW v \in Workers, HoldsRow(v)'
        PROVE  status'[Row(v)] = "enrolled"
    BY <2>1, <2>2, <1>r DEF TransactionsExclude, CancelsExclude,
                            WriteEnrollment, TypeOK
  <2>3. QED BY <2>1, <2>2 DEF TransactionsExclude, CancelsExclude
<1>4. QED BY <1>1, <1>2, <1>3 DEF TransactionsExclude

\* The transaction of a drop commits.
LEMMA DropCommitExcludes ==
  ASSUME TypeOK, TransactionsExclude, NEW w \in Workers, OnlyMoves(w),
         DropCommit(w)
  PROVE  TransactionsExclude'
<1> DEFINE r == Row(w)
<1>r. r \in Rows /\ r[2] \in Offerings /\ Offering(w) = r[2]
  BY RowType DEF DropCommit
<1>h. HoldsRow(w) /\ HoldsCapacity(w) /\ ~ HoldsInsert(w)
  BY DEF DropCommit, HoldsRow, HoldsCapacity, HoldsInsert
<1>g. pc'[w] = "dropRelease"
  BY DEF DropCommit, Goto, TypeOK
<1>s. status[r] = "enrolled"
  BY <1>h DEF TransactionsExclude, CancelsExclude
<1>1. InsertsExclude'
  <2>1. ASSUME NEW v \in Workers, HoldsInsert(v)'
        PROVE  /\ HoldsInsert(v) /\ Row(v)' = Row(v) /\ req'[v] = req[v]
               /\ Row(v) \in Rows
    <3>1. v # w /\ HoldsInsert(v) /\ req'[v] = req[v]
      BY <2>1, <1>g DEF HoldsInsert, OnlyMoves
    <3>2. QED BY <3>1, RowType DEF HoldsInsert, Row
  <2>2. ASSUME NEW v \in Workers, HoldsInsert(v)'
        PROVE  status'[Row(v)] = "absent"
    <3>1. status[Row(v)] = "absent" /\ Row(v) # r
      BY <2>1, <2>2, <1>s DEF TransactionsExclude, InsertsExclude
    <3>2. QED BY <3>1, <2>1, <2>2 DEF DropCommit, TypeOK
  <2>3. ASSUME NEW v \in Workers, HoldsInsert(v)'
        PROVE  ~ KeyUsed(req[v].key)'
    BY <2>1, <2>3 DEF TransactionsExclude, InsertsExclude, KeyUsed, DropCommit
  <2>4. QED BY <2>1, <2>2, <2>3 DEF TransactionsExclude, InsertsExclude
<1>2. CapacityExcludes'
  <2>1. ASSUME NEW v \in Workers, HoldsCapacity(v)'
        PROVE  /\ v # w /\ HoldsCapacity(v) /\ pc'[v] = pc[v]
               /\ Offering(v)' = Offering(v)
    BY <2>1, <1>g DEF HoldsCapacity, OnlyMoves, Offering
  <2>3. ASSUME NEW v \in Workers, pc'[v] = "commit"
        PROVE  (enrolledCount[Offering(v)] < maxCapacity[Offering(v)])'
    <3>1. HoldsCapacity(v)' /\ pc[v] = "commit"
      BY <2>3, <2>1 DEF HoldsCapacity
    <3>2. Offering(v) # Offering(w) /\ Offering(v) \in Offerings
      BY <3>1, <2>1, <1>h, RowType DEF TransactionsExclude, CapacityExcludes
    <3>3. enrolledCount'[Offering(v)] = enrolledCount[Offering(v)]
      BY <3>2, <1>r DEF DropCommit, TypeOK
    <3>4. QED BY <3>1, <3>3, <2>1
              DEF TransactionsExclude, CapacityExcludes, DropCommit
  <2>4. QED BY <2>1, <2>3 DEF TransactionsExclude, CapacityExcludes
<1>3. CancelsExclude'
  <2>1. ASSUME NEW v \in Workers, HoldsRow(v)'
        PROVE  v # w /\ HoldsRow(v) /\ Row(v)' = Row(v) /\ Row(v) \in Rows
    <3>1. v # w /\ HoldsRow(v) /\ req'[v] = req[v]
      BY <2>1, <1>g DEF HoldsRow, OnlyMoves
    <3>2. QED BY <3>1, RowType DEF HoldsRow, Row
  <2>2. ASSUME NEW v \in Workers, HoldsRow(v)'
        PROVE  status'[Row(v)] = "enrolled"
    <3>1. status[Row(v)] = "enrolled" /\ Row(v) # r
      BY <2>1, <2>2, <1>h DEF TransactionsExclude, CancelsExclude
    <3>2. QED BY <3>1, <2>1, <2>2 DEF DropCommit, TypeOK
  <2>3. QED BY <2>1, <2>2 DEF TransactionsExclude, CancelsExclude
<1>4. QED BY <1>1, <1>2, <1>3 DEF TransactionsExclude

\* The steps that take a lock.
LEMMA InsertExcludes ==
  ASSUME TypeOK, TransactionsExclude, NEW w \in Workers, OnlyMoves(w), Insert(w)
  PROVE  TransactionsExclude'
<1>g. pc'[w] = "version" /\ req' = req /\ UNCHANGED dbVars
  BY DEF Insert, Goto, TypeOK
<1>1. InsertsExclude'
  <2>1. ASSUME NEW u \in Workers, NEW v \in Workers,
               HoldsInsert(u)', HoldsInsert(v)',
               Row(u) = Row(v) \/ (req[u].key = req[v].key /\ req[u].key # NoKey)
        PROVE  u = v
    <3>1. CASE u # w /\ v # w
      BY <3>1, <2>1, <1>g DEF OnlyMoves, HoldsInsert, TransactionsExclude,
                              InsertsExclude
    <3>2. CASE u = w /\ v # w
      BY <3>2, <2>1, <1>g DEF OnlyMoves, HoldsInsert, Insert, InsertBlocked
    <3>3. CASE u # w /\ v = w
      BY <3>3, <2>1, <1>g DEF OnlyMoves, HoldsInsert, Insert, InsertBlocked
    <3>4. QED BY <3>1, <3>2, <3>3
  <2>2. ASSUME NEW v \in Workers, HoldsInsert(v)'
        PROVE  status[Row(v)] = "absent" /\ ~ KeyUsed(req[v].key)
    <3>1. CASE v = w
      BY <3>1 DEF Insert
    <3>2. CASE v # w
      BY <3>2, <2>2 DEF OnlyMoves, HoldsInsert, TransactionsExclude,
                        InsertsExclude
    <3>3. QED BY <3>1, <3>2
  <2>3. QED BY <2>1, <2>2, <1>g DEF InsertsExclude, Row, KeyUsed, dbVars
<1>2. CapacityExcludes'
  BY <1>g DEF OnlyMoves, HoldsCapacity, TransactionsExclude, CapacityExcludes,
              Offering, dbVars
<1>3. CancelsExclude'
  BY <1>g DEF OnlyMoves, HoldsRow, TransactionsExclude, CancelsExclude, Row,
              dbVars
<1>4. QED BY <1>1, <1>2, <1>3 DEF TransactionsExclude

\* Increment and Decrement: w takes the capacity row, which was free.
LEMMA CapacityHeld ==
  ASSUME TypeOK, TransactionsExclude, NEW w \in Workers, OnlyMoves(w),
         CapacityFree(Offering(w)), UNCHANGED <<dbVars, req>>,
         \/ /\ pc[w] = "cas" /\ pc'[w] = "commit"
            /\ enrolledCount[Offering(w)] < maxCapacity[Offering(w)]
         \/ pc[w] = "decrement" /\ pc'[w] = "dropCommit"
  PROVE  TransactionsExclude'
<1>1. InsertsExclude'
  BY DEF OnlyMoves, HoldsInsert, TransactionsExclude, InsertsExclude, Row,
         KeyUsed, dbVars
<1>2. CapacityExcludes'
  <2>1. ASSUME NEW u \in Workers, NEW v \in Workers,
               HoldsCapacity(u)', HoldsCapacity(v)', Offering(u) = Offering(v)
        PROVE  u = v
    BY <2>1 DEF OnlyMoves, HoldsCapacity, TransactionsExclude,
                CapacityExcludes, CapacityFree
  <2>2. ASSUME NEW v \in Workers, pc'[v] = "commit"
        PROVE  enrolledCount[Offering(v)] < maxCapacity[Offering(v)]
    BY <2>2 DEF OnlyMoves, TransactionsExclude, CapacityExcludes
  <2>3. QED BY <2>1, <2>2 DEF CapacityExcludes, Offering, dbVars
<1>3. CancelsExclude'
  BY DEF OnlyMoves, HoldsRow, TransactionsExclude, CancelsExclude, Row, dbVars
<1>4. QED BY <1>1, <1>2, <1>3 DEF TransactionsExclude

LEMMA DropBeginExcludes ==
  ASSUME TypeOK, TransactionsExclude, NEW w \in Workers, OnlyMoves(w),
         NEW r \in Rows, NEW next \in Rows \cup {NoRow}, DropBegin(w, r, next)
  PROVE  TransactionsExclude'
<1>g. pc'[w] = "decrement" /\ Row(w)' = r /\ UNCHANGED dbVars
  BY DEF DropBegin, Goto, TypeOK, Row
<1>1. InsertsExclude'
  BY <1>g DEF OnlyMoves, HoldsInsert, TransactionsExclude, InsertsExclude, Row,
              KeyUsed, dbVars
<1>2. CapacityExcludes'
  BY <1>g DEF OnlyMoves, HoldsCapacity, TransactionsExclude, CapacityExcludes,
              Offering, dbVars
<1>3. CancelsExclude'
  <2>1. ASSUME NEW v \in Workers \ {w}, HoldsRow(v)'
        PROVE  HoldsRow(v) /\ Row(v)' = Row(v) /\ Row(v) # r
    BY <2>1 DEF OnlyMoves, HoldsRow, Row, DropBegin, RowFree
  <2>2. status[r] = "enrolled"
    BY DEF DropBegin
  <2>3. QED BY <1>g, <2>1, <2>2 DEF TransactionsExclude, CancelsExclude, dbVars
<1>4. QED BY <1>1, <1>2, <1>3 DEF TransactionsExclude

\* Where a step leaves w: an exhaustive list of the steps without a lock.
LEMMA LocklessCases ==
  ASSUME TypeOK, NEW w \in Workers,
         \/ \E r \in Rows, k \in Keys \cup {NoKey} : EnrollBegin(w, r, k)
         \/ TurnedAway(w) \/ RulesPass(w) \/ Consume(w) \/ Undo(w)
         \/ InsertDuplicate(w) \/ InsertKeyTaken(w) \/ ReadVersion(w)
         \/ IncrementRefused(w) \/ Compensate(w)
         \/ DropRelease(w) \/ SwapRelease(w) \/ TxnError(w) \/ Crash(w)
  PROVE  Lockless(w)
<1> USE DEF Lockless, HoldsInsert, HoldsCapacity, HoldsRow, TypeOK, Goto,
            Finish, Fail
<1>1. CASE \E r \in Rows, k \in Keys \cup {NoKey} : EnrollBegin(w, r, k)
  BY <1>1 DEF EnrollBegin
<1>2. CASE TurnedAway(w) \/ RulesPass(w)
  BY <1>2 DEF TurnedAway, RulesPass
<1>3. CASE Consume(w) \/ Undo(w)
  BY <1>3 DEF Consume, Undo
<1>4. CASE InsertDuplicate(w) \/ InsertKeyTaken(w) \/ ReadVersion(w)
  BY <1>4 DEF InsertDuplicate, InsertKeyTaken, ReadVersion
<1>5. CASE IncrementRefused(w) \/ Compensate(w)
  BY <1>5 DEF IncrementRefused, Compensate
<1>6. CASE DropRelease(w) \/ SwapRelease(w)
  BY <1>6 DEF DropRelease, SwapRelease
<1>7. CASE TxnError(w) \/ Crash(w)
  BY <1>7 DEF TxnError, Crash
<1>8. QED BY <1>1, <1>2, <1>3, <1>4, <1>5, <1>6, <1>7

LEMMA NextExcludes ==
  ASSUME TypeOK, TransactionsExclude, [Next]_vars
  PROVE  TransactionsExclude'
<1>1. CASE UNCHANGED vars
  BY <1>1 DEF vars, dbVars, reqVars, TransactionsExclude, InsertsExclude,
              CapacityExcludes, CancelsExclude, HoldsInsert, HoldsCapacity,
              HoldsRow, Row, Offering, KeyUsed
<1>2. CASE Next
  <2>1. PICK w \in Workers :
           \/ \E r \in Rows, k \in Keys \cup {NoKey} : EnrollBegin(w, r, k)
           \/ \E r \in Rows, next \in Rows \cup {NoRow} : DropBegin(w, r, next)
           \/ EnrollStep(w)
           \/ DropStep(w)
           \/ Failure(w)
    BY <1>2, NextCases
  <2>2. OnlyMoves(w)
    BY <2>1, MovesAlone
  <2>3. CASE Insert(w)
    BY <2>2, <2>3, InsertExcludes
  <2>4. CASE Increment(w)
    <3>1. /\ pc[w] = "cas" /\ pc'[w] = "commit"
          /\ CapacityFree(Offering(w)) /\ UNCHANGED <<dbVars, req>>
      BY <2>4 DEF Increment, Goto, TypeOK
    <3>2. enrolledCount[Offering(w)] < maxCapacity[Offering(w)]
      BY <2>4, <3>1, RowType DEF Increment, CanIncrement, TypeOK
    <3>3. QED BY <2>2, <3>1, <3>2, CapacityHeld
  <2>5. CASE Decrement(w)
    <3>1. /\ pc[w] = "decrement" /\ pc'[w] = "dropCommit"
          /\ CapacityFree(Offering(w)) /\ UNCHANGED <<dbVars, req>>
      BY <2>5 DEF Decrement, Goto, TypeOK
    <3>2. QED BY <2>2, <3>1, CapacityHeld
  <2>6. CASE EnrollCommit(w) \/ EnrollCommitLost(w)
    <3>1. /\ pc[w] = "commit" /\ WriteEnrollment(Row(w), req[w].key)
          /\ pc'[w] \in {"idle", "compensate"}
      BY <2>6 DEF EnrollCommit, EnrollCommitLost, Finish, Fail, Goto, TypeOK
    <3>2. QED BY <2>2, <3>1, EnrollCommitExcludes
  <2>7. CASE DropCommit(w)
    BY <2>2, <2>7, DropCommitExcludes
  <2>8. CASE \E r \in Rows, next \in Rows \cup {NoRow} : DropBegin(w, r, next)
    BY <2>2, <2>8, DropBeginExcludes
  <2>9. CASE \/ \E r \in Rows, k \in Keys \cup {NoKey} : EnrollBegin(w, r, k)
             \/ TurnedAway(w) \/ RulesPass(w) \/ Consume(w) \/ Undo(w)
             \/ InsertDuplicate(w) \/ InsertKeyTaken(w) \/ ReadVersion(w)
             \/ IncrementRefused(w) \/ Compensate(w)
             \/ DropRelease(w) \/ SwapRelease(w) \/ TxnError(w) \/ Crash(w)
    BY <2>2, <2>9, LocklessCases, LocklessStep
  <2>10. QED BY <2>1, <2>3, <2>4, <2>5, <2>6, <2>7, <2>8, <2>9
             DEF EnrollStep, DropStep, Failure
<1>3. QED BY <1>1, <1>2

LEMMA InitExcludes == Init => TransactionsExclude
  BY DEF Init, TransactionsExclude, InsertsExclude, CapacityExcludes,
         CancelsExclude, HoldsInsert, HoldsCapacity, HoldsRow

\* The unique keys and row locks do what the handlers rely on: two open
\* transactions never insert the same row or key, never count in the same
\* offering and never cancel the same enrollment, and what each of them found
\* is still true when it commits.
THEOREM Exclusion == Spec => []TransactionsExclude
<1>1. Init => TypeOK /\ TransactionsExclude
  BY InitType, InitExcludes
<1>2. TypeOK /\ TransactionsExclude /\ [Next]_vars
        => TypeOK' /\ TransactionsExclude'
  BY NextType, NextExcludes
<1>3. QED BY <1>1, <1>2, PTL DEF Spec

-----------------------------------------------------------------------------
(***************************************************************************)
(* Seats and stock: the counters agree with the rows, no offering is       *)
(* oversold, a key buys one seat, the outbox tells the history of every    *)
(* row, the stock ledger balances, and the whole implements SeatBook.      *)
(***************************************************************************)
-----------------------------------------------------------------------------
\* The database changes only when a transaction commits.

LEMMA CommitCases ==
  ASSUME TypeOK, [Next]_vars
  PROVE  \/ UNCHANGED dbVars
         \/ \E w \in Workers :
              pc[w] = "commit" /\ WriteEnrollment(Row(w), req[w].key)
         \/ \E w \in Workers : DropCommit(w)
<1>1. CASE UNCHANGED vars
  BY <1>1 DEF vars
<1>2. CASE Next
  <2>1. PICK w \in Workers :
           \/ \E r \in Rows, k \in Keys \cup {NoKey} : EnrollBegin(w, r, k)
           \/ \E r \in Rows, next \in Rows \cup {NoRow} : DropBegin(w, r, next)
           \/ EnrollStep(w)
           \/ DropStep(w)
           \/ Failure(w)
    BY <1>2, NextCases
  <2>2. CASE \/ \E r \in Rows, k \in Keys \cup {NoKey} : EnrollBegin(w, r, k)
             \/ \E r \in Rows, next \in Rows \cup {NoRow} : DropBegin(w, r, next)
    BY <2>2 DEF EnrollBegin, DropBegin
  <2>3. CASE EnrollStep(w)
    BY <2>3 DEF EnrollStep, TurnedAway, RulesPass, Consume, Undo, Insert,
                InsertDuplicate, InsertKeyTaken, ReadVersion, Increment,
                IncrementRefused, EnrollCommit, Compensate
  <2>4. CASE DropStep(w)
    BY <2>4 DEF DropStep, Decrement, DropRelease, SwapRelease
  <2>5. CASE Failure(w)
    BY <2>5 DEF Failure, EnrollCommitLost, TxnError, Crash
  <2>6. QED BY <2>1, <2>2, <2>3, <2>4, <2>5
<1>3. QED BY <1>1, <1>2

\* The row a committing enroll or drop works on, as its transaction left it.
LEMMA CommittingRow ==
  ASSUME TypeOK, TransactionsExclude, NEW w \in Workers
  PROVE  /\ pc[w] = "commit" =>
              /\ Row(w) \in Rows /\ status[Row(w)] = "absent"
              /\ req[w].key \in Keys \cup {NoKey} /\ ~ KeyUsed(req[w].key)
              /\ Row(w)[2] \in Offerings
              /\ enrolledCount[Row(w)[2]] < maxCapacity[Row(w)[2]]
         /\ pc[w] = "dropCommit" =>
              /\ Row(w) \in Rows /\ status[Row(w)] = "enrolled"
              /\ Row(w)[2] \in Offerings
<1>1. pc[w] = "commit" => HoldsInsert(w)
  BY DEF HoldsInsert
<1>2. pc[w] = "dropCommit" => HoldsRow(w)
  BY DEF HoldsRow
<1>3. pc[w] = "commit" => req[w].key \in Keys \cup {NoKey}
  BY RowType DEF Requests
<1>4. QED BY <1>1, <1>2, <1>3, RowType
          DEF TransactionsExclude, InsertsExclude, CapacityExcludes,
              CancelsExclude

-----------------------------------------------------------------------------
\* Rosters

LEMMA RosterFinite ==
  ASSUME NEW o \in Offerings
  PROVE  IsFiniteSet(Roster(o)) /\ Cardinality(Roster(o)) \in Nat
<1>1. Roster(o) \in SUBSET Students
  BY DEF Roster
<1>2. IsFiniteSet(Roster(o))
  BY <1>1, FiniteAssumption, FS_Subset
<1>3. QED BY <1>2, FS_CardinalityType

\* When r becomes enrolled its student joins the roster of its offering and
\* no other roster changes.
LEMMA RosterGains ==
  ASSUME TypeOK, NEW r \in Rows, status[r] # "enrolled",
         status' = [status EXCEPT ![r] = "enrolled"]
  PROVE  /\ Roster(r[2])' = Roster(r[2]) \cup {r[1]}
         /\ r[1] \in Students /\ r[1] \notin Roster(r[2])
         /\ \A o \in Offerings \ {r[2]} : Roster(o)' = Roster(o)
<1>1. r = <<r[1], r[2]>> /\ r[1] \in Students /\ r[2] \in Offerings
  BY DEF Rows
<1>2. ASSUME NEW s \in Students, NEW o \in Offerings
      PROVE  status'[<<s, o>>] = IF s = r[1] /\ o = r[2] THEN "enrolled"
                                 ELSE status[<<s, o>>]
  <2>1. <<s, o>> \in Rows
    BY DEF Rows
  <2>2. <<s, o>> = r <=> s = r[1] /\ o = r[2]
    BY <1>1
  <2>3. QED BY <2>1, <2>2 DEF TypeOK
<1>3. QED BY <1>1, <1>2 DEF Roster

\* When r stops being enrolled its student leaves that roster.
LEMMA RosterLoses ==
  ASSUME TypeOK, NEW r \in Rows, status[r] = "enrolled",
         NEW st \in Status \ {"enrolled"},
         status' = [status EXCEPT ![r] = st]
  PROVE  /\ Roster(r[2])' = Roster(r[2]) \ {r[1]}
         /\ r[1] \in Students /\ r[1] \in Roster(r[2])
         /\ \A o \in Offerings \ {r[2]} : Roster(o)' = Roster(o)
<1>1. r = <<r[1], r[2]>> /\ r[1] \in Students /\ r[2] \in Offerings
  BY DEF Rows
<1>2. ASSUME NEW s \in Students, NEW o \in Offerings
      PROVE  status'[<<s, o>>] = IF s = r[1] /\ o = r[2] THEN st
                                 ELSE status[<<s, o>>]
  <2>1. <<s, o>> \in Rows
    BY DEF Rows
  <2>2. <<s, o>> = r <=> s = r[1] /\ o = r[2]
    BY <1>1
  <2>3. QED BY <2>1, <2>2 DEF TypeOK
<1>3. QED BY <1>1, <1>2 DEF Roster, Status

-----------------------------------------------------------------------------
\* The seat invariant: TransactionsExclude makes it inductive.  Its part about
\* the counters does not depend on the rest.
CountInv ==
    /\ TypeOK
    /\ TransactionsExclude
    /\ CountMatchesRoster
    /\ CountWithinCapacity

SeatInv ==
    /\ TypeOK
    /\ TransactionsExclude
    /\ CountMatchesRoster
    /\ CountWithinCapacity
    /\ KeyBuysOneSeat
    /\ OutboxTellsHistory

\* What the commit of an enroll writes.
LEMMA EnrollWrites ==
  ASSUME TypeOK, TransactionsExclude, NEW w \in Workers, pc[w] = "commit",
         WriteEnrollment(Row(w), req[w].key)
  PROVE  \E r \in Rows, k \in Keys \cup {NoKey} :
            /\ r = Row(w)
            /\ status[r] = "absent" /\ r[2] \in Offerings
            /\ ~ KeyUsed(k)
            /\ enrolledCount[r[2]] < maxCapacity[r[2]]
            /\ status' = [status EXCEPT ![r] = "enrolled"]
            /\ keyOf' = [keyOf EXCEPT ![r] = k]
            /\ enrolledCount' = [enrolledCount EXCEPT ![r[2]] = @ + 1]
            /\ outbox' = [outbox EXCEPT ![r] = Append(@, "created")]
            /\ maxCapacity' = maxCapacity
<1>p. PICK r \in Rows, k \in Keys \cup {NoKey} : r = Row(w) /\ k = req[w].key
  BY CommittingRow
<1>r. /\ status[r] = "absent" /\ r[2] \in Offerings
      /\ ~ KeyUsed(k) /\ enrolledCount[r[2]] < maxCapacity[r[2]]
  BY <1>p, CommittingRow
<1>w. WriteEnrollment(r, k)
  BY <1>p
<1>a. /\ status' = [status EXCEPT ![r] = "enrolled"]
      /\ keyOf' = [keyOf EXCEPT ![r] = k]
      /\ enrolledCount' = [enrolledCount EXCEPT ![r[2]] = @ + 1]
      /\ outbox' = [outbox EXCEPT ![r] = Append(@, "created")]
      /\ maxCapacity' = maxCapacity
  BY <1>w DEF WriteEnrollment
<1> QED BY <1>p, <1>r, <1>a

LEMMA EnrollCounts ==
  ASSUME CountInv, NEW w \in Workers, pc[w] = "commit",
         WriteEnrollment(Row(w), req[w].key)
  PROVE  CountMatchesRoster' /\ CountWithinCapacity'
<1>r. PICK r \in Rows, k \in Keys \cup {NoKey} :
            /\ status[r] = "absent" /\ r[2] \in Offerings
            /\ ~ KeyUsed(k)
            /\ enrolledCount[r[2]] < maxCapacity[r[2]]
            /\ status' = [status EXCEPT ![r] = "enrolled"]
            /\ keyOf' = [keyOf EXCEPT ![r] = k]
            /\ enrolledCount' = [enrolledCount EXCEPT ![r[2]] = @ + 1]
            /\ outbox' = [outbox EXCEPT ![r] = Append(@, "created")]
            /\ maxCapacity' = maxCapacity
  BY EnrollWrites DEF CountInv
<1>t. TypeOK /\ CountMatchesRoster /\ CountWithinCapacity
  BY DEF CountInv
<1>b. enrolledCount \in [Offerings -> Nat] /\ maxCapacity \in [Offerings -> Nat]
  BY <1>t DEF TypeOK
<1>1. CountMatchesRoster'
  <2>1. /\ Roster(r[2])' = Roster(r[2]) \cup {r[1]}
        /\ r[1] \notin Roster(r[2])
        /\ \A o \in Offerings \ {r[2]} : Roster(o)' = Roster(o)
    BY <1>r, <1>t, RosterGains
  <2>2. Cardinality(Roster(r[2]) \cup {r[1]}) = Cardinality(Roster(r[2])) + 1
    BY <2>1, <1>r, RosterFinite, FS_AddElement
  <2>3. ASSUME NEW o \in Offerings
        PROVE  enrolledCount'[o] = Cardinality(Roster(o)')
    <3>1. CASE o = r[2]
      BY <3>1, <2>1, <2>2, <1>r, <1>b, <1>t DEF CountMatchesRoster
    <3>2. CASE o # r[2]
      BY <3>2, <2>1, <1>r, <1>b, <1>t DEF CountMatchesRoster
    <3>3. QED BY <3>1, <3>2
  <2>4. QED BY <2>3 DEF CountMatchesRoster
<1>2. CountWithinCapacity'
  BY <1>r, <1>b, <1>t DEF CountWithinCapacity
<1>3. QED BY <1>1, <1>2

LEMMA EnrollHistory ==
  ASSUME SeatInv, NEW w \in Workers, pc[w] = "commit",
         WriteEnrollment(Row(w), req[w].key)
  PROVE  KeyBuysOneSeat' /\ OutboxTellsHistory'
<1>r. PICK r \in Rows, k \in Keys \cup {NoKey} :
            /\ status[r] = "absent" /\ r[2] \in Offerings
            /\ ~ KeyUsed(k)
            /\ enrolledCount[r[2]] < maxCapacity[r[2]]
            /\ status' = [status EXCEPT ![r] = "enrolled"]
            /\ keyOf' = [keyOf EXCEPT ![r] = k]
            /\ enrolledCount' = [enrolledCount EXCEPT ![r[2]] = @ + 1]
            /\ outbox' = [outbox EXCEPT ![r] = Append(@, "created")]
            /\ maxCapacity' = maxCapacity
  BY EnrollWrites DEF SeatInv
<1>b. /\ status \in [Rows -> Status] /\ keyOf \in [Rows -> Keys \cup {NoKey}]
      /\ outbox \in [Rows -> Seq(Events)]
  BY DEF SeatInv, TypeOK
<1>i. KeyBuysOneSeat /\ OutboxTellsHistory
  BY DEF SeatInv
<1>1. KeyBuysOneSeat'
  <2>1. ASSUME NEW x \in Rows
        PROVE  /\ keyOf'[x] = IF x = r THEN k ELSE keyOf[x]
               /\ k # NoKey => keyOf[x] # k
    BY <1>r, <1>b DEF KeyUsed
  <2>2. QED BY <2>1, <1>i DEF KeyBuysOneSeat
<1>2. OutboxTellsHistory'
  <2>1. outbox[r] = << >>
    BY <1>r, <1>i DEF OutboxTellsHistory
  <2>2. outbox'[r] = <<"created">> /\ status'[r] = "enrolled"
    BY <2>1, <1>r, <1>b
  <2>3. \A x \in Rows \ {r} : outbox'[x] = outbox[x] /\ status'[x] = status[x]
    BY <1>r, <1>b
  <2>4. QED BY <2>2, <2>3, <1>i DEF OutboxTellsHistory
<1>3. QED BY <1>1, <1>2

\* What the commit of a drop writes.
LEMMA DropWrites ==
  ASSUME TypeOK, TransactionsExclude, NEW w \in Workers, DropCommit(w)
  PROVE  \E r \in Rows :
            /\ r = Row(w)
            /\ status[r] = "enrolled" /\ r[2] \in Offerings
            /\ status' = [status EXCEPT ![r] = "canceled"]
            /\ enrolledCount' = [enrolledCount EXCEPT ![r[2]] = LessOne(@)]
            /\ outbox' = [outbox EXCEPT ![r] = Append(@, "canceled")]
            /\ UNCHANGED <<keyOf, maxCapacity>>
<1>p. PICK r \in Rows : r = Row(w)
  BY CommittingRow DEF DropCommit
<1>r. status[r] = "enrolled" /\ r[2] \in Offerings
  BY <1>p, CommittingRow DEF DropCommit
<1>w. /\ status' = [status EXCEPT ![r] = "canceled"]
      /\ enrolledCount' = [enrolledCount EXCEPT ![r[2]] = LessOne(@)]
      /\ outbox' = [outbox EXCEPT ![r] = Append(@, "canceled")]
      /\ UNCHANGED <<keyOf, maxCapacity>>
  BY <1>p DEF DropCommit
<1> QED BY <1>p, <1>r, <1>w

LEMMA DropCounts ==
  ASSUME CountInv, NEW w \in Workers, DropCommit(w)
  PROVE  CountMatchesRoster' /\ CountWithinCapacity'
<1>r. PICK r \in Rows :
            /\ status[r] = "enrolled" /\ r[2] \in Offerings
            /\ status' = [status EXCEPT ![r] = "canceled"]
            /\ enrolledCount' = [enrolledCount EXCEPT ![r[2]] = LessOne(@)]
            /\ UNCHANGED maxCapacity
  BY DropWrites DEF CountInv
<1>t. TypeOK /\ CountMatchesRoster /\ CountWithinCapacity
  BY DEF CountInv
<1>b. /\ status \in [Rows -> Status]
      /\ enrolledCount \in [Offerings -> Nat]
      /\ maxCapacity \in [Offerings -> Nat]
  BY <1>t DEF TypeOK
<1>1. /\ Roster(r[2])' = Roster(r[2]) \ {r[1]}
      /\ r[1] \in Roster(r[2])
      /\ \A o \in Offerings \ {r[2]} : Roster(o)' = Roster(o)
  BY <1>r, <1>t, RosterLoses DEF Status
<1>2. Cardinality(Roster(r[2]) \ {r[1]}) = Cardinality(Roster(r[2])) - 1
  BY <1>1, <1>r, RosterFinite, FS_RemoveElement
<1>3. Cardinality(Roster(r[2]) \ {r[1]}) \in Nat
  BY <1>r, RosterFinite, FS_RemoveElement, FS_CardinalityType
<1>4. enrolledCount'[r[2]] = enrolledCount[r[2]] - 1
  BY <1>2, <1>3, <1>r, RosterFinite, <1>b, <1>t DEF CountMatchesRoster, LessOne
<1>5. ASSUME NEW o \in Offerings
      PROVE  /\ enrolledCount'[o] = Cardinality(Roster(o)')
             /\ enrolledCount'[o] <= maxCapacity'[o]
  <2>1. CASE o = r[2]
    BY <2>1, <1>1, <1>2, <1>4, <1>r, <1>b, <1>t
       DEF CountMatchesRoster, CountWithinCapacity
  <2>2. CASE o # r[2]
    BY <2>2, <1>1, <1>r, <1>b, <1>t
       DEF CountMatchesRoster, CountWithinCapacity
  <2>3. QED BY <2>1, <2>2
<1>6. QED BY <1>5 DEF CountMatchesRoster, CountWithinCapacity

LEMMA DropHistory ==
  ASSUME SeatInv, NEW w \in Workers, DropCommit(w)
  PROVE  KeyBuysOneSeat' /\ OutboxTellsHistory'
<1>r. PICK r \in Rows :
            /\ status[r] = "enrolled" /\ r[2] \in Offerings
            /\ status' = [status EXCEPT ![r] = "canceled"]
            /\ outbox' = [outbox EXCEPT ![r] = Append(@, "canceled")]
            /\ UNCHANGED keyOf
  BY DropWrites DEF SeatInv
<1>b. status \in [Rows -> Status] /\ outbox \in [Rows -> Seq(Events)]
  BY DEF SeatInv, TypeOK
<1>i. KeyBuysOneSeat /\ OutboxTellsHistory
  BY DEF SeatInv
<1>1. KeyBuysOneSeat'
  BY <1>r, <1>i DEF KeyBuysOneSeat
<1>2. OutboxTellsHistory'
  <2>1. outbox[r] = <<"created">>
    BY <1>r, <1>i DEF OutboxTellsHistory
  <2>2. /\ outbox'[r] = Append(<<"created">>, "canceled")
        /\ status'[r] = "canceled"
    BY <2>1, <1>r, <1>b
  <2>3. \A x \in Rows \ {r} : outbox'[x] = outbox[x] /\ status'[x] = status[x]
    BY <1>r, <1>b
  <2>4. QED BY <2>2, <2>3, <1>i DEF OutboxTellsHistory
<1>3. QED BY <1>1, <1>2

LEMMA InitSeat == Init => SeatInv
<1> SUFFICES ASSUME Init PROVE SeatInv
  OBVIOUS
<1>1. TypeOK /\ TransactionsExclude
  BY InitType, InitExcludes
<1>2. CountMatchesRoster /\ CountWithinCapacity
  <2>1. \A o \in Offerings : Roster(o) = {}
    BY DEF Init, Roster, Rows
  <2>2. Cardinality({}) = 0
    BY FS_EmptySet
  <2>3. \A o \in Offerings : enrolledCount[o] = 0 /\ maxCapacity[o] >= 0
    BY SeatsAssumption DEF Init
  <2>4. QED BY <2>1, <2>2, <2>3 DEF CountMatchesRoster, CountWithinCapacity
<1>3. KeyBuysOneSeat /\ OutboxTellsHistory
  BY DEF Init, KeyBuysOneSeat, OutboxTellsHistory
<1>4. QED BY <1>1, <1>2, <1>3 DEF SeatInv

LEMMA NextCount ==
  ASSUME CountInv, [Next]_vars
  PROVE  CountInv'
<1>1. TypeOK' /\ TransactionsExclude'
  BY NextType, NextExcludes DEF CountInv
<1>2. CountMatchesRoster' /\ CountWithinCapacity'
  <2>1. CASE UNCHANGED dbVars
    BY <2>1 DEF dbVars, CountInv, CountMatchesRoster, CountWithinCapacity, Roster
  <2>2. CASE \E w \in Workers :
               pc[w] = "commit" /\ WriteEnrollment(Row(w), req[w].key)
    BY <2>2, EnrollCounts
  <2>3. CASE \E w \in Workers : DropCommit(w)
    BY <2>3, DropCounts
  <2>4. QED BY <2>1, <2>2, <2>3, CommitCases DEF CountInv
<1>3. QED BY <1>1, <1>2 DEF CountInv

LEMMA NextSeat ==
  ASSUME SeatInv, [Next]_vars
  PROVE  SeatInv'
<1>1. CountInv'
  BY NextCount DEF CountInv, SeatInv
<1>2. KeyBuysOneSeat' /\ OutboxTellsHistory'
  <2>1. CASE UNCHANGED dbVars
    BY <2>1 DEF dbVars, SeatInv, KeyBuysOneSeat, OutboxTellsHistory
  <2>2. CASE \E w \in Workers :
               pc[w] = "commit" /\ WriteEnrollment(Row(w), req[w].key)
    BY <2>2, EnrollHistory
  <2>3. CASE \E w \in Workers : DropCommit(w)
    BY <2>3, DropHistory
  <2>4. QED BY <2>1, <2>2, <2>3, CommitCases DEF SeatInv
<1>3. QED BY <1>1, <1>2 DEF CountInv, SeatInv

LEMMA SeatInvariant == Spec => []SeatInv
  BY InitSeat, NextSeat, PTL DEF Spec

\* enrolled_count is the number of enrolled rows in every reachable state.
THEOREM CountsAreRosters == Spec => []CountMatchesRoster
<1>1. SeatInv => CountMatchesRoster
  BY DEF SeatInv
<1>2. QED BY <1>1, SeatInvariant, PTL

\* No offering ever has more enrolled students than seats, whatever the
\* Redis counter says and whatever fails.
THEOREM NeverOversold == Spec => []NoOversell
<1>1. SeatInv => NoOversell
  BY DEF SeatInv, CountMatchesRoster, CountWithinCapacity, NoOversell
<1>2. QED BY <1>1, SeatInvariant, PTL

\* An idempotency key belongs to at most one enrollment.
THEOREM OneSeatPerKey == Spec => []KeyBuysOneSeat
<1>1. SeatInv => KeyBuysOneSeat
  BY DEF SeatInv
<1>2. QED BY <1>1, SeatInvariant, PTL

\* The outbox holds the history of every row, in order and without repeats.
THEOREM OutboxIsHistory == Spec => []OutboxTellsHistory
<1>1. SeatInv => OutboxTellsHistory
  BY DEF SeatInv
<1>2. QED BY <1>1, SeatInvariant, PTL

(***************************************************************************)
(* The stock ledger: each path settles its token exactly once.             *)
(***************************************************************************)
-----------------------------------------------------------------------------
\* Tokens in the hands of requests

LEMMA TokensFinite ==
  ASSUME NEW o \in Offerings
  PROVE  IsFiniteSet(Tokens(o)) /\ Cardinality(Tokens(o)) \in Nat
<1>1. Tokens(o) \in SUBSET Workers
  BY DEF Tokens
<1>2. IsFiniteSet(Tokens(o))
  BY <1>1, FiniteAssumption, FS_Subset
<1>3. QED BY <1>2, FS_CardinalityType

\* Only w moves: the token holders of o change by w at most.
LEMMA TokensChange ==
  ASSUME NEW w \in Workers, OnlyMoves(w), NEW o \in Offerings
  PROVE  /\ (w \in Tokens(o) <=> w \in Tokens(o)')
              => Cardinality(Tokens(o)') = Cardinality(Tokens(o))
         /\ w \notin Tokens(o) /\ w \in Tokens(o)'
              => Cardinality(Tokens(o)') = Cardinality(Tokens(o)) + 1
         /\ w \in Tokens(o) /\ w \notin Tokens(o)'
              => Cardinality(Tokens(o)') = Cardinality(Tokens(o)) - 1
<1>1. \A v \in Workers \ {w} : v \in Tokens(o)' <=> v \in Tokens(o)
  BY DEF OnlyMoves, Tokens, HoldsToken, Offering
<1>2. Tokens(o) \subseteq Workers /\ Tokens(o)' \subseteq Workers
  BY DEF Tokens
<1>3. (w \in Tokens(o) <=> w \in Tokens(o)') => Tokens(o)' = Tokens(o)
  BY <1>1, <1>2
<1>4. w \notin Tokens(o) /\ w \in Tokens(o)' => Tokens(o)' = Tokens(o) \cup {w}
  BY <1>1, <1>2
<1>5. w \in Tokens(o) /\ w \notin Tokens(o)' => Tokens(o)' = Tokens(o) \ {w}
  BY <1>1, <1>2
<1>6. IsFiniteSet(Tokens(o)) /\ Cardinality(Tokens(o)) \in Nat
  BY TokensFinite
<1>7. w \notin Tokens(o)
        => Cardinality(Tokens(o) \cup {w}) = Cardinality(Tokens(o)) + 1
  BY <1>6, FS_AddElement
<1>8. w \in Tokens(o)
        => Cardinality(Tokens(o) \ {w}) = Cardinality(Tokens(o)) - 1
  BY <1>6, FS_RemoveElement
<1>9. QED BY <1>3, <1>4, <1>5, <1>7, <1>8

-----------------------------------------------------------------------------
\* The part of w in the account of o: 1 if it holds a token of it.
Share(w, o) == IF HoldsToken(w) /\ Offering(w) = o THEN 1 ELSE 0

\* A balance s + t + c = m + d is kept by a step that keeps s + p + c - d, the
\* share p in t apart.
LEMMA Balance ==
  ASSUME NEW s \in Int, NEW t \in Int, NEW c \in Int, NEW d \in Int,
         NEW m \in Int, NEW p \in Int, NEW q \in Int,
         NEW s1 \in Int, NEW t1, NEW c1 \in Int, NEW d1 \in Int, NEW m1,
         s + t + c = m + d, t1 = t + q - p, m1 = m,
         s1 + q + c1 - d1 = s + p + c - d
  PROVE  s1 + t1 + c1 = m1 + d1
  OBVIOUS

\* A step of w leaves in every account what it found there.
Kept(w) ==
    \A o \in Offerings :
        stock'[o] + Share(w, o)' + enrolledCount'[o] - drift'[o]
          = stock[o] + Share(w, o) + enrolledCount[o] - drift[o]

LEMMA LedgerStep ==
  ASSUME TypeOK, TypeOK', StockLedger, NEW w \in Workers, OnlyMoves(w),
         UNCHANGED maxCapacity, Kept(w)
  PROVE  StockLedger'
<1>1. ASSUME NEW o \in Offerings
      PROVE  stock'[o] + Cardinality(Tokens(o)') + enrolledCount'[o]
               = maxCapacity'[o] + drift'[o]
  <2>1. /\ stock \in [Offerings -> Int] /\ drift \in [Offerings -> Int]
        /\ enrolledCount \in [Offerings -> Int]
        /\ stock' \in [Offerings -> Int] /\ drift' \in [Offerings -> Int]
        /\ enrolledCount' \in [Offerings -> Int]
        /\ maxCapacity \in [Offerings -> Int] /\ maxCapacity' = maxCapacity
    BY DEF TypeOK
  <2>2. Cardinality(Tokens(o)) \in Nat
    BY TokensFinite
  <2>3. stock[o] + Cardinality(Tokens(o)) + enrolledCount[o]
          = maxCapacity[o] + drift[o]
    BY DEF StockLedger
  <2>4. /\ w \in Tokens(o) <=> Share(w, o) = 1
        /\ w \notin Tokens(o) <=> Share(w, o) = 0
        /\ w \in Tokens(o)' <=> Share(w, o)' = 1
        /\ w \notin Tokens(o)' <=> Share(w, o)' = 0
    BY DEF Tokens, Share
  <2>5. Share(w, o) \in {0, 1} /\ Share(w, o)' \in {0, 1}
    BY DEF Share
  <2>6. Cardinality(Tokens(o)')
          = Cardinality(Tokens(o)) + Share(w, o)' - Share(w, o)
    BY <2>2, <2>4, <2>5, TokensChange
  <2>7. stock'[o] + Share(w, o)' + enrolledCount'[o] - drift'[o]
          = stock[o] + Share(w, o) + enrolledCount[o] - drift[o]
    BY DEF Kept
  <2>8. /\ stock[o] \in Int /\ drift[o] \in Int /\ enrolledCount[o] \in Int
        /\ stock'[o] \in Int /\ drift'[o] \in Int /\ enrolledCount'[o] \in Int
        /\ maxCapacity[o] \in Int /\ maxCapacity'[o] = maxCapacity[o]
        /\ Cardinality(Tokens(o)) \in Int
        /\ Share(w, o) \in Int /\ Share(w, o)' \in Int
    BY <2>1, <2>2, <2>5
  <2>9. QED BY <2>3, <2>6, <2>7, <2>8, Balance
<1>2. QED BY <1>1 DEF StockLedger

\* What w's share is, read off its program counter.
LEMMA ShareOf ==
  ASSUME NEW w, NEW o
  PROVE  /\ ~ HoldsToken(w) => Share(w, o) = 0
         /\ ~ HoldsToken(w)' => Share(w, o)' = 0
         /\ HoldsToken(w) => Share(w, o) = IF Offering(w) = o THEN 1 ELSE 0
         /\ HoldsToken(w)' => Share(w, o)' = IF Offering(w)' = o THEN 1 ELSE 0
  BY DEF Share

\* Adding to one counter.
LEMMA AddTo ==
  ASSUME NEW f \in [Offerings -> Int], NEW p \in Offerings, NEW d \in Int,
         NEW o \in Offerings
  PROVE  [f EXCEPT ![p] = @ + d][o] = f[o] + IF p = o THEN d ELSE 0
  OBVIOUS

-----------------------------------------------------------------------------
LEMMA NextLedger ==
  ASSUME SeatInv, StockLedger, [Next]_vars
  PROVE  StockLedger'
<1>t. TypeOK
  BY DEF SeatInv
<1>1. CASE UNCHANGED vars
  BY <1>1 DEF vars, dbVars, reqVars, StockLedger, Tokens, HoldsToken, Offering
<1>2. CASE Next
  <2>1. PICK w \in Workers :
           \/ \E r \in Rows, k \in Keys \cup {NoKey} : EnrollBegin(w, r, k)
           \/ \E r \in Rows, next \in Rows \cup {NoRow} : DropBegin(w, r, next)
           \/ EnrollStep(w)
           \/ DropStep(w)
           \/ Failure(w)
    BY <1>2, NextCases
  <2>2. OnlyMoves(w) /\ TypeOK'
    BY <2>1, <1>2, <1>t, MovesAlone, NextType
  <2>p. pc \in [Workers -> {"idle"} \cup EnrollSteps \cup DropSteps]
    BY <1>t DEF TypeOK
  <2>f. /\ stock \in [Offerings -> Int] /\ drift \in [Offerings -> Int]
        /\ enrolledCount \in [Offerings -> Int]
        /\ \A o \in Offerings : stock[o] \in Int /\ drift[o] \in Int
                                /\ enrolledCount[o] \in Int
    BY <1>t DEF TypeOK
  \* Steps whose worker holds no token before or after.
  <2>3. CASE \/ \E r \in Rows, k \in Keys \cup {NoKey} : EnrollBegin(w, r, k)
             \/ \E r \in Rows, next \in Rows \cup {NoRow} : DropBegin(w, r, next)
             \/ TurnedAway(w) \/ RulesPass(w) \/ Decrement(w)
    <3>1. /\ pc[w] \in {"idle", "check", "decrement"}
          /\ pc'[w] \in {"idle", "check", "consume", "decrement", "dropCommit"}
          /\ UNCHANGED <<stock, enrolledCount, maxCapacity, drift>>
      BY <2>3, <2>p DEF EnrollBegin, DropBegin, TurnedAway, RulesPass, Decrement,
                        Finish, Goto, dbVars
    <3>2. ~ HoldsToken(w) /\ ~ HoldsToken(w)'
      BY <3>1 DEF HoldsToken, EnrollSteps
    <3>3. \A o \in Offerings : Share(w, o) = 0 /\ Share(w, o)' = 0
      BY <3>2, ShareOf
    <3>4. QED BY <1>t, <2>2, <3>1, <3>3, LedgerStep DEF Kept
  \* Steps whose worker keeps its token.
  <2>4. CASE \/ Insert(w) \/ InsertDuplicate(w) \/ InsertKeyTaken(w)
             \/ ReadVersion(w) \/ Increment(w) \/ IncrementRefused(w)
             \/ TxnError(w)
    <3>1. /\ pc[w] \in {"insert", "version", "cas", "commit"}
          /\ pc'[w] \in {"version", "cas", "commit", "compensate"}
          /\ UNCHANGED <<stock, enrolledCount, maxCapacity, drift, req>>
      BY <2>4, <2>p DEF Insert, InsertDuplicate, InsertKeyTaken, ReadVersion,
                        Increment, IncrementRefused, TxnError, HoldsInsert,
                        Fail, Goto, dbVars
    <3>2. HoldsToken(w) /\ HoldsToken(w)' /\ Offering(w)' = Offering(w)
      BY <3>1 DEF HoldsToken, EnrollSteps, Offering
    <3>3. \A o \in Offerings : Share(w, o) = Share(w, o)'
      BY <3>2, ShareOf
    <3>4. QED BY <1>t, <2>2, <3>1, <3>3, LedgerStep DEF Kept
  \* A token leaves the stock.
  <2>5. CASE Consume(w)
    <3>1. PICK p \in Offerings : p = Offering(w)
      BY <2>5, <1>t, RowType DEF Consume
    <3>2. /\ pc[w] = "consume" /\ pc'[w] \in {"undo", "insert"}
          /\ stock' = [stock EXCEPT ![p] = @ + (-1)]
          /\ UNCHANGED <<enrolledCount, maxCapacity, drift, req>>
      BY <2>5, <3>1, <2>p, <2>f DEF Consume, AddStock, Goto, dbVars
    <3>3. ~ HoldsToken(w) /\ HoldsToken(w)' /\ Offering(w)' = p
      BY <3>1, <3>2 DEF HoldsToken, EnrollSteps, Offering
    <3>4. ASSUME NEW o \in Offerings
          PROVE  /\ Share(w, o) = 0
                 /\ Share(w, o)' = IF p = o THEN 1 ELSE 0
                 /\ stock'[o] = stock[o] + IF p = o THEN (-1) ELSE 0
      BY <3>1, <3>2, <3>3, <2>f, ShareOf, AddTo
    <3>5. ASSUME NEW o \in Offerings
          PROVE  stock'[o] + Share(w, o)' + enrolledCount'[o] - drift'[o]
                   = stock[o] + Share(w, o) + enrolledCount[o] - drift[o]
      BY <3>2, <3>4, <2>f
    <3>6. QED BY <1>t, <2>2, <3>2, <3>5, LedgerStep DEF Kept
  \* A token goes back to the stock.
  <2>6. CASE Undo(w) \/ Compensate(w) \/ DropRelease(w) \/ SwapRelease(w)
    <3>1. PICK p \in Offerings : p = Offering(w)
      BY <2>6, <1>t, RowType DEF Undo, Compensate, DropRelease, SwapRelease
    <3>2. /\ pc[w] \in {"undo", "compensate", "dropRelease"}
          /\ pc'[w] \in {"idle", "check"}
          /\ stock' = [stock EXCEPT ![p] = @ + 1]
          /\ UNCHANGED <<enrolledCount, maxCapacity, drift>>
      BY <2>6, <3>1, <2>p, <2>f DEF Undo, Compensate, DropRelease, SwapRelease, AddStock, Release, Finish, Goto, dbVars
    <3>3. HoldsToken(w) /\ ~ HoldsToken(w)'
      BY <3>1, <3>2 DEF HoldsToken, EnrollSteps, Offering
    <3>4. ASSUME NEW o \in Offerings
          PROVE  /\ Share(w, o) = IF p = o THEN 1 ELSE 0
                 /\ Share(w, o)' = 0
                 /\ stock'[o] = stock[o] + IF p = o THEN 1 ELSE 0
      BY <3>1, <3>2, <3>3, <2>f, ShareOf, AddTo
    <3>5. ASSUME NEW o \in Offerings
          PROVE  stock'[o] + Share(w, o)' + enrolledCount'[o] - drift'[o]
                   = stock[o] + Share(w, o) + enrolledCount[o] - drift[o]
      BY <3>2, <3>4, <2>f
    <3>6. QED BY <1>t, <2>2, <3>2, <3>5, LedgerStep DEF Kept
  \* A token becomes a seat sold.
  <2>7. CASE EnrollCommit(w)
    <3>1. PICK p \in Offerings : p = Offering(w)
      BY <2>7, <1>t, RowType DEF EnrollCommit
    <3>2. /\ pc[w] = "commit" /\ pc'[w] = "idle"
          /\ enrolledCount' = [enrolledCount EXCEPT ![p] = @ + 1]
          /\ UNCHANGED <<stock, maxCapacity, drift>>
      BY <2>7, <3>1, <2>p, <2>f DEF EnrollCommit, WriteEnrollment, Offering, Row, Finish, Goto
    <3>3. HoldsToken(w) /\ ~ HoldsToken(w)'
      BY <3>1, <3>2 DEF HoldsToken, EnrollSteps, Offering
    <3>4. ASSUME NEW o \in Offerings
          PROVE  /\ Share(w, o) = IF p = o THEN 1 ELSE 0
                 /\ Share(w, o)' = 0
                 /\ enrolledCount'[o] = enrolledCount[o] + IF p = o THEN 1 ELSE 0
      BY <3>1, <3>2, <3>3, <2>f, ShareOf, AddTo
    <3>5. ASSUME NEW o \in Offerings
          PROVE  stock'[o] + Share(w, o)' + enrolledCount'[o] - drift'[o]
                   = stock[o] + Share(w, o) + enrolledCount[o] - drift[o]
      BY <3>2, <3>4, <2>f
    <3>6. QED BY <1>t, <2>2, <3>2, <3>5, LedgerStep DEF Kept
  \* A seat is sold but its token is about to be given back too.
  <2>8. CASE EnrollCommitLost(w)
    <3>1. PICK p \in Offerings : p = Offering(w)
      BY <2>8, <1>t, RowType DEF EnrollCommitLost
    <3>2. /\ pc[w] = "commit" /\ pc'[w] = "compensate"
          /\ enrolledCount' = [enrolledCount EXCEPT ![p] = @ + 1]
          /\ drift' = [drift EXCEPT ![p] = @ + 1]
          /\ UNCHANGED <<stock, maxCapacity, req>>
      BY <2>8, <3>1, <2>p, <2>f DEF EnrollCommitLost, WriteEnrollment, Offering, Row, Fail, Goto
    <3>3. HoldsToken(w) /\ HoldsToken(w)' /\ Offering(w)' = p
      BY <3>1, <3>2 DEF HoldsToken, EnrollSteps, Offering
    <3>4. ASSUME NEW o \in Offerings
          PROVE  /\ Share(w, o) = IF p = o THEN 1 ELSE 0
                 /\ Share(w, o)' = IF p = o THEN 1 ELSE 0
                 /\ enrolledCount'[o] = enrolledCount[o] + IF p = o THEN 1 ELSE 0
                 /\ drift'[o] = drift[o] + IF p = o THEN 1 ELSE 0
      BY <3>1, <3>2, <3>3, <2>f, ShareOf, AddTo
    <3>5. ASSUME NEW o \in Offerings
          PROVE  stock'[o] + Share(w, o)' + enrolledCount'[o] - drift'[o]
                   = stock[o] + Share(w, o) + enrolledCount[o] - drift[o]
      BY <3>2, <3>4, <2>f
    <3>6. QED BY <1>t, <2>2, <3>2, <3>5, LedgerStep DEF Kept
  \* A seat sold becomes a token to be given back.
  <2>9. CASE DropCommit(w)
    <3>1. PICK r \in Rows, p \in Offerings :
            r = Row(w) /\ p = Offering(w) /\ p = r[2]
      BY <2>9, <1>t, RowType DEF DropCommit
    <3>2. enrolledCount[p] \in Nat /\ enrolledCount[p] # 0
      <4>1. status[r] = "enrolled"
        BY <2>9, <3>1, CommittingRow DEF SeatInv, DropCommit
      <4>2. r[1] \in Roster(p)
        BY <4>1, <3>1 DEF Roster, Rows
      <4>3. IsFiniteSet(Roster(p))
        BY RosterFinite
      <4>4. Cardinality(Roster(p)) # 0
        BY <4>2, <4>3, FS_EmptySet
      <4>5. enrolledCount[p] = Cardinality(Roster(p))
        BY DEF SeatInv, CountMatchesRoster
      <4>6. enrolledCount[p] \in Nat
        BY <1>t DEF TypeOK
      <4>7. QED BY <4>4, <4>5, <4>6
    <3>3. /\ pc[w] = "dropCommit" /\ pc'[w] = "dropRelease"
          /\ enrolledCount' = [enrolledCount EXCEPT ![p] = LessOne(@)]
          /\ UNCHANGED <<stock, maxCapacity, drift, req>>
      BY <2>9, <3>1, <2>p DEF DropCommit, Goto
    <3>4. ~ HoldsToken(w) /\ HoldsToken(w)' /\ Offering(w)' = p
      BY <3>1, <3>3 DEF HoldsToken, EnrollSteps, Offering
    <3>5. ASSUME NEW o \in Offerings
          PROVE  /\ Share(w, o) = 0
                 /\ Share(w, o)' = IF p = o THEN 1 ELSE 0
      BY <3>4, ShareOf
    <3>6. ASSUME NEW o \in Offerings
          PROVE  enrolledCount'[o] = enrolledCount[o] + IF p = o THEN (-1) ELSE 0
      BY <3>2, <3>3, <2>f DEF LessOne
    <3>7. ASSUME NEW o \in Offerings
          PROVE  stock'[o] + Share(w, o)' + enrolledCount'[o] - drift'[o]
                   = stock[o] + Share(w, o) + enrolledCount[o] - drift[o]
      BY <3>3, <3>5, <3>6, <2>f
    <3>8. QED BY <1>t, <2>2, <3>3, <3>7, LedgerStep DEF Kept
  \* A token is lost with its worker.
  <2>10. CASE Crash(w) /\ HoldsToken(w)
    <3>1. PICK p \in Offerings : p = Offering(w)
      BY <2>10, <1>t, RowType DEF Crash
    <3>2. /\ pc'[w] = "idle"
          /\ drift' = [drift EXCEPT ![p] = @ + (-1)]
          /\ UNCHANGED <<stock, enrolledCount, maxCapacity>>
      BY <2>10, <3>1, <2>p, <2>f DEF Crash, Finish, Goto, dbVars
    <3>3. HoldsToken(w) /\ ~ HoldsToken(w)'
      BY <2>10, <3>1, <3>2 DEF HoldsToken, EnrollSteps, Offering
    <3>4. ASSUME NEW o \in Offerings
          PROVE  /\ Share(w, o) = IF p = o THEN 1 ELSE 0
                 /\ Share(w, o)' = 0
                 /\ drift'[o] = drift[o] + IF p = o THEN (-1) ELSE 0
      BY <3>1, <3>2, <3>3, <2>f, ShareOf, AddTo
    <3>5. ASSUME NEW o \in Offerings
          PROVE  stock'[o] + Share(w, o)' + enrolledCount'[o] - drift'[o]
                   = stock[o] + Share(w, o) + enrolledCount[o] - drift[o]
      BY <3>2, <3>4, <2>f
    <3>6. QED BY <1>t, <2>2, <3>2, <3>5, LedgerStep DEF Kept
  \* A worker without a token dies.
  <2>11. CASE Crash(w) /\ ~ HoldsToken(w)
    <3>1. /\ pc'[w] = "idle"
          /\ UNCHANGED <<stock, enrolledCount, maxCapacity, drift>>
      BY <2>11, <2>p DEF Crash, Finish, Goto, dbVars
    <3>2. ~ HoldsToken(w)'
      BY <3>1 DEF HoldsToken, EnrollSteps
    <3>3. \A o \in Offerings : Share(w, o) = 0 /\ Share(w, o)' = 0
      BY <2>11, <3>2, ShareOf
    <3>4. QED BY <1>t, <2>2, <3>1, <3>3, LedgerStep DEF Kept
  <2>12. QED BY <2>1, <2>3, <2>4, <2>5, <2>6, <2>7, <2>8, <2>9, <2>10, <2>11
             DEF EnrollStep, DropStep, Failure
<1>3. QED BY <1>1, <1>2

LEMMA InitLedger == Init => StockLedger
<1> SUFFICES ASSUME Init PROVE StockLedger
  OBVIOUS
<1>1. ASSUME NEW o \in Offerings
      PROVE  Cardinality(Tokens(o)) = 0
  <2>1. Tokens(o) = {}
    BY DEF Init, Tokens, HoldsToken, EnrollSteps
  <2>2. QED BY <2>1, FS_EmptySet
<1>2. \A o \in Offerings : /\ stock[o] = maxCapacity[o] /\ stock[o] \in Int
                           /\ enrolledCount[o] = 0 /\ drift[o] = 0
  BY SeatsAssumption DEF Init
<1>3. QED BY <1>1, <1>2 DEF StockLedger

\* The ledger always balances: only a failure the code cannot see ever makes
\* the Redis counter disagree with the seats that are left.
THEOREM LedgerBalances == Spec => []StockLedger
<1>1. SeatInv /\ StockLedger /\ [Next]_vars => StockLedger'
  BY NextLedger
<1>2. QED BY <1>1, InitLedger, SeatInvariant, PTL DEF Spec

(***************************************************************************)
(* Enrollment implements SeatBook: a seat changes hands exactly when a     *)
(* transaction commits, and every other step is invisible.                 *)
(***************************************************************************)
-----------------------------------------------------------------------------
\* The refinement mapping.

Holders == [o \in Offerings |-> Roster(o)]
Gone(o) == {s \in Students : status[<<s, o>>] = "canceled"}
Former  == [o \in Offerings |-> Gone(o)]

\* When r leaves the status "enrolled" for st, or "absent" for "enrolled",
\* its student joins those who gave a seat up only if st is "canceled".
LEMMA GoneKept ==
  ASSUME TypeOK, NEW r \in Rows, status[r] = "absent",
         status' = [status EXCEPT ![r] = "enrolled"]
  PROVE  /\ r[1] \notin Gone(r[2])
         /\ \A o \in Offerings : Gone(o)' = Gone(o)
<1>1. r = <<r[1], r[2]>> /\ r[1] \in Students /\ r[2] \in Offerings
  BY DEF Rows
<1>2. ASSUME NEW s \in Students, NEW o \in Offerings
      PROVE  status'[<<s, o>>] = "canceled" <=> status[<<s, o>>] = "canceled"
  <2>1. <<s, o>> \in Rows
    BY DEF Rows
  <2>2. QED BY <2>1 DEF TypeOK
<1>3. status[<<r[1], r[2]>>] # "canceled"
  BY <1>1
<1>4. QED BY <1>1, <1>2, <1>3 DEF Gone

LEMMA GoneGains ==
  ASSUME TypeOK, NEW r \in Rows, status[r] = "enrolled",
         status' = [status EXCEPT ![r] = "canceled"]
  PROVE  /\ Gone(r[2])' = Gone(r[2]) \cup {r[1]}
         /\ \A o \in Offerings \ {r[2]} : Gone(o)' = Gone(o)
<1>1. r = <<r[1], r[2]>> /\ r[1] \in Students /\ r[2] \in Offerings
  BY DEF Rows
<1>2. ASSUME NEW s \in Students, NEW o \in Offerings
      PROVE  status'[<<s, o>>] = IF s = r[1] /\ o = r[2] THEN "canceled"
                                 ELSE status[<<s, o>>]
  <2>1. <<s, o>> \in Rows
    BY DEF Rows
  <2>2. <<s, o>> = r <=> s = r[1] /\ o = r[2]
    BY <1>1
  <2>3. QED BY <2>1, <2>2 DEF TypeOK
<1>3. QED BY <1>1, <1>2 DEF Gone

-----------------------------------------------------------------------------
\* Init maps to BookInit.

LEMMA InitBook == Init => Book!BookInit
<1> SUFFICES ASSUME Init PROVE Book!BookInit
  OBVIOUS
<1>1. maxCapacity \in [Offerings -> Nat]
  BY SeatsAssumption DEF Init
<1>2. ASSUME NEW o \in Offerings
      PROVE  Roster(o) = {} /\ Gone(o) = {}
  <2>1. ASSUME NEW s \in Students PROVE status[<<s, o>>] = "absent"
    BY DEF Init, Rows
  <2>2. QED BY <2>1 DEF Roster, Gone
<1>3. Holders = [o \in Offerings |-> {}] /\ Former = [o \in Offerings |-> {}]
  BY <1>2 DEF Holders, Former
<1>4. QED BY <1>1, <1>3 DEF Book!BookInit, Holders, Former, Gone

\* The cardinality the instance of SeatBook counts with is the usual one.
LEMMA SameCardinality ==
  ASSUME NEW S PROVE Book!Cardinality(S) = Cardinality(S)
  BY DEF Book!Cardinality, Cardinality

\* A committing enroll is Take.
LEMMA TakeStep ==
  ASSUME CountInv, NEW w \in Workers,
         pc[w] = "commit", WriteEnrollment(Row(w), req[w].key)
  PROVE  Book!BookNext
<1>t. TypeOK /\ TransactionsExclude /\ CountMatchesRoster
  BY DEF CountInv
<1>1. PICK r \in Rows : r = Row(w)
  BY <1>t, CommittingRow
<1>2. /\ status[r] = "absent" /\ r[2] \in Offerings
      /\ enrolledCount[r[2]] < maxCapacity[r[2]]
  BY <1>t, <1>1, CommittingRow
<1>3. status' = [status EXCEPT ![r] = "enrolled"] /\ UNCHANGED maxCapacity
  BY <1>1 DEF WriteEnrollment
<1>4. PICK s \in Students, o \in Offerings : s = r[1] /\ o = r[2]
  BY DEF Rows
<1>5. /\ Roster(o)' = Roster(o) \cup {s} /\ s \notin Roster(o)
      /\ \A p \in Offerings \ {o} : Roster(p)' = Roster(p)
  BY <1>t, <1>2, <1>3, <1>4, RosterGains
<1>6. s \notin Gone(o) /\ \A p \in Offerings : Gone(p)' = Gone(p)
  BY <1>t, <1>2, <1>3, <1>4, GoneKept
<1>f. Former = [Former EXCEPT ![o] = @ \ {s}]
  BY <1>6 DEF Former
<1>7. Cardinality(Roster(o)) < maxCapacity[o]
  BY <1>t, <1>2, <1>4 DEF CountMatchesRoster
<1>8. Holders' = [Holders EXCEPT ![o] = @ \cup {s}] /\ Former' = Former
  BY <1>5, <1>6 DEF Holders, Former
<1>9. Book!Take(s, o)
  BY <1>3, <1>5, <1>7, <1>8, <1>f, SameCardinality DEF Book!Take, Holders, Former, Gone
<1>10. QED BY <1>9 DEF Book!BookNext

\* A committing drop is Leave.
LEMMA LeaveStep ==
  ASSUME CountInv, NEW w \in Workers, DropCommit(w)
  PROVE  Book!BookNext
<1>t. TypeOK /\ TransactionsExclude
  BY DEF CountInv
<1>d. pc[w] = "dropCommit"
  BY DEF DropCommit
<1>1. PICK r \in Rows : r = Row(w)
  BY <1>t, <1>d, CommittingRow
<1>2. status[r] = "enrolled"
  BY <1>t, <1>d, <1>1, CommittingRow
<1>3. status' = [status EXCEPT ![r] = "canceled"] /\ UNCHANGED maxCapacity
  BY <1>1 DEF DropCommit
<1>4. PICK s \in Students, o \in Offerings : s = r[1] /\ o = r[2]
  BY DEF Rows
<1>5. "canceled" \in Status \ {"enrolled"}
  BY DEF Status
<1>6. /\ Roster(o)' = Roster(o) \ {s} /\ s \in Roster(o)
      /\ \A p \in Offerings \ {o} : Roster(p)' = Roster(p)
  BY <1>t, <1>2, <1>3, <1>4, <1>5, RosterLoses
<1>7. /\ Gone(o)' = Gone(o) \cup {s}
      /\ \A p \in Offerings \ {o} : Gone(p)' = Gone(p)
  BY <1>t, <1>2, <1>3, <1>4, GoneGains
<1>8. /\ Holders' = [Holders EXCEPT ![o] = @ \ {s}]
      /\ Former' = [Former EXCEPT ![o] = @ \cup {s}]
  BY <1>6, <1>7 DEF Holders, Former
<1>9. Book!Leave(s, o)
  BY <1>3, <1>6, <1>8 DEF Book!Leave, Holders, Former, Gone
<1>10. QED BY <1>9 DEF Book!BookNext

\* Every step is a step of the book or leaves it alone.
LEMMA NextBook ==
  ASSUME CountInv, [Next]_vars
  PROVE  [Book!BookNext]_Book!bookVars
<1>1. CASE UNCHANGED dbVars
  BY <1>1 DEF dbVars, Book!bookVars, Roster
<1>2. CASE \E w \in Workers :
              pc[w] = "commit" /\ WriteEnrollment(Row(w), req[w].key)
  BY <1>2, TakeStep
<1>3. CASE \E w \in Workers : DropCommit(w)
  BY <1>3, LeaveStep
<1>4. QED BY <1>1, <1>2, <1>3, CommitCases DEF CountInv

\* Whatever the interleaving of requests, aborts, crashes and lost
\* acknowledgements, the enrollments behave as if each seat were given or
\* given back in one atomic step.
THEOREM Refinement == Spec => ImplementsSeatBook
<1>1. SeatInv /\ [Next]_vars => [Book!BookNext]_Book!bookVars
  BY NextBook DEF SeatInv, CountInv
<1>2. QED BY <1>1, InitBook, SeatInvariant, PTL
          DEF Spec, ImplementsSeatBook, Book!BookSpec

=============================================================================
