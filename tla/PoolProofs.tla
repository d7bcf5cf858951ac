----------------------------- MODULE PoolProofs -----------------------------
(***************************************************************************)
(* What TLAPS proves of Pool: a bounded pool only delays the requests, so  *)
(* every theorem about Enrollment holds over it, and connections are held  *)
(* inside PostgreSQL only.                                                 *)
(***************************************************************************)
EXTENDS Pool, EnrollmentProofs

\* Every step over the pool is a step of the handlers or changes nothing of
\* theirs.
LEMMA PoolStep ==
  ASSUME PTypeOK, [PNext]_pvars
  PROVE  [Next]_vars
<1>1. CASE UNCHANGED pvars
  BY <1>1 DEF pvars
<1>2. CASE PNext
  <2>1. PICK w \in Workers :
            PArrive(w) \/ Handle(w) \/ TurnedAwayEarly(w) \/ PFailure(w)
    BY <1>2 DEF PNext
  <2>2. CASE PArrive(w)
    <3>1. CASE UNCHANGED vars
      BY <3>1
    <3>2. CASE \E r \in Seeks, k \in Keys \cup {NoKey} : EnrollBegin(w, r, k)
      <4>1. Arrive(w)
        BY <3>2, AskedAssumption DEF Arrive
      <4>2. QED BY <4>1 DEF Next
    <3>3. QED BY <2>2, <3>1, <3>2 DEF PArrive
  <2>3. CASE Handle(w)
    <3>1. CASE PDropBegin(w)
      <4>0. asked[w] \in Swaps
        BY <3>1 DEF PTypeOK, PDropBegin
      <4>1. /\ asked[w][1] \in Rows
            /\ asked[w][2] \in Rows \cup {NoRow}
            /\ DropBegin(w, asked[w][1], asked[w][2])
        BY <3>1, <4>0, AskedAssumption DEF PDropBegin
      <4>2. Arrive(w)
        BY <4>1 DEF Arrive
      <4>3. QED BY <4>2 DEF Next
    <3>3. CASE Open(w) \/ DropMisses(w)
      BY <3>3 DEF Open, DropMisses
    <3>4. CASE Step(w)
      BY <3>4 DEF Step, Next
    <3>5. QED BY <2>3, <3>1, <3>3, <3>4 DEF Handle
  <2>4. CASE TurnedAwayEarly(w)
    BY <2>4 DEF TurnedAwayEarly, EnrollStep, Next
  <2>5. CASE PFailure(w)
    BY <2>5 DEF PFailure, Next
  <2>6. QED BY <2>1, <2>2, <2>3, <2>4, <2>5
<1>3. QED BY <1>1, <1>2

-----------------------------------------------------------------------------
\* Connections

\* Whoever waits to begin a drop has no other request.
AskedIdle == \A w \in Workers : asked[w] # << >> => pc[w] = "idle"

PoolInv == PTypeOK /\ AskedIdle /\ ConnectionsOnlyForPostgres

LEMMA InitPool == PInit => PoolInv
  BY DEF PInit, Init, PoolInv, PTypeOK, AskedIdle, ConnectionsOnlyForPostgres,
         InTransaction

\* A handler gets into a transaction from the INSERT or from soft_cancel, and
\* is idle only when its request ends.
LEMMA IntoTransaction ==
  ASSUME TypeOK, NEW w \in Workers,
         EnrollStep(w) \/ DropStep(w) \/ Failure(w)
  PROVE  /\ pc[w] # "idle"
         /\ InTransaction(pc'[w]) => InTransaction(pc[w]) \/ pc[w] = "insert"
<1> USE DEF TypeOK, Goto, Finish, Fail, InTransaction, HoldsInsert
<1>1. CASE TurnedAway(w) \/ RulesPass(w) \/ Consume(w) \/ Undo(w)
  BY <1>1 DEF TurnedAway, RulesPass, Consume, Undo
<1>2. CASE Insert(w) \/ InsertDuplicate(w) \/ InsertKeyTaken(w)
  BY <1>2 DEF Insert, InsertDuplicate, InsertKeyTaken
<1>3. CASE ReadVersion(w) \/ Increment(w) \/ IncrementRefused(w)
  BY <1>3 DEF ReadVersion, Increment, IncrementRefused
<1>4. CASE EnrollCommit(w) \/ Compensate(w) \/ DropStep(w)
  BY <1>4 DEF EnrollCommit, Compensate, DropStep, Decrement, DropCommit,
              DropRelease, SwapRelease
<1>5. CASE Failure(w)
  BY <1>5 DEF Failure, EnrollCommitLost, TxnError, Crash
<1>6. QED BY <1>1, <1>2, <1>3, <1>4, <1>5 DEF EnrollStep

LEMMA FailureEnds ==
  ASSUME TypeOK, NEW w \in Workers, Failure(w)
  PROVE  ~ InTransaction(pc'[w])
  BY DEF Failure, EnrollCommitLost, TxnError, Crash, TypeOK, Goto, Finish,
         Fail, InTransaction

\* A step of w that changes its own entry of conn and asked at most.
LEMMA OthersKeep ==
  ASSUME PoolInv, NEW w \in Workers, OnlyMoves(w),
         conn' \subseteq Workers, asked' \in [Workers -> Swaps \cup {<< >>}],
         UNCHANGED poolMax,
         \A v \in Workers \ {w} : (v \in conn' <=> v \in conn) /\ asked'[v] = asked[v],
         w \in conn' => InTransaction(pc'[w]) \/ pc'[w] \in {"check", "insert"}
                           \/ asked'[w] # << >>,
         InTransaction(pc'[w]) => w \in conn',
         asked'[w] # << >> => pc'[w] = "idle"
  PROVE  PoolInv'
  BY DEF PoolInv, PTypeOK, AskedIdle, ConnectionsOnlyForPostgres, Needs,
         InTransaction, OnlyMoves

LEMMA NextPool ==
  ASSUME TypeOK, PoolInv, [PNext]_pvars
  PROVE  PoolInv'
<1> USE DEF PoolInv, PTypeOK, AskedIdle, ConnectionsOnlyForPostgres
<1>1. CASE UNCHANGED pvars
  BY <1>1 DEF pvars, vars, reqVars, Needs, InTransaction
<1>2. CASE PNext
  <2>1. PICK w \in Workers :
            PArrive(w) \/ Handle(w) \/ TurnedAwayEarly(w) \/ PFailure(w)
    BY <1>2 DEF PNext
  <2>0. UNCHANGED poolMax
    BY <1>2 DEF PNext
  <2>a. ASSUME UNCHANGED vars PROVE OnlyMoves(w)
    BY <2>a DEF OnlyMoves, vars, reqVars
  <2>2. CASE PArrive(w)
    <3>1. CASE /\ pc[w] = "idle"
               /\ \E q \in Swaps : asked' = [asked EXCEPT ![w] = q]
               /\ UNCHANGED <<vars, conn>>
      <4>1. pc'[w] = "idle" /\ asked[w] = << >>
        BY <2>2, <3>1 DEF PArrive, vars, reqVars
      <4>2. w \notin conn
        BY <3>1, <4>1 DEF Needs, InTransaction
      <4>3. QED
        BY <2>0, <2>a, <3>1, <4>1, <4>2, OthersKeep DEF InTransaction
    <3>2. CASE \E r \in Seeks, k \in Keys \cup {NoKey} : EnrollBegin(w, r, k)
      <4>1. OnlyMoves(w)
        BY <3>2, AskedAssumption, MovesAlone
      <4>2. pc'[w] = "check" /\ pc[w] = "idle"
        BY <3>2 DEF EnrollBegin, Goto, TypeOK
      <4>3. UNCHANGED <<conn, asked>> /\ asked[w] = << >>
        BY <2>2, <3>2, <4>2 DEF PArrive, vars, reqVars
      <4>4. w \notin conn
        BY <4>2, <4>3 DEF Needs, InTransaction
      <4>5. QED BY <2>0, <4>1, <4>2, <4>3, <4>4, OthersKeep DEF InTransaction
    <3>3. QED BY <2>2, <3>1, <3>2 DEF PArrive
  <2>3. CASE Open(w)
    BY <2>0, <2>3, <2>a, OthersKeep DEF Open, Needs, vars, reqVars
  <2>4. CASE PDropBegin(w)
    <3>1. asked[w] \in Swaps /\ asked[w][1] \in Rows
             /\ asked[w][2] \in Rows \cup {NoRow}
      BY <2>4, AskedAssumption DEF PDropBegin
    <3>2. OnlyMoves(w)
      BY <2>4, <3>1, MovesAlone DEF PDropBegin
    <3>3. pc'[w] = "decrement"
      BY <2>4 DEF PDropBegin, DropBegin, Goto, TypeOK
    <3>4. QED
      BY <2>0, <2>4, <3>2, <3>3, OthersKeep DEF PDropBegin, InTransaction
  <2>5. CASE DropMisses(w)
    <3>1. pc'[w] = "idle"
      BY <2>5 DEF DropMisses, vars, reqVars
    <3>2. QED
      BY <2>0, <2>5, <2>a, <3>1, OthersKeep DEF DropMisses, InTransaction
  <2>6. CASE Step(w)
    <3>1. pc[w] # "idle" /\ OnlyMoves(w)
      BY <2>6, IntoTransaction, MovesAlone DEF Step
    <3>2. asked[w] = << >>
      BY <3>1
    <3>3. InTransaction(pc'[w]) => w \in conn
      BY <2>6, IntoTransaction DEF Step
    <3>4. QED
      BY <2>0, <2>6, <3>1, <3>2, <3>3, OthersKeep DEF Step, GiveBack
  <2>7. CASE TurnedAwayEarly(w)
    <3>1. EnrollStep(w)
      BY <2>7 DEF TurnedAwayEarly, EnrollStep
    <3>2. OnlyMoves(w) /\ pc[w] # "idle"
      BY <3>1, MovesAlone, IntoTransaction
    <3>3. pc'[w] = "idle"
      BY <2>7 DEF TurnedAwayEarly, TurnedAway, Finish, Goto, TypeOK
    <3>4. QED
      BY <2>0, <2>7, <3>2, <3>3, OthersKeep DEF TurnedAwayEarly, InTransaction
  <2>8. CASE PFailure(w)
    <3>1. CASE Failure(w) /\ GiveBack(w) /\ UNCHANGED asked
      <4>1. OnlyMoves(w) /\ pc[w] # "idle" /\ ~ InTransaction(pc'[w])
        BY <3>1, MovesAlone, IntoTransaction, FailureEnds
      <4>2. QED BY <2>0, <3>1, <4>1, OthersKeep DEF GiveBack
    <3>2. CASE asked[w] # << >> /\ asked' = [asked EXCEPT ![w] = << >>]
                 /\ conn' = conn \ {w} /\ UNCHANGED vars
      <4>1. pc'[w] = "idle"
        BY <3>2 DEF vars, reqVars
      <4>2. QED BY <2>0, <2>a, <3>2, <4>1, OthersKeep DEF InTransaction
    <3>3. QED BY <2>8, <3>1, <3>2 DEF PFailure
  <2>9. QED BY <2>1, <2>2, <2>3, <2>4, <2>5, <2>6, <2>7, <2>8 DEF Handle
<1>3. QED BY <1>1, <1>2

-----------------------------------------------------------------------------
\* The pool only delays: every behaviour over it is one of the handlers alone.
THEOREM PoolRefines == PSpec => Spec
<1>1. PInit => Init /\ PTypeOK
  BY DEF PInit, PTypeOK
<1>2. PTypeOK /\ [PNext]_pvars => [Next]_vars
  BY PoolStep
<1>3. TypeOK /\ PoolInv /\ [PNext]_pvars => PoolInv'
  BY NextPool
<1>4. TypeOK /\ [Next]_vars => TypeOK'
  BY NextType
<1>5. PInit => PoolInv /\ TypeOK
  BY InitPool, InitType DEF PInit
<1>6. PoolInv => PTypeOK
  BY DEF PoolInv
<1>7. QED BY <1>1, <1>2, <1>3, <1>4, <1>5, <1>6, PTL DEF PSpec, Spec

\* No handler keeps a connection while it awaits Redis, whatever fails.
THEOREM ConnectionsForPostgres == PSpec => []ConnectionsOnlyForPostgres
<1>1. PoolInv => ConnectionsOnlyForPostgres
  BY DEF PoolInv
<1>2. TypeOK /\ PoolInv /\ [PNext]_pvars => PoolInv'
  BY NextPool
<1>3. QED BY <1>1, <1>2, InitPool, PoolRefines, TypeCorrect, PTL DEF PSpec

\* No offering is oversold, whatever the size of the pool.
THEOREM NeverOversoldOverPool == PSpec => []NoOversell
  BY PoolRefines, NeverOversold, PTL

=============================================================================
