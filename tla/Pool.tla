-------------------------------- MODULE Pool --------------------------------
(***************************************************************************)
(* The write path of Enrollment run over a connection pool of bounded size *)
(* (app/core/db.py): a handler holds a connection from the moment the pool *)
(* hands it out until its connection() or transaction() block ends, also   *)
(* while it waits for a row lock another handler holds.  A handler that    *)
(* finds the pool empty waits; the pool may give up on it (PoolTimeout).   *)
(***************************************************************************)
EXTENDS Enrollment

CONSTANTS
    PoolSizes, \* the values pg_pool_max may be set to
    Seeks,     \* the rows students enroll in directly
    Swaps      \* <<row, next>>: drops (next = NoRow) and swaps that are sent

ASSUME PoolAssumption == PoolSizes \subseteq Nat \ {0}
ASSUME AskedAssumption ==
    Seeks \subseteq Rows /\ Swaps \subseteq Rows \X (Rows \cup {NoRow})

VARIABLES
    poolMax, \* pg_pool_max
    conn,    \* the handlers that hold a connection
    asked    \* per handler: the drop or swap it is to begin, or << >>

pvars == <<vars, poolMax, conn, asked>>

PTypeOK ==
    /\ poolMax \in PoolSizes
    /\ conn \subseteq Workers
    /\ asked \in [Workers -> Swaps \cup {<< >>}]

PInit ==
    /\ Init
    /\ poolMax \in PoolSizes
    /\ conn = {}
    /\ asked = [w \in Workers |-> << >>]

-----------------------------------------------------------------------------
\* The steps of a handler inside a transaction that has begun.
InTransaction(step) == step \in {"version", "cas", "commit",
                                 "decrement", "dropCommit"}

\* The handler's next step is to read or write PostgreSQL.
Needs(w) == pc[w] \in {"check", "insert"} \/ asked[w] # << >>

\* The pool hands out a connection.
Open(w) ==
    /\ Needs(w) /\ w \notin conn
    /\ Cardinality(conn) < poolMax
    /\ conn' = conn \cup {w}
    /\ UNCHANGED <<vars, asked>>

\* Mutant of GiveBack: the rules are read and the stock is moved on one
\* connection.
KeepForRedis(w) ==
    conn' = IF InTransaction(pc'[w]) \/ pc'[w] \in {"consume", "insert"}
            THEN conn ELSE conn \ {w}

\* The block of w ends when its step leaves the transaction.
GiveBack(w) == conn' = IF InTransaction(pc'[w]) THEN conn ELSE conn \ {w}

-----------------------------------------------------------------------------
\* A request arrives; the lookup of a key takes a connection and gives it
\* back at once.
PArrive(w) ==
    /\ asked[w] = << >>
    /\ \/ /\ \E r \in Seeks, k \in Keys \cup {NoKey} :
                /\ k # NoKey => Cardinality(conn) < poolMax
                /\ EnrollBegin(w, r, k)
          /\ UNCHANGED asked
       \/ /\ pc[w] = "idle"
          /\ \E q \in Swaps : asked' = [asked EXCEPT ![w] = q]
          /\ UNCHANGED vars
    /\ UNCHANGED conn

\* soft_cancel: with a connection in hand it may still wait for the row.
PDropBegin(w) ==
    /\ asked[w] # << >> /\ w \in conn
    /\ DropBegin(w, asked[w][1], asked[w][2])
    /\ asked' = [asked EXCEPT ![w] = << >>]
    /\ UNCHANGED conn

\* soft_cancel matches nothing: drop returns False, swap raises NotFound.
DropMisses(w) ==
    /\ asked[w] # << >> /\ w \in conn
    /\ RowFree(asked[w][1]) /\ status[asked[w][1]] # "enrolled"
    /\ asked' = [asked EXCEPT ![w] = << >>]
    /\ conn' = conn \ {w}
    /\ UNCHANGED vars

\* A step of enroll or drop; the ones that touch PostgreSQL need the
\* connection.
Step(w) ==
    /\ pc[w] \in {"check", "insert"} => w \in conn
    /\ EnrollStep(w) \/ DropStep(w)
    /\ GiveBack(w)
    /\ UNCHANGED asked

\* The waiting room or the pool's timeout turns a request away before its
\* rules are read.
TurnedAwayEarly(w) ==
    /\ w \notin conn
    /\ TurnedAway(w)
    /\ UNCHANGED <<conn, asked>>

\* Failures, the pool's timeout at the transaction among them (TxnError of a
\* handler that holds no connection).  The connection of a handler that died
\* is closed or reset, and replaced.
PFailure(w) ==
    \/ Failure(w) /\ GiveBack(w) /\ UNCHANGED asked
    \/ /\ asked[w] # << >>
       /\ asked' = [asked EXCEPT ![w] = << >>]
       /\ conn' = conn \ {w}
       /\ UNCHANGED vars

Handle(w) == Open(w) \/ PDropBegin(w) \/ DropMisses(w) \/ Step(w)

PNext ==
    /\ \E w \in Workers :
          PArrive(w) \/ Handle(w) \/ TurnedAwayEarly(w) \/ PFailure(w)
    /\ UNCHANGED poolMax

PSpec == PInit /\ [][PNext]_pvars

\* The event loop runs every task, and both the pool and PostgreSQL serve
\* their waiters in turn.  No timeout is counted on to end a wait.
FairPSpec == PSpec /\ \A w \in Workers : SF_pvars(Handle(w) /\ UNCHANGED poolMax)

-----------------------------------------------------------------------------
\* What must hold.

\* Inside a block with a connection no handler awaits Redis, so that nobody
\* holds up the pool for anything but PostgreSQL itself (the rule stated at
\* the head of app/core/db.py); and whoever is in a transaction has one.
ConnectionsOnlyForPostgres ==
    /\ \A w \in conn : InTransaction(pc[w]) \/ Needs(w)
    /\ \A w \in Workers : InTransaction(pc[w]) => w \in conn

\* However small the pool: handlers that wait for connections and handlers
\* that wait, with a connection in hand, for each other's rows never block
\* one another for good.
EveryRequestReturns ==
    \A w \in Workers :
        pc[w] # "idle" \/ asked[w] # << >> ~> pc[w] = "idle" /\ asked[w] = << >>

=============================================================================
