------------------------------ MODULE Processes ------------------------------
(***************************************************************************)
(* The life of the api and worker processes (app/main.py): each opens its  *)
(* connection pool, brings the schema into an empty database               *)
(* (app/core/db.py), opens Redis, the HTTP client and RabbitMQ, and only   *)
(* then serves requests or schedules rounds of OutboxPublisher.  Any of    *)
(* this may fail or be killed; the container is restarted.                 *)
(***************************************************************************)
EXTENDS OutboxPublisher, Sequences

CONSTANTS
    Apis,         \* api processes; the worker processes are the Publishers
    Sent,         \* the events that requests write
    MaxRestarts   \* bound on the number of deaths and stops

ASSUME SentAssumption == Sent \subseteq Events

Procs == Apis \cup Publishers

\* What a process opens, in this order, and closes in the opposite one.
Resources == <<"pool", "redis", "http", "mq">>

\* The tables of the initial migration, the one it is recognized by apart.
Tables == {"study_plans", "others"}

VARIABLES
    life,     \* per process: where it is
    opened,   \* per process: how many of the Resources are open
    schema,   \* the tables that are committed
    restarts  \* deaths and stops so far

procVars == <<life, opened, schema, restarts>>
pvars    == <<vars, procVars>>

ProcTypeOK ==
    /\ life \in [Procs -> {"down", "start", "check", "script", "commit", "up", "stop"}]
    /\ opened \in [Procs -> 0..Len(Resources)]
    /\ schema \subseteq Tables
    /\ restarts \in Nat

\* PostgreSQL is empty, or its container ran the migration before it began
\* to listen.
ProcInit ==
    /\ Init
    /\ life = [p \in Procs |-> "down"]
    /\ opened = [p \in Procs |-> 0]
    /\ schema \in {{}, Tables}
    /\ restarts = 0

-----------------------------------------------------------------------------
Moves(p, from, to) == life[p] = from /\ life' = [life EXCEPT ![p] = to]

Launch(p) == Moves(p, "down", "start") /\ UNCHANGED <<opened, schema>>

\* The next resource.  A failure to open it is a death.
OpenNext(p) ==
    /\ opened[p] < Len(Resources)
    /\ Moves(p, "start", IF Resources[opened[p] + 1] = "pool" THEN "check" ELSE "start")
    /\ opened' = [opened EXCEPT ![p] = @ + 1]
    /\ UNCHANGED schema

\* Mutant of CheckSchema: the script is run without a look.
CheckNothing(p) == Moves(p, "check", "script") /\ UNCHANGED <<opened, schema>>

\* to_regclass('course_selection.study_plans')
CheckSchema(p) ==
    /\ Moves(p, "check", IF "study_plans" \in schema THEN "start" ELSE "script")
    /\ UNCHANGED <<opened, schema>>

\* Mutant of RunScript: each statement is a transaction of its own.
RunScriptPiecewise(p) ==
    /\ \A q \in Procs : life[q] # "commit"
    /\ schema = {}
    /\ Moves(p, "script", "commit")
    /\ schema' = {"study_plans"}
    /\ UNCHANGED opened

\* The statements of the script, in one transaction.  They wait for another
\* process that runs them, whose keys of the catalogue theirs collide with.
RunScript(p) ==
    /\ \A q \in Procs : life[q] # "commit"
    /\ schema = {}
    /\ Moves(p, "script", "commit")
    /\ UNCHANGED <<opened, schema>>

\* The tables are there by now: an error, and the process exits.
ScriptFails(p) ==
    /\ schema # {}
    /\ Moves(p, "script", "down")
    /\ opened' = [opened EXCEPT ![p] = 0]
    /\ UNCHANGED schema

CommitScript(p) ==
    /\ Moves(p, "commit", "start")
    /\ schema' = Tables
    /\ UNCHANGED opened

\* All is open: requests are served, the scheduler is started.
Serve(p) ==
    /\ opened[p] = Len(Resources)
    /\ Moves(p, "start", "up")
    /\ UNCHANGED <<opened, schema>>

\* _shutdown, one resource after the other.
CloseNext(p) ==
    /\ opened[p] > 0
    /\ Moves(p, "stop", IF opened[p] = 1 THEN "down" ELSE "stop")
    /\ opened' = [opened EXCEPT ![p] = @ - 1]
    /\ UNCHANGED schema

Lifecycle(p) ==
    /\ \/ Launch(p) \/ OpenNext(p)
       \/ CheckSchema(p) \/ RunScript(p) \/ ScriptFails(p) \/ CommitScript(p)
       \/ Serve(p) \/ CloseNext(p)
    /\ UNCHANGED <<vars, restarts>>

-----------------------------------------------------------------------------
\* The round a process is in ends with it.
EndsRound(p) ==
    /\ restarts < MaxRestarts
    /\ restarts' = restarts + 1
    /\ IF p \in Publishers /\ pc[p] # "idle" THEN RoundCut(p) ELSE UNCHANGED vars

\* An orderly end: uvicorn has answered its requests, the scheduler cancels
\* the round.
Stop(p) ==
    /\ Moves(p, "up", "stop")
    /\ EndsRound(p)
    /\ UNCHANGED <<opened, schema>>

\* A resource that does not open or close, a kill, an exception.
Die(p) ==
    /\ life[p] # "down"
    /\ life' = [life EXCEPT ![p] = "down"]
    /\ opened' = [opened EXCEPT ![p] = 0]
    /\ EndsRound(p)
    /\ UNCHANGED schema

\* An api process writes an event with a seat.
Write == (\E a \in Apis : life[a] = "up") /\ (\E e \in Sent : Emit(e)) /\ UNCHANGED procVars

\* The scheduler runs a round.
Work(p) == life[p] = "up" /\ (Round(p) \/ RoundCut(p)) /\ UNCHANGED procVars

ProcNext ==
    \/ \E p \in Procs : Lifecycle(p) \/ Stop(p) \/ Die(p)
    \/ \E p \in Publishers : Work(p)
    \/ Write

ProcSpec == ProcInit /\ [][ProcNext]_pvars

\* Containers are restarted and their processes run; PostgreSQL lets one of
\* those that wait for it go on.  Nothing is asked of the broker.
FairProcSpec ==
    /\ ProcSpec
    /\ \A p \in Procs : WF_pvars(Lifecycle(p))
    /\ \A p \in Publishers : WF_pvars(life[p] = "up" /\ Round(p) /\ UNCHANGED procVars)

-----------------------------------------------------------------------------
\* What must hold.

\* Nobody serves requests or publishes on half a schema: the one table that
\* is looked for stands for all, however often a process died on the way.
UpOnWholeSchema == \A p \in Procs : life[p] = "up" => schema = Tables

\* A process that is launched comes up, also when others start at the same
\* time on the same empty database and one of them loses.
EveryProcessComesUp == \A p \in Procs : life[p] = "down" ~> life[p] = "up"

=============================================================================
