-------------------------- MODULE OutboxPublisher --------------------------
(***************************************************************************)
(* The delivery of the outbox to RabbitMQ: publish_pending                 *)
(* (app/tasks/publish_outbox.py) over the rows of outbox_events            *)
(* (app/repositories/outbox_repo.py) and the confirmed publish of          *)
(* app/core/mq.py.  The transactions of Enrollment write the rows; here    *)
(* each aggregate (an enrollment) has its two events, created then         *)
(* canceled.                                                               *)
(*                                                                         *)
(* The scheduler of one worker process runs one round at a time; two       *)
(* publishers are two worker processes.                                    *)
(***************************************************************************)
EXTENDS Integers, FiniteSets

CONSTANTS
    Aggregates,
    Publishers,
    NoEvent,
    Batch,        \* LIMIT of the fetch
    MaxDeaths     \* bound on the number of rounds cut short

\* <<a, 1>> tells that a was created, <<a, 2>> that it was canceled.
Events == Aggregates \X {1, 2}

ASSUME NoEventAssumption == NoEvent \notin Events
ASSUME BatchAssumption   == Batch \in Nat \ {0}
ASSUME FiniteAssumption  == IsFiniteSet(Aggregates)

VARIABLES
    evStatus,   \* outbox_events.status, "none" before the INSERT
    createdAt,  \* rank of created_at among the rows, 0 before the INSERT
    accepted,   \* how often the broker accepted the event
    pc,         \* where the round of each publisher is
    todo,       \* events fetched and not yet tried
    current,    \* the event being published
    deaths      \* rounds cut short so far

tableVars == <<evStatus, createdAt>>
roundVars == <<pc, todo, current>>
vars      == <<tableVars, accepted, roundVars, deaths>>

TypeOK ==
    /\ evStatus \in [Events -> {"none", "pending", "published", "dead"}]
    /\ createdAt \in [Events -> Nat]
    /\ accepted \in [Events -> Nat]
    /\ pc \in [Publishers -> {"idle", "fetching", "next", "mark", "bury"}]
    /\ todo \in [Publishers -> SUBSET Events]
    /\ current \in [Publishers -> Events \cup {NoEvent}]
    /\ \A p \in Publishers : pc[p] \in {"mark", "bury"} => current[p] \in Events
    /\ deaths \in Nat

Init ==
    /\ evStatus = [e \in Events |-> "none"]
    /\ createdAt = [e \in Events |-> 0]
    /\ accepted = [e \in Events |-> 0]
    /\ pc = [p \in Publishers |-> "idle"]
    /\ todo = [p \in Publishers |-> {}]
    /\ current = [p \in Publishers |-> NoEvent]
    /\ deaths = 0

-----------------------------------------------------------------------------
Written == {e \in Events : evStatus[e] # "none"}

\* A transaction of the write path commits with its event; created_at is when
\* it began, so it may come before some that are written already.  A row is
\* canceled only by a client that was told its id, after it was created.
Emit(e) ==
    /\ evStatus[e] = "none"
    /\ evStatus' = [evStatus EXCEPT ![e] = "pending"]
    /\ \E t \in 1..Cardinality(Written) + 1 :
          /\ e[2] = 2 => evStatus[<<e[1], 1>>] # "none" /\ createdAt[<<e[1], 1>>] < t
          /\ createdAt' = [f \in Events |->
                              CASE f = e -> t
                                [] f # e /\ createdAt[f] < t -> createdAt[f]
                                [] f # e /\ createdAt[f] >= t -> createdAt[f] + 1]
    /\ UNCHANGED <<accepted, roundVars, deaths>>

\* FOR UPDATE: the rows a fetch has locked, until its connection is returned.
Locked == {e \in Events : \E p \in Publishers : pc[p] = "fetching" /\ e \in todo[p]}

\* SKIP LOCKED
Available == {e \in Events : evStatus[e] = "pending"} \ Locked

\* Mutant of OldestOf: no ORDER BY.
AnyOf(S, T) ==
    /\ S \subseteq T
    /\ IF Cardinality(T) <= Batch THEN S = T ELSE Cardinality(S) = Batch

\* ORDER BY created_at LIMIT Batch
OldestOf(S, T) ==
    /\ S \subseteq T
    /\ \A e \in S, f \in T \ S : createdAt[e] < createdAt[f]
    /\ IF Cardinality(T) <= Batch THEN S = T ELSE Cardinality(S) = Batch

Fetch(p) ==
    /\ pc[p] = "idle"
    /\ Available # {}
    /\ \E S \in SUBSET Available :
           /\ OldestOf(S, Available)
           /\ todo' = [todo EXCEPT ![p] = S]
    /\ pc' = [pc EXCEPT ![p] = "fetching"]
    /\ UNCHANGED <<tableVars, accepted, current, deaths>>

\* The connection goes back to the pool, and the row locks with it, before
\* the first event is published.
Fetched(p) ==
    /\ pc[p] = "fetching"
    /\ pc' = [pc EXCEPT ![p] = "next"]
    /\ UNCHANGED <<tableVars, accepted, todo, current, deaths>>

-----------------------------------------------------------------------------
\* The next event in the order of the fetch.
IsNext(p, e) ==
    /\ pc[p] = "next" /\ e \in todo[p]
    /\ \A f \in todo[p] : createdAt[e] <= createdAt[f]

Try(p, e, step) ==
    /\ IsNext(p, e)
    /\ todo' = [todo EXCEPT ![p] = @ \ {e}]
    /\ current' = [current EXCEPT ![p] = e]
    /\ pc' = [pc EXCEPT ![p] = step]
    /\ UNCHANGED <<tableVars, deaths>>

Accept(e) == accepted' = [accepted EXCEPT ![e] = @ + 1]

\* Mutant of PublishConfirmed: fire and forget, whatever the broker does.
PublishUnchecked(p, e) == Try(p, e, "mark") /\ (Accept(e) \/ UNCHANGED accepted)

\* The broker takes the message and the confirm arrives.
PublishConfirmed(p, e) == Try(p, e, "mark") /\ Accept(e)

\* The broker takes the message but the confirm is lost: an exception.
PublishUnconfirmed(p, e) == Try(p, e, "bury") /\ Accept(e)

\* The broker is not reached: an exception.
PublishRefused(p, e) == Try(p, e, "bury") /\ UNCHANGED accepted

\* Mutant of Settle: marking does not commit.
SettleNothing(p, st) ==
    /\ current' = [current EXCEPT ![p] = NoEvent]
    /\ pc' = [pc EXCEPT ![p] = "next"]
    /\ UNCHANGED <<tableVars, accepted, todo, deaths>>

Settle(p, st) ==
    /\ evStatus' = [evStatus EXCEPT ![current[p]] = st]
    /\ current' = [current EXCEPT ![p] = NoEvent]
    /\ pc' = [pc EXCEPT ![p] = "next"]
    /\ UNCHANGED <<createdAt, accepted, todo, deaths>>

MarkPublished(p) == pc[p] = "mark" /\ Settle(p, "published")

\* mark_published raises: inside the same try block, so the event is buried.
MarkFails(p) ==
    /\ pc[p] = "mark"
    /\ pc' = [pc EXCEPT ![p] = "bury"]
    /\ UNCHANGED <<tableVars, accepted, todo, current, deaths>>

MarkDead(p) == pc[p] = "bury" /\ Settle(p, "dead")

\* Mutant of Done: the round waits for more events instead of returning.
Lingers(p) ==
    /\ pc[p] = "next" /\ todo[p] = {}
    /\ UNCHANGED vars

Done(p) ==
    /\ pc[p] = "next" /\ todo[p] = {}
    /\ pc' = [pc EXCEPT ![p] = "idle"]
    /\ UNCHANGED <<tableVars, accepted, todo, current, deaths>>

\* The process dies, or mark_dead raises: the rest of the batch is left for
\* a later round.
RoundCut(p) ==
    /\ pc[p] # "idle"
    /\ deaths < MaxDeaths
    /\ deaths' = deaths + 1
    /\ pc' = [pc EXCEPT ![p] = "idle"]
    /\ todo' = [todo EXCEPT ![p] = {}]
    /\ current' = [current EXCEPT ![p] = NoEvent]
    /\ UNCHANGED <<tableVars, accepted>>

-----------------------------------------------------------------------------
Publish(p) ==
    \E e \in Events :
        \/ PublishConfirmed(p, e)
        \/ PublishUnconfirmed(p, e)
        \/ PublishRefused(p, e)

Round(p) ==
    \/ Fetch(p) \/ Fetched(p)
    \/ Publish(p)
    \/ MarkPublished(p) \/ MarkFails(p) \/ MarkDead(p)
    \/ Done(p)

Next ==
    \/ \E e \in Events : Emit(e)
    \/ \E p \in Publishers : Round(p) \/ RoundCut(p)

Spec == Init /\ [][Next]_vars

\* The scheduler starts a round every two seconds and runs it to its end.  A
\* broker that is asked again and again accepts some time.
FairSpec ==
    /\ Spec
    /\ \A p \in Publishers : WF_vars(Round(p))
    /\ \A p \in Publishers, e \in Events : SF_vars(PublishConfirmed(p, e))

-----------------------------------------------------------------------------
\* What must hold.

\* An event marked published was accepted by the broker: neither a lost
\* confirm, a failed mark nor a round cut short loses it silently.
PublishedWasAccepted ==
    \A e \in Events : evStatus[e] = "published" => accepted[e] > 0

\* With one publisher the broker gets the events of an aggregate in the order
\* they were written, but for a first one that was buried: no batch limit,
\* failure or restart lets canceled overtake created.
AcceptedInOrder ==
    \A a \in Aggregates :
        accepted[<<a, 2>>] > 0
            => accepted[<<a, 1>>] > 0 \/ evStatus[<<a, 1>>] = "dead"

\* With one publisher a consumer sees an event twice only if a round was cut
\* short between the publish and the mark.
DuplicatesNeedDeaths == \A e \in Events : accepted[e] <= 1 + deaths

\* Every event that was written leaves the table of pending rows: published
\* or buried, it is not retried for ever and never starved by the others.
EveryEventSettles ==
    \A e \in Events : evStatus[e] = "pending" ~> evStatus[e] \in {"published", "dead"}

-----------------------------------------------------------------------------
\* What documents and comments say and the code does not do.

\* Delivery is at least once (docs/接口契约-跨组对外.md), a failed delivery is
\* marked dead and retried later (app/tasks/publish_outbox.py).  Nothing ever
\* selects a dead row again.
AtLeastOnce == \A e \in Events : evStatus[e] = "pending" ~> accepted[e] > 0

=============================================================================
