----------------------------- MODULE WaitingRoom -----------------------------
(***************************************************************************)
(* The waiting room of one offering (app/engine/waiting_room.py) and the   *)
(* gate in EnrollmentService.enroll that asks it.  Rooms of different      *)
(* offerings share nothing.                                                *)
(*                                                                         *)
(* A student who is not in the admitted set is appended to a Redis stream; *)
(* an admitting worker reads the stream through a consumer group, a batch  *)
(* at a time, and puts the students it reads into the admitted set.  Every *)
(* Redis command is a step.  Time is not modelled: a key with a TTL may    *)
(* expire at any moment.  No process of the repository runs the admitting  *)
(* worker: Admitters is empty in what main.py starts, and is not in what   *)
(* waiting_room.py describes and its tests do.                             *)
(***************************************************************************)
EXTENDS Integers, FiniteSets, Sequences

CONSTANTS
    Users,
    Serial,      \* users whose client sends one request at a time
    Handlers,    \* enroll requests served concurrently
    NoUser,
    Admitters,   \* consumers admit-0, admit-1, ... of the group; {} as started
    Rates,       \* what an administrator may set waitroom_cap_per_tick to
    PerTick,     \* what it is set to at first
    MaxEntries,  \* bound on the length of the stream
    MaxCuts      \* bound on the number of ticks that are cut short

ASSUME SerialAssumption  == Serial \subseteq Users
ASSUME NoUserAssumption  == NoUser \notin Users
ASSUME AdmittersAssumption == IsFiniteSet(Admitters)
ASSUME PerTickAssumption == Rates \subseteq Nat \ {0} /\ PerTick \in Rates

VARIABLES
    stream,     \* waitroom:<offering>: users, in the order of XADD, never trimmed
    delivered,  \* last entry the group admit has handed out; -1: no group yet
    pending,    \* entries handed out and not acknowledged
    admitted,   \* waitroom:<offering>:admitted
    ttl,        \* that key has a TTL
    marker,     \* waitroom:<offering>:enq:<user>, 0 when missing
    pc,         \* where each handler is
    user,       \* whose request it serves
    entry,      \* the entry it has added
    perTick,    \* waitroom_cap_per_tick in the settings of the admitting process
    batch,      \* what each admitter has read and not yet handled
    step,       \* what it does next
    cuts,       \* number of ticks cut short so far
    added,      \* history: entries whose user was put into the admitted set
    lost,       \* history: entries a cut tick had read and not handled
    passes      \* history: how often each user passed the gate

redis   == <<stream, delivered, pending, admitted, ttl, marker>>
handler == <<pc, user, entry>>
tick    == <<perTick, batch, step, cuts>>
history == <<added, lost, passes>>
vars    == <<redis, handler, tick, history>>

Entries == 1 .. Len(stream)

TypeOK ==
    /\ stream \in Seq(Users)
    /\ delivered \in -1 .. Len(stream)
    /\ pending \subseteq Entries
    /\ admitted \subseteq Users
    /\ ttl \in BOOLEAN
    /\ ttl => admitted # {}
    /\ marker \in [Users -> {0} \cup Entries]
    /\ \A u \in Users : marker[u] # 0 => stream[marker[u]] = u
    /\ pc \in [Handlers -> {"idle", "gate", "consume", "enqueue", "marker", "estimate"}]
    /\ user \in [Handlers -> Users \cup {NoUser}]
    /\ \A h \in Handlers : pc[h] = "idle" <=> user[h] = NoUser
    /\ entry \in [Handlers -> {0} \cup Entries]
    /\ perTick \in Rates
    /\ batch \in [Admitters -> Seq(Entries)]
    /\ step \in [Admitters -> {"create", "read", "add", "expire", "ack"}]
    /\ \A a \in Admitters : batch[a] # << >> <=> step[a] \in {"add", "expire", "ack"}
    /\ cuts \in Nat
    /\ added \subseteq Entries
    /\ lost \subseteq Entries
    /\ passes \in [Users -> Nat]

Init ==
    /\ stream = << >>
    /\ delivered = -1
    /\ pending = {}
    /\ admitted = {}
    /\ ttl = FALSE
    /\ marker = [u \in Users |-> 0]
    /\ pc = [h \in Handlers |-> "idle"]
    /\ user = [h \in Handlers |-> NoUser]
    /\ entry = [h \in Handlers |-> 0]
    /\ perTick = PerTick
    /\ batch = [a \in Admitters |-> << >>]
    /\ step = [a \in Admitters |-> "create"]
    /\ cuts = 0
    /\ added = {}
    /\ lost = {}
    /\ passes = [u \in Users |-> 0]

Goto(h, label) == pc' = [pc EXCEPT ![h] = label]

\* The request leaves the gate, or its handler dies.
Leave(h) ==
    /\ Goto(h, "idle")
    /\ user' = [user EXCEPT ![h] = NoUser]
    /\ entry' = [entry EXCEPT ![h] = 0]

At(a, label) == step' = [step EXCEPT ![a] = label]

\* A set whose last member is removed is gone, and its TTL with it.
SetAdmitted(S) ==
    /\ admitted' = S
    /\ ttl' = (ttl /\ S # {})

-----------------------------------------------------------------------------
\* The gate of enroll.

Busy(u) == \E h \in Handlers : user[h] = u

Arrive(h, u) ==
    /\ pc[h] = "idle"
    /\ u \in Serial => ~ Busy(u)
    /\ Len(stream) + Cardinality({g \in Handlers : pc[g] # "idle"}) < MaxEntries
    /\ Goto(h, "gate")
    /\ user' = [user EXCEPT ![h] = u]
    /\ UNCHANGED <<redis, entry, tick, history>>

\* is_admitted: SISMEMBER
IsAdmitted(h) ==
    /\ pc[h] = "gate"
    /\ Goto(h, IF user[h] \in admitted THEN "consume" ELSE "enqueue")
    /\ UNCHANGED <<redis, user, entry, tick, history>>

\* Mutant of ConsumeAdmission: the token is left in the set.
ReadAdmission(h) ==
    /\ pc[h] = "consume"
    /\ passes' = [passes EXCEPT ![user[h]] = @ + 1]
    /\ Leave(h)
    /\ UNCHANGED <<redis, tick, added, lost>>

\* consume_admission: SREM, whose result nobody looks at; enroll goes on to
\* the rules.
ConsumeAdmission(h) ==
    /\ pc[h] = "consume"
    /\ SetAdmitted(admitted \ {user[h]})
    /\ passes' = [passes EXCEPT ![user[h]] = @ + 1]
    /\ Leave(h)
    /\ UNCHANGED <<stream, delivered, pending, marker, tick, added, lost>>

\* enqueue, XADD: also for a user who is in the stream already.
Enqueue(h) ==
    /\ pc[h] = "enqueue"
    /\ stream' = Append(stream, user[h])
    /\ entry' = [entry EXCEPT ![h] = Len(stream) + 1]
    /\ Goto(h, "marker")
    /\ UNCHANGED <<delivered, pending, admitted, ttl, marker, user, tick, history>>

\* enqueue, SET ... EX 300
SetMarker(h) ==
    /\ pc[h] = "marker"
    /\ marker' = [marker EXCEPT ![user[h]] = entry[h]]
    /\ Goto(h, "estimate")
    /\ UNCHANGED <<stream, delivered, pending, admitted, ttl, user, entry, tick, history>>

\* enqueue, XRANGE; enroll raises Queued with the position.
Estimate(h) ==
    /\ pc[h] = "estimate"
    /\ Leave(h)
    /\ UNCHANGED <<redis, tick, history>>

HandlerDies(h) ==
    /\ pc[h] # "idle"
    /\ Leave(h)
    /\ UNCHANGED <<redis, tick, history>>

-----------------------------------------------------------------------------
\* admit_worker_tick, called in a loop.

\* XGROUP CREATE from id 0; an existing group is left as it is.
CreateGroup(a) ==
    /\ step[a] = "create"
    /\ delivered' = IF delivered = -1 THEN 0 ELSE delivered
    /\ At(a, "read")
    /\ UNCHANGED <<stream, pending, admitted, ttl, marker, handler, perTick, batch, cuts, history>>

\* The entries the group hands out next, at most perTick of them.
NextLast == IF Len(stream) < delivered + perTick THEN Len(stream)
                                                 ELSE delivered + perTick

\* Mutant of ReadGroup: XREADGROUP ... NOACK.
ReadGroupNoAck(a) ==
    /\ step[a] = "read"
    /\ delivered < Len(stream)
    /\ batch' = [batch EXCEPT ![a] = [i \in 1 .. NextLast - delivered |-> delivered + i]]
    /\ delivered' = NextLast
    /\ At(a, "add")
    /\ UNCHANGED <<stream, pending, admitted, ttl, marker, handler, perTick, cuts, history>>

\* XREADGROUP with id ">": only entries never handed out before.  (Without
\* one the tick returns 0, and the next creates the group again, in vain.)
ReadGroup(a) ==
    /\ step[a] = "read"
    /\ delivered < Len(stream)
    /\ batch' = [batch EXCEPT ![a] = [i \in 1 .. NextLast - delivered |-> delivered + i]]
    /\ pending' = pending \cup (delivered + 1 .. NextLast)
    /\ delivered' = NextLast
    /\ At(a, "add")
    /\ UNCHANGED <<stream, admitted, ttl, marker, handler, perTick, cuts, history>>

\* Mutant of Add: the batch is worked through from its end.
AddLast(a) ==
    /\ step[a] = "add"
    /\ SetAdmitted(admitted \cup {stream[batch[a][Len(batch[a])]]})
    /\ added' = added \cup {batch[a][Len(batch[a])]}
    /\ At(a, "expire")
    /\ UNCHANGED <<stream, delivered, pending, marker, handler, perTick, batch, cuts, lost, passes>>

\* SADD
Add(a) ==
    /\ step[a] = "add"
    /\ SetAdmitted(admitted \cup {stream[Head(batch[a])]})
    /\ added' = added \cup {Head(batch[a])}
    /\ At(a, "expire")
    /\ UNCHANGED <<stream, delivered, pending, marker, handler, perTick, batch, cuts, lost, passes>>

\* EXPIRE 30, of the whole set; in vain when the set is gone by now.
SetExpiry(a) ==
    /\ step[a] = "expire"
    /\ ttl' = (admitted # {})
    /\ At(a, "ack")
    /\ UNCHANGED <<stream, delivered, pending, admitted, marker, handler, perTick, batch, cuts, history>>

\* XACK
Ack(a) ==
    /\ step[a] = "ack"
    /\ pending' = pending \ {Head(batch[a])}
    /\ batch' = [batch EXCEPT ![a] = Tail(@)]
    /\ At(a, IF Len(batch[a]) = 1 THEN "create" ELSE "add")
    /\ UNCHANGED <<stream, delivered, admitted, ttl, marker, handler, perTick, cuts, history>>

\* The worker dies or a command fails.  Nobody reads pending entries again,
\* so those that were not added yet are lost.
TickCut(a) ==
    /\ batch[a] # << >>
    /\ cuts < MaxCuts
    /\ cuts' = cuts + 1
    /\ lost' = lost \cup ({batch[a][i] : i \in DOMAIN batch[a]} \ added)
    /\ batch' = [batch EXCEPT ![a] = << >>]
    /\ At(a, "create")
    /\ UNCHANGED <<redis, handler, perTick, added, passes>>

\* POST /admin/throttle, served by the process that admits (another process
\* would change settings of its own only); also in the middle of a tick.
Throttle ==
    /\ perTick' \in Rates \ {perTick}
    /\ UNCHANGED <<redis, handler, batch, step, cuts, history>>

-----------------------------------------------------------------------------
\* Redis.

\* The TTL lapses: for every admitted user at once.
AdmittedExpires ==
    /\ ttl
    /\ SetAdmitted({})
    /\ UNCHANGED <<stream, delivered, pending, marker, handler, tick, history>>

MarkerExpires(u) ==
    /\ marker[u] # 0
    /\ marker' = [marker EXCEPT ![u] = 0]
    /\ UNCHANGED <<stream, delivered, pending, admitted, ttl, handler, tick, history>>

-----------------------------------------------------------------------------
Gate(h) ==
    \/ IsAdmitted(h) \/ ConsumeAdmission(h)
    \/ Enqueue(h) \/ SetMarker(h) \/ Estimate(h)

Tick(a) == CreateGroup(a) \/ ReadGroup(a) \/ Add(a) \/ SetExpiry(a) \/ Ack(a)

Next ==
    \/ \E h \in Handlers : \/ \E u \in Users : Arrive(h, u)
                           \/ Gate(h)
                           \/ HandlerDies(h)
    \/ \E a \in Admitters : Tick(a) \/ TickCut(a)
    \/ Throttle
    \/ AdmittedExpires
    \/ \E u \in Users : MarkerExpires(u)

Spec == Init /\ [][Next]_vars

-----------------------------------------------------------------------------
\* What must hold.

EntriesOf(u) == {i \in added : stream[i] = u}

\* u can still pass on an admission: it is in the set, or a request has
\* seen it there.
Entitled(u) ==
    u \in admitted \/ \E h \in Handlers : user[h] = u /\ pc[h] = "consume"

\* An admission is a one-time token for a client that sends one request at a
\* time: such a user passes the gate no more often than entries of it were
\* admitted, however often it asks, queues, is admitted again or expires.
\* (Of two requests in flight both may pass on one, as nobody looks at what
\* SREM removed.)
OneUse ==
    \A u \in Serial :
        passes[u] + (IF Entitled(u) THEN 1 ELSE 0) <= Cardinality(EntriesOf(u))

\* First come, first served: with one admitting worker nobody is admitted
\* before everybody ahead of them is, but for those a cut tick lost.
AdmittedInOrder ==
    Cardinality(Admitters) = 1 =>
        \A j \in added : \A i \in 1 .. j - 1 : i \in added \cup lost

\* The group's pending list tells the truth about losses: an entry that was
\* handed out and is not pending has been admitted, so every admission a cut
\* tick lost can still be found there.
LostIsPending ==
    \A i \in 1 .. delivered : i \in added \/ i \in pending

=============================================================================
