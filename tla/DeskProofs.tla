----------------------------- MODULE DeskProofs -----------------------------
(***************************************************************************)
(* Proofs about Desk: the slots of the language model are accounted for    *)
(* however streams end; what accept tells of seats is true, and is told    *)
(* once; whoever looks something up finds it; a walk over the pages of the *)
(* catalogue misses nothing.  For any number of students, offerings,       *)
(* handlers, recommendations, slots and rows a page.                       *)
(***************************************************************************)
EXTENDS Desk, FiniteSetTheorems, SequenceTheorems, FunctionTheorems, TLAPS

-----------------------------------------------------------------------------
(***************************************************************************)
(* Sequences.                                                              *)
(***************************************************************************)

NoRepeats(s) == \A i, j \in DOMAIN s : s[i] = s[j] => i = j

LEMMA RemoveAtProperties ==
  ASSUME NEW S, NEW s \in Seq(S), NEW i \in DOMAIN s
  PROVE  /\ RemoveAt(s, i) \in Seq(S)
         /\ Len(RemoveAt(s, i)) = Len(s) - 1
         /\ \A j \in 1 .. Len(s) - 1 :
               RemoveAt(s, i)[j] = IF j < i THEN s[j] ELSE s[j + 1]
<1>1. Len(s) \in Nat /\ i \in 1..Len(s)
  BY LenProperties
<1> DEFINE a == SubSeq(s, 1, i - 1)
           b == SubSeq(s, i + 1, Len(s))
<1>2. /\ a \in Seq(S) /\ Len(a) = i - 1
      /\ \A j \in 1 .. i - 1 : a[j] = s[j]
  BY <1>1, SubSeqProperties, ElementOfSeq
<1>3. /\ b \in Seq(S) /\ Len(b) = Len(s) - i
      /\ \A j \in 1 .. Len(s) - i : b[j] = s[i + j]
  BY <1>1, SubSeqProperties, ElementOfSeq
<1> DEFINE c == a \o b
<1>4. RemoveAt(s, i) = c
  BY DEF RemoveAt
<1>5. /\ c \in Seq(S) /\ Len(c) = Len(a) + Len(b)
      /\ \A j \in 1 .. Len(a) + Len(b) :
            c[j] = IF j <= Len(a) THEN a[j] ELSE b[j - Len(a)]
  <2> HIDE DEF a, b
  <2>1. QED BY <1>2, <1>3, ConcatProperties
<1> HIDE DEF a, b, c
<1>6. /\ c \in Seq(S) /\ Len(c) = Len(s) - 1
      /\ \A j \in 1 .. Len(s) - 1 :
            c[j] = IF j <= i - 1 THEN a[j] ELSE b[j - (i - 1)]
  <2>1. Len(a) = i - 1 /\ Len(a) + Len(b) = Len(s) - 1
    BY <1>1, <1>2, <1>3
  <2>2. Len(c) = Len(s) - 1
    BY <1>5, <2>1
  <2>3. ASSUME NEW j \in 1 .. Len(s) - 1
        PROVE  c[j] = IF j <= i - 1 THEN a[j] ELSE b[j - (i - 1)]
    BY <1>5, <2>1
  <2>4. QED BY <1>5, <2>2, <2>3
<1>7. ASSUME NEW j \in 1 .. Len(s) - 1
      PROVE  c[j] = IF j < i THEN s[j] ELSE s[j + 1]
  <2>1. CASE j < i
    BY <1>1, <1>2, <1>6, <2>1
  <2>2. CASE j >= i
    <3>1. j - (i - 1) \in 1 .. Len(s) - i /\ i + (j - (i - 1)) = j + 1
      BY <1>1, <2>2
    <3>2. c[j] = b[j - (i - 1)]
      BY <1>1, <1>6, <2>2
    <3>3. b[j - (i - 1)] = s[i + (j - (i - 1))]
      BY <1>3, <3>1
    <3>4. QED BY <1>1, <2>2, <3>1, <3>2, <3>3
  <2>3. QED BY <1>1, <2>1, <2>2
<1>8. QED
  BY <1>4, <1>6, <1>7

\* A sequence without repetitions is as long as the set of what is in it.
LEMMA LengthIsCardinality ==
  ASSUME NEW S, NEW s \in Seq(S), NoRepeats(s),
         NEW T, \A i \in DOMAIN s : s[i] \in T,
         \A t \in T : \E i \in DOMAIN s : s[i] = t
  PROVE  Len(s) = Cardinality(T)
<1>1. Len(s) \in Nat /\ s \in [1..Len(s) -> S] /\ DOMAIN s = 1..Len(s)
  BY LenProperties
<1>2. s \in [1..Len(s) -> T]
  BY <1>1
<1>3. s \in Bijection(1..Len(s), T)
  BY <1>1, <1>2 DEF NoRepeats, Bijection, Injection, Surjection, IsInjective
<1>4. ExistsBijection(1..Len(s), T)
  BY <1>3 DEF ExistsBijection
<1>5. QED BY <1>1, <1>4, FS_CountingElements

-----------------------------------------------------------------------------
(***************************************************************************)
(* The slots of the language model.                                        *)
(***************************************************************************)

Holding == {h \in Handlers : stream[h] \in {"streaming", "auditing"}}

LlmType ==
    /\ stream \in [Handlers -> {"idle", "waiting", "streaming", "auditing"}]
    /\ queue \in Seq(Handlers)
    /\ free \in Nat /\ abandoned \in Nat

\* The queue holds everyone who waits, once, and nobody else.
QueueInv ==
    /\ NoRepeats(queue)
    /\ \A i \in DOMAIN queue : stream[queue[i]] = "waiting"
    /\ \A h \in Handlers :
          stream[h] = "waiting" => \E i \in DOMAIN queue : queue[i] = h

SlotInv ==
    /\ LlmType /\ QueueInv
    /\ free + abandoned + Cardinality(Holding) = MaxConcurrency

LEMMA InitSlots == Init => SlotInv
<1> SUFFICES ASSUME Init PROVE SlotInv
  OBVIOUS
<1>1. LlmType
  BY SlotsAssumption, EmptySeq DEF Init, AdvisorInit, StreamInit, LlmType
<1>2. QueueInv
  BY DEF Init, AdvisorInit, StreamInit, QueueInv, NoRepeats
<1>3. Holding = {}
  BY DEF Init, AdvisorInit, StreamInit, Holding
<1>4. QED
  BY <1>1, <1>2, <1>3, FS_EmptySet, SlotsAssumption
     DEF Init, AdvisorInit, StreamInit, SlotInv

\* A slot changes hands with a handler that enters or leaves Holding.
LEMMA Moves ==
  ASSUME SlotInv, NEW h \in Handlers,
         NEW state \in {"idle", "waiting", "streaming", "auditing"},
         Turns(h, state)
  PROVE  /\ stream' \in [Handlers -> {"idle", "waiting", "streaming", "auditing"}]
         /\ stream'[h] = state
         /\ \A g \in Handlers \ {h} : stream'[g] = stream[g]
         /\ state \in {"streaming", "auditing"} => Holding' = Holding \cup {h}
         /\ state \notin {"streaming", "auditing"} => Holding' = Holding \ {h}
         /\ Cardinality(Holding) \in Nat
         /\ Cardinality(Holding \cup {h}) =
               IF h \in Holding THEN Cardinality(Holding) ELSE Cardinality(Holding) + 1
         /\ Cardinality(Holding \ {h}) =
               IF h \in Holding THEN Cardinality(Holding) - 1 ELSE Cardinality(Holding)
<1>1. /\ stream' \in [Handlers -> {"idle", "waiting", "streaming", "auditing"}]
      /\ stream'[h] = state
      /\ \A g \in Handlers \ {h} : stream'[g] = stream[g]
  BY DEF Turns, SlotInv, LlmType
<1>2. /\ state \in {"streaming", "auditing"} => Holding' = Holding \cup {h}
      /\ state \notin {"streaming", "auditing"} => Holding' = Holding \ {h}
  BY <1>1 DEF Holding
<1>3. IsFiniteSet(Holding)
  BY SlotsAssumption, FS_Subset DEF Holding
<1>4. QED
  BY <1>1, <1>2, <1>3, FS_CardinalityType, FS_AddElement, FS_RemoveElement

\* A step that leaves the queue alone, of a handler that is not in it.
LEMMA QueueStays ==
  ASSUME SlotInv, NEW h \in Handlers, NEW state \in {"idle", "streaming", "auditing"},
         Turns(h, state), stream[h] # "waiting", UNCHANGED queue
  PROVE  QueueInv'
<1>1. stream'[h] = state /\ \A g \in Handlers \ {h} : stream'[g] = stream[g]
  BY Moves
<1>2. \A i \in DOMAIN queue : queue[i] \in Handlers
  BY LenProperties, ElementOfSeq DEF SlotInv, LlmType
<1>3. QED BY <1>1, <1>2 DEF SlotInv, QueueInv, NoRepeats

LEMMA AskKeeps ==
  ASSUME SlotInv, NEW h \in Handlers, Ask(h)
  PROVE  SlotInv'
<1>0. free \in Nat /\ abandoned \in Nat /\ MaxConcurrency \in Nat
  BY SlotsAssumption DEF SlotInv, LlmType
<1>1. CASE free > 0 /\ queue = << >>
  <2>1. /\ Turns(h, "streaming") /\ free' = free - 1
        /\ UNCHANGED <<queue, abandoned>>
        /\ h \notin Holding
    BY <1>1 DEF Ask, Holding
  <2>2. Holding' = Holding \cup {h} /\ Cardinality(Holding') = Cardinality(Holding) + 1
        /\ Cardinality(Holding) \in Nat
    BY <2>1, Moves
  <2>3. LlmType'
    <3>1. stream' \in [Handlers -> {"idle", "waiting", "streaming", "auditing"}]
      BY <2>1, Moves
    <3>2. free' \in Nat
      BY <1>0, <1>1, <2>1
    <3>3. QED BY <2>1, <3>1, <3>2 DEF SlotInv, LlmType
  <2>4. QueueInv'
    BY <2>1, QueueStays DEF Ask
  <2>5. QED BY <1>0, <2>1, <2>2, <2>3, <2>4 DEF SlotInv
<1>2. CASE ~ (free > 0 /\ queue = << >>)
  <2>1. /\ Turns(h, "waiting") /\ queue' = Append(queue, h)
        /\ UNCHANGED <<free, abandoned>>
        /\ h \notin Holding /\ stream[h] = "idle"
    BY <1>2 DEF Ask, Holding
  <2>2. Holding' = Holding \ {h} /\ Cardinality(Holding') = Cardinality(Holding)
    BY <2>1, Moves
  <2>3. /\ queue' \in Seq(Handlers) /\ Len(queue') = Len(queue) + 1
        /\ \A i \in 1..Len(queue) : queue'[i] = queue[i]
        /\ queue'[Len(queue) + 1] = h
    BY <2>1, AppendProperties DEF SlotInv, LlmType
  <2>4. /\ Len(queue) \in Nat /\ DOMAIN queue = 1..Len(queue)
        /\ DOMAIN queue' = 1..Len(queue) + 1
    BY <2>3, LenProperties DEF SlotInv, LlmType
  <2>5. LlmType'
    BY <2>1, <2>3, Moves DEF SlotInv, LlmType
  <2>6. \A i \in 1..Len(queue) : queue[i] # h /\ queue[i] \in Handlers
    BY <2>1, <2>4, ElementOfSeq DEF SlotInv, QueueInv, LlmType
  <2>7. stream'[h] = "waiting" /\ \A g \in Handlers \ {h} : stream'[g] = stream[g]
    BY <2>1, Moves
  <2>8. QueueInv'
    <3>1. NoRepeats(queue')
      BY <2>3, <2>4, <2>6 DEF SlotInv, QueueInv, NoRepeats
    <3>2. \A i \in DOMAIN queue' : stream'[queue'[i]] = "waiting"
      BY <2>3, <2>4, <2>6, <2>7 DEF SlotInv, QueueInv
    <3>3. ASSUME NEW g \in Handlers, stream'[g] = "waiting"
          PROVE  \E i \in DOMAIN queue' : queue'[i] = g
      <4>1. CASE g = h
        BY <2>3, <2>4, <4>1
      <4>2. CASE g # h
        <5>1. PICK i \in DOMAIN queue : queue[i] = g
          BY <2>7, <3>3, <4>2 DEF SlotInv, QueueInv
        <5>2. QED BY <2>3, <2>4, <5>1
      <4>3. QED BY <4>1, <4>2
    <3>4. QED BY <3>1, <3>2, <3>3 DEF QueueInv
  <2>9. QED BY <2>1, <2>2, <2>5, <2>8 DEF SlotInv
<1>3. QED BY <1>1, <1>2

\* One waiter leaves the queue, wherever it stands.
LEMMA QueueLess ==
  ASSUME SlotInv, NEW h \in Handlers, NEW state \in {"idle", "streaming"},
         Turns(h, state), NEW k \in DOMAIN queue, queue[k] = h,
         queue' \in Seq(Handlers), Len(queue') = Len(queue) - 1,
         \A j \in 1 .. Len(queue) - 1 :
            queue'[j] = IF j < k THEN queue[j] ELSE queue[j + 1]
  PROVE  QueueInv'
<1>1. /\ Len(queue) \in Nat /\ DOMAIN queue = 1..Len(queue)
      /\ DOMAIN queue' = 1..Len(queue) - 1 /\ k \in 1..Len(queue)
  BY LenProperties DEF SlotInv, LlmType
<1>2. stream'[h] = state /\ \A g \in Handlers \ {h} : stream'[g] = stream[g]
  BY Moves
<1>3. \A i \in 1..Len(queue) : queue[i] \in Handlers /\ (queue[i] = h => i = k)
  BY <1>1, ElementOfSeq DEF SlotInv, LlmType, QueueInv, NoRepeats
<1>4. NoRepeats(queue')
  <2>1. SUFFICES ASSUME NEW i \in 1 .. Len(queue) - 1, NEW j \in 1 .. Len(queue) - 1,
                        queue'[i] = queue'[j]
                 PROVE  i = j
    BY <1>1 DEF NoRepeats
  <2> DEFINE At(n) == IF n < k THEN n ELSE n + 1
  <2>2. queue[At(i)] = queue[At(j)] /\ At(i) \in DOMAIN queue /\ At(j) \in DOMAIN queue
    BY <1>1, <2>1
  <2>3. At(i) = At(j)
    BY <2>2 DEF SlotInv, QueueInv, NoRepeats
  <2>4. QED BY <1>1, <2>3
<1>5. ASSUME NEW i \in DOMAIN queue'
      PROVE  stream'[queue'[i]] = "waiting"
  <2>1. PICK j \in DOMAIN queue : queue'[i] = queue[j] /\ j # k
    BY <1>1
  <2>2. queue[j] # h /\ queue[j] \in Handlers
    BY <1>1, <1>3, <2>1
  <2>3. QED BY <1>2, <2>1, <2>2 DEF SlotInv, QueueInv
<1>6. ASSUME NEW g \in Handlers, stream'[g] = "waiting"
      PROVE  \E i \in DOMAIN queue' : queue'[i] = g
  <2>1. g # h /\ stream[g] = "waiting"
    BY <1>2, <1>6
  <2>2. PICK j \in DOMAIN queue : queue[j] = g /\ j # k
    BY <2>1 DEF SlotInv, QueueInv
  <2>3. CASE j < k
    <3>1. j \in 1 .. Len(queue) - 1 /\ queue'[j] = g
      BY <1>1, <2>2, <2>3
    <3>2. QED BY <1>1, <3>1
  <2>4. CASE j > k
    <3>1. j - 1 \in 1 .. Len(queue) - 1 /\ ~ (j - 1 < k) /\ (j - 1) + 1 = j
      BY <1>1, <2>2, <2>4
    <3>2. queue'[j - 1] = g
      BY <2>2, <3>1
    <3>3. QED BY <1>1, <3>1, <3>2
  <2>5. QED BY <1>1, <2>2, <2>3, <2>4
<1>7. QED BY <1>4, <1>5, <1>6 DEF QueueInv

LEMMA GrantKeeps ==
  ASSUME SlotInv, NEW h \in Handlers, Grant(h)
  PROVE  SlotInv'
<1>0. free \in Nat /\ abandoned \in Nat /\ MaxConcurrency \in Nat
  BY SlotsAssumption DEF SlotInv, LlmType
<1>1. /\ queue # << >> /\ h = Head(queue) /\ free > 0 /\ queue' = Tail(queue)
      /\ Turns(h, "streaming") /\ free' = free - 1 /\ UNCHANGED abandoned
  BY DEF Grant
<1>2. queue \in Seq(Handlers) /\ Len(queue) \in Nat \ {0} /\ DOMAIN queue = 1..Len(queue)
  BY <1>1, EmptySeq, LenProperties DEF SlotInv, LlmType
<1>3. /\ queue' \in Seq(Handlers) /\ Len(queue') = Len(queue) - 1
      /\ \A i \in 1 .. Len(queue) - 1 : queue'[i] = queue[i + 1]
      /\ queue[1] = h
  BY <1>1, <1>2, HeadTailProperties
<1>4. QueueInv'
  <2>1. 1 \in DOMAIN queue
    BY <1>2
  <2>2. \A j \in 1 .. Len(queue) - 1 :
           queue'[j] = IF j < 1 THEN queue[j] ELSE queue[j + 1]
    BY <1>2, <1>3
  <2>3. QED BY <1>1, <1>3, <2>1, <2>2, QueueLess
<1>5. h \notin Holding
  BY <1>2, <1>3 DEF SlotInv, QueueInv, Holding
<1>6. /\ Cardinality(Holding') = Cardinality(Holding) + 1
      /\ Cardinality(Holding) \in Nat
  BY <1>1, <1>5, Moves
<1>7. LlmType'
  <2>1. stream' \in [Handlers -> {"idle", "waiting", "streaming", "auditing"}]
    BY <1>1, Moves
  <2>2. free' \in Nat
    BY <1>0, <1>1
  <2>3. QED BY <1>1, <1>3, <2>1, <2>2 DEF SlotInv, LlmType
<1>8. QED BY <1>0, <1>1, <1>4, <1>6, <1>7 DEF SlotInv

LEMMA LeavesKeeps ==
  ASSUME SlotInv, NEW h \in Handlers, Leaves(h)
  PROVE  SlotInv'
<1>1. PICK k \in DOMAIN queue : queue[k] = h /\ queue' = RemoveAt(queue, k)
  BY DEF Leaves
<1>2. /\ Turns(h, "idle") /\ UNCHANGED <<free, abandoned>>
      /\ h \notin Holding
  BY DEF Leaves, Holding
<1>3. /\ queue' \in Seq(Handlers) /\ Len(queue') = Len(queue) - 1
      /\ \A j \in 1 .. Len(queue) - 1 :
            queue'[j] = IF j < k THEN queue[j] ELSE queue[j + 1]
  BY <1>1, RemoveAtProperties DEF SlotInv, LlmType
<1>4. QueueInv'
  BY <1>1, <1>2, <1>3, QueueLess
<1>5. Cardinality(Holding') = Cardinality(Holding)
  BY <1>2, Moves
<1>6. LlmType'
  BY <1>2, <1>3, Moves DEF SlotInv, LlmType
<1>7. QED BY <1>2, <1>4, <1>5, <1>6 DEF SlotInv

\* The ways a stream ends or goes on.
LEMMA StreamKeeps ==
  ASSUME SlotInv, NEW h \in Handlers,
         Ends(h) \/ BreaksOff(h) \/ Refuses(h) \/ RecordGuardrail(h)
  PROVE  SlotInv'
<1>0. free \in Nat /\ abandoned \in Nat /\ MaxConcurrency \in Nat
  BY SlotsAssumption DEF SlotInv, LlmType
<1>1. h \in Holding /\ stream[h] # "waiting" /\ UNCHANGED queue
  BY DEF Ends, BreaksOff, Refuses, RecordGuardrail, Holding
<1>2. CASE Refuses(h)
  <2>1. Turns(h, "auditing") /\ UNCHANGED <<free, abandoned>>
    BY <1>2 DEF Refuses
  <2>2. Cardinality(Holding') = Cardinality(Holding)
    BY <1>1, <2>1, Moves
  <2>3. QueueInv' /\ LlmType'
    BY <1>1, <2>1, QueueStays, Moves DEF SlotInv, LlmType
  <2>4. QED BY <2>1, <2>2, <2>3 DEF SlotInv
<1>3. CASE ~ Refuses(h)
  <2>1. /\ Turns(h, "idle")
        /\ \/ free' = free + 1 /\ abandoned' = abandoned
           \/ free' = free /\ abandoned' = abandoned + 1
    BY <1>3 DEF Ends, BreaksOff, RecordGuardrail
  <2>2. /\ Cardinality(Holding') = Cardinality(Holding) - 1
        /\ Cardinality(Holding) \in Nat
    BY <1>1, <2>1, Moves
  <2>3. QueueInv'
    BY <1>1, <2>1, QueueStays
  <2>a. LlmType'
    <3>1. stream' \in [Handlers -> {"idle", "waiting", "streaming", "auditing"}]
      BY <2>1, Moves
    <3>2. free' \in Nat /\ abandoned' \in Nat
      BY <1>0, <2>1
    <3>3. QED BY <1>1, <3>1, <3>2 DEF SlotInv, LlmType
  <2>4. QED BY <1>0, <2>1, <2>2, <2>3, <2>a DEF SlotInv
<1>4. QED BY <1>2, <1>3

LEMMA NextSlots ==
  ASSUME SlotInv, [Next]_dvars
  PROVE  SlotInv'
<1>1. CASE UNCHANGED llm
  BY <1>1 DEF llm, SlotInv, LlmType, QueueInv, Holding
<1>2. CASE Closes
  <2>1. /\ UNCHANGED <<stream, queue>> /\ abandoned > 0
        /\ abandoned' = abandoned - 1 /\ free' = free + 1
    BY <1>2 DEF Closes, Finalize
  <2>2. LlmType' /\ QueueInv' /\ Holding' = Holding
    BY <2>1 DEF SlotInv, LlmType, QueueInv, Holding
  <2>3. IsFiniteSet(Holding)
    BY SlotsAssumption, FS_Subset DEF Holding
  <2>4. Cardinality(Holding) \in Nat /\ MaxConcurrency \in Nat
    BY <2>3, FS_CardinalityType, SlotsAssumption
  <2>5. free' + abandoned' = free + abandoned
    BY <2>1 DEF SlotInv, LlmType
  <2>6. QED BY <2>2, <2>5 DEF SlotInv
<1>3. ASSUME NEW h \in Handlers, Converses(h)
      PROVE  SlotInv'
  BY <1>3, AskKeeps, GrantKeeps, LeavesKeeps, StreamKeeps DEF Converses
<1>4. CASE Refresh \/ Others \/ UNCHANGED dvars \/ \E h \in Handlers : Query(h) \/ Accepts(h)
  <2>1. UNCHANGED llm
    BY <1>4 DEF Refresh, Others, dvars, Query, Accepts
  <2>2. QED BY <1>1, <2>1
<1>5. QED BY <1>2, <1>3, <1>4 DEF Next

\* llm_client.py loses no slot of its semaphore, however streams end, and its
\* waiters are those who wait: never more than llm_max_concurrency streams.
THEOREM NoSlotLost == Spec => []SlotsAccounted
<1>1. SlotInv => SlotsAccounted
  <2> SUFFICES ASSUME SlotInv PROVE SlotsAccounted
    OBVIOUS
  <2>1. Len(queue) = Cardinality({h \in Handlers : stream[h] = "waiting"})
    <3>1. \A i \in DOMAIN queue : queue[i] \in {h \in Handlers : stream[h] = "waiting"}
      BY LenProperties, ElementOfSeq DEF SlotInv, LlmType, QueueInv
    <3>2. QED BY <3>1, LengthIsCardinality DEF SlotInv, LlmType, QueueInv
  <2>2. QED BY <2>1 DEF SlotInv, QueueInv, SlotsAccounted, Holding
<1>2. QED BY <1>1, InitSlots, NextSlots, PTL DEF Spec

-----------------------------------------------------------------------------
(***************************************************************************)
(* Seats, as the advisor and the listing see them.                         *)
(***************************************************************************)

\* Who holds or held a seat of o.
Seated(o) == holders[o] \cup former[o]

SeatType ==
    /\ holders \in [Offerings -> SUBSET Students]
    /\ former \in [Offerings -> SUBSET Students]
    /\ cached \subseteq Offerings

AdviceType ==
    /\ marked \subseteq Recs
    /\ stored \in [Recs -> Seq(Entry)]
    /\ accept \in [Handlers -> [rec : Recs, results : Seq(Entry)] \cup {NoAccept}]
    /\ claims \in [Students \X Offerings -> Nat]

\* Seats are of cached offerings.
SeatsCached == \A o \in Offerings : Seated(o) # {} => o \in cached

\* A student who was told of a seat had it.
ClaimInv ==
    \A s \in Students, o \in Offerings :
        /\ claims[<<s, o>>] <= 1
        /\ claims[<<s, o>>] # 0 => s \in Seated(o)

\* The answers given so far for recommendation r are about its offerings, in
\* their order, and those that tell of a seat are true.
Told(r, results) ==
    \A i \in DOMAIN results :
        /\ i \in 1..Len(Picks[r])
        /\ results[i].offering = Picks[r][i]
        /\ results[i].status = "enrolled" => Owner[r] \in Seated(results[i].offering)

ToldInv ==
    /\ \A h \in Handlers :
          accept[h] # NoAccept => Told(accept[h].rec, accept[h].results)
    /\ \A r \in marked : Len(stored[r]) = Len(Picks[r]) /\ Told(r, stored[r])

SeatsInv == SeatType /\ AdviceType /\ SeatsCached /\ ClaimInv /\ ToldInv

LEMMA InitSeats == Init => SeatsInv
<1> SUFFICES ASSUME Init PROVE SeatsInv
  OBVIOUS
<1>1. SeatType
  <2>1. cached \subseteq Offerings
    BY DEF Init, cached
  <2>2. QED BY <2>1 DEF Init, SeatType
<1>2. AdviceType
  BY EmptySeq DEF Init, AdvisorInit, AdviceType
<1>3. \A o \in Offerings : Seated(o) = {}
  BY DEF Init, Seated
<1>4. ClaimInv /\ SeatsCached
  BY <1>3 DEF Init, AdvisorInit, ClaimInv, SeatsCached
<1>5. ToldInv
  BY DEF Init, AdvisorInit, ToldInv
<1>6. QED BY <1>1, <1>2, <1>4, <1>5 DEF SeatsInv

\* What an Enroll and a Leave do to who is seated.
LEMMA TakeSeats ==
  ASSUME SeatType, NEW s \in Students, NEW o \in Offerings, Enroll(s, o)
  PROVE  /\ holders' \in [Offerings -> SUBSET Students] /\ UNCHANGED former
         /\ s \notin Seated(o)
         /\ Seated(o)' = Seated(o) \cup {s}
         /\ \A p \in Offerings \ {o} : Seated(p)' = Seated(p) /\ holders'[p] = holders[p]
         /\ holders'[o] # holders[o]
<1>1. /\ s \notin holders[o] \cup former[o]
      /\ holders' = [holders EXCEPT ![o] = @ \cup {s}]
      /\ former' = [former EXCEPT ![o] = @ \ {s}]
  BY DEF Enroll, Take
<1>2. former' = former
  BY <1>1 DEF SeatType
<1>3. QED BY <1>1, <1>2 DEF SeatType, Seated

LEMMA LeaveSeats ==
  ASSUME SeatType, NEW s \in Students, NEW o \in Offerings, Leave(s, o)
  PROVE  /\ holders' \in [Offerings -> SUBSET Students]
         /\ former' \in [Offerings -> SUBSET Students]
         /\ \A p \in Offerings : Seated(p)' = Seated(p)
  BY DEF SeatType, Leave, Seated

\* A refresh removes no row.
LEMMA RefreshGrows ==
  ASSUME Refresh
  PROVE  cached \subseteq cached' /\ cached' \subseteq Offerings
BY DEF Refresh, cached

\* No step forgets that a student was seated, nor an offering that was cached.
NothingForgotten ==
    /\ \A o \in Offerings : Seated(o) \subseteq Seated(o)'
    /\ cached \subseteq cached'

\* A handler that accepts, its recommendation and its next offering.
LEMMA TriesFacts ==
  ASSUME SeatsInv, NEW h \in Handlers, NEW o \in Offerings, Tries(h, o)
  PROVE  /\ accept[h].rec \in Recs /\ accept[h].results \in Seq(Entry)
         /\ For(h) \in Students
         /\ Len(accept[h].results) + 1 \in 1..Len(Picks[accept[h].rec])
         /\ o = Picks[accept[h].rec][Len(accept[h].results) + 1]
<1>1. accept[h].rec \in Recs /\ accept[h].results \in Seq(Entry)
  BY DEF Tries, SeatsInv, AdviceType
<1>2. For(h) \in Students /\ Picks[accept[h].rec] \in Seq(Offerings)
  BY <1>1, RecsAssumption DEF For
<1>3. Len(accept[h].results) \in Nat /\ Len(Picks[accept[h].rec]) \in Nat
  BY <1>1, <1>2, LenProperties
<1>4. Len(accept[h].results) + 1 \in 1..Len(Picks[accept[h].rec])
  BY <1>3 DEF Tries
<1>5. QED BY <1>1, <1>2, <1>4 DEF Tries

\* Answers given before stay true.
LEMMA ToldStays ==
  ASSUME NothingForgotten, NEW r \in Recs, NEW results \in Seq(Entry), Told(r, results)
  PROVE  Told(r, results)'
<1>1. DOMAIN results = 1..Len(results)
  BY LenProperties
<1>2. \A i \in DOMAIN results : results[i] \in Entry
  BY <1>1, ElementOfSeq
<1>3. \A i \in DOMAIN results : results[i].offering \in Offerings
  BY <1>2 DEF Entry
<1>4. QED BY <1>3 DEF Told, NothingForgotten

LEMMA StoredStays ==
  ASSUME SeatsInv, NothingForgotten, NEW r \in marked, stored'[r] = stored[r]
  PROVE  (Len(stored[r]) = Len(Picks[r]) /\ Told(r, stored[r]))'
<1>1. r \in Recs /\ Told(r, stored[r]) /\ Len(stored[r]) = Len(Picks[r])
  BY DEF SeatsInv, AdviceType, ToldInv
<1>2. PICK results \in Seq(Entry) : stored[r] = results
  BY <1>1 DEF SeatsInv, AdviceType
<1>3. Told(r, results)'
  BY <1>1, <1>2, ToldStays
<1>4. QED BY <1>1, <1>2, <1>3 DEF Told

LEMMA AcceptStays ==
  ASSUME SeatsInv, NothingForgotten, NEW h \in Handlers, accept'[h] = accept[h],
         accept[h] # NoAccept
  PROVE  Told(accept[h].rec, accept[h].results)'
<1>1. accept[h].rec \in Recs /\ accept[h].results \in Seq(Entry)
  BY DEF SeatsInv, AdviceType
<1>2. Told(accept[h].rec, accept[h].results)
  BY DEF SeatsInv, ToldInv
<1>3. PICK r \in Recs, results \in Seq(Entry) :
        accept[h].rec = r /\ accept[h].results = results
  BY <1>1
<1>4. Told(r, results)'
  BY <1>2, <1>3, ToldStays
<1>5. QED BY <1>3, <1>4 DEF Told

\* A handler gives up, begins or stores what it has.
LEMMA OthersTold ==
  ASSUME SeatsInv, NothingForgotten,
         \A h \in Handlers : accept'[h] \in {accept[h], NoAccept},
         UNCHANGED <<marked, stored>>
  PROVE  ToldInv'
<1>1. (\A h \in Handlers : accept[h] # NoAccept => Told(accept[h].rec, accept[h].results))'
  BY AcceptStays
<1>2. (\A r \in marked : Len(stored[r]) = Len(Picks[r]) /\ Told(r, stored[r]))'
  BY StoredStays
<1>3. QED BY <1>1, <1>2 DEF ToldInv

\* One more answer.
LEMMA NoteTold ==
  ASSUME SeatsInv, NEW h \in Handlers, NEW o \in Offerings, Tries(h, o),
         NEW st \in {"enrolled", "rejected"}, Note(h, o, st), NothingForgotten,
         st = "enrolled" => For(h) \in Seated(o)'
  PROVE  /\ accept' \in [Handlers -> [rec : Recs, results : Seq(Entry)] \cup {NoAccept}]
         /\ ToldInv'
<1>1. PICK r \in Recs, old \in Seq(Entry) :
        /\ accept[h].rec = r /\ accept[h].results = old
        /\ Len(old) + 1 \in 1..Len(Picks[r]) /\ o = Picks[r][Len(old) + 1]
  BY TriesFacts
<1>0. Owner[r] = For(h)
  BY <1>1 DEF For
<1>2. PICK e \in Entry : e = [offering |-> o, status |-> st]
  BY DEF Entry
<1>3. accept[h] \in [rec : Recs, results : Seq(Entry)] /\ accept[h] # NoAccept
  BY DEF Tries, SeatsInv, AdviceType
<1>4. PICK new \in Seq(Entry) : new = Append(old, e)
  BY AppendProperties
<1>5. /\ Len(new) = Len(old) + 1
      /\ \A i \in 1..Len(old) : new[i] = old[i]
      /\ new[Len(old) + 1] = e
  BY <1>4, AppendProperties
<1>6. Len(old) \in Nat /\ DOMAIN old = 1..Len(old) /\ DOMAIN new = 1..Len(old) + 1
  BY <1>5, LenProperties
<1>7. /\ accept'[h].rec = r /\ accept'[h].results = new
      /\ accept'[h] \in [rec : Recs, results : Seq(Entry)]
      /\ \A g \in Handlers \ {h} : accept'[g] = accept[g]
  <2>1. accept' = [accept EXCEPT ![h] = [accept[h] EXCEPT !.results = new]]
    BY <1>1, <1>2, <1>4 DEF Note
  <2>2. QED BY <1>1, <1>3, <2>1 DEF SeatsInv, AdviceType
<1>8. accept' \in [Handlers -> [rec : Recs, results : Seq(Entry)] \cup {NoAccept}]
  BY <1>7 DEF Note, SeatsInv, AdviceType
<1>a. Told(r, old)'
  BY <1>1, <1>3, ToldStays DEF SeatsInv, ToldInv
<1>b. Told(r, new)'
  <2>1. SUFFICES ASSUME NEW i \in DOMAIN new
                 PROVE  /\ i \in 1..Len(Picks[r])
                        /\ new[i].offering = Picks[r][i]
                        /\ new[i].status = "enrolled" => Owner[r] \in Seated(new[i].offering)'
    BY DEF Told
  <2>2. CASE i \in 1..Len(old)
    BY <1>5, <1>6, <1>a, <2>2 DEF Told
  <2>3. CASE i = Len(old) + 1
    BY <1>0, <1>1, <1>2, <1>5, <2>3
  <2>4. QED BY <1>6, <2>1, <2>2, <2>3
<1>c. (\A g \in Handlers : accept[g] # NoAccept => Told(accept[g].rec, accept[g].results))'
  <2>1. SUFFICES ASSUME NEW g \in Handlers, accept'[g] # NoAccept
                 PROVE  Told(accept[g].rec, accept[g].results)'
    OBVIOUS
  <2>2. CASE g = h
    BY <1>7, <1>b, <2>2 DEF Told
  <2>3. CASE g # h
    BY <1>7, <2>1, <2>3, AcceptStays
  <2>4. QED BY <2>2, <2>3
<1>d. UNCHANGED <<marked, stored>>
  BY DEF Note
<1>f. (\A q \in marked : Len(stored[q]) = Len(Picks[q]) /\ Told(q, stored[q]))'
  BY <1>d, StoredStays
<1>g. QED BY <1>8, <1>c, <1>f DEF ToldInv

LEMMA AcceptsKeeps ==
  ASSUME SeatsInv, NEW h \in Handlers, Accepts(h)
  PROVE  SeatsInv' /\ NothingForgotten
<1>c. UNCHANGED cached
  BY DEF Accepts, cached
<1>1. CASE UNCHANGED bookVars /\ UNCHANGED claims
             /\ (\A g \in Handlers : accept'[g] \in {accept[g], NoAccept})
             /\ accept' \in [Handlers -> [rec : Recs, results : Seq(Entry)] \cup {NoAccept}]
             /\ UNCHANGED <<marked, stored>>
  <2>1. NothingForgotten /\ \A o \in Offerings : Seated(o)' = Seated(o)
    BY <1>c, <1>1 DEF bookVars, NothingForgotten, Seated
  <2>2. ToldInv'
    BY <1>1, <2>1, OthersTold
  <2>3. SeatType' /\ AdviceType' /\ SeatsCached' /\ ClaimInv'
    BY <1>c, <1>1, <2>1 DEF bookVars, SeatsInv, SeatType, AdviceType, SeatsCached, ClaimInv
  <2>4. QED BY <2>1, <2>2, <2>3 DEF SeatsInv
<1>2. ASSUME NEW r \in Recs, AcceptBegin(h, r)
      PROVE  SeatsInv' /\ NothingForgotten
  <2>1. /\ UNCHANGED <<bookVars, marked, stored, claims>>
        /\ accept' = [accept EXCEPT ![h] = [rec |-> r, results |-> << >>]]
    BY <1>2 DEF AcceptBegin
  <2>2. NothingForgotten /\ \A o \in Offerings : Seated(o)' = Seated(o)
    BY <1>c, <2>1 DEF bookVars, NothingForgotten, Seated
  <2>3. << >> \in Seq(Entry) /\ DOMAIN << >> = {}
    BY EmptySeq
  <2>4. /\ accept'[h] = [rec |-> r, results |-> << >>]
        /\ \A g \in Handlers \ {h} : accept'[g] = accept[g]
        /\ accept' \in [Handlers -> [rec : Recs, results : Seq(Entry)] \cup {NoAccept}]
    BY <2>1, <2>3 DEF SeatsInv, AdviceType
  <2>5. accept'[h].rec = r /\ accept'[h].results = << >>
    BY <2>4
  <2>6. Told(accept[h].rec, accept[h].results)'
    BY <2>3, <2>5 DEF Told
  <2>7. (\A g \in Handlers : accept[g] # NoAccept => Told(accept[g].rec, accept[g].results))'
    <3>1. SUFFICES ASSUME NEW g \in Handlers, accept'[g] # NoAccept
                   PROVE  Told(accept[g].rec, accept[g].results)'
      OBVIOUS
    <3>2. CASE g = h
      BY <2>6, <3>2
    <3>3. CASE g # h
      BY <2>2, <2>4, <3>1, <3>3, AcceptStays
    <3>4. QED BY <3>2, <3>3
  <2>8. (\A q \in marked : Len(stored[q]) = Len(Picks[q]) /\ Told(q, stored[q]))'
    BY <2>1, <2>2, StoredStays
  <2>9. SeatType' /\ AdviceType' /\ SeatsCached' /\ ClaimInv'
    BY <1>c, <2>1, <2>2, <2>4 DEF bookVars, SeatsInv, SeatType, AdviceType,
                                  SeatsCached, ClaimInv
  <2>a. QED BY <2>2, <2>7, <2>8, <2>9 DEF SeatsInv, ToldInv
<1>3. ASSUME NEW o \in cached, Booked(h, o)
      PROVE  SeatsInv' /\ NothingForgotten
  <2>1. o \in Offerings /\ Tries(h, o) /\ Enroll(For(h), o) /\ Note(h, o, "enrolled")
    BY <1>3 DEF Booked, SeatsInv, SeatType
  <2>2. PICK s \in Students : For(h) = s
    BY <2>1, TriesFacts
  <2>3. /\ holders' \in [Offerings -> SUBSET Students] /\ UNCHANGED former
        /\ s \notin Seated(o) /\ Seated(o)' = Seated(o) \cup {s}
        /\ \A p \in Offerings \ {o} : Seated(p)' = Seated(p)
    BY <2>1, <2>2, TakeSeats DEF SeatsInv
  <2>4. NothingForgotten
    BY <1>c, <2>3 DEF NothingForgotten
  <2>5. /\ accept' \in [Handlers -> [rec : Recs, results : Seq(Entry)] \cup {NoAccept}]
        /\ ToldInv'
    BY <2>1, <2>2, <2>3, <2>4, NoteTold
  <2>6. claims' = [claims EXCEPT ![<<s, o>>] = @ + 1] /\ UNCHANGED <<marked, stored>>
    BY <2>1, <2>2 DEF Note
  <2>7. claims[<<s, o>>] = 0
    BY <2>1, <2>3 DEF SeatsInv, ClaimInv
  <2>8. /\ claims' \in [Students \X Offerings -> Nat]
        /\ claims'[<<s, o>>] = 1
        /\ \A t \in Students, p \in Offerings :
              <<t, p>> # <<s, o>> => claims'[<<t, p>>] = claims[<<t, p>>]
    BY <2>1, <2>6, <2>7 DEF SeatsInv, AdviceType
  <2>9. ClaimInv'
    <3>1. SUFFICES ASSUME NEW t \in Students, NEW p \in Offerings
                   PROVE  claims'[<<t, p>>] <= 1 /\ (claims'[<<t, p>>] # 0 => t \in Seated(p)')
      BY DEF ClaimInv
    <3>2. CASE t = s /\ p = o
      BY <2>3, <2>8, <3>2
    <3>3. CASE ~ (t = s /\ p = o)
      <4>1. claims'[<<t, p>>] = claims[<<t, p>>]
        BY <2>8, <3>3
      <4>2. Seated(p) \subseteq Seated(p)'
        BY <2>4 DEF NothingForgotten
      <4>3. QED BY <4>1, <4>2 DEF SeatsInv, ClaimInv
    <3>4. QED BY <3>2, <3>3
  <2>a. SeatType' /\ AdviceType' /\ SeatsCached'
    <3>1. SeatType'
      BY <1>c, <2>3 DEF SeatsInv, SeatType
    <3>2. AdviceType'
      BY <2>5, <2>6, <2>8 DEF SeatsInv, AdviceType
    <3>3. SeatsCached'
      BY <1>c, <2>3 DEF SeatsInv, SeatsCached
    <3>4. QED BY <3>1, <3>2, <3>3
  <2>b. QED BY <2>4, <2>5, <2>9, <2>a DEF SeatsInv
<1>4. ASSUME NEW o \in Offerings, Rejected(h, o)
      PROVE  SeatsInv' /\ NothingForgotten
  <2>1. Tries(h, o) /\ Note(h, o, "rejected") /\ UNCHANGED bookVars
    BY <1>4 DEF Rejected
  <2>2. NothingForgotten /\ \A p \in Offerings : Seated(p)' = Seated(p)
    BY <1>c, <2>1 DEF bookVars, NothingForgotten, Seated
  <2>3. /\ accept' \in [Handlers -> [rec : Recs, results : Seq(Entry)] \cup {NoAccept}]
        /\ ToldInv'
    BY <2>1, <2>2, NoteTold
  <2>4. UNCHANGED <<claims, marked, stored>>
    BY <2>1 DEF Note
  <2>5. SeatType' /\ AdviceType' /\ SeatsCached' /\ ClaimInv'
    BY <1>c, <2>1, <2>2, <2>3, <2>4 DEF bookVars, SeatsInv, SeatType, AdviceType,
                                        SeatsCached, ClaimInv
  <2>6. QED BY <2>2, <2>3, <2>5 DEF SeatsInv
<1>5. ASSUME Breaks(h), \A o \in Offerings : holders'[o] # holders[o] => o \in cached
      PROVE  SeatsInv' /\ NothingForgotten
  <2>1. /\ accept[h] # NoAccept
        /\ accept' = [accept EXCEPT ![h] = NoAccept]
        /\ UNCHANGED <<marked, stored, claims>>
    BY <1>5 DEF Breaks
  <2>2. /\ \A g \in Handlers : accept'[g] \in {accept[g], NoAccept}
        /\ accept' \in [Handlers -> [rec : Recs, results : Seq(Entry)] \cup {NoAccept}]
    BY <2>1 DEF SeatsInv, AdviceType
  <2>3. CASE UNCHANGED bookVars
    BY <1>1, <2>1, <2>2, <2>3
  <2>4. ASSUME NEW o \in Offerings, Tries(h, o), Enroll(For(h), o)
        PROVE  SeatsInv' /\ NothingForgotten
    <3>1. PICK s \in Students : For(h) = s
      BY <2>4, TriesFacts
    <3>2. /\ holders' \in [Offerings -> SUBSET Students] /\ UNCHANGED former
          /\ Seated(o)' = Seated(o) \cup {s} /\ holders'[o] # holders[o]
          /\ \A p \in Offerings \ {o} : Seated(p)' = Seated(p)
      BY <2>4, <3>1, TakeSeats DEF SeatsInv
    <3>3. NothingForgotten
      BY <1>c, <3>2 DEF NothingForgotten
    <3>4. ToldInv'
      BY <2>1, <2>2, <3>3, OthersTold
    <3>5. SeatType' /\ AdviceType' /\ SeatsCached'
      BY <1>5, <1>c, <2>1, <2>2, <3>2 DEF SeatsInv, SeatType, AdviceType, SeatsCached
    <3>6. ClaimInv'
      BY <2>1, <3>3 DEF SeatsInv, ClaimInv, NothingForgotten
    <3>7. QED BY <3>3, <3>4, <3>5, <3>6 DEF SeatsInv
  <2>5. QED BY <1>5, <2>3, <2>4 DEF Breaks
<1>6. ASSUME MarkAccepted(h)
      PROVE  SeatsInv' /\ NothingForgotten
  <2>1. PICK r \in Recs, results \in Seq(Entry) :
          accept[h].rec = r /\ accept[h].results = results
    BY <1>6 DEF MarkAccepted, SeatsInv, AdviceType
  <2>2. /\ accept[h] # NoAccept /\ Len(results) = Len(Picks[r])
        /\ marked' = marked \cup {r}
        /\ stored' = [stored EXCEPT ![r] = results]
        /\ accept' = [accept EXCEPT ![h] = NoAccept]
        /\ UNCHANGED <<bookVars, claims>>
    BY <1>6, <2>1 DEF MarkAccepted
  <2>3. NothingForgotten /\ \A o \in Offerings : Seated(o)' = Seated(o)
    BY <1>c, <2>2 DEF bookVars, NothingForgotten, Seated
  <2>4. /\ marked' \subseteq Recs
        /\ stored'[r] = results /\ stored' \in [Recs -> Seq(Entry)]
        /\ \A q \in Recs \ {r} : stored'[q] = stored[q]
        /\ \A g \in Handlers : accept'[g] \in {accept[g], NoAccept}
        /\ accept' \in [Handlers -> [rec : Recs, results : Seq(Entry)] \cup {NoAccept}]
    BY <2>2 DEF SeatsInv, AdviceType
  <2>5. Told(r, results)
    BY <2>1, <2>2 DEF SeatsInv, ToldInv
  <2>6. Told(r, results)'
    BY <2>3, <2>5, ToldStays
  <2>7. (\A q \in marked : Len(stored[q]) = Len(Picks[q]) /\ Told(q, stored[q]))'
    <3>1. SUFFICES ASSUME NEW q \in marked'
                   PROVE  (Len(stored[q]) = Len(Picks[q]) /\ Told(q, stored[q]))'
      OBVIOUS
    <3>2. CASE q = r
      BY <2>2, <2>4, <2>6, <3>2 DEF Told
    <3>3. CASE q # r
      <4>1. q \in marked /\ q \in Recs
        BY <2>2, <2>4, <3>1, <3>3 DEF SeatsInv, AdviceType
      <4>2. QED BY <2>3, <2>4, <3>3, <4>1, StoredStays
    <3>4. QED BY <3>2, <3>3
  <2>8. (\A g \in Handlers : accept[g] # NoAccept => Told(accept[g].rec, accept[g].results))'
    BY <2>3, <2>4, AcceptStays
  <2>9. SeatType' /\ AdviceType' /\ SeatsCached' /\ ClaimInv'
    BY <1>c, <2>2, <2>3, <2>4 DEF bookVars, SeatsInv, SeatType, AdviceType,
                                  SeatsCached, ClaimInv
  <2>a. QED BY <2>3, <2>7, <2>8, <2>9 DEF SeatsInv, ToldInv
<1>7. QED BY <1>2, <1>3, <1>4, <1>5, <1>6 DEF Accepts

LEMMA NextSeats ==
  ASSUME SeatsInv, [Next]_dvars
  PROVE  SeatsInv' /\ NothingForgotten
<1>1. CASE UNCHANGED <<bookVars, advice>> /\ cached \subseteq cached' /\ cached' \subseteq Offerings
  <2>1. NothingForgotten /\ \A o \in Offerings : Seated(o)' = Seated(o)
    BY <1>1 DEF bookVars, NothingForgotten, Seated
  <2>2. ToldInv'
    BY <1>1, <2>1, OthersTold DEF advice
  <2>3. SeatType' /\ AdviceType' /\ SeatsCached' /\ ClaimInv'
    BY <1>1, <2>1 DEF bookVars, advice, SeatsInv, SeatType, AdviceType, SeatsCached, ClaimInv
  <2>4. QED BY <2>1, <2>2, <2>3 DEF SeatsInv
<1>2. CASE Refresh
  BY <1>1, <1>2, RefreshGrows DEF Refresh
<1>2b. CASE Closes \/ UNCHANGED dvars \/ \E h \in Handlers : Query(h) \/ Converses(h)
  <2>1. UNCHANGED <<bookVars, advice, names>>
    BY <1>2b DEF Closes, dvars, Query, Converses
  <2>2. UNCHANGED cached /\ cached \subseteq Offerings
    BY <2>1 DEF cached, SeatsInv, SeatType
  <2>3. QED BY <1>1, <2>1, <2>2
<1>3. ASSUME NEW s \in Students, NEW o \in Offerings,
             (o \in cached /\ Enroll(s, o)) \/ Leave(s, o), UNCHANGED <<advice, cached>>
      PROVE  SeatsInv' /\ NothingForgotten
  <2>1. /\ holders' \in [Offerings -> SUBSET Students]
        /\ former' \in [Offerings -> SUBSET Students]
        /\ \A p \in Offerings : Seated(p) \subseteq Seated(p)'
        /\ \A p \in Offerings : Seated(p)' = Seated(p) \/ p \in cached
    <3>1. CASE o \in cached /\ Enroll(s, o)
      BY <3>1, TakeSeats DEF SeatsInv, SeatType
    <3>2. CASE Leave(s, o)
      BY <3>2, LeaveSeats DEF SeatsInv
    <3>3. QED BY <1>3, <3>1, <3>2
  <2>2. NothingForgotten
    BY <1>3, <2>1 DEF NothingForgotten
  <2>3. ToldInv'
    BY <1>3, <2>2, OthersTold DEF advice
  <2>4. SeatType' /\ AdviceType' /\ SeatsCached' /\ ClaimInv'
    BY <1>3, <2>1 DEF advice, SeatsInv, SeatType, AdviceType, SeatsCached, ClaimInv
  <2>5. QED BY <2>2, <2>3, <2>4 DEF SeatsInv
<1>4. CASE Others
  BY <1>3, <1>4 DEF Others, cached
<1>5. QED BY <1>2, <1>2b, <1>4, AcceptsKeeps DEF Next

LEMMA SeatsInvariant == Spec => []SeatsInv
<1>1. SeatsInv /\ [Next]_dvars => SeatsInv'
  BY NextSeats
<1>2. QED BY <1>1, InitSeats, PTL DEF Spec

\* accept of ai_advisor.py stores an answer for each offering of the
\* recommendation, in order, and no "enrolled" that is not true, whatever
\* happens beside it or to it.
THEOREM AnswersAreTrue == Spec => []MarkedIsComplete
<1>1. SeatsInv => MarkedIsComplete
  BY DEF SeatsInv, ToldInv, Told, Seated, MarkedIsComplete
<1>2. QED BY <1>1, SeatsInvariant, PTL

\* However many accepts run or fail, one at most is told that it enrolled
\* the student in an offering.
THEOREM ToldOnce == Spec => []ClaimedOnce
<1>1. SeatsInv => ClaimedOnce
  <2> SUFFICES ASSUME SeatsInv, NEW x \in Students \X Offerings PROVE claims[x] <= 1
    BY DEF ClaimedOnce
  <2>1. PICK s \in Students, o \in Offerings : x = <<s, o>>
    OBVIOUS
  <2>2. QED BY <2>1 DEF SeatsInv, ClaimInv
<1>2. QED BY <1>1, SeatsInvariant, PTL

-----------------------------------------------------------------------------
(***************************************************************************)
(* The queries.                                                            *)
(***************************************************************************)

Walking == [at : {"page", "count", "shown"}, page : Nat \ {0}, filter : Filters,
            since : SUBSET Offerings, left : SUBSET Offerings,
            rows : SUBSET Offerings, shown : SUBSET Offerings]

Listing == [at : {"row"}, unknown : SUBSET Offerings, rows : SUBSET Offerings]

QueryType == query \in [Handlers -> {NoQuery} \cup Walking \cup Listing]

\* What a listing has still to look up is cached.
ListInv ==
    \A h \in Handlers : query[h].at = "row" =>
        query[h].unknown = {} /\ query[h].rows \subseteq cached

\* The only offering of its course.
Alone(o) == \A p \in Offerings : Code[p] = Code[o] => p = o

\* What comes before o in the result of a search as it is now.
Before(f, o) == {p \in Result(f) : Code[p] < Code[o]}

\* Something that came before o has left the result.
PulledUp(w, o) == \E p \in w.left : Code[p] < Code[o]

\* The rows of the first k pages.
Covered(k) == k * PageSize

\* How far walk w has got: where it will find o, unless it has.
Placed(w, o) ==
    /\ w.at \in {"page", "count"} => o \in Result(w.filter)
    /\ w.at = "page" =>
          \/ o \in w.shown \/ PulledUp(w, o)
          \/ Cardinality(Before(w.filter, o)) >= Covered(w.page - 1)
    /\ w.at = "count" =>
          \/ o \in w.shown \cup w.rows \/ PulledUp(w, o)
          \/ Cardinality(Before(w.filter, o)) >= Covered(w.page)
    /\ w.at = "shown" => o \in w.shown \/ PulledUp(w, o)

WalkInv ==
    \A h \in Handlers : query[h] \in Walking =>
        \A o \in query[h].since : Alone(o) => Placed(query[h], o)

QueryInv == QueryType /\ ListInv /\ WalkInv

LEMMA CoveredNat ==
  ASSUME NEW k \in Nat
  PROVE  Covered(k) \in Nat /\ Covered(k + 1) = Covered(k) + PageSize
<1>1. PageSize \in Nat
  BY DeskAssumption
<1>2. QED BY <1>1 DEF Covered

\* A search finds cached rows.
LEMMA ResultCached ==
  ASSUME NEW f
  PROVE  Result(f) \subseteq cached
BY DEF Result, Matching, cached

LEMMA BeforeFinite ==
  ASSUME SeatsInv, NEW f, NEW o \in Offerings
  PROVE  /\ IsFiniteSet(Result(f)) /\ Cardinality(Result(f)) \in Nat
         /\ IsFiniteSet(Before(f, o)) /\ Cardinality(Before(f, o)) \in Nat
         /\ o \in Result(f) => Cardinality(Before(f, o)) < Cardinality(Result(f))
<1>1. Result(f) \in SUBSET Offerings /\ Before(f, o) \in SUBSET Result(f)
  BY ResultCached DEF SeatsInv, SeatType, Before
<1>2. IsFiniteSet(Result(f)) /\ IsFiniteSet(Before(f, o))
  BY <1>1, FS_Subset, DeskAssumption
<1>3. Cardinality(Result(f)) \in Nat /\ Cardinality(Before(f, o)) \in Nat
  BY <1>2, FS_CardinalityType
<1>4. o \in Result(f) => Before(f, o) # Result(f)
  BY DeskAssumption DEF Before
<1>5. Cardinality(Before(f, o)) <= Cardinality(Result(f))
         /\ (Cardinality(Result(f)) = Cardinality(Before(f, o)) => Result(f) = Before(f, o))
  BY <1>1, <1>2, FS_Subset
<1>6. QED BY <1>2, <1>3, <1>4, <1>5

\* Every listing puts an offering that is alone in its course in one place.
LEMMA PlaceInListing ==
  ASSUME SeatsInv, NEW f, NEW q \in Listings(f), NEW o \in Result(f), Alone(o)
  PROVE  \E i \in 1..Cardinality(Result(f)) : q[i] = o /\ i = Cardinality(Before(f, o)) + 1
<1> DEFINE n == Cardinality(Result(f))
<1>1. /\ q \in Bijection(1..n, Result(f))
      /\ \A i, j \in DOMAIN q : i < j => Code[q[i]] <= Code[q[j]]
  BY DEF Listings
<1>2. n \in Nat /\ o \in Offerings
  BY BeforeFinite, ResultCached DEF SeatsInv, SeatType
<1>3. /\ q \in [1..n -> Result(f)] /\ DOMAIN q = 1..n
      /\ \A i, j \in 1..n : q[i] = q[j] => i = j
      /\ \A p \in Result(f) : \E i \in 1..n : q[i] = p
  BY <1>1 DEF Bijection, Injection, Surjection, IsInjective
<1>4. PICK i \in 1..n : q[i] = o
  BY <1>3
<1>5. \A p \in Result(f) : Code[p] \in Nat /\ p \in Offerings
  BY DeskAssumption, ResultCached DEF SeatsInv, SeatType
<1> HIDE DEF n
<1>6. ASSUME NEW j \in 1..(i - 1)
      PROVE  q[j] \in Before(f, o)
  <2>1. j \in 1..n /\ j < i
    BY <1>2, <1>4
  <2>2. q[j] \in Result(f) /\ q[j] # o /\ Code[q[j]] <= Code[o]
    BY <1>1, <1>3, <1>4, <2>1
  <2>3. Code[q[j]] # Code[o]
    BY <1>5, <2>2 DEF Alone
  <2>4. QED BY <1>5, <2>2, <2>3 DEF Before
<1>7. ASSUME NEW p \in Before(f, o)
      PROVE  \E j \in 1..(i - 1) : q[j] = p
  <2>1. p \in Result(f) /\ Code[p] < Code[o]
    BY DEF Before
  <2>2. PICK j \in 1..n : q[j] = p
    BY <1>3, <2>1
  <2>3. j # i
    BY <1>4, <1>5, <2>1, <2>2
  <2>4. ~ (i < j)
    <3>1. i < j => Code[o] <= Code[p]
      BY <1>1, <1>3, <1>4, <2>2
    <3>2. QED BY <1>5, <2>1, <3>1
  <2>5. j \in 1..(i - 1)
    BY <1>2, <1>4, <2>2, <2>3, <2>4
  <2>6. QED BY <2>2, <2>5
<1> DEFINE g == [j \in 1..(i - 1) |-> q[j]]
<1>8. g \in Bijection(1..(i - 1), Before(f, o))
  <2>1. g \in [1..(i - 1) -> Before(f, o)]
    BY <1>6
  <2>2. \A j, k \in 1..(i - 1) : g[j] = g[k] => j = k
    BY <1>2, <1>3, <1>4
  <2>3. \A p \in Before(f, o) : \E j \in 1..(i - 1) : g[j] = p
    BY <1>7
  <2>4. QED
    BY <2>1, <2>2, <2>3 DEF Bijection, Injection, Surjection, IsInjective
<1>9. i - 1 \in Nat /\ Cardinality(Before(f, o)) = i - 1
  <2>1. i - 1 \in Nat
    BY <1>2, <1>4
  <2>2. ExistsBijection(1..(i - 1), Before(f, o))
    BY <1>8 DEF ExistsBijection
  <2>3. QED BY <2>1, <2>2, FS_CountingElements
<1>10. QED
  BY <1>2, <1>4, <1>9 DEF n

\* A page that is read while o stands within it shows o.
LEMMA PageShows ==
  ASSUME SeatsInv, NEW f, NEW q \in Listings(f), NEW o \in Result(f), Alone(o), NEW k \in Nat \ {0},
         Cardinality(Before(f, o)) >= Covered(k - 1), Cardinality(Before(f, o)) < Covered(k)
  PROVE  o \in Slice(q, k)
<1>1. PICK i \in 1..Cardinality(Result(f)) : q[i] = o /\ i = Cardinality(Before(f, o)) + 1
  BY PlaceInListing
<1>2. /\ DOMAIN q = 1..Cardinality(Result(f))
      /\ Cardinality(Before(f, o)) \in Nat
  BY BeforeFinite, ResultCached, Fun_BijectionProperties DEF Listings, SeatsInv, SeatType
<1>3. Covered(k) \in Nat /\ Covered(k - 1) \in Nat
  BY CoveredNat
<1>4. Covered(k - 1) < i /\ i <= Covered(k)
  BY <1>1, <1>2, <1>3
<1>5. QED BY <1>1, <1>2, <1>4 DEF Slice, Covered

LEMMA SliceType ==
  ASSUME SeatsInv, NEW f, NEW q \in Listings(f), NEW k
  PROVE  Slice(q, k) \subseteq Offerings
<1>1. q \in [1..Cardinality(Result(f)) -> Result(f)] /\ DOMAIN q = 1..Cardinality(Result(f))
  BY Fun_BijectionProperties DEF Listings
<1>2. QED BY <1>1, ResultCached DEF Slice, SeatsInv, SeatType

LEMMA InitQuery == Init => QueryInv
<1> SUFFICES ASSUME Init PROVE QueryInv
  OBVIOUS
<1>1. query \in [Handlers -> {NoQuery}] /\ \A h \in Handlers : query[h].at = "idle"
  BY DEF Init, NoQuery
<1>2. \A h \in Handlers : query[h] \notin Walking
  BY <1>1 DEF Walking
<1>3. QED BY <1>1, <1>2 DEF QueryInv, QueryType, ListInv, WalkInv

\* What a handler serves is told by its state.
LEMMA QueryKinds ==
  ASSUME QueryInv, NEW h \in Handlers
  PROVE  /\ query[h].at \in {"page", "count", "shown"} => query[h] \in Walking
         /\ query[h].at = "row" => query[h] \in Listing
<1>1. CASE query[h] = NoQuery
  BY <1>1 DEF NoQuery
<1>2. CASE query[h] \in Walking
  BY <1>2 DEF Walking
<1>3. CASE query[h] \in Listing
  BY <1>3 DEF Listing
<1>4. QED BY <1>1, <1>2, <1>3 DEF QueryInv, QueryType

\* Updates of two fields, written as records.
LEMMA WalkingExcept ==
  ASSUME NEW v \in Walking, NEW x, NEW y
  PROVE  /\ [[v EXCEPT !.at = x] EXCEPT !.rows = y]
               = [at |-> x, page |-> v.page, filter |-> v.filter, since |-> v.since,
                  left |-> v.left, rows |-> y, shown |-> v.shown]
         /\ [[v EXCEPT !.since = x] EXCEPT !.left = y]
               = [at |-> v.at, page |-> v.page, filter |-> v.filter, since |-> x,
                  left |-> y, rows |-> v.rows, shown |-> v.shown]
<1> DEFINE u == [[v EXCEPT !.at = x] EXCEPT !.rows = y]
           w == [[v EXCEPT !.since = x] EXCEPT !.left = y]
           F == {"at", "page", "filter", "since", "left", "rows", "shown"}
<1>1. DOMAIN v = F
  BY DEF Walking
<1>2. DOMAIN u = F /\ u = [f \in F |-> u[f]] /\ DOMAIN w = F /\ w = [f \in F |-> w[f]]
  BY <1>1
<1>3. /\ u.at = x /\ u.page = v.page /\ u.filter = v.filter /\ u.since = v.since
      /\ u.left = v.left /\ u.rows = y /\ u.shown = v.shown
  BY <1>1
<1>4. /\ w.at = v.at /\ w.page = v.page /\ w.filter = v.filter /\ w.since = x
      /\ w.left = y /\ w.rows = v.rows /\ w.shown = v.shown
  BY <1>1
<1> HIDE DEF u, w
<1>5. u = [at |-> x, page |-> v.page, filter |-> v.filter, since |-> v.since,
           left |-> v.left, rows |-> y, shown |-> v.shown]
  BY <1>2, <1>3
<1>6. w = [at |-> v.at, page |-> v.page, filter |-> v.filter, since |-> x,
           left |-> y, rows |-> v.rows, shown |-> v.shown]
  BY <1>2, <1>4
<1>7. QED BY <1>5, <1>6 DEF u, w

LEMMA ListingExcept ==
  ASSUME NEW v \in Listing, NEW x, NEW y
  PROVE  [[v EXCEPT !.rows = @ \ x] EXCEPT !.unknown = @ \cup y]
            = [at |-> v.at, unknown |-> v.unknown \cup y, rows |-> v.rows \ x]
<1> DEFINE u == [[v EXCEPT !.rows = @ \ x] EXCEPT !.unknown = @ \cup y]
<1>1. DOMAIN v = {"at", "unknown", "rows"}
  BY DEF Listing
<1>2. DOMAIN u = {"at", "unknown", "rows"} /\ u = [f \in {"at", "unknown", "rows"} |-> u[f]]
  BY <1>1
<1>3. u.at = v.at /\ u.unknown = v.unknown \cup y /\ u.rows = v.rows \ x
  BY <1>1
<1> HIDE DEF u
<1>4. u = [at |-> v.at, unknown |-> v.unknown \cup y, rows |-> v.rows \ x]
  BY <1>2, <1>3
<1>5. QED BY <1>4 DEF u

\* Unless something before o leaves the result, what comes before o only grows.
LEMMA BeforeGrows ==
  ASSUME SeatsInv, SeatsInv', NEW f, NEW o \in Offerings,
         \A p \in Result(f) \ Result(f)' : ~ (Code[p] < Code[o])
  PROVE  /\ Cardinality(Before(f, o)) \in Nat /\ Cardinality(Before(f, o))' \in Nat
         /\ Cardinality(Before(f, o)) <= Cardinality(Before(f, o))'
<1>1. Before(f, o) \in SUBSET (Before(f, o)')
  BY DEF Before
<1>2. Result(f)' \subseteq cached'
  BY DEF Result, Matching, cached
<1>3. IsFiniteSet(Before(f, o)')
  BY <1>2, FS_Subset, DeskAssumption DEF SeatsInv, SeatType, Before
<1>4. QED BY <1>1, <1>3, FS_Subset, FS_CardinalityType

\* A walk that remembers what a refresh made of its result is still in place.
LEMMA WatchedPlaced ==
  ASSUME SeatsInv, SeatsInv', NEW w \in Walking, w.at \in {"page", "count"},
         NEW o \in w.since \cap Result(w.filter)', Placed(w, o),
         NEW v, v = [at |-> w.at, page |-> w.page, filter |-> w.filter,
                     since |-> w.since \cap Result(w.filter)',
                     left |-> w.left \cup (Result(w.filter) \ Result(w.filter)'),
                     rows |-> w.rows, shown |-> w.shown]
  PROVE  Placed(v, o)'
<1>1. /\ v.at = w.at /\ v.page = w.page /\ v.filter = w.filter
      /\ v.left = w.left \cup (Result(w.filter) \ Result(w.filter)')
      /\ v.rows = w.rows /\ v.shown = w.shown
      /\ o \in Offerings /\ w.page \in Nat \ {0}
  BY DEF Walking
<1>2. CASE PulledUp(v, o)
  BY <1>1, <1>2 DEF Placed, PulledUp
<1>3. CASE ~ PulledUp(v, o)
  <2>1. ~ PulledUp(w, o)
        /\ \A p \in Result(w.filter) \ Result(w.filter)' : ~ (Code[p] < Code[o])
    BY <1>1, <1>3 DEF PulledUp
  <2>2. /\ Cardinality(Before(w.filter, o)) \in Nat /\ Cardinality(Before(w.filter, o))' \in Nat
        /\ Cardinality(Before(w.filter, o)) <= Cardinality(Before(w.filter, o))'
    BY <1>1, <2>1, BeforeGrows
  <2>3. Covered(w.page) \in Nat /\ Covered(w.page - 1) \in Nat
    BY <1>1, CoveredNat
  <2>4. /\ Covered(v.page)' = Covered(w.page) /\ Covered(v.page - 1)' = Covered(w.page - 1)
        /\ Cardinality(Before(v.filter, o))' = Cardinality(Before(w.filter, o))'
        /\ Result(v.filter)' = Result(w.filter)'
    BY <1>1 DEF Covered
  <2>5. w.at = "page" => o \in w.shown
                         \/ Cardinality(Before(v.filter, o))' >= Covered(v.page - 1)'
    BY <2>1, <2>2, <2>3, <2>4 DEF Placed
  <2>6. w.at = "count" => o \in w.shown \cup w.rows
                          \/ Cardinality(Before(v.filter, o))' >= Covered(v.page)'
    BY <2>1, <2>2, <2>3, <2>4 DEF Placed
  <2>7. QED BY <1>1, <2>4, <2>5, <2>6 DEF Placed
<1>4. QED BY <1>2, <1>3

\* What a query becomes when a refresh commits.
LEMMA WatchedQuery ==
  ASSUME QueryInv, NEW h \in Handlers, Refresh
  PROVE  /\ query[h].at \in {"page", "count"} =>
               query'[h] = [at |-> query[h].at, page |-> query[h].page,
                            filter |-> query[h].filter,
                            since |-> query[h].since \cap Matching(names', query[h].filter),
                            left |-> query[h].left \cup (Result(query[h].filter)
                                         \ Matching(names', query[h].filter)),
                            rows |-> query[h].rows, shown |-> query[h].shown]
         /\ query[h].at \notin {"page", "count"} => query'[h] = query[h]
<1>1. query'[h] = Watched(query[h], names')
  BY DEF Refresh
<1>2. CASE query[h].at \in {"page", "count"}
  <2>1. PICK w \in Walking : w = query[h]
    BY <1>2, QueryKinds
  <2> DEFINE x == w.since \cap Matching(names', w.filter)
             y == w.left \cup (Result(w.filter) \ Matching(names', w.filter))
  <2>2. query'[h] = [[w EXCEPT !.since = x] EXCEPT !.left = y]
    <3>1. [w EXCEPT !.since = x].left = w.left
      BY DEF Walking
    <3>2. QED BY <1>1, <1>2, <2>1, <3>1 DEF Watched
  <2> HIDE DEF x, y
  <2>3. query'[h] = [at |-> w.at, page |-> w.page, filter |-> w.filter, since |-> x,
                     left |-> y, rows |-> w.rows, shown |-> w.shown]
    BY <2>2, WalkingExcept
  <2>4. QED BY <1>2, <2>1, <2>3 DEF x, y
<1>3. QED BY <1>1, <1>2 DEF Watched

LEMMA RefreshKeeps ==
  ASSUME SeatsInv, SeatsInv', QueryInv, cached \subseteq cached', Refresh
  PROVE  QueryInv'
<1>1. ASSUME NEW h \in Handlers, query[h].at \in {"page", "count"}
      PROVE  /\ query'[h] \in Walking
             /\ \A o \in query'[h].since : Alone(o) => Placed(query[h], o)'
  <2>1. PICK w \in Walking : w = query[h]
    BY <1>1, QueryKinds
  <2>2. Matching(names', w.filter) = Result(w.filter)'
    BY DEF Result
  <2>3. PICK v : v = query'[h]
    OBVIOUS
  <2>4. v = [at |-> w.at, page |-> w.page, filter |-> w.filter,
             since |-> w.since \cap Result(w.filter)',
             left |-> w.left \cup (Result(w.filter) \ Result(w.filter)'),
             rows |-> w.rows, shown |-> w.shown]
    BY <1>1, <2>1, <2>2, <2>3, WatchedQuery
  <2>5. Result(w.filter) \subseteq Offerings
    BY ResultCached DEF SeatsInv, SeatType
  <2>6. v \in Walking
    BY <2>4, <2>5 DEF Walking
  <2>7. ASSUME NEW o \in v.since, Alone(o)
        PROVE  Placed(v, o)'
    <3>1. o \in w.since \cap Result(w.filter)'
      BY <2>4, <2>7
    <3>2. Placed(w, o)
      BY <2>1, <2>7, <3>1 DEF QueryInv, WalkInv
    <3>3. w.at \in {"page", "count"}
      BY <1>1, <2>1
    <3>4. QED BY <2>4, <3>1, <3>2, <3>3, WatchedPlaced
  <2>8. ASSUME NEW o \in v.since, Alone(o)
        PROVE  Placed(query[h], o)'
    BY <2>3, <2>7, <2>8 DEF Placed, PulledUp, Before, Covered, Result, Matching
  <2>9. QED BY <2>3, <2>6, <2>8
<1>2. ASSUME NEW h \in Handlers, query[h].at \notin {"page", "count"}
      PROVE  query'[h] = query[h]
  BY <1>2, WatchedQuery
<1>3. QueryType'
  <2>1. \A h \in Handlers : query'[h] \in {NoQuery} \cup Walking \cup Listing
    BY <1>1, <1>2 DEF QueryInv, QueryType
  <2>2. query' = [h \in Handlers |-> query'[h]]
    BY DEF Refresh
  <2>3. QED BY <2>1, <2>2 DEF QueryType
<1>4. ListInv'
  <2>1. SUFFICES ASSUME NEW h \in Handlers, query'[h].at = "row"
                 PROVE  query'[h].unknown = {} /\ query'[h].rows \subseteq cached'
    BY DEF ListInv
  <2>2. query[h].at \notin {"page", "count"}
    <3>1. SUFFICES ASSUME query[h].at \in {"page", "count"} PROVE FALSE
      OBVIOUS
    <3>2. query'[h].at = query[h].at
      <4>1. query'[h] = [at |-> query[h].at, page |-> query[h].page,
                         filter |-> query[h].filter,
                         since |-> query[h].since \cap Matching(names', query[h].filter),
                         left |-> query[h].left \cup (Result(query[h].filter)
                                      \ Matching(names', query[h].filter)),
                         rows |-> query[h].rows, shown |-> query[h].shown]
        BY <3>1, WatchedQuery
      <4>2. QED BY ONLY <4>1
    <3>3. QED BY <2>1, <3>1, <3>2
  <2>3. QED BY <1>2, <2>1, <2>2 DEF QueryInv, ListInv
<1>5. WalkInv'
  <2>1. SUFFICES ASSUME NEW h \in Handlers, query'[h] \in Walking,
                        NEW o \in query'[h].since, Alone(o)
                 PROVE  Placed(query[h], o)'
    BY DEF WalkInv, Alone
  <2>2. CASE query[h].at \in {"page", "count"}
    BY <1>1, <2>1, <2>2
  <2>3. CASE query[h].at \notin {"page", "count"}
    <3>1. query'[h] = query[h] /\ Placed(query[h], o)
      BY <1>2, <2>1, <2>3 DEF QueryInv, WalkInv
    <3>2. QED BY <2>3, <3>1 DEF Placed, PulledUp
  <2>4. QED BY <2>2, <2>3
<1>6. QED BY <1>3, <1>4, <1>5 DEF QueryInv

\* One handler's walk goes on; the others stay where they are.
LEMMA WalkGoesOn ==
  ASSUME SeatsInv, QueryInv, NEW h \in Handlers, NEW w \in Walking,
         query' = [query EXCEPT ![h] = w], UNCHANGED names,
         \A o \in w.since : Alone(o) => Placed(w, o)
  PROVE  QueryInv'
<1>1. query \in [Handlers -> {NoQuery} \cup Walking \cup Listing]
  BY DEF QueryInv, QueryType
<1>2. query'[h] = w /\ \A g \in Handlers \ {h} : query'[g] = query[g]
  BY <1>1
<1>3. QueryType'
  BY <1>1 DEF QueryType
<1>4. ListInv'
  BY <1>2 DEF Walking, QueryInv, ListInv, cached
<1>5. WalkInv'
  <2>1. SUFFICES ASSUME NEW g \in Handlers, query'[g] \in Walking,
                        NEW o \in query'[g].since, Alone(o)
                 PROVE  Placed(query[g], o)'
    BY DEF WalkInv, Alone, Walking
  <2>2. CASE g = h
    BY <1>2, <2>1, <2>2 DEF Placed, PulledUp, Before, Covered, Result, Matching
  <2>3. CASE g # h
    BY <1>2, <2>1, <2>3 DEF Placed, PulledUp, Before, Covered, Result, Matching, QueryInv, WalkInv
  <2>4. QED BY <2>2, <2>3
<1>6. QED BY <1>3, <1>4, <1>5 DEF QueryInv

\* The others stay where they are when a handler does not walk.
LEMMA ListGoesOn ==
  ASSUME SeatsInv, QueryInv, NEW h \in Handlers, NEW l \in {NoQuery} \cup Listing,
         query' = [query EXCEPT ![h] = l], UNCHANGED names,
         l.at = "row" => l.unknown = {} /\ l.rows \subseteq cached
  PROVE  QueryInv'
<1>1. query \in [Handlers -> {NoQuery} \cup Walking \cup Listing]
  BY DEF QueryInv, QueryType
<1>2. query'[h] = l /\ \A g \in Handlers \ {h} : query'[g] = query[g]
  BY <1>1
<1>3. QueryType'
  BY <1>1 DEF QueryType
<1>4. ListInv'
  BY <1>2 DEF QueryInv, ListInv, cached
<1>5. l \notin Walking
  BY DEF NoQuery, Listing, Walking
<1>6. WalkInv'
  <2>1. SUFFICES ASSUME NEW g \in Handlers, query'[g] \in Walking,
                        NEW o \in query'[g].since, Alone(o)
                 PROVE  Placed(query[g], o)'
    BY DEF WalkInv, Alone, Walking
  <2>2. g # h
    BY <1>2, <1>5, <2>1
  <2>3. QED BY <1>2, <2>1, <2>2 DEF Placed, PulledUp, Before, Covered, Result, Matching, QueryInv, WalkInv
<1>7. QED BY <1>3, <1>4, <1>6 DEF QueryInv

LEMMA SearchKeeps ==
  ASSUME SeatsInv, QueryInv, NEW h \in Handlers, SearchBegin(h), UNCHANGED names
  PROVE  QueryInv'
<1>0. PICK f \in Filters :
          query' = [query EXCEPT ![h] =
                       [at |-> "page", page |-> 1, filter |-> f, since |-> Result(f),
                        left |-> {}, rows |-> {}, shown |-> {}]]
  BY DEF SearchBegin
<1> DEFINE w == [at |-> "page", page |-> 1, filter |-> f, since |-> Result(f),
                 left |-> {}, rows |-> {}, shown |-> {}]
<1>1. w \in Walking
  BY ResultCached DEF Walking, SeatsInv, SeatType
<1>2. ASSUME NEW o \in w.since PROVE Placed(w, o)
  <2>1. o \in Result(f) /\ o \in Offerings
    BY <1>2, ResultCached DEF SeatsInv, SeatType
  <2>2. Covered(w.page - 1) = 0
    BY DeskAssumption DEF Covered
  <2>3. Cardinality(Before(f, o)) \in Nat
    BY <2>1, BeforeFinite
  <2>4. QED BY <2>1, <2>2, <2>3 DEF Placed
<1>3. query' = [query EXCEPT ![h] = w]
  BY <1>0
<1> HIDE DEF w
<1>4. QED BY <1>1, <1>2, <1>3, WalkGoesOn

\* SQL_SEARCH reads page k: an offering that is not beyond it is on it.
LEMMA PageKeeps ==
  ASSUME SeatsInv, QueryInv, NEW h \in Handlers, ReadPage(h), UNCHANGED names
  PROVE  QueryInv'
<1>1. PICK q \in Listings(query[h].filter) :
          query' = [query EXCEPT ![h].at = "count", ![h].rows = Slice(q, query[h].page)]
  BY DEF ReadPage
<1>2. query[h] \in Walking /\ query[h].at = "page"
  BY QueryKinds DEF ReadPage
<1> DEFINE w == [at |-> "count", page |-> query[h].page, filter |-> query[h].filter,
                 since |-> query[h].since, left |-> query[h].left,
                 rows |-> Slice(q, query[h].page), shown |-> query[h].shown]
<1>3. query' = [query EXCEPT ![h] = w]
  <2>1. query \in [Handlers -> {NoQuery} \cup Walking \cup Listing]
    BY DEF QueryInv, QueryType
  <2>2. [[query[h] EXCEPT !.at = "count"] EXCEPT !.rows = Slice(q, query[h].page)] = w
    BY <1>2, WalkingExcept
  <2>3. query' = [query EXCEPT ![h] =
            [[query[h] EXCEPT !.at = "count"] EXCEPT !.rows = Slice(q, query[h].page)]]
    BY <1>1, <2>1
  <2>4. QED BY <2>2, <2>3
<1>4. w \in Walking
  BY <1>2, SliceType DEF Walking
<1>5. ASSUME NEW o \in w.since, Alone(o) PROVE Placed(w, o)
  <2>1. /\ o \in query[h].since /\ o \in Offerings
        /\ Placed(query[h], o)
    BY <1>2, <1>5 DEF Walking, QueryInv, WalkInv
  <2>2. o \in Result(query[h].filter)
        /\ (o \in query[h].shown \/ PulledUp(query[h], o)
            \/ Cardinality(Before(query[h].filter, o)) >= Covered(query[h].page - 1))
    BY <1>2, <2>1 DEF Placed
  <2>3. query[h].page \in Nat \ {0}
    BY <1>2 DEF Walking
  <2>4. Cardinality(Before(query[h].filter, o)) \in Nat /\ Covered(query[h].page) \in Nat
    BY <2>1, <2>3, BeforeFinite, CoveredNat
  <2>5. o \in query[h].shown \/ PulledUp(query[h], o) \/ o \in Slice(q, query[h].page)
        \/ Cardinality(Before(query[h].filter, o)) >= Covered(query[h].page)
    BY <1>5, <2>2, <2>3, <2>4, PageShows
  <2>6. QED BY <2>2, <2>5 DEF Placed, PulledUp
<1> HIDE DEF w
<1>6. QED BY <1>3, <1>4, <1>5, WalkGoesOn

\* SQL_SEARCH_COUNT counts what matches when it is read: whoever stops
\* there has passed everything.
LEMMA CountKeeps ==
  ASSUME SeatsInv, QueryInv, NEW h \in Handlers, ReadCount(h), UNCHANGED names
  PROVE  QueryInv'
<1> DEFINE n == query[h].page
           st == IF n * PageSize < Cardinality(Result(query[h].filter)) THEN "page" ELSE "shown"
           w == [at |-> st, page |-> n + 1, filter |-> query[h].filter,
                 since |-> query[h].since, left |-> query[h].left,
                 rows |-> {}, shown |-> query[h].shown \cup query[h].rows]
<1>1. query[h] \in Walking /\ query[h].at = "count"
  BY QueryKinds DEF ReadCount
<1>2. query' = [query EXCEPT ![h] = w]
  BY <1>1 DEF ReadCount, Answer, QueryInv, QueryType, Walking
<1>3. w \in Walking
  BY <1>1 DEF Walking
<1>4. n \in Nat
  BY <1>1 DEF Walking
<1>5. ASSUME NEW o \in w.since, Alone(o) PROVE Placed(w, o)
  <2>1. /\ o \in query[h].since /\ o \in Offerings
        /\ Placed(query[h], o)
    BY <1>1, <1>5 DEF Walking, QueryInv, WalkInv
  <2>2. o \in Result(query[h].filter)
        /\ (o \in query[h].shown \cup query[h].rows \/ PulledUp(query[h], o)
            \/ Cardinality(Before(query[h].filter, o)) >= Covered(n))
    BY <1>1, <2>1 DEF Placed
  <2>3. /\ Cardinality(Before(query[h].filter, o)) \in Nat /\ Covered(n) \in Nat
        /\ Cardinality(Result(query[h].filter)) \in Nat /\ Cardinality(Before(query[h].filter, o)) < Cardinality(Result(query[h].filter))
    BY <1>4, <2>1, <2>2, BeforeFinite, CoveredNat
  <2>4. st = "shown" => ~ (Covered(n) < Cardinality(Result(query[h].filter)))
    BY DEF Covered
  <2>5. st = "shown" => o \in query[h].shown \cup query[h].rows \/ PulledUp(query[h], o)
    BY <2>2, <2>3, <2>4
  <2>6. (n + 1) - 1 = n
    BY <1>4
  <2>7. st # "count"
    OBVIOUS
  <2>8. QED BY <2>2, <2>5, <2>6, <2>7 DEF Placed, PulledUp
<1> HIDE DEF w
<1>6. QED BY <1>2, <1>3, <1>5, WalkGoesOn

\* What a student holds or held is cached, and stays so: each row of the
\* listing finds its offering.
LEMMA ListingKeeps ==
  ASSUME SeatsInv, QueryInv, NEW h \in Handlers, UNCHANGED names,
         (\E s \in Students : ListBegin(h, s)) \/ ReadOffering(h) \/ QueryEnds(h)
  PROVE  QueryInv'
<1>1. ASSUME NEW s \in Students, ListBegin(h, s)
      PROVE  QueryInv'
  <2> DEFINE l == [at |-> "row", unknown |-> {},
                   rows |-> {o \in Offerings : s \in holders[o] \cup former[o]}]
  <2>1. l \in Listing
    BY DEF Listing
  <2>2. l.unknown = {} /\ l.rows \subseteq cached
    BY DEF SeatsInv, SeatsCached, Seated
  <2>3. query' = [query EXCEPT ![h] = l]
    BY <1>1 DEF ListBegin
  <2> HIDE DEF l
  <2>4. QED BY <2>1, <2>2, <2>3, ListGoesOn
<1>2. ASSUME ReadOffering(h)
      PROVE  QueryInv'
  <2>1. query[h] \in Listing /\ query[h].at = "row"
    BY <1>2, QueryKinds DEF ReadOffering
  <2>2. query[h].unknown = {} /\ query[h].rows \subseteq cached
    BY <2>1 DEF QueryInv, ListInv
  <2>3. PICK o \in query[h].rows :
            query' = [query EXCEPT ![h].rows = @ \ {o}, ![h].unknown = @ \cup ({o} \ cached)]
    BY <1>2 DEF ReadOffering
  <2> DEFINE l == [at |-> "row", unknown |-> query[h].unknown \cup ({o} \ cached),
                   rows |-> query[h].rows \ {o}]
  <2>4. query' = [query EXCEPT ![h] = l]
    <3>1. query \in [Handlers -> {NoQuery} \cup Walking \cup Listing]
      BY DEF QueryInv, QueryType
    <3> DEFINE r == [[query[h] EXCEPT !.rows = @ \ {o}]
                         EXCEPT !.unknown = @ \cup ({o} \ cached)]
    <3>2. r = l
      BY <2>1, ListingExcept
    <3>3. query' = [query EXCEPT ![h] = r]
      BY <2>3, <3>1
    <3>4. QED BY <3>2, <3>3
  <2>5. l.unknown = {} /\ l.rows \subseteq cached
    BY <2>2
  <2>6. l \in Listing
    BY <2>1, <2>2 DEF Listing
  <2> HIDE DEF l
  <2>7. QED BY <2>4, <2>5, <2>6, ListGoesOn
<1>3. CASE QueryEnds(h)
  BY <1>3, ListGoesOn DEF QueryEnds, NoQuery
<1>4. QED BY <1>1, <1>2, <1>3

LEMMA NextQuery ==
  ASSUME SeatsInv, SeatsInv', QueryInv, [Next]_dvars
  PROVE  QueryInv'
<1>1. ASSUME NEW h \in Handlers, Query(h)
      PROVE  QueryInv'
  <2>1. UNCHANGED names
    BY <1>1 DEF Query
  <2>2. QED
    BY <1>1, <2>1, SearchKeeps, PageKeeps, CountKeeps, ListingKeeps DEF Query
<1>2. CASE Refresh
  BY <1>2, RefreshGrows, RefreshKeeps
<1>3. CASE UNCHANGED <<query, names>>
  BY <1>3 DEF QueryInv, QueryType, ListInv, WalkInv, Placed, PulledUp, Before, Covered,
              Result, Matching, Alone, cached
<1>4. CASE Closes \/ Others \/ UNCHANGED dvars
             \/ \E h \in Handlers : Accepts(h) \/ Converses(h)
  BY <1>3, <1>4 DEF Closes, Others, Accepts, Converses, dvars
<1>5. QED BY <1>1, <1>2, <1>4 DEF Next

LEMMA QueryInvariant == Spec => []QueryInv
<1>1. SeatsInv /\ SeatsInv' /\ QueryInv /\ [Next]_dvars => QueryInv'
  BY NextQuery
<1>2. QED BY <1>1, InitQuery, SeatsInvariant, PTL DEF Spec

\* my_enrollments of handlers/enrollments.py reads the rows, then each offering in
\* a statement of its own: enroll takes seats of cached offerings only and
\* upsert_many removes none, so none of them is unknown by then.
THEOREM ListingsKnown == Spec => []ListedAreKnown
<1>1. QueryInv => ListedAreKnown
  BY DEF QueryInv, ListInv, ListedAreKnown
<1>2. QED BY <1>1, QueryInvariant, PTL

\* search of offering_cache_repo.py reads a page and counts in two
\* statements, and a refresh may insert and rename offerings between any two
\* of them: a client that goes on until the pages cover the last total has
\* seen every offering that matched all the while and is alone in its course,
\* unless one before it was renamed out of the result.  The count read after
\* the page is what makes it true (CountFirst).
THEOREM WalkComplete == Spec => []WalkMissesNothing
<1>1. QueryInv => WalkMissesNothing
  <2> SUFFICES ASSUME QueryInv, NEW h \in Handlers, query[h].at = "shown",
                      NEW o \in query[h].since, Alone(o)
               PROVE  o \in query[h].shown \/ PulledUp(query[h], o)
    BY DEF WalkMissesNothing, Alone, PulledUp
  <2>1. query[h] \in Walking
    BY DEF QueryInv, QueryType, Listing, NoQuery
  <2>2. QED BY <2>1 DEF QueryInv, WalkInv, Placed
<1>2. QED BY <1>1, QueryInvariant, PTL

=============================================================================
