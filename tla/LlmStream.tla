------------------------------ MODULE LlmStream ------------------------------
(***************************************************************************)
(* The conversations with the language model: AIAdvisor.stream_message     *)
(* (app/services/ai_advisor.py) over HttpLLMClient.stream_chat             *)
(* (app/integrations/llm_client.py).  A semaphore of the process bounds    *)
(* the streams; a stream keeps its slot from the acquire to the end of the *)
(* generator.  A tool outside the whitelist is refused: an audit row is    *)
(* written while the slot is still held, then the answer breaks off.       *)
(*                                                                         *)
(* Nothing closes the generator of a stream that breaks off at its yield:  *)
(* the event loop finalizes it some time after the request has ended.      *)
(***************************************************************************)
EXTENDS Naturals, SequencesExt

CONSTANTS
    Handlers,        \* request handlers of one api process
    MaxConcurrency   \* llm_max_concurrency

ASSUME SlotsAssumption == MaxConcurrency \in Nat \ {0} /\ IsFiniteSet(Handlers)

VARIABLES
    stream,     \* per handler: "idle", "waiting", "streaming", "auditing"
    queue,      \* the waiters of the semaphore, oldest first
    free,       \* the semaphore's value
    abandoned   \* generators that broke off and are not finalized yet

llm == <<stream, queue, free, abandoned>>

StreamTypeOK ==
    /\ stream \in [Handlers -> {"idle", "waiting", "streaming", "auditing"}]
    /\ queue \in Seq(Handlers)
    /\ free \in 0..MaxConcurrency
    /\ abandoned \in Nat

StreamInit ==
    /\ stream = [h \in Handlers |-> "idle"]
    /\ queue = << >>
    /\ free = MaxConcurrency
    /\ abandoned = 0

-----------------------------------------------------------------------------
Turns(h, state) == stream' = [stream EXCEPT ![h] = state]

\* A message is sent to the model; unless llm_base_url is set, the request
\* ends here.  A free slot is taken at once when nobody waits.
Ask(h) ==
    /\ stream[h] = "idle"
    /\ IF free > 0 /\ queue = << >>
       THEN Turns(h, "streaming") /\ free' = free - 1 /\ UNCHANGED queue
       ELSE Turns(h, "waiting") /\ queue' = Append(queue, h) /\ UNCHANGED free
    /\ UNCHANGED abandoned

\* A slot goes to the oldest waiter.
Grant(h) ==
    /\ queue # << >> /\ h = Head(queue) /\ free > 0
    /\ queue' = Tail(queue)
    /\ Turns(h, "streaming")
    /\ free' = free - 1
    /\ UNCHANGED abandoned

\* The client goes away before its turn.
Leaves(h) ==
    /\ stream[h] = "waiting"
    /\ Turns(h, "idle")
    /\ \E i \in DOMAIN queue : queue[i] = h /\ queue' = RemoveAt(queue, i)
    /\ UNCHANGED <<free, abandoned>>

\* Mutant of Ends: a stream that fails keeps its slot.
EndsKeepingSlot(h) ==
    /\ stream[h] = "streaming"
    /\ Turns(h, "idle")
    /\ free' \in {free, free + 1}
    /\ UNCHANGED <<queue, abandoned>>

\* The model has said all, fails or times out, or the client goes away while
\* the next line is awaited: the generator runs to its end and gives its slot
\* back.  (Each chunk before that is passed on and changes nothing.)
Ends(h) ==
    /\ stream[h] = "streaming"
    /\ Turns(h, "idle")
    /\ free' = free + 1
    /\ UNCHANGED <<queue, abandoned>>

\* The client goes away while a chunk is being sent to it.
BreaksOff(h) ==
    /\ stream[h] = "streaming"
    /\ Turns(h, "idle")
    /\ abandoned' = abandoned + 1
    /\ UNCHANGED <<queue, free>>

\* A tool that is not in the whitelist.
Refuses(h) ==
    /\ stream[h] = "streaming"
    /\ Turns(h, "auditing")
    /\ UNCHANGED <<queue, free, abandoned>>

\* Mutant of RecordGuardrail: the stream is closed at once, and finalized again.
RecordAndClose(h) ==
    /\ stream[h] = "auditing"
    /\ Turns(h, "idle")
    /\ free' = free + 1
    /\ abandoned' = abandoned + 1
    /\ UNCHANGED queue

\* The transaction of the audit row commits or fails; UpstreamDown or that
\* failure ends the request, and the inner generator is left behind.
RecordGuardrail(h) ==
    /\ stream[h] = "auditing"
    /\ Turns(h, "idle")
    /\ abandoned' = abandoned + 1
    /\ UNCHANGED <<queue, free>>

\* The event loop closes a generator that was left behind.
Finalize ==
    /\ abandoned > 0
    /\ abandoned' = abandoned - 1
    /\ free' = free + 1
    /\ UNCHANGED <<stream, queue>>

-----------------------------------------------------------------------------
\* What must hold.

\* Every slot is free, with a stream, or with a generator still to be
\* finalized; nobody waits in the queue who is not waiting, or twice.  So at
\* most llm_max_concurrency streams are open, however they end.
SlotsAccounted ==
    /\ free + abandoned + Cardinality({h \in Handlers :
                              stream[h] \in {"streaming", "auditing"}})
          = MaxConcurrency
    /\ Len(queue) = Cardinality({h \in Handlers : stream[h] = "waiting"})
    /\ \A i \in DOMAIN queue : stream[queue[i]] = "waiting"

\* Whoever asked is answered or gives up: no way a stream can end, by an
\* error, a refusal or a client that goes away, keeps the others waiting.
WaitersServed == \A h \in Handlers : stream[h] = "waiting" ~> stream[h] # "waiting"

=============================================================================
