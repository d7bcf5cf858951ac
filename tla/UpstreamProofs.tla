--------------------------- MODULE UpstreamProofs ---------------------------
(***************************************************************************)
(* Proofs about Upstream: what its circuit breaker and its token promise   *)
(* when calls that overlap share them.                                     *)
(***************************************************************************)
EXTENDS Upstream, TLAPS

CallType ==
    /\ pc \in [Calls -> {"idle", "login", "get"}]
    /\ attempt \in [Calls -> 0 .. Retries + 1]
    /\ waited \in [Calls -> 0 .. Timeout]
    /\ \A c \in Calls : pc[c] = "idle" <=> attempt[c] = 0

BreakerType ==
    /\ failures \in Nat /\ opened \in BOOLEAN /\ elapsed \in 0 .. Cooldown
    /\ failed \in 0 .. Threshold /\ shut \in Nat
    /\ tokenLeft \in Nat /\ validLeft \in Int /\ validLeft >= -Margin
    /\ short \in 0 .. Margin

\* The client trusts its token no longer than the auth service honours it,
\* but for what the token was short of the margin.
TokenInv == tokenLeft > 0 => tokenLeft <= validLeft + short

\* Every failure the breaker has counted is a call that failed.
TripInv ==
    /\ Smaller(failures, Threshold) <= failed
    /\ opened => failures >= Threshold

\* How long n attempts may take.
Span(n) == n * (2 * Timeout)

\* How much longer call c may be in flight.
Remaining(c) ==
    Span(Retries + 1 - attempt[c])
        + (IF pc[c] = "login" THEN 2 * Timeout ELSE Timeout) - waited[c]

\* Whoever is in flight began when the breaker let calls in, or before: all
\* it has refused since, and all the call may still take, is one call.
ShutInv ==
    /\ shut <= elapsed + LongestCall
    /\ \A c \in Calls : pc[c] # "idle" => shut + Remaining(c) <= LongestCall

UpstreamInv == CallType /\ BreakerType /\ TokenInv /\ TripInv /\ ShutInv

LEMMA SpanNat ==
  /\ LongestCall = Span(Retries + 1)
  /\ \A n \in Nat : Span(n) \in Nat /\ Span(n + 1) = Span(n) + 2 * Timeout
<1>1. 2 * Timeout \in Nat /\ Retries \in Nat
  BY LimitsAssumption
<1>2. \A n \in Nat : n * (2 * Timeout) \in Nat
                     /\ (n + 1) * (2 * Timeout) = n * (2 * Timeout) + 2 * Timeout
  BY <1>1
<1>3. (Retries + 1) * 2 * Timeout = (Retries + 1) * (2 * Timeout)
  BY LimitsAssumption
<1>4. QED BY <1>2, <1>3 DEF Span, LongestCall

\* A call in flight has something left to wait for.
LEMMA RemainingInt ==
  ASSUME CallType, NEW c \in Calls
  PROVE  Remaining(c) \in Nat
<1>1. /\ attempt[c] \in 0 .. Retries + 1 /\ waited[c] \in 0 .. Timeout
      /\ Timeout \in Nat /\ Retries \in Nat
  BY LimitsAssumption DEF CallType
<1>2. Retries + 1 - attempt[c] \in Nat
  BY <1>1
<1>3. Span(Retries + 1 - attempt[c]) \in Nat
  BY <1>2, SpanNat
<1>4. QED BY <1>1, <1>3 DEF Remaining

LEMMA InitUpstream == Init => UpstreamInv
<1> SUFFICES ASSUME Init PROVE UpstreamInv
  OBVIOUS
<1>1. LongestCall \in Nat
  BY SpanNat, LimitsAssumption
<1>2. CallType /\ BreakerType
  <2>1. 0 \in 0 .. Retries + 1 /\ 0 \in 0 .. Timeout /\ 0 \in 0 .. Cooldown
        /\ 0 \in 0 .. Threshold /\ 0 \in 0 .. Margin /\ 0 >= -Margin
    BY LimitsAssumption
  <2>2. CallType
    BY <2>1 DEF Init, CallType
  <2>3. BreakerType
    <3>1. opened \in BOOLEAN /\ failures = 0 /\ elapsed = 0 /\ failed = 0 /\ shut = 0
          /\ tokenLeft = 0 /\ validLeft = 0 /\ short = 0
      BY DEF Init
    <3>2. QED BY <2>1, <3>1 DEF BreakerType
  <2>4. QED BY <2>2, <2>3
<1>3. TokenInv /\ TripInv
  BY LimitsAssumption DEF Init, TokenInv, TripInv, Smaller
<1>4. ShutInv
  BY <1>1 DEF Init, ShutInv
<1>5. QED BY <1>2, <1>3, <1>4 DEF UpstreamInv

-----------------------------------------------------------------------------
(***************************************************************************)
(* What a call does.                                                       *)
(***************************************************************************)

\* A request is sent, at an attempt that is not behind the one before it: the
\* call has no more left than it had.
LEMMA SentKeeps ==
  ASSUME UpstreamInv, NEW c \in Calls, NEW n \in 1 .. Retries + 1,
         NEW l \in {"login", "get"}, Sent(c, l, n),
         \/ pc[c] = "idle" /\ n = 1
         \/ pc[c] \in {"login", "get"} /\ n = attempt[c] + 1
         \/ pc[c] = "login" /\ l = "get" /\ n = attempt[c]
  PROVE  /\ CallType'
         /\ pc[c] # "idle" => Remaining(c)' <= Remaining(c)
         /\ Remaining(c)' <= LongestCall
         /\ \A g \in Calls \ {c} : pc'[g] = pc[g] /\ Remaining(g)' = Remaining(g)
<1>1. CallType'
  BY LimitsAssumption DEF UpstreamInv, CallType, Sent
<1>2. /\ pc'[c] = l /\ attempt'[c] = n /\ waited'[c] = 0
      /\ \A g \in Calls \ {c} :
            pc'[g] = pc[g] /\ attempt'[g] = attempt[g] /\ waited'[g] = waited[g]
  BY DEF UpstreamInv, CallType, Sent
<1>3. \A g \in Calls \ {c} : pc'[g] = pc[g] /\ Remaining(g)' = Remaining(g)
  BY <1>2 DEF Remaining, Span
<1> DEFINE m == Retries + 1 - n
<1>4. m \in Nat /\ m + 1 \in Nat /\ Timeout \in Nat /\ Retries \in Nat
  BY LimitsAssumption
<1>5. Span(m) \in Nat /\ Span(m + 1) = Span(m) + 2 * Timeout /\ Span(m + 1) \in Nat
  BY <1>4, SpanNat
<1>6. Remaining(c)' = Span(m) + (IF l = "login" THEN 2 * Timeout ELSE Timeout)
  BY <1>2, <1>4, <1>5 DEF Remaining, Span
<1>7. attempt[c] \in 0 .. Retries + 1 /\ waited[c] \in 0 .. Timeout
  BY DEF UpstreamInv, CallType
<1>8. CASE pc[c] = "idle" /\ n = 1
  <2>1. Span(m + 1) = LongestCall
    BY <1>4, <1>8, SpanNat
  <2>2. QED BY <1>1, <1>3, <1>4, <1>5, <1>6, <1>8, <2>1
<1>9. CASE pc[c] \in {"login", "get"} /\ n = attempt[c] + 1
  <2>1. Retries + 1 - attempt[c] = m + 1
    BY <1>4, <1>7, <1>9
  <2>2. Remaining(c) >= Span(m + 1)
    BY <1>4, <1>5, <1>7, <2>1 DEF Remaining
  <2>3. Remaining(c) <= LongestCall /\ Remaining(c) \in Nat
    <3>1. shut + Remaining(c) <= LongestCall /\ shut \in Nat /\ Remaining(c) \in Nat
      BY <1>9, RemainingInt DEF UpstreamInv, ShutInv, BreakerType
    <3>2. LongestCall \in Nat
      BY SpanNat, LimitsAssumption
    <3>3. QED BY <3>1, <3>2
  <2>4. LongestCall \in Nat
    BY SpanNat, LimitsAssumption
  <2>5. QED BY <1>1, <1>3, <1>4, <1>5, <1>6, <2>2, <2>3, <2>4
<1>10. CASE pc[c] = "login" /\ l = "get" /\ n = attempt[c]
  <2>1. Remaining(c) = Span(m) + 2 * Timeout - waited[c]
    BY <1>10 DEF Remaining
  <2>2. shut + Remaining(c) <= LongestCall /\ shut \in Nat /\ LongestCall \in Nat
    BY <1>10, SpanNat, LimitsAssumption DEF UpstreamInv, ShutInv, BreakerType
  <2>3. QED BY <1>1, <1>3, <1>4, <1>5, <1>6, <1>7, <1>10, <2>1, <2>2
<1>11. QED BY <1>8, <1>9, <1>10

\* A call that is done has nothing left, and the others are where they were.
LEMMA DoneKeeps ==
  ASSUME UpstreamInv, NEW c \in Calls, Done(c)
  PROVE  /\ CallType' /\ pc'[c] = "idle"
         /\ \A g \in Calls \ {c} : pc'[g] = pc[g] /\ Remaining(g)' = Remaining(g)
BY LimitsAssumption DEF UpstreamInv, CallType, Done, Sent, Remaining, Span

\* What a call does beside sending requests: nothing is refused longer by it,
\* and one that fails for good is in flight while it starts the cooldown anew.
LEMMA ShutKeeps ==
  ASSUME UpstreamInv, NEW c \in Calls, shut' \in {0, shut},
         elapsed' \in {0, elapsed},
         elapsed' = elapsed \/ pc[c] # "idle" \/ shut' = 0,
         \A g \in Calls \ {c} : pc'[g] = pc[g] /\ Remaining(g)' = Remaining(g),
         \/ pc'[c] = "idle"
         \/ pc[c] # "idle" /\ Remaining(c)' <= Remaining(c)
         \/ shut' = 0 /\ Remaining(c)' <= LongestCall,
         CallType'
  PROVE  ShutInv'
<1>1. /\ shut \in Nat /\ elapsed \in Nat /\ LongestCall \in Nat
      /\ \A g \in Calls : Remaining(g) \in Nat
  BY RemainingInt, SpanNat, LimitsAssumption DEF UpstreamInv, BreakerType
<1>2. \A g \in Calls : Remaining(g)' \in Nat
  <2>1. SUFFICES ASSUME NEW g \in Calls PROVE Remaining(g)' \in Nat
    OBVIOUS
  <2>2. /\ attempt'[g] \in 0 .. Retries + 1 /\ waited'[g] \in 0 .. Timeout
        /\ Timeout \in Nat /\ Retries \in Nat
    BY LimitsAssumption DEF CallType
  <2>3. Retries + 1 - attempt'[g] \in Nat
    BY <2>2
  <2>4. Span(Retries + 1 - attempt'[g]) \in Nat
    BY <2>3, SpanNat
  <2>5. QED BY <2>2, <2>4 DEF Remaining, Span
<1>3. LongestCall' = LongestCall
  BY DEF LongestCall
<1>4. \A g \in Calls : pc'[g] # "idle" => shut' + Remaining(g)' <= LongestCall
  <2>1. SUFFICES ASSUME NEW g \in Calls, pc'[g] # "idle"
                 PROVE  shut' + Remaining(g)' <= LongestCall
    OBVIOUS
  <2>2. pc[g] # "idle" => shut + Remaining(g) <= LongestCall
    BY DEF UpstreamInv, ShutInv
  <2>3. CASE g # c
    BY <1>1, <1>2, <2>1, <2>2, <2>3
  <2>4. CASE g = c
    BY <1>1, <1>2, <2>1, <2>2, <2>4
  <2>5. QED BY <2>3, <2>4
<1>5. shut' <= elapsed' + LongestCall
  <2>1. shut <= elapsed + LongestCall
    BY DEF UpstreamInv, ShutInv
  <2>2. pc[c] # "idle" => shut <= LongestCall
    BY <1>1 DEF UpstreamInv, ShutInv
  <2>3. QED BY <1>1, <2>1, <2>2
<1>6. QED BY <1>3, <1>4, <1>5 DEF ShutInv

\* What no call ever does to a request it sends, or to the token.
Fresh(c) ==
    pc'[c] = "get" /\ (pc[c] # "get" \/ attempt'[c] # attempt[c])
        => validLeft' > - short'

LEMMA TryKeeps ==
  ASSUME UpstreamInv, NEW c \in Calls, NEW n \in 1 .. Retries + 1, Try(c, n),
         \/ pc[c] = "idle" /\ n = 1
         \/ pc[c] \in {"login", "get"} /\ n = attempt[c] + 1
  PROVE  /\ CallType'
         /\ pc[c] # "idle" => Remaining(c)' <= Remaining(c)
         /\ Remaining(c)' <= LongestCall
         /\ \A g \in Calls \ {c} : /\ pc'[g] = pc[g] /\ attempt'[g] = attempt[g]
                                   /\ Remaining(g)' = Remaining(g)
         /\ pc'[c] = "get" => tokenLeft > 0
<1> DEFINE l == IF tokenLeft > 0 THEN "get" ELSE "login"
<1>1. l \in {"login", "get"} /\ Sent(c, l, n)
  BY DEF Try
<1>2. pc'[c] = l /\ \A g \in Calls \ {c} : attempt'[g] = attempt[g]
  BY <1>1 DEF Sent, UpstreamInv, CallType
<1>3. pc'[c] = "get" => tokenLeft > 0
  BY <1>2
<1> HIDE DEF l
<1>4. QED BY <1>1, <1>2, <1>3, SentKeeps

\* An attempt fails: another follows it, or record_failure counts the call.
LEMMA FailureKeeps ==
  ASSUME UpstreamInv, NEW c \in Calls, pc[c] \in {"login", "get"}, FailAttempt(c),
         UNCHANGED <<token, shut>>
  PROVE  UpstreamInv' /\ \A g \in Calls : Fresh(g)
<1> USE DEF token
<1>1. /\ failures \in Nat /\ failed \in 0 .. Threshold /\ Threshold \in Nat \ {0}
      /\ elapsed \in 0 .. Cooldown /\ Cooldown \in Nat /\ opened \in BOOLEAN
      /\ attempt[c] \in 0 .. Retries + 1 /\ Retries \in Nat
  BY LimitsAssumption DEF UpstreamInv, CallType, BreakerType
<1>3. TokenInv'
  BY DEF UpstreamInv, TokenInv
<1>4. CASE attempt[c] <= Retries
  <2>1. /\ Try(c, attempt[c] + 1) /\ UNCHANGED <<breaker, failed>>
        /\ attempt[c] + 1 \in 1 .. Retries + 1
    BY <1>1, <1>4 DEF FailAttempt
  <2>2. /\ CallType'
        /\ Remaining(c)' <= Remaining(c)
        /\ \A g \in Calls \ {c} : /\ pc'[g] = pc[g] /\ attempt'[g] = attempt[g]
                                  /\ Remaining(g)' = Remaining(g)
        /\ pc'[c] = "get" => tokenLeft > 0
    BY <2>1, TryKeeps
  <2>3. ShutInv'
    BY <2>1, <2>2, ShutKeeps DEF breaker
  <2>4. BreakerType' /\ TripInv'
    BY <2>1 DEF breaker, UpstreamInv, BreakerType, TripInv, Smaller
  <2>5. \A g \in Calls : Fresh(g)
    BY <2>2 DEF Fresh, UpstreamInv, TokenInv, BreakerType
  <2>6. QED BY <1>3, <2>2, <2>3, <2>4, <2>5 DEF UpstreamInv
<1>5. CASE ~ (attempt[c] <= Retries)
  <2>1. Done(c) /\ RecordFailure /\ failed' = Smaller(failed + 1, Threshold)
    BY <1>5 DEF FailAttempt
  <2>2. /\ CallType' /\ pc'[c] = "idle"
        /\ \A g \in Calls \ {c} : pc'[g] = pc[g] /\ Remaining(g)' = Remaining(g)
    BY <2>1, DoneKeeps
  <2>3. elapsed' \in {0, elapsed}
    BY <2>1 DEF RecordFailure
  <2>4. ShutInv'
    BY <2>2, <2>3, ShutKeeps
  <2>5. BreakerType' /\ TripInv'
    <3>1. failed' \in 0 .. Threshold /\ Smaller(failures + 1, Threshold) <= failed'
      BY <1>1, <2>1 DEF UpstreamInv, TripInv, Smaller
    <3>2. QED
      BY <1>1, <2>1, <2>3, <3>1 DEF RecordFailure, UpstreamInv, BreakerType, TripInv
  <2>6. \A g \in Calls : Fresh(g)
    BY <2>1, <2>2 DEF Fresh, Done, Sent, UpstreamInv, CallType
  <2>7. QED BY <1>3, <2>2, <2>4, <2>5, <2>6 DEF UpstreamInv
<1>6. QED BY <1>4, <1>5

\* A call lets itself in: the time it was refused is over.
LEMMA BeginKeeps ==
  ASSUME UpstreamInv, NEW c \in Calls, Begin(c)
  PROVE  UpstreamInv' /\ \A g \in Calls : Fresh(g)
<1>1. /\ pc[c] = "idle" /\ Try(c, 1) /\ shut' = 0 /\ elapsed' = 0 /\ opened' = FALSE
      /\ failures' = (IF opened THEN 0 ELSE failures)
      /\ failed' = (IF opened THEN 0 ELSE failed)
      /\ UNCHANGED <<tokenLeft, validLeft, short>>
  BY DEF Begin, token
<1>2. 1 \in 1 .. Retries + 1
  BY LimitsAssumption
<1>3. /\ CallType'
      /\ Remaining(c)' <= LongestCall
      /\ \A g \in Calls \ {c} : /\ pc'[g] = pc[g] /\ attempt'[g] = attempt[g]
                                /\ Remaining(g)' = Remaining(g)
      /\ pc'[c] = "get" => tokenLeft > 0
  BY <1>1, <1>2, TryKeeps
<1>4. ShutInv'
  BY <1>1, <1>3, ShutKeeps
<1>5. BreakerType' /\ TokenInv'
  <2>1. failures \in Nat /\ Cooldown \in Nat
    BY LimitsAssumption DEF UpstreamInv, BreakerType
  <2>2. failures' \in {0, failures} /\ opened' \in BOOLEAN
    BY <1>1
  <2>3. /\ elapsed' \in 0 .. Cooldown /\ shut' \in Nat /\ failures' \in Nat
        /\ failed' \in 0 .. Threshold
    BY <1>1, <2>1, <2>2, LimitsAssumption DEF UpstreamInv, BreakerType
  <2>4. QED BY <1>1, <2>2, <2>3 DEF UpstreamInv, BreakerType, TokenInv
<1>6. TripInv'
  BY <1>1, LimitsAssumption DEF UpstreamInv, BreakerType, TripInv, Smaller
<1>7. \A g \in Calls : Fresh(g)
  BY <1>1, <1>3 DEF Fresh, UpstreamInv, TokenInv, BreakerType
<1>8. QED BY <1>3, <1>4, <1>5, <1>6, <1>7 DEF UpstreamInv

\* A token is there: however long the answer took, it is as fresh as it is
\* taken to be.
LEMMA LoginKeeps ==
  ASSUME UpstreamInv, NEW c \in Calls, LoginOk(c)
  PROVE  UpstreamInv' /\ \A g \in Calls : Fresh(g)
<1>1. /\ pc[c] = "login" /\ Sent(c, "get", attempt[c])
      /\ UNCHANGED <<failures, opened, elapsed, failed, shut>>
  BY DEF LoginOk, breaker
<1>2. /\ attempt[c] \in 0 .. Retries + 1 /\ waited[c] \in 0 .. Timeout
      /\ Retries \in Nat /\ Timeout \in Nat /\ Margin \in Nat
  BY LimitsAssumption DEF UpstreamInv, CallType
<1>3. /\ tokenLeft' \in Nat /\ validLeft' \in Int /\ short' \in 0 .. Margin
      /\ validLeft' > - short' /\ validLeft' >= -Margin
      /\ tokenLeft' > 0 => tokenLeft' <= validLeft' + short'
  <2>1. PICK e \in Lifetimes, d \in 0 .. waited[c] :
            /\ validLeft' = e - d
            /\ short' = Larger(Margin - e, 0)
            /\ tokenLeft' = Larger(Larger(e - Margin, Margin) - waited[c], 0)
    BY DEF LoginOk
  <2>2. e \in Nat /\ Timeout < Margin
    BY LifetimesAssumption, MarginAssumption
  <2>3. QED BY <1>2, <2>1, <2>2 DEF Larger
<1>4. /\ CallType'
      /\ Remaining(c)' <= Remaining(c)
      /\ \A g \in Calls \ {c} : pc'[g] = pc[g] /\ Remaining(g)' = Remaining(g)
  <2>1. attempt[c] \in 1 .. Retries + 1
    BY <1>1, <1>2 DEF UpstreamInv, CallType
  <2>2. QED BY <1>1, <2>1, SentKeeps
<1>5. ShutInv'
  BY <1>1, <1>4, ShutKeeps
<1>6. BreakerType' /\ TokenInv' /\ TripInv'
  BY <1>1, <1>3, LimitsAssumption DEF UpstreamInv, BreakerType, TokenInv, TripInv, Smaller
<1>7. \A g \in Calls : Fresh(g)
  BY <1>3 DEF Fresh
<1>8. QED BY <1>4, <1>5, <1>6, <1>7 DEF UpstreamInv

\* A call returns without another request; if it was answered, the breaker
\* forgets.
LEMMA EndKeeps ==
  ASSUME UpstreamInv, NEW c \in Calls,
         LoginRefused(c) \/ Answered(c) \/ Rejected(c) \/ Cancelled(c)
  PROVE  UpstreamInv' /\ \A g \in Calls : Fresh(g)
<1>1. /\ pc[c] # "idle" /\ Done(c) /\ UNCHANGED <<token, shut>>
      /\ \/ RecordSuccess
         \/ UNCHANGED <<failures, opened, elapsed, failed>>
  BY DEF LoginRefused, Answered, Rejected, Cancelled, breaker
<1>2. /\ CallType' /\ pc'[c] = "idle"
      /\ \A g \in Calls \ {c} : pc'[g] = pc[g] /\ Remaining(g)' = Remaining(g)
  BY <1>1, DoneKeeps
<1>3. elapsed' \in {0, elapsed}
  BY <1>1 DEF RecordSuccess
<1>4. ShutInv'
  BY <1>1, <1>2, <1>3, ShutKeeps
<1>5. TokenInv'
  BY <1>1 DEF UpstreamInv, TokenInv, token
<1>6. BreakerType' /\ TripInv'
  <2>1. CASE RecordSuccess
    <3>1. failures' = 0 /\ opened' = FALSE /\ elapsed' = 0 /\ failed' = 0
      BY <2>1 DEF RecordSuccess
    <3>2. 0 \in 0 .. Cooldown /\ 0 \in 0 .. Threshold /\ Smaller(0, Threshold) <= 0
      BY LimitsAssumption DEF Smaller
    <3>3. TripInv'
      BY <3>1, <3>2 DEF TripInv, Smaller
    <3>4. QED BY <1>1, <3>1, <3>2, <3>3 DEF UpstreamInv, BreakerType, token
  <2>2. CASE UNCHANGED <<failures, opened, elapsed, failed>>
    BY <1>1, <2>2 DEF UpstreamInv, BreakerType, TripInv, Smaller, token
  <2>3. QED BY <1>1, <2>1, <2>2
<1>7. \A g \in Calls : Fresh(g)
  BY <1>1, <1>2 DEF Fresh, Done, Sent, UpstreamInv, CallType
<1>8. QED BY <1>2, <1>4, <1>5, <1>6, <1>7 DEF UpstreamInv

-----------------------------------------------------------------------------
(***************************************************************************)
(* The clock.                                                              *)
(***************************************************************************)

\* Whoever is in flight has a tick less left, and the breaker may have
\* refused for one more.
LEMMA TickKeeps ==
  ASSUME UpstreamInv, Tick
  PROVE  UpstreamInv' /\ \A g \in Calls : Fresh(g)
<1>1. /\ UNCHANGED <<failures, opened, short, pc, attempt, failed>>
      /\ elapsed' = (IF opened THEN Smaller(elapsed + 1, Cooldown) ELSE 0)
      /\ waited' = [c \in Calls |-> IF pc[c] # "idle" THEN waited[c] + 1 ELSE 0]
      /\ shut' = (IF Refusing THEN shut + 1 ELSE 0)
      /\ \A c \in Calls : pc[c] # "idle" => waited[c] < Timeout
  BY DEF Tick
<1>2. Cooldown \in Nat /\ Timeout \in Nat /\ LongestCall \in Nat /\ Retries \in Nat
  BY SpanNat, LimitsAssumption
<1>3. CallType'
  BY <1>1, <1>2 DEF UpstreamInv, CallType
<1>4. BreakerType'
  <2>1. tokenLeft' \in Nat /\ validLeft' \in Int /\ validLeft' >= -Margin
    BY LimitsAssumption DEF Tick, UpstreamInv, BreakerType, Larger
  <2>2. elapsed' \in 0 .. Cooldown /\ shut' \in Nat
    BY <1>1, <1>2 DEF UpstreamInv, BreakerType, Smaller
  <2>3. QED BY <1>1, <2>1, <2>2 DEF UpstreamInv, BreakerType
<1>5. TokenInv'
  <2>1. /\ tokenLeft' = Larger(tokenLeft - 1, 0) /\ validLeft' = Larger(validLeft - 1, -Margin)
        /\ short' = short
    BY DEF Tick
  <2>2. QED BY <2>1, LimitsAssumption DEF UpstreamInv, TokenInv, BreakerType, Larger
<1>6. TripInv'
  BY <1>1 DEF UpstreamInv, TripInv, Smaller
<1>7. ShutInv'
  <2>1. shut' <= elapsed' + LongestCall
    BY <1>1, <1>2 DEF UpstreamInv, ShutInv, BreakerType, Refusing, Smaller
  <2>2. ASSUME NEW c \in Calls, pc[c] # "idle"
        PROVE  shut' + Remaining(c)' <= LongestCall
    <3>1. waited'[c] = waited[c] + 1 /\ waited[c] \in Nat
      BY <1>1, <2>2 DEF UpstreamInv, CallType
    <3>2. Retries + 1 - attempt[c] \in Nat
      BY <1>2 DEF UpstreamInv, CallType
    <3>3. Span(Retries + 1 - attempt[c]) \in Nat
      BY <3>2, SpanNat
    <3>4. Remaining(c)' = Remaining(c) - 1 /\ Remaining(c) \in Nat
      <4>1. Remaining(c)' = Span(Retries + 1 - attempt[c])
                + (IF pc[c] = "login" THEN 2 * Timeout ELSE Timeout) - (waited[c] + 1)
        BY <1>1, <3>1 DEF Remaining, Span
      <4>2. QED BY <1>2, <3>1, <3>3, <4>1, RemainingInt DEF Remaining, UpstreamInv
    <3>5. shut + Remaining(c) <= LongestCall /\ shut \in Nat
      BY <2>2 DEF UpstreamInv, ShutInv, BreakerType
    <3>6. QED BY <1>1, <1>2, <3>4, <3>5
  <2>3. LongestCall' = LongestCall
    BY DEF LongestCall
  <2>4. QED BY <1>1, <2>1, <2>2, <2>3 DEF ShutInv
<1>8. \A g \in Calls : Fresh(g)
  BY <1>1 DEF Fresh
<1>9. QED BY <1>3, <1>4, <1>5, <1>6, <1>7, <1>8 DEF UpstreamInv

LEMMA NextUpstream ==
  ASSUME UpstreamInv, [Next]_vars
  PROVE  UpstreamInv' /\ \A g \in Calls : Fresh(g)
<1>1. CASE \E c \in Calls : Begin(c)
  BY <1>1, BeginKeeps
<1>2. CASE \E c \in Calls : LoginOk(c)
  BY <1>2, LoginKeeps
<1>3. CASE \E c \in Calls : LoginFails(c) \/ GetFails(c)
  BY <1>3, FailureKeeps DEF LoginFails, GetFails
<1>4. CASE \E c \in Calls : LoginRefused(c) \/ Answered(c) \/ Rejected(c) \/ Cancelled(c)
  BY <1>4, EndKeeps
<1>5. CASE Tick
  BY <1>5, TickKeeps
<1>6. CASE GoDown \/ ComeUp \/ UNCHANGED vars
  <2>1. UNCHANGED <<breaker, token, call, failed, shut>>
    BY <1>6 DEF GoDown, ComeUp, vars
  <2>2. \A g \in Calls : Fresh(g)
    BY <2>1 DEF Fresh, call
  <2>3. CallType' /\ BreakerType' /\ TokenInv' /\ TripInv'
    BY <2>1 DEF UpstreamInv, CallType, BreakerType, TokenInv, TripInv, Smaller,
                breaker, token, call
  <2>4. ShutInv'
    BY <2>1 DEF UpstreamInv, ShutInv, Remaining, Span, LongestCall, breaker, call
  <2>5. QED BY <2>2, <2>3, <2>4 DEF UpstreamInv
<1>7. QED BY <1>1, <1>2, <1>3, <1>4, <1>5, <1>6 DEF Next, Answer

LEMMA UpstreamInvariant == Spec => []UpstreamInv
<1>1. UpstreamInv /\ [Next]_vars => UpstreamInv'
  BY NextUpstream
<1>2. QED BY <1>1, InitUpstream, PTL DEF Spec

\* is_open, record_success and record_failure are called by calls that
\* overlap, and each may have been sent before the breaker was last closed:
\* even so it opens only after circuit_break_threshold calls have failed in
\* every attempt, with no 2xx answer and no closing in between.
THEOREM NoTripWithoutFailures == Spec => []TripNeedsFailures
<1>1. UpstreamInv => TripNeedsFailures
  BY LimitsAssumption DEF UpstreamInv, TripInv, TripNeedsFailures, BreakerType, Smaller
<1>2. QED BY <1>1, UpstreamInvariant, PTL

\* record_failure sets _opened_at again when the breaker is open: calls that
\* were in flight when it opened start the cooldown anew, one after the other
\* if there are many.  Together they prolong it by no more than the longest
\* time one call takes.
THEOREM ShutNotForLong == Spec => []ShutBounded
<1>1. UpstreamInv => ShutBounded
  <2>1. LongestCall \in Nat
    BY SpanNat, LimitsAssumption
  <2>2. QED
    BY <2>1, LimitsAssumption DEF UpstreamInv, ShutInv, BreakerType, ShutBounded
<1>2. QED BY <1>1, UpstreamInvariant, PTL

\* _get_service_token reckons the expiry from the instant it asked, with a
\* margin: however late the answers of several logins at once arrive, and in
\* whichever order they overwrite the token, a request that leaves carries
\* one the auth service still honours, whatever lifetimes it answers; only one
\* issued for less than the margin may be overdue, by less than it was short.
THEOREM TokensAreFresh == Spec => TokenFresh
<1>1. UpstreamInv /\ [Next]_vars =>
        [\A c \in Calls :
            pc'[c] = "get" /\ (pc[c] # "get" \/ attempt'[c] # attempt[c])
                => validLeft' > - short']_vars
  BY NextUpstream DEF Fresh
<1>2. QED BY <1>1, UpstreamInvariant, PTL DEF Spec, TokenFresh

=============================================================================
