------------------------------ MODULE Upstream ------------------------------
(***************************************************************************)
(* A client of an upstream service (app/integrations/info_client.py and    *)
(* schedule_client.py, which handle calls alike) with its service token    *)
(* and its circuit breaker (app/core/http.py).                             *)
(*                                                                         *)
(* One client object serves all requests of a process: calls run           *)
(* concurrently and share the breaker and the token.  A call is suspended  *)
(* only while it waits for an answer; what it does between two awaits is   *)
(* one step.  Instants are kept as distances that count up or down as the  *)
(* clock ticks.  A client secret is configured, a static token is not.     *)
(***************************************************************************)
EXTENDS Integers, FiniteSets

CONSTANTS
    Calls,       \* calls served concurrently
    Threshold,   \* circuit_break_threshold
    Cooldown,    \* circuit_break_cooldown_s
    Retries,     \* upstream_max_retries
    Timeout,     \* no answer is waited for longer (httpx sets it per phase of
                 \* a request; here it bounds the whole request)
    Lifetimes,   \* values of expires_in the auth service may answer
    Margin,      \* the 60 seconds of max(expires_in - 60, 60)
    MaxOutages   \* bound on the number of times the upstream goes down

ASSUME LimitsAssumption ==
    /\ Threshold \in Nat \ {0} /\ Cooldown \in Nat /\ Retries \in Nat
    /\ Timeout \in Nat \ {0} /\ Margin \in Nat
\* The margin is 30 times the timeout of 2 seconds.
ASSUME MarginAssumption == Timeout < Margin
\* A token lives as long as the answer says, or 3600 when it does not say.
ASSUME LifetimesAssumption == Lifetimes \subseteq Nat

VARIABLES
    failures,   \* CircuitBreaker._failures
    opened,     \* _opened_at is not None
    elapsed,    \* ticks since _opened_at, counted up to Cooldown
    tokenLeft,  \* ticks until _service_token_expires_at, 0 when over or unset
    validLeft,  \* ticks the auth service will still honour _service_token,
                \* negative (down to -Margin) when it no longer does
    short,      \* by how much its lifetime was less than the margin
    pc,         \* where each call is: "idle", "login" or "get" in flight
    attempt,    \* which attempt it is at
    waited,     \* ticks since the request in flight was sent
    up,         \* the upstream answers
    outages,    \* number of times it went down so far
    failed,     \* history: calls that failed in every attempt, counted since
                \* the last 2xx answer or the last time the breaker closed
    shut        \* history: ticks it has been refusing since it last let a call in

breaker == <<failures, opened, elapsed>>
token   == <<tokenLeft, validLeft, short>>
call    == <<pc, attempt, waited>>
env     == <<up, outages>>
vars    == <<breaker, token, call, env, failed, shut>>

Smaller(m, n) == IF m < n THEN m ELSE n
Larger(m, n)  == IF m > n THEN m ELSE n

\* A call makes at most Retries + 1 attempts of a login and a request each.
LongestCall == (Retries + 1) * 2 * Timeout

TypeOK ==
    /\ failures \in Nat
    /\ opened \in BOOLEAN
    /\ opened => failures >= Threshold
    /\ elapsed \in 0 .. Cooldown
    /\ tokenLeft \in Nat /\ validLeft \in Int /\ short \in 0 .. Margin
    /\ pc \in [Calls -> {"idle", "login", "get"}]
    /\ attempt \in [Calls -> 0 .. Retries + 1]
    /\ \A c \in Calls : pc[c] = "idle" <=> attempt[c] = 0
    /\ waited \in [Calls -> 0 .. Timeout]
    /\ up \in BOOLEAN
    /\ outages \in Nat
    /\ failed \in 0 .. Threshold
    /\ shut \in Nat

Init ==
    /\ failures = 0 /\ opened = FALSE /\ elapsed = 0
    /\ tokenLeft = 0 /\ validLeft = 0 /\ short = 0
    /\ pc = [c \in Calls |-> "idle"]
    /\ attempt = [c \in Calls |-> 0]
    /\ waited = [c \in Calls |-> 0]
    /\ up = TRUE /\ outages = 0
    /\ failed = 0 /\ shut = 0

-----------------------------------------------------------------------------
\* CircuitBreaker

\* Mutant of Refusing: the cooldown never ends.
RefusingForever == opened

\* What is_open answers.
Refusing == opened /\ elapsed < Cooldown

RecordSuccess ==
    /\ failures' = 0
    /\ opened' = FALSE
    /\ elapsed' = 0
    /\ failed' = 0

\* _opened_at is set, or set again, whenever the threshold is reached or
\* passed.
RecordFailure ==
    /\ failures' = failures + 1
    /\ opened' = (opened \/ failures + 1 >= Threshold)
    /\ elapsed' = IF failures + 1 >= Threshold THEN 0 ELSE elapsed

-----------------------------------------------------------------------------
\* A call.

Sent(c, label, n) ==
    /\ pc' = [pc EXCEPT ![c] = label]
    /\ attempt' = [attempt EXCEPT ![c] = n]
    /\ waited' = [waited EXCEPT ![c] = 0]

\* The call returns or raises.
Done(c) == Sent(c, "idle", 0)

\* Attempt n: with a token that has not expired the request goes out at
\* once, without one a login goes first.
Try(c, n) == Sent(c, IF tokenLeft > 0 THEN "get" ELSE "login", n)

\* Mutant of FailAttempt: every attempt is counted against the upstream.
EveryAttemptCounts(c) ==
    /\ RecordFailure
    /\ \/ attempt[c] <= Retries /\ Try(c, attempt[c] + 1) /\ UNCHANGED failed
       \/ attempt[c] > Retries /\ Done(c) /\ failed' = Smaller(failed + 1, Threshold)

\* An attempt has failed (5xx, timeout, no connection): the next one follows
\* at once, or the call has failed.
FailAttempt(c) ==
    \/ attempt[c] <= Retries /\ Try(c, attempt[c] + 1) /\ UNCHANGED <<breaker, failed>>
    \/ /\ attempt[c] > Retries
       /\ Done(c)
       /\ RecordFailure
       /\ failed' = Smaller(failed + 1, Threshold)

\* is_open, when it finds the cooldown over, closes the breaker and forgets
\* the failures.  (When it refuses, the call raises at once.)
Begin(c) ==
    /\ pc[c] = "idle"
    /\ ~ Refusing
    /\ opened' = FALSE
    /\ elapsed' = 0
    /\ failures' = IF opened THEN 0 ELSE failures
    /\ failed' = IF opened THEN 0 ELSE failed
    /\ Try(c, 1)
    /\ shut' = 0
    /\ UNCHANGED <<token, env>>

\* Mutant of LoginOk: the clock is read when the answer is there, and the
\* margin is left out.
LoginOkLate(c) ==
    /\ pc[c] = "login"
    /\ \E e \in Lifetimes, d \in 0 .. waited[c] :
          /\ validLeft' = e - d
          /\ short' = Larger(Margin - e, 0)
          /\ tokenLeft' = e
    /\ Sent(c, "get", attempt[c])
    /\ UNCHANGED <<breaker, env, failed, shut>>

\* The auth service issued a token of lifetime e, d ticks ago.  The expiry is
\* reckoned from the instant the call asked, and the token is used for Margin
\* ticks even if its lifetime is less.
LoginOk(c) ==
    /\ pc[c] = "login"
    /\ \E e \in Lifetimes, d \in 0 .. waited[c] :
          /\ validLeft' = e - d
          /\ short' = Larger(Margin - e, 0)
          /\ tokenLeft' = Larger(Larger(e - Margin, Margin) - waited[c], 0)
    /\ Sent(c, "get", attempt[c])
    /\ UNCHANGED <<breaker, env, failed, shut>>

\* The login is refused (4xx, a code, or no token in the answer): the call
\* raises, past the breaker.
LoginRefused(c) ==
    /\ pc[c] = "login"
    /\ Done(c)
    /\ UNCHANGED <<breaker, token, env, failed, shut>>

\* The login fails like the request itself: raise_for_status and transport
\* errors are caught by the loop of _get.
LoginFails(c) ==
    /\ pc[c] = "login" /\ ~ up
    /\ FailAttempt(c)
    /\ UNCHANGED <<token, env, shut>>

\* 2xx; a code in the body then raises, after record_success.
Answered(c) ==
    /\ pc[c] = "get"
    /\ RecordSuccess
    /\ Done(c)
    /\ UNCHANGED <<token, env, shut>>

\* Mutant of Rejected: a rejected request counts as a failure.
RejectedTrips(c) ==
    /\ pc[c] = "get"
    /\ RecordFailure
    /\ Done(c)
    /\ UNCHANGED <<token, env, failed, shut>>

\* 404, or another 4xx: the call raises and the breaker is not told.
Rejected(c) ==
    /\ pc[c] = "get"
    /\ Done(c)
    /\ UNCHANGED <<breaker, token, env, failed, shut>>

GetFails(c) ==
    /\ pc[c] = "get" /\ ~ up
    /\ FailAttempt(c)
    /\ UNCHANGED <<token, env, shut>>

\* The request this call serves is cancelled.
Cancelled(c) ==
    /\ pc[c] # "idle"
    /\ Done(c)
    /\ UNCHANGED <<breaker, token, env, failed, shut>>

-----------------------------------------------------------------------------
\* The clock and the upstream.

\* Nobody waits longer than Timeout.
Tick ==
    /\ \A c \in Calls : pc[c] # "idle" => waited[c] < Timeout
    /\ elapsed' = IF opened THEN Smaller(elapsed + 1, Cooldown) ELSE 0
    /\ tokenLeft' = Larger(tokenLeft - 1, 0)
    /\ validLeft' = Larger(validLeft - 1, -Margin)
    /\ waited' = [c \in Calls |-> IF pc[c] # "idle" THEN waited[c] + 1 ELSE 0]
    /\ shut' = IF Refusing THEN shut + 1 ELSE 0
    /\ UNCHANGED <<failures, opened, short, pc, attempt, env, failed>>

GoDown == /\ up /\ outages < MaxOutages
          /\ up' = FALSE
          /\ outages' = outages + 1
          /\ UNCHANGED <<breaker, token, call, failed, shut>>

ComeUp == /\ ~ up
          /\ up' = TRUE
          /\ UNCHANGED <<breaker, token, call, outages, failed, shut>>

-----------------------------------------------------------------------------
Answer(c) == \/ LoginOk(c) \/ LoginRefused(c) \/ LoginFails(c)
             \/ Answered(c) \/ Rejected(c) \/ GetFails(c)

Next ==
    \/ \E c \in Calls : Begin(c) \/ Answer(c) \/ Cancelled(c)
    \/ Tick
    \/ GoDown \/ ComeUp

Spec == Init /\ [][Next]_vars

\* Time passes, and every request gets an answer or times out.
FairSpec == Spec /\ WF_vars(Tick) /\ \A c \in Calls : WF_vars(Answer(c))

-----------------------------------------------------------------------------
\* What must hold.

\* No request leaves with a token the auth service no longer honours,
\* whichever of several concurrent logins answered last and however late.
\* Only a token issued for less than the margin may be sent after its end, as
\* max(expires_in - 60, 60) has it, and then it is overdue by less than it
\* was short.
TokenFresh ==
    [][\A c \in Calls :
          pc'[c] = "get" /\ (pc[c] # "get" \/ attempt'[c] # attempt[c])
              => validLeft' > - short']_vars

\* The breaker opens for calls that failed, not for the attempts of one call
\* nor for answers: when it is open, Threshold calls at least have lost every
\* attempt since it last closed or last saw a 2xx answer, whichever came
\* later, and however the attempts overlap.  (A 4xx answer neither counts nor
\* clears.)
TripNeedsFailures == opened => failed >= Threshold

\* The breaker does not refuse for ever, and not much longer than the
\* cooldown: only calls that were in flight when it opened can prolong it.
ShutBounded == shut <= Cooldown + LongestCall

\* Once the upstream stays up, the breaker stops refusing for good.
Recovers == <>[]up => <>[](~ Refusing)

=============================================================================
