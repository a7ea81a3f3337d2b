------------------------------- MODULE HttpClient -------------------------------
(***************************************************************************)
(* One call of the portal's outbound HTTP client (portal/src/lib/           *)
(* http-client.ts): fetchWithPolicy with its per-attempt timeout, bounded   *)
(* retries, backoff and caller cancellation, and the read of the body under *)
(* what is left of the attempt's deadline.  The upstream and the caller are *)
(* the environment.  Timers fire when they are due: the clock waits for     *)
(* them, so times are exact up to the lateness of the event loop.           *)
(***************************************************************************)
EXTENDS Integers

CONSTANTS
    MaxAttempts,   \* retry.maxAttempts
    Timeout,       \* timeoutMs, per attempt
    BaseDelay,     \* retry.baseDelayMs
    MaxDelay,      \* retry.maxDelayMs
    MaxBytes,      \* maxResponseBytes
    ChunkSizes,    \* sizes of the body's chunks
    MaxClock       \* bound on the clock

ASSUME MaxAttemptsAssumption == MaxAttempts \in Nat \ {0}
ASSUME TimeoutAssumption == Timeout \in Nat
ASSUME DelayAssumption == BaseDelay \in Nat /\ MaxDelay \in Nat
ASSUME MaxBytesAssumption == MaxBytes \in Nat \ {0}
ASSUME ChunkAssumption == ChunkSizes \subseteq Nat
ASSUME MaxClockAssumption == MaxClock \in Nat

VARIABLES
    now,        \* the clock
    canRetry,   \* an idempotent method, and retry is not false
    aborted,    \* the caller's signals
    pc,         \* where the call is
    attempt,    \* the attempt it is in
    started,    \* attemptStartedAt
    wake,       \* when the backoff ends
    deadline,   \* bodyDeadlines: until when the body may be read
    bytes,      \* decoded bytes read so far
    open,       \* attempts whose response body holds a connection
    sent,       \* how many requests were sent
    result      \* how the call ended

vars == <<now, canRetry, aborted, pc, attempt, started, wake, deadline, bytes, open, sent, result>>

\* "loop": at the head of the attempt loop.  "fetch", "cancel", "delay", "read":
\* awaiting the headers, the release of a discarded body, the backoff, a chunk.
\* "returned": the caller has the response, and has not read its body.
PCs == {"loop", "fetch", "cancel", "delay", "returned", "read", "ended"}
Results == {"none", "body", "timeout", "network", "aborted", "response-too-large", "body-error"}

\* Every variable holds a value of its kind; no more than maxResponseBytes of a body
\* are kept (collectBytesWithDeadline).
TypeOK ==
    /\ now \in Nat
    /\ canRetry \in BOOLEAN
    /\ aborted \in BOOLEAN
    /\ pc \in PCs
    /\ attempt \in 1 .. MaxAttempts
    /\ started \in Nat
    /\ wake \in Nat
    /\ deadline \in Nat
    /\ bytes \in 0 .. MaxBytes
    /\ open \subseteq 1 .. MaxAttempts
    /\ sent \in Nat
    /\ result \in Results

Init ==
    /\ now = 0
    /\ canRetry \in BOOLEAN
    /\ aborted \in BOOLEAN
    /\ pc = "loop"
    /\ attempt = 1
    /\ started = 0
    /\ wake = 0
    /\ deadline = 0
    /\ bytes = 0
    /\ open = {}
    /\ sent = 0
    /\ result = "none"

---------------------------------------------------------------------------
(* The policy.                                                              *)

\* Mutant: the caller's signal is overridden by the timeout's.
CallerSignalLost == FALSE

\* combineSignals: either caller signal has fired.
CallerAborted == aborted

\* Mutant: any method is retried.
RetryAnyMethod == attempt < MaxAttempts

RetryAllowed == canRetry /\ attempt < MaxAttempts

\* computeBackoffMs: uniform in 0 .. min(maxDelayMs, baseDelayMs * 2^(attempt-1)).
Backoff == {w \in 0 .. MaxDelay : w <= BaseDelay * 2 ^ (attempt - 1)}

\* Mutant: a Retry-After header is honoured whatever it asks.
RetryAfterUncapped == 0 .. 2 * MaxDelay + 1

\* retryAfterMs: what a 429 asks for, capped by maxDelayMs.
RetryAfter == 0 .. MaxDelay

End(how) ==
    /\ pc' = "ended"
    /\ result' = how

\* delay(): rejects at once if the caller has aborted.
Delay(waits) ==
    \/ /\ CallerAborted
       /\ End("aborted")
       /\ UNCHANGED wake
    \/ /\ ~CallerAborted
       /\ pc' = "delay"
       /\ \E w \in waits : wake' = now + w
       /\ UNCHANGED result

---------------------------------------------------------------------------
(* fetchWithPolicy.                                                         *)

\* The head of the loop: a caller that has aborted sends nothing.
Send ==
    /\ pc = "loop"
    /\ started' = now
    /\ \/ /\ CallerAborted
          /\ End("aborted")
          /\ UNCHANGED sent
       \/ /\ ~CallerAborted
          /\ pc' = "fetch"
          /\ sent' = sent + 1
          /\ UNCHANGED result
    /\ UNCHANGED <<now, canRetry, aborted, attempt, wake, deadline, bytes, open>>

\* The headers of a response that is about to be discarded for a retry.
RespondRetryable ==
    /\ pc = "fetch" /\ ~CallerAborted
    /\ RetryAllowed
    /\ open' = open \cup {attempt}
    /\ pc' = "cancel"
    /\ UNCHANGED <<now, canRetry, aborted, attempt, started, wake, deadline, bytes, sent, result>>

\* Mutant: the discarded body is left to the garbage collector.
KeepBody == UNCHANGED open

CancelBody == open' = open \ {attempt}

\* cancelBody, then the backoff: Retry-After for a 429 that has one.
Discard ==
    /\ pc = "cancel"
    /\ CancelBody
    /\ Delay(Backoff \cup RetryAfter)
    /\ UNCHANGED <<now, canRetry, aborted, attempt, started, deadline, bytes, sent>>

\* Mutant: the body gets a budget of its own.
FreshBudget == now + Timeout

\* now + max(0, timeoutMs - elapsed).
BodyDeadline == IF now - started <= Timeout THEN started + Timeout ELSE now

\* A response for the caller: any status that is not retried.
Respond ==
    /\ pc = "fetch" /\ ~CallerAborted
    /\ open' = open \cup {attempt}
    /\ deadline' = BodyDeadline
    /\ pc' = "returned"
    /\ UNCHANGED <<now, canRetry, aborted, attempt, started, wake, bytes, sent, result>>

\* fetch rejects: the caller aborted, the timer fired, or the network failed.
FetchAborted ==
    /\ pc = "fetch" /\ CallerAborted
    /\ End("aborted")
    /\ UNCHANGED <<now, canRetry, aborted, attempt, started, wake, deadline, bytes, open, sent>>

FetchTimesOut ==
    /\ pc = "fetch" /\ ~CallerAborted
    /\ now >= started + Timeout
    /\ End("timeout")
    /\ UNCHANGED <<now, canRetry, aborted, attempt, started, wake, deadline, bytes, open, sent>>

FetchFails ==
    /\ pc = "fetch" /\ ~CallerAborted
    /\ \/ RetryAllowed /\ Delay(Backoff)
       \/ ~RetryAllowed /\ End("network") /\ UNCHANGED wake
    /\ UNCHANGED <<now, canRetry, aborted, attempt, started, deadline, bytes, open, sent>>

DelayAborted ==
    /\ pc = "delay" /\ CallerAborted
    /\ End("aborted")
    /\ UNCHANGED <<now, canRetry, aborted, attempt, started, wake, deadline, bytes, open, sent>>

DelayEnds ==
    /\ pc = "delay" /\ ~CallerAborted
    /\ now >= wake
    /\ attempt' = attempt + 1
    /\ pc' = "loop"
    /\ UNCHANGED <<now, canRetry, aborted, started, wake, deadline, bytes, open, sent, result>>

---------------------------------------------------------------------------
(* readJsonWithPolicy and readTextWithPolicy.                               *)

\* The caller reads the body, at any time after it got the response.
ReadBody ==
    /\ pc = "returned"
    /\ \/ /\ deadline - now <= 0
          /\ CancelBody
          /\ End("timeout")
       \/ /\ deadline - now > 0
          /\ pc' = "read"
          /\ UNCHANGED <<open, result>>
    /\ UNCHANGED <<now, canRetry, aborted, attempt, started, wake, deadline, bytes, sent>>

\* A chunk arrives: one too many cancels the reader.
Chunk ==
    /\ pc = "read" /\ ~CallerAborted
    /\ \E n \in ChunkSizes :
          \/ /\ bytes + n > MaxBytes
             /\ CancelBody
             /\ End("response-too-large")
             /\ UNCHANGED bytes
          \/ /\ bytes + n <= MaxBytes
             /\ bytes' = bytes + n
             /\ UNCHANGED <<pc, open, result>>
    /\ UNCHANGED <<now, canRetry, aborted, attempt, started, wake, deadline, sent>>

BodyEnds ==
    /\ pc = "read" /\ ~CallerAborted
    /\ CancelBody
    /\ End("body")
    /\ UNCHANGED <<now, canRetry, aborted, attempt, started, wake, deadline, bytes, sent>>

\* The stream fails, or the caller's abort reaches it: read() rejects with the
\* runtime's own error, which is passed on.
BodyFails ==
    /\ pc = "read"
    /\ CancelBody
    /\ End("body-error")
    /\ UNCHANGED <<now, canRetry, aborted, attempt, started, wake, deadline, bytes, sent>>

\* Mutant: the deadline promise never rejects.
BodyNeverTimesOut == FALSE /\ UNCHANGED vars

BodyTimesOut ==
    /\ pc = "read" /\ ~CallerAborted
    /\ now >= deadline
    /\ CancelBody
    /\ End("timeout")
    /\ UNCHANGED <<now, canRetry, aborted, attempt, started, wake, deadline, bytes, sent>>

---------------------------------------------------------------------------
(* The caller and the clock.                                                *)

Abort ==
    /\ ~aborted /\ pc # "ended"
    /\ aborted' = TRUE
    /\ UNCHANGED <<now, canRetry, pc, attempt, started, wake, deadline, bytes, open, sent, result>>

\* Time passes while the call waits for the network, a timer or its caller; not
\* while it releases a body, which body.cancel() does locally.
Tick ==
    /\ now < MaxClock
    /\ \/ pc = "fetch" /\ now < started + Timeout /\ ~CallerAborted
       \/ pc = "delay" /\ now < wake /\ ~CallerAborted
       \/ pc = "returned"
       \/ pc = "read" /\ now < deadline /\ ~CallerAborted
    /\ now' = now + 1
    /\ UNCHANGED <<canRetry, aborted, pc, attempt, started, wake, deadline, bytes, open, sent, result>>

Next ==
    \/ Send \/ RespondRetryable \/ Discard \/ Respond
    \/ FetchAborted \/ FetchTimesOut \/ FetchFails \/ DelayAborted \/ DelayEnds
    \/ ReadBody \/ Chunk \/ BodyEnds \/ BodyFails \/ BodyTimesOut
    \/ Abort \/ Tick

Spec == Init /\ [][Next]_vars

\* The event loop runs what is ready, timers fire, and time passes.  The upstream
\* need not answer and the caller need not read.
Fairness ==
    /\ WF_vars(Send)
    /\ WF_vars(Discard)
    /\ WF_vars(FetchAborted \/ FetchTimesOut)
    /\ WF_vars(DelayAborted \/ DelayEnds)
    /\ WF_vars(pc = "read" /\ (BodyTimesOut \/ (aborted /\ BodyFails)))
    /\ WF_vars(Tick)

FairSpec == Spec /\ Fairness

---------------------------------------------------------------------------
(* Properties.                                                              *)

\* A request whose method is not idempotent, or whose caller disabled retries, is
\* sent at most once whatever the network does; any other at most maxAttempts times.
SentBounded == sent <= (IF canRetry THEN MaxAttempts ELSE 1)

\* Once the caller has aborted nothing more is sent, in whatever step the abort came
\* (docs/outbound-http-policy.md, native caller cancellation).
SilentAfterAbort == [][aborted => sent' = sent]_vars

\* A connection is held only by the attempt under way: the bodies of discarded
\* responses are released before the next attempt, and every end of the call
\* releases its own.
BodiesReleased ==
    /\ open \subseteq {attempt}
    /\ pc \in {"loop", "fetch", "delay", "ended"} => open = {}

\* fetchWithPolicy returns or throws within maxAttempts timeouts and the backoffs
\* between them, whatever Retry-After the upstream sends.
HeadersInTime ==
    pc \in {"loop", "fetch", "cancel", "delay"} =>
        now <= attempt * Timeout + (attempt - 1) * MaxDelay
                 + (IF pc = "delay" THEN MaxDelay ELSE 0)

\* A body is read within the timeout of the attempt that fetched it, however slowly
\* its chunks arrive (bodyDeadlines).
BodyInTime == pc = "read" => now <= started + Timeout

\* Every call settles, and every read of a body ends, even if the upstream never
\* answers.
Settles ==
    /\ pc = "loop" ~> pc \in {"returned", "ended"}
    /\ pc = "read" ~> pc = "ended"

\* The detailed call implements the promise of OutboundCall: whatever the upstream,
\* the timers and the caller do, every step of fetchWithPolicy and of the body's read
\* is a step the promise allows, or changes nothing the caller can tell.
Promise == INSTANCE OutboundCall WITH
    Limit <- MaxAttempts, Outcomes <- Results,
    repeatable <- canRetry, cancelled <- aborted, sends <- sent,
    holds <- open # {}, outcome <- result
ImplementsPromise == Promise!Spec
===============================================================================
