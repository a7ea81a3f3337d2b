---------------------------- MODULE HttpClientProofs ----------------------------
(***************************************************************************)
(* Machine-checked proofs about the outbound HTTP client of module          *)
(* HttpClient, for any number of attempts, timeouts, delays and body sizes. *)
(***************************************************************************)
EXTENDS HttpClient, TLAPS

---------------------------------------------------------------------------
(* The inductive invariant.                                                 *)

\* A retry is under way only where one is allowed, each attempt sends once, and a
\* call that awaits an answer has sent something and has no result.
Attempts ==
    /\ pc \in {"cancel", "delay"} => canRetry /\ attempt < MaxAttempts
    /\ attempt > 1 => canRetry
    /\ sent <= attempt
    /\ pc = "loop" => sent < attempt
    /\ pc \notin {"loop", "ended"} => sent > 0
    /\ pc # "ended" => result = "none"

\* When attempt a begins at the latest: a - 1 timeouts and backoffs have passed.
Latest(a) == (a - 1) * (Timeout + MaxDelay)

\* The times a call has spent in its earlier attempts and in this one.
Times ==
    /\ pc = "loop" => now <= Latest(attempt)
    /\ pc \in {"fetch", "cancel"} => started <= Latest(attempt) /\ now <= started + Timeout
    /\ pc = "delay" => now <= wake /\ wake <= Latest(attempt + 1)
    /\ pc \in {"returned", "read"} => deadline <= started + Timeout
    /\ pc = "read" => now <= deadline

\* started is never ahead of the clock.
Past == started <= now

Inv == TypeOK /\ Attempts /\ BodiesReleased /\ Times /\ Past

LEMMA LatestNext ==
    ASSUME NEW a \in Nat \ {0}
    PROVE  /\ Latest(a) \in Nat
           /\ Latest(a + 1) = Latest(a) + Timeout + MaxDelay
           /\ a * Timeout + (a - 1) * MaxDelay = Latest(a) + Timeout
<1>1. Timeout \in Nat /\ MaxDelay \in Nat
  BY TimeoutAssumption, DelayAssumption
<1>2. PICK b \in Nat : a = b + 1
  BY SMT
<1>3. \A x, y, z \in Nat : x * (y + z) = x * y + x * z /\ (x + 1) * y = x * y + y /\ x * y \in Nat
  BY SMT
<1>4. Latest(a) = b * Timeout + b * MaxDelay
  BY <1>1, <1>2, <1>3 DEF Latest
<1>5. Latest(a + 1) = (b + 1) * (Timeout + MaxDelay)
  BY <1>1, <1>2 DEF Latest
<1>6. (b + 1) * (Timeout + MaxDelay) = b * (Timeout + MaxDelay) + (Timeout + MaxDelay)
  BY <1>1, <1>2, <1>3
<1>7. a * Timeout = b * Timeout + Timeout /\ (a - 1) * MaxDelay = b * MaxDelay
  BY <1>1, <1>2, <1>3
<1>8. b * Timeout \in Nat /\ b * MaxDelay \in Nat
  BY <1>1, <1>2, <1>3
<1>9. b * (Timeout + MaxDelay) = b * Timeout + b * MaxDelay
  BY <1>1, <1>2, <1>3
<1> QED BY <1>1, <1>4, <1>5, <1>6, <1>7, <1>8, <1>9

\* What delay() does to the state.
LEMMA DelayKept ==
    ASSUME Inv, NEW waits \in SUBSET (0 .. MaxDelay), Delay(waits),
           pc \in {"fetch", "cancel"}, RetryAllowed \/ pc = "cancel",
           UNCHANGED <<now, canRetry, aborted, attempt, started, deadline, bytes, sent>>,
           open' = open \ {attempt}
    PROVE  Inv'
<1>0. /\ attempt \in Nat \ {0} /\ attempt \in 1 .. MaxAttempts /\ MaxDelay \in Nat /\ Timeout \in Nat
      /\ now \in Nat /\ started \in Nat
  BY MaxAttemptsAssumption, TimeoutAssumption, DelayAssumption DEF Inv, TypeOK
<1>1. canRetry /\ attempt < MaxAttempts
  BY DEF Inv, Attempts, RetryAllowed
<1>2. open' = {}
  BY DEF Inv, BodiesReleased
<1>3. CASE CallerAborted
  <2>1. pc' = "ended" /\ result' = "aborted" /\ wake' = wake
    BY <1>3 DEF Delay, End
  <2> QED BY <1>0, <1>1, <1>2, <2>1
       DEF Inv, TypeOK, PCs, Results, Attempts, BodiesReleased, Times, Past
<1>4. CASE ~CallerAborted
  <2>1. PICK w \in waits : wake' = now + w
    BY <1>4 DEF Delay
  <2>2. pc' = "delay" /\ result' = result
    BY <1>4 DEF Delay
  <2>3. w \in Nat /\ w <= MaxDelay
    BY <1>0
  <2>4. started <= Latest(attempt) /\ now <= started + Timeout
    BY DEF Inv, Times
  <2>5. now <= wake' /\ wake' <= Latest(attempt + 1) /\ wake' \in Nat
    BY <1>0, <2>1, <2>3, <2>4, LatestNext
  <2>6. TypeOK' /\ Attempts' /\ BodiesReleased' /\ Past'
    BY <1>0, <1>1, <1>2, <2>2, <2>5 DEF Inv, TypeOK, PCs, Attempts, BodiesReleased, Past
  <2>7. Times'
    BY <2>2, <2>5 DEF Times
  <2> QED BY <2>6, <2>7 DEF Inv
<1> QED BY <1>3, <1>4

LEMMA InvInit == Init => Inv
<1> SUFFICES ASSUME Init PROVE Inv
  OBVIOUS
<1>1. TypeOK
  BY MaxAttemptsAssumption, MaxBytesAssumption DEF Init, TypeOK, PCs, Results
<1>2. Latest(1) \in Nat
  BY LatestNext
<1>3. Attempts /\ BodiesReleased /\ Times /\ Past
  BY <1>2 DEF Init, Attempts, BodiesReleased, Times, Past
<1> QED BY <1>1, <1>3 DEF Inv

LEMMA InvStep ==
    ASSUME Inv, [Next]_vars
    PROVE  Inv'
<1>0. /\ attempt \in Nat \ {0} /\ attempt \in 1 .. MaxAttempts /\ MaxAttempts \in Nat
      /\ MaxDelay \in Nat /\ Timeout \in Nat
      /\ now \in Nat /\ started \in Nat /\ deadline \in Nat /\ wake \in Nat /\ sent \in Nat
  BY MaxAttemptsAssumption, TimeoutAssumption, DelayAssumption DEF Inv, TypeOK
<1> USE DEF PCs, Results
<1>1. CASE Send
  <2>1. TypeOK' /\ Attempts' /\ BodiesReleased'
    BY <1>0, <1>1 DEF Send, End, Inv, TypeOK, Attempts, BodiesReleased
  <2>2. Times' /\ Past'
    BY <1>0, <1>1 DEF Send, End, Inv, Times, Past
  <2> QED BY <2>1, <2>2 DEF Inv
<1>2. CASE RespondRetryable
  <2>1. TypeOK' /\ Attempts' /\ BodiesReleased'
    BY <1>0, <1>2 DEF RespondRetryable, RetryAllowed, Inv, TypeOK, Attempts, BodiesReleased
  <2>2. Times' /\ Past'
    BY <1>0, <1>2 DEF RespondRetryable, Inv, Times, Past
  <2> QED BY <2>1, <2>2 DEF Inv
<1>3. CASE Discard
  <2>1. Backoff \cup RetryAfter \in SUBSET (0 .. MaxDelay)
    BY DEF Backoff, RetryAfter
  <2> QED BY <1>3, <2>1, DelayKept DEF Discard, CancelBody
<1>4. CASE Respond
  <2>1. now <= started + Timeout /\ started <= now
    BY <1>4 DEF Respond, Inv, Times, Past
  <2>2. deadline' = started + Timeout
    BY <1>0, <1>4, <2>1 DEF Respond, BodyDeadline
  <2>3. TypeOK' /\ Attempts' /\ BodiesReleased'
    BY <1>0, <1>4, <2>2 DEF Respond, Inv, TypeOK, Attempts, BodiesReleased
  <2>4. Times' /\ Past'
    BY <1>0, <1>4, <2>2 DEF Respond, Inv, Times, Past
  <2> QED BY <2>3, <2>4 DEF Inv
<1>5. CASE FetchAborted \/ FetchTimesOut \/ DelayAborted
  <2>1. TypeOK' /\ Attempts' /\ BodiesReleased'
    BY <1>0, <1>5 DEF FetchAborted, FetchTimesOut, DelayAborted, End, Inv, TypeOK, Attempts, BodiesReleased
  <2>2. Times' /\ Past'
    BY <1>5 DEF FetchAborted, FetchTimesOut, DelayAborted, End, Inv, Times, Past
  <2> QED BY <2>1, <2>2 DEF Inv
<1>6. CASE FetchFails
  <2>0. open = {}
    BY <1>6 DEF FetchFails, Inv, BodiesReleased
  <2>1. CASE RetryAllowed /\ Delay(Backoff)
    <3>1. Backoff \in SUBSET (0 .. MaxDelay)
      BY DEF Backoff
    <3> QED BY <1>6, <2>0, <2>1, <3>1, DelayKept DEF FetchFails
  <2>2. CASE End("network") /\ UNCHANGED wake
    <3>1. TypeOK' /\ Attempts' /\ BodiesReleased'
      BY <1>0, <1>6, <2>2 DEF FetchFails, End, Inv, TypeOK, Attempts, BodiesReleased
    <3>2. Times' /\ Past'
      BY <1>6, <2>2 DEF FetchFails, End, Inv, Times, Past
    <3> QED BY <3>1, <3>2 DEF Inv
  <2> QED BY <1>6, <2>1, <2>2 DEF FetchFails
<1>7. CASE DelayEnds
  <2>1. canRetry /\ attempt < MaxAttempts /\ now <= Latest(attempt + 1) /\ open = {}
    BY <1>0, <1>7, LatestNext DEF DelayEnds, Inv, Attempts, Times, BodiesReleased
  <2>2. TypeOK' /\ Attempts' /\ BodiesReleased'
    BY <1>0, <1>7, <2>1 DEF DelayEnds, Inv, TypeOK, Attempts, BodiesReleased
  <2>3. Times' /\ Past'
    BY <1>7, <2>1 DEF DelayEnds, Inv, Times, Past
  <2> QED BY <2>2, <2>3 DEF Inv
<1>8. CASE ReadBody
  <2>1. TypeOK' /\ Attempts' /\ BodiesReleased'
    BY <1>0, <1>8 DEF ReadBody, CancelBody, End, Inv, TypeOK, Attempts, BodiesReleased
  <2>2. Times' /\ Past'
    BY <1>0, <1>8 DEF ReadBody, End, Inv, Times, Past
  <2> QED BY <2>1, <2>2 DEF Inv
<1>9. CASE Chunk
  <2>1. PICK n \in ChunkSizes :
          \/ bytes + n > MaxBytes /\ CancelBody /\ End("response-too-large") /\ UNCHANGED bytes
          \/ bytes + n <= MaxBytes /\ bytes' = bytes + n /\ UNCHANGED <<pc, open, result>>
    BY <1>9 DEF Chunk
  <2>2. bytes' \in 0 .. MaxBytes
    BY <2>1, ChunkAssumption, MaxBytesAssumption DEF Inv, TypeOK
  <2>3. TypeOK' /\ Attempts' /\ BodiesReleased'
    BY <1>0, <1>9, <2>1, <2>2 DEF Chunk, CancelBody, End, Inv, TypeOK, Attempts, BodiesReleased
  <2>4. Times' /\ Past'
    BY <1>9, <2>1 DEF Chunk, End, Inv, Times, Past
  <2> QED BY <2>3, <2>4 DEF Inv
<1>10. CASE BodyEnds \/ BodyFails \/ BodyTimesOut
  <2>1. TypeOK' /\ Attempts' /\ BodiesReleased'
    BY <1>0, <1>10 DEF BodyEnds, BodyFails, BodyTimesOut, CancelBody, End, Inv, TypeOK, Attempts, BodiesReleased
  <2>2. Times' /\ Past'
    BY <1>10 DEF BodyEnds, BodyFails, BodyTimesOut, End, Inv, Times, Past
  <2> QED BY <2>1, <2>2 DEF Inv
<1>11. CASE Abort
  BY <1>11 DEF Abort, Inv, TypeOK, Attempts, BodiesReleased, Times, Past
<1>12. CASE Tick
  <2>1. TypeOK' /\ Attempts' /\ BodiesReleased' /\ Past'
    BY <1>0, <1>12 DEF Tick, Inv, TypeOK, Attempts, BodiesReleased, Past
  <2>2. Times'
    BY <1>0, <1>12 DEF Tick, Inv, Times
  <2> QED BY <2>1, <2>2 DEF Inv
<1>13. CASE UNCHANGED vars
  BY <1>13 DEF vars, Inv, TypeOK, Attempts, BodiesReleased, Times, Past
<1> QED
  BY <1>1, <1>2, <1>3, <1>4, <1>5, <1>6, <1>7, <1>8, <1>9, <1>10, <1>11, <1>12, <1>13 DEF Next

LEMMA Invariant == Spec => []Inv
<1>1. Inv /\ [Next]_vars => Inv'
  BY InvStep
<1> QED BY <1>1, InvInit, PTL DEF Spec

---------------------------------------------------------------------------
(* The theorems.                                                            *)

\* ClientTyping: every variable keeps its type, and a body never exceeds its limit.
THEOREM ClientTyping == Spec => []TypeOK
<1>1. Inv => TypeOK
  BY DEF Inv
<1> QED BY <1>1, Invariant, PTL

\* RequestsBounded: a call that may not be retried sends one request at most, any
\* other call at most maxAttempts.
THEOREM RequestsBounded == Spec => []SentBounded
<1>1. Inv => SentBounded
  BY MaxAttemptsAssumption DEF Inv, TypeOK, Attempts, SentBounded
<1> QED BY <1>1, Invariant, PTL

\* ConnectionsReleased: the bodies of discarded responses and of every call that has
\* ended are released.
THEOREM ConnectionsReleased == Spec => []BodiesReleased
<1>1. Inv => BodiesReleased
  BY DEF Inv
<1> QED BY <1>1, Invariant, PTL

\* HeadersDeadline: fetchWithPolicy is done after its attempts' timeouts and the
\* capped backoffs between them, for every policy.
THEOREM HeadersDeadline == Spec => []HeadersInTime
<1>1. Inv => HeadersInTime
  <2> SUFFICES ASSUME Inv, pc \in {"loop", "fetch", "cancel", "delay"}
               PROVE  now <= attempt * Timeout + (attempt - 1) * MaxDelay
                                + (IF pc = "delay" THEN MaxDelay ELSE 0)
    BY DEF HeadersInTime
  <2>1. /\ attempt \in Nat \ {0} /\ MaxDelay \in Nat /\ Timeout \in Nat
        /\ now \in Nat /\ started \in Nat /\ wake \in Nat
    BY MaxAttemptsAssumption, TimeoutAssumption, DelayAssumption DEF Inv, TypeOK
  <2>2. attempt * Timeout + (attempt - 1) * MaxDelay = Latest(attempt) + Timeout
    BY <2>1, LatestNext
  <2>3. Latest(attempt) \in Nat /\ Latest(attempt + 1) = Latest(attempt) + Timeout + MaxDelay
    BY <2>1, LatestNext
  <2>4. now <= Latest(attempt) + Timeout + (IF pc = "delay" THEN MaxDelay ELSE 0)
    BY <2>1, <2>3 DEF Inv, Times
  <2> QED BY <2>2, <2>4
<1> QED BY <1>1, Invariant, PTL

\* BodyReadDeadline: a body is read within the timeout of its attempt.
THEOREM BodyReadDeadline == Spec => []BodyInTime
<1>1. Inv => BodyInTime
  BY TimeoutAssumption DEF Inv, TypeOK, Times, BodyInTime
<1> QED BY <1>1, Invariant, PTL

\* QuietAfterAbort: no step sends a request once the caller has aborted.
THEOREM QuietAfterAbort == Spec => SilentAfterAbort
<1>1. Inv /\ [Next]_vars => [aborted => sent' = sent]_vars
  BY DEF Next, vars, Send, CallerAborted, RespondRetryable, Discard, Respond, FetchAborted,
         FetchTimesOut, FetchFails, DelayAborted, DelayEnds, ReadBody, Chunk, BodyEnds, BodyFails,
         BodyTimesOut, Abort, Tick
<1> QED BY <1>1, Invariant, PTL DEF Spec, SilentAfterAbort

---------------------------------------------------------------------------
(* The refinement.                                                          *)

\* Ends only with an outcome the promise knows.
LEMMA SettlesOnce ==
    ASSUME Inv, pc # "ended", NEW how \in Results \ {"none"}, End(how), open' = {},
           IF how = "aborted" THEN aborted ELSE pc # "loop",
           UNCHANGED <<canRetry, aborted, sent>>
    PROVE  Promise!Settle
<1>1. result = "none" /\ result' = how
  BY DEF Inv, Attempts, End
<1>2. how # "aborted" => sent > 0
  BY DEF Inv, Attempts
<1> QED BY <1>1, <1>2 DEF Promise!Settle

\* Every step of the call is a step of the promise or leaves the caller's view alone.
LEMMA PromiseStep ==
    ASSUME Inv, [Next]_vars
    PROVE  [Promise!Next]_(Promise!vars)
<1> DEFINE Same == UNCHANGED <<canRetry, aborted, sent, open, result>>
<1>0. Same => UNCHANGED Promise!vars
  BY DEF Promise!vars
<1> USE DEF Results
<1>1. CASE Send
  <2>1. CASE CallerAborted
    <3>1. open' = {}
      BY <1>1, <2>1 DEF Send, Inv, BodiesReleased
    <3>2. Promise!Settle
      BY <1>1, <2>1, <3>1, SettlesOnce DEF Send, CallerAborted
    <3> QED BY <3>2 DEF Promise!Next
  <2>2. CASE ~CallerAborted
    <3>1. /\ sent \in Nat /\ attempt \in 1 .. MaxAttempts /\ MaxAttempts \in Nat /\ canRetry \in BOOLEAN
          /\ sent < attempt /\ (attempt > 1 => canRetry) /\ result = "none" /\ open = {}
      BY <1>1, MaxAttemptsAssumption DEF Send, Inv, TypeOK, Attempts, BodiesReleased
    <3>2. sent < (IF canRetry THEN MaxAttempts ELSE 1)
      BY <3>1
    <3>3. Promise!Send
      BY <1>1, <2>2, <3>1, <3>2 DEF Send, CallerAborted, Promise!Send
    <3> QED BY <3>3 DEF Promise!Next
  <2> QED BY <2>1, <2>2
<1>2. CASE RespondRetryable \/ Respond
  <2>1. open = {} /\ result = "none" /\ sent > 0
    BY <1>2 DEF RespondRetryable, Respond, Inv, BodiesReleased, Attempts
  <2>2. Promise!Receive
    BY <1>2, <2>1 DEF RespondRetryable, Respond, Promise!Receive
  <2> QED BY <2>2 DEF Promise!Next
<1>3. CASE Discard
  <2>1. open' = {} /\ pc = "cancel" /\ result = "none"
    BY <1>3 DEF Discard, CancelBody, Inv, BodiesReleased, Attempts
  <2>2. CASE CallerAborted
    <3>1. Promise!Settle
      BY <1>3, <2>1, <2>2, SettlesOnce DEF Discard, Delay, CallerAborted
    <3> QED BY <3>1 DEF Promise!Next
  <2>3. CASE ~CallerAborted /\ open # {}
    <3>1. Promise!Release
      BY <1>3, <2>1, <2>3 DEF Discard, Delay, Promise!Release
    <3> QED BY <3>1 DEF Promise!Next
  <2>4. CASE ~CallerAborted /\ open = {}
    <3>1. Same
      BY <1>3, <2>1, <2>4 DEF Discard, Delay
    <3> QED BY <3>1, <1>0
  <2> QED BY <2>2, <2>3, <2>4
<1>4. CASE FetchAborted \/ FetchTimesOut \/ DelayAborted
  <2>1. open' = {} /\ pc \in {"fetch", "delay"}
    BY <1>4 DEF FetchAborted, FetchTimesOut, DelayAborted, Inv, BodiesReleased
  <2>2. Promise!Settle
    BY <1>4, <2>1, SettlesOnce DEF FetchAborted, FetchTimesOut, DelayAborted, CallerAborted
  <2> QED BY <2>2 DEF Promise!Next
<1>5. CASE FetchFails
  <2>1. open' = {} /\ open = {} /\ pc = "fetch"
    BY <1>5 DEF FetchFails, Inv, BodiesReleased
  <2>2. CASE End("network")
    <3>1. Promise!Settle
      BY <1>5, <2>1, <2>2, SettlesOnce DEF FetchFails
    <3> QED BY <3>1 DEF Promise!Next
  <2>3. CASE Delay(Backoff)
    <3>1. Same
      BY <1>5, <2>1, <2>3 DEF FetchFails, Delay
    <3> QED BY <3>1, <1>0
  <2> QED BY <1>5, <2>2, <2>3 DEF FetchFails
<1>6. CASE ReadBody \/ Chunk \/ BodyEnds \/ BodyFails \/ BodyTimesOut
  <2>1. pc \in {"returned", "read"} /\ open \subseteq {attempt} /\ UNCHANGED <<canRetry, aborted, sent, attempt>>
    BY <1>6 DEF ReadBody, Chunk, BodyEnds, BodyFails, BodyTimesOut, Inv, BodiesReleased
  <2>2. \/ \E how \in {"timeout", "body", "body-error", "response-too-large"} : CancelBody /\ End(how)
        \/ UNCHANGED <<open, result>>
    BY <1>6 DEF ReadBody, Chunk, BodyEnds, BodyFails, BodyTimesOut
  <2>3. ASSUME NEW how \in {"timeout", "body", "body-error", "response-too-large"}, CancelBody, End(how)
        PROVE  Promise!Settle
    <3>1. open' = {}
      BY <2>1, <2>3 DEF CancelBody
    <3> QED BY <2>1, <2>3, <3>1, SettlesOnce
  <2> QED BY <1>0, <2>1, <2>2, <2>3 DEF Promise!Next
<1>7. CASE Abort
  <2>1. Promise!Cancel
    BY <1>7 DEF Abort, Promise!Cancel, Inv, Attempts
  <2> QED BY <2>1 DEF Promise!Next
<1>8. CASE DelayEnds \/ Tick \/ UNCHANGED vars
  <2>1. Same
    BY <1>8 DEF DelayEnds, Tick, vars
  <2> QED BY <2>1, <1>0
<1> QED
  BY <1>1, <1>2, <1>3, <1>4, <1>5, <1>6, <1>7, <1>8 DEF Next

\* PromiseKept: fetchWithPolicy and the read of its body implement OutboundCall, for
\* every number of attempts, timeout, delay and body size.
THEOREM PromiseKept == Spec => ImplementsPromise
<1>1. Init => Promise!Init
  BY DEF Init, Promise!Init
<1>2. Inv /\ [Next]_vars => [Promise!Next]_(Promise!vars)
  BY PromiseStep
<1> QED BY <1>1, <1>2, Invariant, PTL DEF Spec, ImplementsPromise, Promise!Spec
===============================================================================
