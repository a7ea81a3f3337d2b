------------------------------ MODULE LiveStream ------------------------------
(***************************************************************************)
(* The live event stream of the portal backend: pushEvent, the two replay   *)
(* rings and replayAfter (portal/src/lib/live-stream.ts), and the SSE route  *)
(* that replays and then tails them (app/api/events/stream/route.ts).       *)
(*                                                                          *)
(* A replica talks to Valkey over one connection, which keeps its commands   *)
(* in order; a stream has a subscriber connection of its own.  Events are    *)
(* told apart by their id only: a shared counter value n, or, when INCR      *)
(* failed, a degraded id that no other event compares with (n = 0).  s is    *)
(* the order in which events were pushed, which the program does not see.    *)
(***************************************************************************)
EXTENDS Integers, Sequences, FiniteSets, SequencesExt

CONSTANTS
    Replicas,      \* portal processes
    Clients,       \* browsers, each with at most one stream open
    Retention,     \* LIVE_EVENT_RETENTION, 1000 in the code
    Snapshot,      \* events shown to a client without a cursor, 50 in the code
    MayFail,       \* whether Valkey commands fail
    MayRestart,    \* whether replicas restart
    MaxPush,       \* bound on the events pushed
    MaxConnect     \* bound on the streams opened

ASSUME ClientsAssumption == IsFiniteSet(Clients)
ASSUME RetentionAssumption == Retention \in Nat \ {0}
ASSUME SnapshotAssumption == Snapshot \in Nat \ {0}
ASSUME LiveBounds == MaxPush \in Nat /\ MaxConnect \in Nat
ASSUME LiveFaults == MayFail \in BOOLEAN /\ MayRestart \in BOOLEAN

VARIABLES
    pushed,       \* number of events pushed
    counter,      \* Valkey's live:events:id
    ring,         \* Valkey's live:events, oldest first
    mem,          \* per replica, memoryRing, oldest first
    pending,      \* per replica, events whose pipeline has not run
    publishing,   \* per replica, the event between LPUSH and PUBLISH, if any
    degraded,     \* per replica, whether degradedReason is set
    connected,    \* per replica, the connectedClients gauge
    published,    \* the events PUBLISH delivered to the channel
    pc,           \* per client, where its stream is
    closed,       \* per client, the stream's closed flag
    at,           \* per client, the replica serving it
    highWater,    \* per client, replayHighWaterId (0: none)
    replayed,     \* per client, replayedIds
    queue,        \* per client, messages its subscriber has received
    got,          \* per client, the events the browser received, in order
    from,         \* per client, how many it had received when its stream opened
    excused,      \* per client, events it was told it may have missed
    window,       \* per client, events published between snapshot and SUBSCRIBE
    opened,       \* number of streams opened
    failed        \* whether a Valkey command has failed

store == <<pushed, counter, ring, mem, pending, publishing, published>>
conn == <<at, highWater, replayed>>
ghost == <<from, excused, window, opened>>
vars == <<store, degraded, connected, pc, closed, conn, queue, got, ghost, failed>>

PCs == {"off", "reading", "subscribing", "live", "deaf"}
Event == [s : Nat, n : Nat, at : Replicas]

\* Every variable holds a value of its kind.
TypeOK ==
    /\ pushed \in Nat /\ counter \in Nat /\ opened \in Nat
    /\ ring \in Seq(Event)
    /\ mem \in [Replicas -> Seq(Event)]
    /\ pending \in [Replicas -> Seq(Event)]
    /\ publishing \in [Replicas -> SUBSET [event : Event, stored : BOOLEAN]]
    /\ degraded \in [Replicas -> BOOLEAN]
    /\ connected \in [Replicas -> Nat]
    /\ published \subseteq Event
    /\ pc \in [Clients -> PCs]
    /\ closed \in [Clients -> BOOLEAN]
    /\ at \in [Clients -> Replicas]
    /\ highWater \in [Clients -> Nat]
    /\ replayed \in [Clients -> SUBSET Event]
    /\ queue \in [Clients -> Seq(Event)]
    /\ got \in [Clients -> Seq(Event)]
    /\ from \in [Clients -> Nat]
    /\ excused \in [Clients -> SUBSET Event]
    /\ window \in [Clients -> SUBSET Event]
    /\ failed \in BOOLEAN

---------------------------------------------------------------------------
(* Rings and replay.                                                        *)

\* The newest k elements of a ring.
Newest(s, k) == SubSeq(s, Len(s) - Min({k, Len(s)}) + 1, Len(s))

Numeric(e) == e.n > 0

\* unshift/LPUSH, then the trim to the newest Retention events.
Keep(s, e) == Newest(Append(s, e), Retention)

After(s, e) == SubSeq(s, (CHOOSE i \in DOMAIN s : s[i] = e) + 1, Len(s))

Replay(events, notice) == [events |-> events, notice |-> notice]

\* The filter on counter ids: the events that have one, in their order.
Numbered(s) ==
    LET places == {i \in DOMAIN s : Numeric(s[i])}
        order  == CHOOSE f \in UNION {[1..k -> places] : k \in 0..Len(s)} :
                     /\ Range(f) = places
                     /\ \A i, j \in DOMAIN f : i < j => f[i] < f[j]
    IN  [i \in DOMAIN order |-> s[order[i]]]

\* Mutant: a cursor older than the ring is taken for one that is up to date.
ReplaySharedNoGap(recent, cursor) ==
    LET ordered == Numbered(recent)
    IN  IF cursor \in Range(ordered)
        THEN Replay(After(ordered, cursor), "none")
        ELSE Replay(<<>>, "none")

\* replayAfter once the shared ring's events have been read: only counter ids
\* order them, and the cursor has to be one of them.
ReplayShared(recent, cursor) ==
    LET ordered == Numbered(recent)
    IN  IF ordered = <<>> \/ cursor.n > Last(ordered).n THEN Replay(<<>>, "unknown")
        ELSE IF cursor.n < Head(ordered).n THEN Replay(<<>>, "gap")
        ELSE IF cursor \in Range(ordered) THEN Replay(After(ordered, cursor), "none")
        ELSE Replay(<<>>, "unknown")

---------------------------------------------------------------------------
Init ==
    /\ pushed = 0 /\ counter = 0 /\ opened = 0 /\ failed = FALSE
    /\ ring = <<>>
    /\ mem = [r \in Replicas |-> <<>>]
    /\ pending = [r \in Replicas |-> <<>>]
    /\ publishing = [r \in Replicas |-> {}]
    /\ degraded = [r \in Replicas |-> FALSE]
    /\ connected = [r \in Replicas |-> 0]
    /\ published = {}
    /\ pc = [c \in Clients |-> "off"]
    /\ closed = [c \in Clients |-> FALSE]
    /\ at \in [Clients -> Replicas]
    /\ highWater = [c \in Clients |-> 0]
    /\ replayed = [c \in Clients |-> {}]
    /\ queue = [c \in Clients |-> <<>>]
    /\ got = [c \in Clients |-> <<>>]
    /\ from = [c \in Clients |-> 0]
    /\ excused = [c \in Clients |-> {}]
    /\ window = [c \in Clients |-> {}]

---------------------------------------------------------------------------
(* pushEvent.                                                               *)

\* The event with its id enters the local ring; its pipeline is sent.
Accept(r, n) ==
    LET e == [s |-> pushed + 1, n |-> n, at |-> r]
    IN  /\ pushed' = pushed + 1
        /\ mem' = [mem EXCEPT ![r] = Keep(@, e)]
        /\ pending' = [pending EXCEPT ![r] = Append(@, e)]
        /\ UNCHANGED <<ring, publishing, published, connected, pc, closed, conn, queue, got, ghost>>

\* INCR answers.
PushEvent(r) ==
    /\ pushed < MaxPush
    /\ counter' = counter + 1
    /\ Accept(r, counter')
    /\ UNCHANGED <<degraded, failed>>

\* INCR rejects: the event gets a degraded id.
PushEventDegraded(r) ==
    /\ MayFail
    /\ pushed < MaxPush
    /\ Accept(r, 0)
    /\ degraded' = [degraded EXCEPT ![r] = TRUE]
    /\ failed' = TRUE
    /\ UNCHANGED counter

\* The pipeline's LPUSH and LTRIM run, or fail.
Store(r) ==
    /\ pending[r] # <<>>
    /\ publishing[r] = {}
    /\ pending' = [pending EXCEPT ![r] = Tail(@)]
    /\ \E stored \in {TRUE} \cup (IF MayFail THEN {FALSE} ELSE {}) :
          /\ publishing' = [publishing EXCEPT ![r] = {[event |-> Head(pending[r]), stored |-> stored]}]
          /\ ring' = IF stored THEN Keep(ring, Head(pending[r])) ELSE ring
          /\ failed' = (failed \/ ~stored)
    /\ UNCHANGED <<pushed, counter, mem, published, degraded, connected, pc, closed, conn,
                   queue, got, ghost>>

\* Its PUBLISH reaches every subscriber there is now, or fails; then the replica
\* learns whether the whole pipeline succeeded.
Publish(r) ==
    \E x \in publishing[r], sent \in {TRUE} \cup (IF MayFail THEN {FALSE} ELSE {}) :
        /\ publishing' = [publishing EXCEPT ![r] = {}]
        /\ published' = IF sent THEN published \cup {x.event} ELSE published
        /\ queue' = [c \in Clients |-> IF sent /\ pc[c] = "live"
                                       THEN Append(queue[c], x.event) ELSE queue[c]]
        /\ window' = [c \in Clients |-> IF sent /\ pc[c] = "subscribing"
                                        THEN window[c] \cup {x.event} ELSE window[c]]
        /\ degraded' = [degraded EXCEPT ![r] = IF x.stored /\ sent
                                               THEN @ /\ ~Numeric(x.event) ELSE TRUE]
        /\ failed' = (failed \/ ~sent)
        /\ UNCHANGED <<pushed, counter, ring, mem, pending, connected, pc, closed, conn, got,
                       from, excused, opened>>

---------------------------------------------------------------------------
(* The SSE route.                                                           *)

\* The last counter id of the replay, which is replayHighWaterId (0: none).
HighWater(events) ==
    LET numeric == Numbered(events) IN IF numeric = <<>> THEN 0 ELSE Last(numeric).n

\* The replay is sent to the client, then the route starts to iterate `live`,
\* which is what opens the subscription.
Send(c, reply) ==
    /\ pc' = [pc EXCEPT ![c] = "subscribing"]
    /\ got' = [got EXCEPT ![c] = @ \o reply.events]
    /\ replayed' = [replayed EXCEPT ![c] = Range(reply.events)]
    /\ highWater' = [highWater EXCEPT ![c] = HighWater(reply.events)]
    /\ excused' = IF reply.notice = "none" THEN excused
                  ELSE [excused EXCEPT ![c] = @ \cup published \cup Range(ring)]

\* The cursor is EventSource's Last-Event-ID: the last event the client received.
Retained(c, r) == got[c] # <<>> /\ Last(got[c]) \in Range(mem[r])
DegradedCursor(c) == got[c] # <<>> /\ ~Numeric(Last(got[c]))

\* GET: count the client in and look the cursor up in this process's ring.
Connect(c, r) ==
    /\ pc[c] = "off"
    /\ opened < MaxConnect
    /\ opened' = opened + 1
    /\ at' = [at EXCEPT ![c] = r]
    /\ closed' = [closed EXCEPT ![c] = FALSE]
    /\ connected' = [connected EXCEPT ![r] = @ + 1]
    /\ queue' = [queue EXCEPT ![c] = <<>>]
    /\ from' = [from EXCEPT ![c] = Len(got[c])]
    /\ \/ /\ Retained(c, r)
          /\ Send(c, Replay(After(mem[r], Last(got[c])), "none"))
       \/ /\ ~Retained(c, r) /\ DegradedCursor(c)
          /\ Send(c, Replay(<<>>, "unknown"))
       \/ /\ ~Retained(c, r) /\ ~DegradedCursor(c)
          /\ pc' = [pc EXCEPT ![c] = "reading"]
          /\ UNCHANGED <<got, replayed, highWater, excused>>
    /\ UNCHANGED <<failed, store, degraded, window>>

\* What the client is shown, given the events getRecentEvents returned.  Without
\* a cursor it is the newest ones, and anything older is not owed to the client.
Resume(c, recent) ==
    IF got[c] = <<>>
    THEN Send(c, Replay(Newest(recent, Snapshot), "start"))
    ELSE Send(c, ReplayShared(recent, Last(got[c])))

\* getRecentEvents: LRANGE answers, which also ends degraded mode ...
ReadRing(c) ==
    /\ pc[c] = "reading" /\ ~closed[c]
    /\ Resume(c, ring)
    /\ degraded' = [degraded EXCEPT ![at[c]] = FALSE]
    /\ UNCHANGED <<failed, store, connected, closed, at, queue, from, window, opened>>

\* ... or it rejects, and the local ring stands in for the shared one.
ReadRingFails(c) ==
    /\ MayFail /\ failed' = TRUE
    /\ pc[c] = "reading" /\ ~closed[c]
    /\ Resume(c, mem[at[c]])
    /\ degraded' = [degraded EXCEPT ![at[c]] = TRUE]
    /\ UNCHANGED <<store, connected, closed, at, queue, from, window, opened>>

\* subscribeLive's SUBSCRIBE takes effect: from now on messages are queued.
Subscribe(c) ==
    /\ pc[c] = "subscribing" /\ ~closed[c]
    /\ pc' = [pc EXCEPT ![c] = "live"]
    /\ UNCHANGED <<store, degraded, connected, closed, conn, queue, got, ghost, failed>>

\* SUBSCRIBE rejects: the stream stays open on heartbeats only.
SubscribeFails(c) ==
    /\ MayFail /\ failed' = TRUE
    /\ pc[c] = "subscribing" /\ ~closed[c]
    /\ pc' = [pc EXCEPT ![c] = "deaf"]
    /\ degraded' = [degraded EXCEPT ![at[c]] = TRUE]
    /\ UNCHANGED <<store, connected, closed, conn, queue, got, ghost>>

\* Mutant: the filter is off by one.
OverlapOffByOne(c, e) ==
    \/ Numeric(e) /\ highWater[c] > 0 /\ e.n <= highWater[c] + 1
    \/ ~Numeric(e) /\ e \in replayed[c]

\* Mutant: only counter ids are filtered.
OverlapNumericOnly(c, e) == Numeric(e) /\ highWater[c] > 0 /\ e.n <= highWater[c]

\* The route's filter: overlap between replay and live delivery is dropped.
Overlap(c, e) ==
    \/ Numeric(e) /\ highWater[c] > 0 /\ e.n <= highWater[c]
    \/ ~Numeric(e) /\ e \in replayed[c]

Deliver(c) ==
    /\ pc[c] = "live" /\ ~closed[c]
    /\ queue[c] # <<>>
    /\ queue' = [queue EXCEPT ![c] = Tail(@)]
    /\ got' = IF Overlap(c, Head(queue[c])) THEN got
              ELSE [got EXCEPT ![c] = Append(@, Head(queue[c]))]
    /\ UNCHANGED <<store, degraded, connected, pc, closed, conn, ghost, failed>>

\* Mutant: a client that leaves during setup is not counted out.
CleanupAfterSetup(c) ==
    /\ closed' = [closed EXCEPT ![c] = TRUE]
    /\ connected' = IF closed[c] \/ pc[c] = "reading" THEN connected
                    ELSE [connected EXCEPT ![at[c]] = Max({0, @ - 1})]

\* The route's cleanup(), which several events run: it counts a client out once.
Cleanup(c) ==
    /\ closed' = [closed EXCEPT ![c] = TRUE]
    /\ connected' = IF closed[c] THEN connected
                    ELSE [connected EXCEPT ![at[c]] = Max({0, @ - 1})]

\* The request is aborted or its consumer cancels, at any point of the stream.
Abort(c) ==
    /\ pc[c] # "off" /\ ~closed[c]
    /\ Cleanup(c)
    /\ UNCHANGED <<store, degraded, pc, conn, queue, got, ghost, failed>>

\* start() goes on after its pending await, returns, and its finally cleans up.
Finish(c) ==
    /\ pc[c] # "off" /\ closed[c]
    /\ Cleanup(c)
    /\ pc' = [pc EXCEPT ![c] = "off"]
    /\ queue' = [queue EXCEPT ![c] = <<>>]
    /\ UNCHANGED <<store, degraded, conn, got, ghost, failed>>

\* A replica restarts: its ring, its unsent pipelines and its streams are gone.
Restart(r) ==
    /\ MayRestart
    /\ mem' = [mem EXCEPT ![r] = <<>>]
    /\ pending' = [pending EXCEPT ![r] = <<>>]
    /\ publishing' = [publishing EXCEPT ![r] = {}]
    /\ degraded' = [degraded EXCEPT ![r] = FALSE]
    /\ connected' = [connected EXCEPT ![r] = 0]
    /\ pc' = [c \in Clients |-> IF at[c] = r THEN "off" ELSE pc[c]]
    /\ queue' = [c \in Clients |-> IF at[c] = r THEN <<>> ELSE queue[c]]
    /\ UNCHANGED <<pushed, counter, ring, published, closed, conn, got, ghost, failed>>

Next ==
    \/ \E r \in Replicas : PushEvent(r)
    \/ \E r \in Replicas : PushEventDegraded(r)
    \/ \E r \in Replicas : Store(r)
    \/ \E r \in Replicas : Publish(r)
    \/ \E c \in Clients, r \in Replicas : Connect(c, r)
    \/ \E c \in Clients : ReadRing(c)
    \/ \E c \in Clients : ReadRingFails(c)
    \/ \E c \in Clients : Subscribe(c)
    \/ \E c \in Clients : SubscribeFails(c)
    \/ \E c \in Clients : Deliver(c)
    \/ \E c \in Clients : Abort(c)
    \/ \E c \in Clients : Finish(c)
    \/ \E r \in Replicas : Restart(r)

Spec == Init /\ [][Next]_vars

---------------------------------------------------------------------------
(* Properties.                                                              *)

\* What a client receives in one stream: everything from its replay on.
Received(c) == SubSeq(got[c], from[c] + 1, Len(got[c]))

\* One stream sends no event twice, although replayed events may still be
\* published after it subscribed (the route's high-water and replayedIds filters).
NoOverlap == \A c \in Clients : IsInjective(Received(c))

\* Published events a client has not received, is not about to receive and was
\* not told of by a replay-gap notice.
Missing(c) == (published \ excused[c]) \ (Range(got[c]) \cup Range(queue[c]))

\* While Valkey answers: once a reconnecting client has its replay, no event published before is missing
\* unless it got a replay-gap notice: the cursor is retained or reported.
RetainedCursorReplayed ==
    ~failed => \A c \in Clients : pc[c] = "subscribing" => Missing(c) \subseteq window[c]

\* While Valkey answers: a live client misses no published event except those published between its
\* snapshot and its SUBSCRIBE: filters and replay lose nothing.
LostOnlyInWindow ==
    ~failed => \A c \in Clients : pc[c] = "live" => Missing(c) \subseteq window[c]

\* The connectedClients gauge counts exactly the streams that are open, however
\* abort, cancellation, failure and the finally block overlap.
GaugeExact == \A r \in Replicas :
    connected[r] = Cardinality({c \in Clients : pc[c] # "off" /\ ~closed[c] /\ at[c] = r})
===============================================================================
