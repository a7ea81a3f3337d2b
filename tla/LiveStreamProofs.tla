--------------------------- MODULE LiveStreamProofs ---------------------------
(***************************************************************************)
(* Machine-checked proofs about the live event stream, module LiveStream,   *)
(* for any finite set of clients and any sizes of the rings: the gauge for  *)
(* any replicas, what a stream delivers for one replica.                    *)
(***************************************************************************)
EXTENDS LiveStream, FiniteSetTheorems, NaturalsInduction, WellFoundedInduction, TLAPS

\* The streams that are open on a replica.
Streams(r) == {c \in Clients : pc[c] # "off" /\ ~closed[c] /\ at[c] = r}

StreamType ==
    /\ pc \in [Clients -> PCs] /\ closed \in [Clients -> BOOLEAN]
    /\ at \in [Clients -> Replicas] /\ connected \in [Replicas -> Nat]

GaugeInv == StreamType /\ GaugeExact

LEMMA MaxNat ==
    ASSUME NEW n \in Nat, n > 0
    PROVE  Max({0, n - 1}) = n - 1
BY DEF Max

LEMMA StreamsFinite ==
    ASSUME NEW r
    PROVE  IsFiniteSet(Streams(r)) /\ Cardinality(Streams(r)) \in Nat
<1>1. IsFiniteSet(Streams(r))
    BY ClientsAssumption, FS_Subset DEF Streams
<1> QED BY <1>1, FS_CardinalityType

LEMMA GaugeAt ==
    GaugeExact <=> \A r \in Replicas : connected[r] = Cardinality(Streams(r))
BY DEF GaugeExact, Streams

LEMMA GaugeInit == Init => GaugeInv
<1> SUFFICES ASSUME Init PROVE GaugeInv
    OBVIOUS
<1>1. StreamType
    BY DEF Init, StreamType, PCs
<1>2. ASSUME NEW r \in Replicas PROVE connected[r] = Cardinality(Streams(r))
    <2>1. Streams(r) = {}
        BY DEF Init, Streams
    <2> QED BY <2>1, FS_EmptySet DEF Init
<1> QED BY <1>1, <1>2, GaugeAt DEF GaugeInv

\* A step that leaves a replica's streams and its gauge alone.
LEMMA GaugeKept ==
    ASSUME GaugeInv, StreamType',
           \A r \in Replicas : Streams(r)' = Streams(r) /\ connected'[r] = connected[r]
    PROVE  GaugeInv'
<1>1. \A r \in Replicas : connected'[r] = Cardinality(Streams(r)')
    BY GaugeAt DEF GaugeInv
<1> QED BY <1>1 DEF GaugeInv, GaugeExact, Streams

\* A client is counted in.
LEMMA ConnectGauge ==
    ASSUME GaugeInv, NEW c \in Clients, NEW r \in Replicas, Connect(c, r)
    PROVE  GaugeInv'
<1>0. StreamType /\ \A q \in Replicas : connected[q] = Cardinality(Streams(q))
    BY GaugeAt DEF GaugeInv
<1>1. /\ pc[c] = "off" /\ at' = [at EXCEPT ![c] = r] /\ closed' = [closed EXCEPT ![c] = FALSE]
      /\ connected' = [connected EXCEPT ![r] = @ + 1]
      /\ \E p \in {"subscribing", "reading"} : pc' = [pc EXCEPT ![c] = p]
    BY DEF Connect, Send
<1>2. StreamType'
    BY <1>0, <1>1 DEF StreamType, PCs
<1>3. Streams(r)' = Streams(r) \cup {c} /\ c \notin Streams(r)
    BY <1>0, <1>1 DEF Streams, StreamType
<1>4. ASSUME NEW q \in Replicas, q # r PROVE Streams(q)' = Streams(q) /\ connected'[q] = connected[q]
    BY <1>0, <1>1, <1>4 DEF Streams, StreamType
<1>5. connected'[r] = Cardinality(Streams(r)')
    <2>1. Cardinality(Streams(r) \cup {c}) = Cardinality(Streams(r)) + 1
        BY <1>3, StreamsFinite, FS_AddElement
    <2>2. connected'[r] = connected[r] + 1
        BY <1>0, <1>1 DEF StreamType
    <2> QED BY <1>0, <1>3, <2>1, <2>2
<1>6. ASSUME NEW q \in Replicas PROVE connected'[q] = Cardinality(Streams(q)')
    BY <1>0, <1>4, <1>5
<1> QED BY <1>2, <1>6 DEF GaugeInv, GaugeExact, Streams

\* A client is counted out, by the cleanup that finds its stream open.
LEMMA AbortGauge ==
    ASSUME GaugeInv, NEW c \in Clients, Abort(c)
    PROVE  GaugeInv'
<1>0. StreamType /\ \A q \in Replicas : connected[q] = Cardinality(Streams(q))
    BY GaugeAt DEF GaugeInv
<1>1. PICK r \in Replicas : r = at[c]
    BY <1>0 DEF StreamType
<1>2. /\ pc[c] # "off" /\ ~closed[c] /\ closed' = [closed EXCEPT ![c] = TRUE]
      /\ connected' = [connected EXCEPT ![r] = Max({0, @ - 1})]
      /\ pc' = pc /\ at' = at
    BY <1>1 DEF Abort, Cleanup, conn
<1>3. Streams(r)' = Streams(r) \ {c} /\ c \in Streams(r)
    BY <1>0, <1>1, <1>2 DEF Streams, StreamType
<1>4. ASSUME NEW q \in Replicas, q # r PROVE Streams(q)' = Streams(q) /\ connected'[q] = connected[q]
    BY <1>0, <1>1, <1>2, <1>4 DEF Streams, StreamType
<1>5. connected'[r] = Cardinality(Streams(r)') /\ connected'[r] \in Nat
    <2>1. Cardinality(Streams(r) \ {c}) = Cardinality(Streams(r)) - 1
        BY <1>3, StreamsFinite, FS_RemoveElement
    <2>2. Cardinality(Streams(r)) # 0
        BY <1>3, StreamsFinite, FS_EmptySet
    <2>3. connected[r] \in Nat /\ connected[r] > 0
        BY <1>0, <2>2, StreamsFinite DEF StreamType
    <2>4. connected'[r] = connected[r] - 1
        BY <1>0, <1>2, <2>3, MaxNat DEF StreamType
    <2>5. connected[r] - 1 \in Nat
        BY <2>3
    <2> QED BY <1>0, <1>3, <2>1, <2>4, <2>5
<1>6. ASSUME NEW q \in Replicas PROVE connected'[q] = Cardinality(Streams(q)')
    BY <1>0, <1>4, <1>5
<1>7. StreamType'
    <2>1. connected' \in [Replicas -> Nat]
        BY <1>0, <1>2, <1>4, <1>5 DEF StreamType
    <2> QED BY <1>0, <1>2, <2>1 DEF StreamType
<1> QED BY <1>6, <1>7 DEF GaugeInv, GaugeExact, Streams

\* A replica restarts with no streams.
LEMMA RestartGauge ==
    ASSUME GaugeInv, NEW r \in Replicas, Restart(r)
    PROVE  GaugeInv'
<1>0. StreamType /\ \A q \in Replicas : connected[q] = Cardinality(Streams(q))
    BY GaugeAt DEF GaugeInv
<1>1. /\ connected' = [connected EXCEPT ![r] = 0] /\ closed' = closed /\ at' = at
      /\ pc' = [c \in Clients |-> IF at[c] = r THEN "off" ELSE pc[c]]
    BY DEF Restart, conn
<1>2. StreamType'
    BY <1>0, <1>1 DEF StreamType, PCs
<1>3. Streams(r)' = {} /\ connected'[r] = 0
    BY <1>0, <1>1 DEF Streams, StreamType
<1>4. ASSUME NEW q \in Replicas, q # r PROVE Streams(q)' = Streams(q) /\ connected'[q] = connected[q]
    BY <1>0, <1>1, <1>4 DEF Streams, StreamType
<1>5. ASSUME NEW q \in Replicas PROVE connected'[q] = Cardinality(Streams(q)')
    BY <1>0, <1>3, <1>4, FS_EmptySet
<1> QED BY <1>2, <1>5 DEF GaugeInv, GaugeExact, Streams

\* The other steps move a stream that stays open, or end one that is counted out.
LEMMA MoveGauge ==
    ASSUME GaugeInv, NEW c \in Clients,
           ReadRing(c) \/ ReadRingFails(c) \/ Subscribe(c) \/ SubscribeFails(c)
    PROVE  GaugeInv'
<1>0. StreamType
    BY DEF GaugeInv
<1>1. /\ pc[c] # "off" /\ UNCHANGED <<connected, closed, at>>
      /\ \E p \in {"subscribing", "live", "deaf"} : pc' = [pc EXCEPT ![c] = p]
    BY DEF ReadRing, ReadRingFails, Subscribe, SubscribeFails, Resume, Send, conn
<1>2. StreamType'
    BY <1>0, <1>1 DEF StreamType, PCs
<1>3. \A r \in Replicas : Streams(r)' = Streams(r) /\ connected'[r] = connected[r]
    BY <1>0, <1>1 DEF Streams, StreamType
<1> QED BY <1>2, <1>3, GaugeKept

LEMMA FinishGauge ==
    ASSUME GaugeInv, NEW c \in Clients, Finish(c)
    PROVE  GaugeInv'
<1>0. StreamType
    BY DEF GaugeInv
<1>1. /\ closed[c] /\ connected' = connected /\ at' = at /\ closed' = [closed EXCEPT ![c] = TRUE]
      /\ pc' = [pc EXCEPT ![c] = "off"]
    BY DEF Finish, Cleanup, conn
<1>2. StreamType'
    BY <1>0, <1>1 DEF StreamType, PCs
<1>3. \A r \in Replicas : Streams(r)' = Streams(r) /\ connected'[r] = connected[r]
    BY <1>0, <1>1 DEF Streams, StreamType
<1> QED BY <1>2, <1>3, GaugeKept

LEMMA QuietGauge ==
    ASSUME GaugeInv, UNCHANGED <<pc, closed, at, connected>>
    PROVE  GaugeInv'
BY DEF GaugeInv, StreamType, GaugeExact

LEMMA GaugeStep ==
    ASSUME GaugeInv, [Next]_vars
    PROVE  GaugeInv'
<1>1. ASSUME NEW r \in Replicas, PushEvent(r) \/ PushEventDegraded(r) \/ Store(r) \/ Publish(r)
      PROVE  UNCHANGED <<pc, closed, at, connected>>
    BY <1>1 DEF PushEvent, PushEventDegraded, Accept, Store, Publish, conn
<1>2. ASSUME NEW c \in Clients, Deliver(c) PROVE UNCHANGED <<pc, closed, at, connected>>
    BY <1>2 DEF Deliver, conn
<1>3. UNCHANGED vars => UNCHANGED <<pc, closed, at, connected>>
    BY DEF vars, conn
<1> QED BY <1>1, <1>2, <1>3, QuietGauge, ConnectGauge, MoveGauge, AbortGauge, FinishGauge,
           RestartGauge DEF Next

\* The connectedClients gauge of every replica counts exactly its open streams
\* (cleanup of the SSE route), for any number of clients and replicas, however abort,
\* cancellation, failed setup, restarts and the finally block come together.
THEOREM GaugeIsExact == Spec => []GaugeExact
<1>1. GaugeInv /\ [Next]_vars => GaugeInv'
    BY GaugeStep
<1>2. GaugeInv => GaugeExact
    BY DEF GaugeInv
<1> QED BY <1>1, <1>2, GaugeInit, PTL DEF Spec

---------------------------------------------------------------------------
(* What a stream delivers.                                                  *)

\* One portal process, which is what the chart deploys.
OneReplica == \A p, q \in Replicas : p = q

\* e was pushed before f, and their counter ids agree.
Before(e, f) == e.s < f.s /\ (Numeric(e) /\ Numeric(f) => e.n < f.n)

Rising(s) == \A i, j \in DOMAIN s : i < j => Before(s[i], s[j])

Issued(e) == e.s <= pushed /\ e.n <= counter

\* A replica publishes in the order it pushed: what is published is older than what is
\* being published, and that is older than what is pending.
ReplicaOrder(r) ==
    /\ Rising(mem[r]) /\ Rising(pending[r])
    /\ \A e \in Range(mem[r]) \cup Range(pending[r]) : Issued(e)
    /\ \A x \in publishing[r] : Issued(x.event)
    /\ \A e \in Range(pending[r]), f \in Range(ring) \cup published : Before(f, e)
    /\ \A e \in Range(pending[r]), x \in publishing[r] : Before(x.event, e)
    /\ \A x \in publishing[r], f \in published : Before(f, x.event)

StoreOrder ==
    /\ Rising(ring)
    /\ \A e \in Range(ring) \cup published : Issued(e)
    /\ \A r \in Replicas : ReplicaOrder(r)

ClientOrder(c) ==
    /\ \A e \in Range(got[c]) : Issued(e)
    /\ Rising(queue[c]) /\ Range(queue[c]) \subseteq published

OrderInv == StoreOrder /\ \A c \in Clients : ClientOrder(c)

\* The places of got that belong to the stream that is open, or was last.
Sent(c) == (from[c] + 1)..Len(got[c])

\* What a stream sent is of its replay, or was published before all that is queued; the
\* high-water mark covers the replay.
Stream(c) ==
    /\ from[c] <= Len(got[c])
    /\ pc[c] = "reading" => from[c] = Len(got[c])
    /\ \A i, j \in Sent(c) : got[c][i] = got[c][j] => i = j
    /\ \A i \in Sent(c) :
          \/ got[c][i] \in replayed[c]
          \/ got[c][i] \in published /\ \A e \in Range(queue[c]) : got[c][i].s < e.s
    /\ \A e \in replayed[c] : Numeric(e) => e.n <= highWater[c]

StreamInv == \A c \in Clients : Stream(c)

\* While Valkey answers, counter ids are the order of the pushes.
Exact(e) == e.n = e.s /\ e.n > 0

\* Events that were or may still be published: a restart takes the others back.
Due(r) == published \cup {x.event : x \in publishing[r]} \cup Range(pending[r])

\* Events the client has, was told of, or missed in its window.
Told(c) == Range(got[c]) \cup excused[c] \cup window[c]

\* The rings hold what is due, but for what is older than all they hold.
CleanReplica(r) ==
    /\ \A e \in Due(r) \cup Range(mem[r]) : Exact(e)
    /\ \A x \in publishing[r] : x.event \in Range(ring)
    /\ \A f \in Due(r) : f \in Range(mem[r]) \/ \A e \in Range(mem[r]) : f.s < e.s

CleanStore ==
    /\ counter = pushed
    /\ \A e \in Range(ring) \cup published : Exact(e)
    /\ \A f \in published : f \in Range(ring) \/ \A e \in Range(ring) : f.s < e.s
    /\ \A r \in Replicas : CleanReplica(r)

\* A client is even with its cursor and with its high-water mark: nothing that is due and
\* not newer is missing.
CleanStream(c) ==
    /\ \A e \in Range(got[c]) : Exact(e)
    /\ highWater[c] <= pushed
    /\ got[c] # <<>> => \A r \in Replicas : \A f \in Due(r) : f.s <= Last(got[c]).s => f \in Told(c)
    /\ \A r \in Replicas : \A f \in Due(r) : f.s <= highWater[c] => f \in Told(c)
    /\ pc[c] \in {"subscribing", "live"} => published \subseteq Told(c) \cup Range(queue[c])

CleanInv == ~failed => CleanStore /\ \A c \in Clients : CleanStream(c)

DeliveryInv == TypeOK /\ OrderInv /\ StreamInv /\ CleanInv

---------------------------------------------------------------------------
(* Sequences of events.                                                     *)

\* The elements of a sequence are the values at its places.
LEMMA InRange ==
    ASSUME NEW S, NEW s \in Seq(S)
    PROVE  /\ \A e : e \in Range(s) <=> \E i \in 1..Len(s) : s[i] = e
           /\ Range(s) \subseteq S
           /\ Len(s) \in Nat /\ DOMAIN s = 1..Len(s)
BY DEF Range

\* A suffix of a sequence.
LEMMA SuffixFacts ==
    ASSUME NEW S, NEW s \in Seq(S), NEW m \in 1..(Len(s) + 1)
    PROVE  LET t == SubSeq(s, m, Len(s)) IN
           /\ t \in Seq(S)
           /\ Len(t) = Len(s) - m + 1
           /\ \A i \in 1..Len(t) : t[i] = s[m + i - 1]
OBVIOUS

\* The elements of a suffix, in the order they had.
LEMMA SuffixRange ==
    ASSUME NEW S, NEW s \in Seq(S), NEW m \in 1..(Len(s) + 1)
    PROVE  LET t == SubSeq(s, m, Len(s)) IN
           /\ \A e : e \in Range(t) <=> \E i \in m..Len(s) : s[i] = e
           /\ Rising(s) => Rising(t)
<1> DEFINE t == SubSeq(s, m, Len(s))
<1>1. t \in Seq(S) /\ Len(t) = Len(s) - m + 1 /\ \A i \in 1..Len(t) : t[i] = s[m + i - 1]
    BY SuffixFacts
<1> HIDE DEF t
<1>2. ASSUME NEW e, e \in Range(t) PROVE \E i \in m..Len(s) : s[i] = e
    <2>1. PICK i \in 1..Len(t) : t[i] = e
        BY <1>1, <1>2, InRange
    <2>2. m + i - 1 \in m..Len(s) /\ s[m + i - 1] = e
        BY <1>1, <2>1
    <2> QED BY <2>2
<1>3. ASSUME NEW i \in m..Len(s) PROVE s[i] \in Range(t)
    <2>1. i - m + 1 \in 1..Len(t) /\ m + (i - m + 1) - 1 = i
        BY <1>1
    <2>2. t[i - m + 1] = s[i]
        BY <1>1, <2>1
    <2> QED BY <1>1, <2>1, <2>2, InRange
<1>4. Rising(s) => Rising(t)
    <2> SUFFICES ASSUME Rising(s), NEW i \in 1..Len(t), NEW j \in 1..Len(t), i < j
                 PROVE  Before(t[i], t[j])
        BY <1>1, InRange DEF Rising
    <2>1. m + i - 1 \in 1..Len(s) /\ m + j - 1 \in 1..Len(s) /\ m + i - 1 < m + j - 1
        BY <1>1
    <2>2. Before(s[m + i - 1], s[m + j - 1])
        BY <2>1, InRange DEF Rising
    <2> QED BY <1>1, <2>2
<1> QED BY <1>2, <1>3, <1>4 DEF t

\* A ring in order is ordered by s, and s finds an event's place.
LEMMA RisingPlaces ==
    ASSUME NEW s \in Seq(Event), Rising(s), NEW i \in 1..Len(s), NEW j \in 1..Len(s)
    PROVE  /\ s[i].s < s[j].s <=> i < j
           /\ s[i].s <= s[j].s <=> i <= j
           /\ s[i] = s[j] => i = j
<1>0. s[i].s \in Nat /\ s[j].s \in Nat
    <2>1. s[i] \in Event /\ s[j] \in Event
        OBVIOUS
    <2> QED BY <2>1 DEF Event
<1>1. (i < j => s[i].s < s[j].s) /\ (j < i => s[j].s < s[i].s)
    BY InRange DEF Rising, Before
<1>2. i = j => s[i].s = s[j].s
    OBVIOUS
<1> QED BY <1>0, <1>1, <1>2

\* The smaller of two naturals.
LEMMA MinOf ==
    ASSUME NEW a \in Nat, NEW b \in Nat
    PROVE  Min({a, b}) \in Nat /\ Min({a, b}) <= a /\ Min({a, b}) <= b
           /\ (Min({a, b}) = a \/ Min({a, b}) = b)
<1>1. \E x \in {a, b} : \A y \in {a, b} : x <= y
    OBVIOUS
<1>2. Min({a, b}) \in {a, b} /\ \A y \in {a, b} : Min({a, b}) <= y
    BY <1>1 DEF Min
<1> QED BY <1>2

\* The newest k events of a ring: the others are older than all of them.
LEMMA NewestFacts ==
    ASSUME NEW s \in Seq(Event), Rising(s), NEW k \in Nat
    PROVE  LET t == Newest(s, k) IN
           /\ t \in Seq(Event) /\ Rising(t)
           /\ Range(t) \subseteq Range(s)
           /\ \A e \in Range(s) : e \in Range(t) \/ \A f \in Range(t) : e.s < f.s
           /\ s # <<>> /\ k > 0 => t # <<>> /\ Last(t) = Last(s)
<1> DEFINE m == Len(s) - Min({k, Len(s)}) + 1
           t == SubSeq(s, m, Len(s))
<1>1. m \in 1..(Len(s) + 1)
    BY MinOf
<1>2. s # <<>> /\ k > 0 => m \in 1..Len(s)
    BY MinOf
<1> HIDE DEF m
<1>3. /\ t \in Seq(Event) /\ Rising(t)
      /\ \A e : e \in Range(t) <=> \E i \in m..Len(s) : s[i] = e
      /\ Len(t) = Len(s) - m + 1 /\ \A i \in 1..Len(t) : t[i] = s[m + i - 1]
    BY <1>1, SuffixFacts, SuffixRange
<1> HIDE DEF t
<1>4. Range(t) \subseteq Range(s)
    BY <1>1, <1>3, InRange
<1>5. ASSUME NEW e \in Range(s), e \notin Range(t), NEW f \in Range(t) PROVE e.s < f.s
    <2>1. PICK i \in 1..Len(s) : s[i] = e
        BY InRange
    <2>2. PICK j \in m..Len(s) : s[j] = f
        BY <1>3
    <2>3. ~(i \in m..Len(s))
        BY <1>3, <1>5, <2>1
    <2>4. j \in 1..Len(s) /\ i < j
        BY <1>1, <2>3
    <2> QED BY <2>1, <2>2, <2>4, RisingPlaces
<1>6. s # <<>> /\ k > 0 => t # <<>> /\ Last(t) = Last(s)
    <2> SUFFICES ASSUME s # <<>>, k > 0 PROVE t # <<>> /\ Last(t) = Last(s)
        OBVIOUS
    <2>1. Len(t) \in 1..Len(t) /\ m + Len(t) - 1 = Len(s)
        BY <1>2, <1>3
    <2>2. t[Len(t)] = s[Len(s)]
        BY <1>3, <2>1
    <2> QED BY <2>1, <2>2 DEF Last
<1> QED BY <1>3, <1>4, <1>5, <1>6 DEF Newest, m, t

\* An event appended to a ring.
LEMMA AppendFacts ==
    ASSUME NEW s \in Seq(Event), NEW e \in Event
    PROVE  LET a == Append(s, e) IN
           /\ a \in Seq(Event) /\ Len(a) = Len(s) + 1 /\ a # <<>> /\ Last(a) = e
           /\ \A i \in 1..Len(s) : a[i] = s[i]
           /\ a[Len(s) + 1] = e
           /\ Range(a) = Range(s) \cup {e}
           /\ Rising(s) /\ (\A f \in Range(s) : Before(f, e)) => Rising(a)
<1> DEFINE a == Append(s, e)
<1>1. a \in Seq(Event) /\ Len(a) = Len(s) + 1 /\ a[Len(s) + 1] = e /\ \A i \in 1..Len(s) : a[i] = s[i]
    OBVIOUS
<1> HIDE DEF a
<1>2. Range(a) = Range(s) \cup {e}
    <2>1. \A g : g \in Range(a) <=> \E i \in 1..(Len(s) + 1) : a[i] = g
        BY <1>1, InRange
    <2>2. \A i \in 1..(Len(s) + 1) : i \in 1..Len(s) \/ i = Len(s) + 1
        OBVIOUS
    <2>3. \A g : g \in Range(s) <=> \E i \in 1..Len(s) : s[i] = g
        BY InRange
    <2>4. Len(s) + 1 \in 1..(Len(s) + 1) /\ \A i \in 1..Len(s) : i \in 1..(Len(s) + 1)
        OBVIOUS
    <2> QED BY <1>1, <2>1, <2>2, <2>3, <2>4
<1>3. ASSUME Rising(s), \A f \in Range(s) : Before(f, e) PROVE Rising(a)
    <2> SUFFICES ASSUME NEW i \in 1..Len(a), NEW j \in 1..Len(a), i < j PROVE Before(a[i], a[j])
        BY <1>1, InRange DEF Rising
    <2>1. i \in 1..Len(s) /\ a[i] = s[i] /\ s[i] \in Range(s)
        BY <1>1, InRange
    <2>2. CASE j = Len(s) + 1
        BY <1>1, <1>3, <2>1, <2>2
    <2>3. CASE j # Len(s) + 1
        <3>1. j \in 1..Len(s)
            BY <1>1, <2>3
        <3> QED BY <1>1, <1>3, <2>1, <3>1, InRange DEF Rising
    <2> QED BY <2>2, <2>3
<1>4. a # <<>> /\ Last(a) = e
    BY <1>1 DEF Last
<1> QED BY <1>1, <1>2, <1>3, <1>4 DEF a

\* An event newer than all of a ring is kept by it, and what it drops is older than the rest.
LEMMA KeepFacts ==
    ASSUME NEW s \in Seq(Event), Rising(s), NEW e \in Event, \A f \in Range(s) : Before(f, e)
    PROVE  LET t == Keep(s, e) IN
           /\ t \in Seq(Event) /\ Rising(t)
           /\ Range(t) \subseteq Range(s) \cup {e}
           /\ e \in Range(t)
           /\ \A g \in Range(s) \cup {e} : g \in Range(t) \/ \A f \in Range(t) : g.s < f.s
<1> DEFINE a == Append(s, e)
<1>1. /\ a \in Seq(Event) /\ Rising(a) /\ a # <<>> /\ Last(a) = e
      /\ Range(a) = Range(s) \cup {e}
    BY AppendFacts
<1> HIDE DEF a
<1>2. Retention \in Nat /\ Retention > 0
    BY RetentionAssumption
<1> DEFINE t == Newest(a, Retention)
<1>3. /\ t \in Seq(Event) /\ Rising(t) /\ Range(t) \subseteq Range(a)
      /\ \A g \in Range(a) : g \in Range(t) \/ \A f \in Range(t) : g.s < f.s
      /\ t # <<>> /\ Last(t) = e
    BY <1>1, <1>2, NewestFacts
<1> HIDE DEF t
<1>4. e \in Range(t)
    BY <1>3, InRange DEF Last
<1> QED BY <1>1, <1>3, <1>4 DEF Keep, a, t

\* What follows an event in a ring: the events newer than it.
LEMMA AfterFacts ==
    ASSUME NEW s \in Seq(Event), Rising(s), NEW e \in Range(s)
    PROVE  LET t == After(s, e) IN
           /\ t \in Seq(Event) /\ Rising(t)
           /\ Range(t) = {f \in Range(s) : e.s < f.s}
<1> DEFINE p == CHOOSE i \in DOMAIN s : s[i] = e
           t == SubSeq(s, p + 1, Len(s))
<1>1. p \in 1..Len(s) /\ s[p] = e
    BY InRange
<1> HIDE DEF p
<1>2. p + 1 \in 1..(Len(s) + 1)
    BY <1>1
<1>3. /\ t \in Seq(Event) /\ Rising(t)
      /\ \A f : f \in Range(t) <=> \E i \in (p + 1)..Len(s) : s[i] = f
    BY <1>2, SuffixFacts, SuffixRange
<1> HIDE DEF t
<1>4. ASSUME NEW f \in Range(t) PROVE f \in Range(s) /\ e.s < f.s
    <2>1. PICK i \in (p + 1)..Len(s) : s[i] = f
        BY <1>3
    <2>2. i \in 1..Len(s) /\ p < i
        BY <1>1
    <2> QED BY <1>1, <2>1, <2>2, InRange, RisingPlaces
<1>5. ASSUME NEW f \in Range(s), e.s < f.s PROVE f \in Range(t)
    <2>1. PICK i \in 1..Len(s) : s[i] = f
        BY InRange
    <2>2. p < i
        BY <1>1, <1>5, <2>1, RisingPlaces
    <2>3. i \in (p + 1)..Len(s)
        BY <1>1, <2>2
    <2> QED BY <1>3, <2>1, <2>3
<1> QED BY <1>3, <1>4, <1>5 DEF After, p, t

\* A set of naturals has a least element.
LEMMA SmallestOf ==
    ASSUME NEW T \in SUBSET Nat, T # {}
    PROVE  \E m \in T : \A n \in T : m <= n
<1> DEFINE R == {ss \in Nat \X Nat : ss[1] < ss[2]}
<1>1. IsWellFoundedOn(R, Nat)
    BY NatLessThanWellFounded, Zenon DEF OpToRel
<1>2. PICK m \in T : \A n \in T : ~(<<n, m>> \in R)
    <2> HIDE DEF R
    <2> QED BY <1>1, WFMin
<1>3. \A n \in T : ~(n < m)
    <2> TAKE n \in T
    <2>1. <<n, m>> \in Nat \X Nat
        OBVIOUS
    <2> QED BY <1>2, <2>1
<1> QED BY <1>3

\* The places of P, in order.
Lists(f, P) ==
    /\ Range(f) = P
    /\ \A i, j \in DOMAIN f : i < j => f[i] < f[j]

\* Every set of places up to l has a list, of at most l entries: by induction on l, as
\* the least l for which it fails.
LEMMA ListExists ==
    ASSUME NEW l \in Nat
    PROVE  \A P \in SUBSET (1..l) : \E k \in 0..l : \E f \in [1..k -> P] : Lists(f, P)
<1> DEFINE T == {n \in Nat : ~(\A P \in SUBSET (1..n) : \E k \in 0..n : \E f \in [1..k -> P] : Lists(f, P))}
<1> SUFFICES ASSUME T # {} PROVE FALSE
    OBVIOUS
<1>1. PICK m \in T : \A n \in T : m <= n
    <2>1. T \in SUBSET Nat
        OBVIOUS
    <2> HIDE DEF T
    <2> QED BY <2>1, SmallestOf
<1>2. m \in Nat
    OBVIOUS
<1>3. PICK P \in SUBSET (1..m) : ~(\E k \in 0..m : \E f \in [1..k -> P] : Lists(f, P))
    OBVIOUS
<1>4. m # 0
    <2> SUFFICES ASSUME m = 0 PROVE FALSE
        OBVIOUS
    <2>1. P = {}
        BY <1>3
    <2>2. [i \in 1..0 |-> 0] \in [1..0 -> P] /\ Lists([i \in 1..0 |-> 0], P)
        BY <2>1 DEF Lists, Range
    <2>3. 0 \in 0..m
        OBVIOUS
    <2> QED BY <1>3, <2>2, <2>3
<1> DEFINE Q == P \ {m}
<1>5. PICK k \in 0..(m - 1) : \E f \in [1..k -> Q] : Lists(f, Q)
    <2>1. m - 1 \in Nat /\ ~(m - 1 \in T)
        <3> HIDE DEF T
        <3>1. m - 1 \in Nat /\ m - 1 < m
            BY <1>2, <1>4
        <3> QED BY <1>1, <1>2, <3>1
    <2>2. Q \in SUBSET (1..(m - 1))
        BY <1>2, <1>3
    <2> HIDE DEF Q
    <2> QED BY <2>1, <2>2
<1>6. PICK f \in [1..k -> Q] : Lists(f, Q)
    BY <1>5
<1>7. CASE m \notin P
    <2>1. Q = P /\ k \in 0..m
        BY <1>2, <1>7
    <2> QED BY <1>3, <1>6, <2>1
<1>8. CASE m \in P
    <2> DEFINE g == [i \in 1..(k + 1) |-> IF i = k + 1 THEN m ELSE f[i]]
    <2>1. k + 1 \in 0..m
        BY <1>2, <1>4
    <2>2. \A i \in 1..(k + 1) : i # k + 1 => i \in 1..k
        OBVIOUS
    <2>3. g \in [1..(k + 1) -> P]
        BY <1>6, <1>8, <2>2
    <2>4. Range(g) = P
        <3>1. \A i \in 1..k : i \in 1..(k + 1) /\ i # k + 1 /\ g[i] = f[i]
            OBVIOUS
        <3>2. k + 1 \in 1..(k + 1) /\ g[k + 1] = m
            OBVIOUS
        <3>3. \A e \in Q : \E i \in 1..k : f[i] = e
            BY <1>6 DEF Lists, Range
        <3>4. \A e \in P : \E i \in 1..(k + 1) : g[i] = e
            BY <3>1, <3>2, <3>3
        <3> HIDE DEF g
        <3> QED BY <2>3, <3>4 DEF Range
    <2>5. \A i, j \in 1..(k + 1) : i < j => g[i] < g[j]
        <3> SUFFICES ASSUME NEW i \in 1..(k + 1), NEW j \in 1..(k + 1), i < j PROVE g[i] < g[j]
            OBVIOUS
        <3>1. i \in 1..k /\ g[i] = f[i] /\ f[i] \in Q
            BY <1>6
        <3>2. f[i] \in 1..m /\ f[i] # m
            BY <1>3, <3>1
        <3>3. CASE j = k + 1
            BY <1>2, <3>1, <3>2, <3>3
        <3>4. CASE j # k + 1
            <4>1. j \in 1..k /\ g[j] = f[j]
                BY <3>4
            <4>2. \A a, b \in 1..k : a < b => f[a] < f[b]
                BY <1>6 DEF Lists
            <4> QED BY <3>1, <4>1, <4>2
        <3> QED BY <3>3, <3>4
    <2>6. DOMAIN g = 1..(k + 1)
        OBVIOUS
    <2>7. Lists(g, P)
        <3> HIDE DEF g
        <3> QED BY <2>4, <2>5, <2>6 DEF Lists
    <2> HIDE DEF g
    <2> QED BY <1>3, <2>1, <2>3, <2>7
<1> QED BY <1>7, <1>8

\* The filter keeps the events with a counter id, and their order.
LEMMA NumberedFacts ==
    ASSUME NEW s \in Seq(Event)
    PROVE  /\ Numbered(s) \in Seq(Event)
           /\ Range(Numbered(s)) = {e \in Range(s) : Numeric(e)}
           /\ Rising(s) => Rising(Numbered(s))
<1> DEFINE P == {i \in DOMAIN s : Numeric(s[i])}
           F == UNION {[1..k -> P] : k \in 0..Len(s)}
           order == CHOOSE f \in F : Lists(f, P)
<1>0. Len(s) \in Nat /\ DOMAIN s = 1..Len(s) /\ P \in SUBSET (1..Len(s))
    OBVIOUS
<1>1. order \in F /\ Lists(order, P)
    <2>1. \E k \in 0..Len(s) : \E f \in [1..k -> P] : Lists(f, P)
        <3> HIDE DEF P
        <3> QED BY <1>0, ListExists
    <2>2. \E f \in F : Lists(f, P)
        <3> HIDE DEF P
        <3> QED BY <2>1
    <2> HIDE DEF F, P
    <2> QED BY <2>2
<1>2. Numbered(s) = [i \in DOMAIN order |-> s[order[i]]]
    BY DEF Numbered, Lists
<1> HIDE DEF order
<1>3. PICK k \in 0..Len(s) : order \in [1..k -> P]
    BY <1>1
<1> DEFINE t == [i \in 1..k |-> s[order[i]]]
<1>4. Numbered(s) = t
    BY <1>2, <1>3
<1>5. \A i \in 1..k : order[i] \in 1..Len(s) /\ Numeric(s[order[i]]) /\ s[order[i]] \in Event
    BY <1>0, <1>3
<1>6. k \in Nat /\ t \in Seq(Event) /\ Len(t) = k
    BY <1>5
<1>7. Range(t) = {e \in Range(s) : Numeric(e)}
    <2>1. \A e : e \in Range(t) <=> \E i \in 1..k : s[order[i]] = e
        BY DEF Range
    <2>2. \A e : e \in Range(s) <=> \E i \in 1..Len(s) : s[i] = e
        BY InRange
    <2>3. \A p \in P : \E i \in 1..k : order[i] = p
        BY <1>1, <1>3 DEF Lists, Range
    <2>4. \A e \in Range(s) : Numeric(e) => \E i \in 1..k : s[order[i]] = e
        BY <1>0, <2>2, <2>3
    <2> HIDE DEF t
    <2> QED BY <1>5, <2>1, <2>2, <2>4
<1>8. Rising(s) => Rising(t)
    <2> SUFFICES ASSUME Rising(s), NEW i \in 1..k, NEW j \in 1..k, i < j
                 PROVE  Before(t[i], t[j])
        BY DEF Rising
    <2>1. order[i] < order[j]
        BY <1>1, <1>3 DEF Lists
    <2> QED BY <1>0, <1>5, <2>1 DEF Rising
<1> QED BY <1>4, <1>6, <1>7, <1>8

\* The high-water mark of a replay in order is its greatest counter id.
LEMMA HighWaterFacts ==
    ASSUME NEW s \in Seq(Event), Rising(s)
    PROVE  /\ HighWater(s) \in Nat
           /\ \A e \in Range(s) : Numeric(e) => e.n <= HighWater(s)
           /\ HighWater(s) = 0 \/ \E e \in Range(s) : Numeric(e) /\ HighWater(s) = e.n
<1> DEFINE t == Numbered(s)
<1>1. t \in Seq(Event) /\ Rising(t) /\ Range(t) = {e \in Range(s) : Numeric(e)}
    BY NumberedFacts
<1>2. HighWater(s) = IF t = <<>> THEN 0 ELSE t[Len(t)].n
    BY DEF HighWater, Last
<1> HIDE DEF t
<1>3. \A e \in Event : e.n \in Nat
    BY DEF Event
<1>4. CASE t = <<>>
    <2>1. Range(t) = {}
        BY <1>4 DEF Range
    <2> QED BY <1>1, <1>2, <1>4, <2>1
<1>5. CASE t # <<>>
    <2>1. Len(t) \in 1..Len(t) /\ t[Len(t)] \in Range(t) /\ t[Len(t)] \in Event
        BY <1>1, <1>5, InRange
    <2>2. ASSUME NEW e \in Range(t) PROVE e.n <= t[Len(t)].n
        <3>1. PICK i \in 1..Len(t) : t[i] = e
            BY <1>1, InRange
        <3>2. CASE i = Len(t)
            BY <1>3, <2>1, <3>1, <3>2
        <3>3. CASE i # Len(t)
            <4>1. i < Len(t) /\ i \in DOMAIN t /\ Len(t) \in DOMAIN t
                BY <1>1, <2>1, <3>3
            <4>2. Before(t[i], t[Len(t)])
                BY <1>1, <4>1 DEF Rising
            <4>3. Numeric(t[i]) /\ Numeric(t[Len(t)]) /\ t[i] \in Event
                BY <1>1, <2>1, <2>2, <3>1
            <4> QED BY <1>3, <2>1, <3>1, <4>2, <4>3 DEF Before
        <3> QED BY <3>2, <3>3
    <2> QED BY <1>1, <1>2, <1>3, <1>5, <2>1, <2>2
<1> QED BY <1>4, <1>5

\* The oldest event of a sequence and the rest.
LEMMA TailFacts ==
    ASSUME NEW s \in Seq(Event), s # <<>>
    PROVE  /\ Head(s) \in Event /\ Tail(s) \in Seq(Event)
           /\ Range(s) = {Head(s)} \cup Range(Tail(s))
           /\ Rising(s) => Rising(Tail(s)) /\ \A f \in Range(Tail(s)) : Before(Head(s), f)
<1>1. /\ Len(s) \in Nat /\ Len(s) > 0 /\ Head(s) = s[1] /\ Head(s) \in Event
      /\ Tail(s) = SubSeq(s, 2, Len(s)) /\ Tail(s) \in Seq(Event) /\ 2 \in 1..(Len(s) + 1)
    OBVIOUS
<1>2. /\ \A e : e \in Range(Tail(s)) <=> \E i \in 2..Len(s) : s[i] = e
      /\ Rising(s) => Rising(Tail(s))
    <2> DEFINE t == SubSeq(s, 2, Len(s))
    <2>1. (\A e : e \in Range(t) <=> \E i \in 2..Len(s) : s[i] = e) /\ (Rising(s) => Rising(t))
        <3>1. 2 \in 1..(Len(s) + 1)
            BY <1>1
        <3> QED BY <3>1, SuffixRange
    <2>2. t = Tail(s)
        BY <1>1
    <2> HIDE DEF t
    <2> QED BY <2>1, <2>2
<1>3. \A e : e \in Range(s) <=> \E i \in 1..Len(s) : s[i] = e
    BY InRange
<1>4. \A i \in 1..Len(s) : i = 1 \/ i \in 2..Len(s)
    OBVIOUS
<1>5. 1 \in 1..Len(s) /\ \A i \in 2..Len(s) : i \in 1..Len(s) /\ 1 < i
    BY <1>1
<1>6. Range(s) = {Head(s)} \cup Range(Tail(s))
    BY <1>1, <1>2, <1>3, <1>4, <1>5
<1>7. Rising(s) => \A f \in Range(Tail(s)) : Before(Head(s), f)
    <2> SUFFICES ASSUME Rising(s), NEW f \in Range(Tail(s)) PROVE Before(Head(s), f)
        OBVIOUS
    <2>1. PICK i \in 2..Len(s) : s[i] = f
        BY <1>2
    <2> QED BY <1>1, <1>5, <2>1, InRange DEF Rising
<1> QED BY <1>1, <1>2, <1>6, <1>7

\* A replay behind what was received before.
LEMMA ConcatFacts ==
    ASSUME NEW s \in Seq(Event), NEW t \in Seq(Event)
    PROVE  LET u == s \o t IN
           /\ u \in Seq(Event) /\ Len(u) = Len(s) + Len(t)
           /\ Range(u) = Range(s) \cup Range(t)
           /\ t = <<>> => u = s
           /\ t # <<>> => u # <<>> /\ Last(u) = Last(t)
           /\ \A i \in (Len(s) + 1)..Len(u) : i - Len(s) \in 1..Len(t) /\ u[i] = t[i - Len(s)]
<1> DEFINE u == s \o t
<1>1. /\ u \in Seq(Event) /\ Len(u) = Len(s) + Len(t)
      /\ \A i \in 1..Len(s) : u[i] = s[i]
      /\ \A i \in (Len(s) + 1)..Len(u) : i - Len(s) \in 1..Len(t) /\ u[i] = t[i - Len(s)]
    OBVIOUS
<1>2. t = <<>> => u = s
    OBVIOUS
<1> HIDE DEF u
<1>3. t # <<>> => u # <<>> /\ Last(u) = Last(t)
    BY <1>1 DEF Last
<1>4. Range(u) = Range(s) \cup Range(t)
    <2>1. /\ \A e : e \in Range(u) <=> \E i \in 1..Len(u) : u[i] = e
          /\ \A e : e \in Range(s) <=> \E i \in 1..Len(s) : s[i] = e
          /\ \A e : e \in Range(t) <=> \E i \in 1..Len(t) : t[i] = e
        BY <1>1, InRange
    <2>2. \A i \in 1..Len(u) : i \in 1..Len(s) \/ i \in (Len(s) + 1)..Len(u)
        BY <1>1
    <2>3. \A i \in 1..Len(s) : i \in 1..Len(u)
        BY <1>1
    <2>4. \A i \in 1..Len(t) : Len(s) + i \in 1..Len(u) /\ u[Len(s) + i] = t[i]
        <3> TAKE i \in 1..Len(t)
        <3>1. Len(s) + i \in (Len(s) + 1)..Len(u) /\ (Len(s) + i) - Len(s) = i /\ Len(s) + i \in 1..Len(u)
            BY <1>1
        <3>2. u[Len(s) + i] = t[(Len(s) + i) - Len(s)]
            BY <1>1, <3>1
        <3> QED BY <3>1, <3>2
    <2>5. ASSUME NEW e \in Range(u) PROVE e \in Range(s) \cup Range(t)
        <3>1. PICK i \in 1..Len(u) : u[i] = e
            BY <2>1
        <3>2. CASE i \in 1..Len(s)
            BY <1>1, <2>1, <3>1, <3>2
        <3>3. CASE i \in (Len(s) + 1)..Len(u)
            BY <1>1, <2>1, <3>1, <3>3
        <3> QED BY <2>2, <3>2, <3>3
    <2>6. ASSUME NEW e \in Range(s) PROVE e \in Range(u)
        BY <1>1, <2>1, <2>3
    <2>7. ASSUME NEW e \in Range(t) PROVE e \in Range(u)
        BY <2>1, <2>4
    <2> QED BY <2>5, <2>6, <2>7
<1> QED BY <1>1, <1>2, <1>3, <1>4 DEF u

\* The cursor is one of the events received.
LEMMA LastIn ==
    ASSUME NEW s \in Seq(Event), s # <<>>
    PROVE  Last(s) \in Range(s) /\ Last(s) \in Event
<1>1. Len(s) \in 1..Len(s)
    OBVIOUS
<1> QED BY <1>1, InRange DEF Last

\* The last event of a sequence in order is its newest.
LEMMA LastRising ==
    ASSUME NEW s \in Seq(Event), s # <<>>, Rising(s), NEW e \in Range(s)
    PROVE  e.s <= Last(s).s
<1>1. PICK i \in 1..Len(s) : s[i] = e
    BY InRange
<1>2. Len(s) \in 1..Len(s) /\ i <= Len(s)
    OBVIOUS
<1> QED BY <1>1, <1>2, RisingPlaces DEF Last

LEMMA EventFields ==
    ASSUME NEW e \in Event
    PROVE  e.s \in Nat /\ e.n \in Nat /\ e.at \in Replicas
BY DEF Event

\* While Valkey answers, an event is known by s alone.
LEMMA ExactSame ==
    ASSUME OneReplica, NEW e \in Event, NEW f \in Event, Exact(e), Exact(f), e.s = f.s
    PROVE  e = f
<1>1. e.n = f.n /\ e.at = f.at
    BY EventFields DEF Exact, OneReplica
<1> QED BY <1>1 DEF Event

LEMMA MaxType ==
    ASSUME NEW n \in Nat
    PROVE  Max({0, n - 1}) \in Nat
<1>1. \E x \in {0, n - 1} : \A y \in {0, n - 1} : x >= y
    OBVIOUS
<1>2. Max({0, n - 1}) \in {0, n - 1} /\ Max({0, n - 1}) >= 0
    BY <1>1 DEF Max
<1> QED BY <1>2

---------------------------------------------------------------------------
(* The steps of the store, and the types.                                   *)

\* The parts of the type invariant that the steps treat alike.
StoreType ==
    /\ pushed \in Nat /\ counter \in Nat
    /\ ring \in Seq(Event)
    /\ mem \in [Replicas -> Seq(Event)]
    /\ pending \in [Replicas -> Seq(Event)]
    /\ publishing \in [Replicas -> SUBSET [event : Event, stored : BOOLEAN]]
    /\ published \subseteq Event

ClientType ==
    /\ pc \in [Clients -> PCs]
    /\ at \in [Clients -> Replicas]
    /\ highWater \in [Clients -> Nat]
    /\ replayed \in [Clients -> SUBSET Event]
    /\ queue \in [Clients -> Seq(Event)]
    /\ got \in [Clients -> Seq(Event)]
    /\ from \in [Clients -> Nat]
    /\ excused \in [Clients -> SUBSET Event]
    /\ window \in [Clients -> SUBSET Event]

GaugeType ==
    /\ opened \in Nat /\ failed \in BOOLEAN
    /\ degraded \in [Replicas -> BOOLEAN]
    /\ connected \in [Replicas -> Nat]
    /\ closed \in [Clients -> BOOLEAN]

LEMMA TypeParts == TypeOK <=> StoreType /\ ClientType /\ GaugeType
BY DEF TypeOK, StoreType, ClientType, GaugeType

LEMMA TypeInit == Init => TypeOK
<1> SUFFICES ASSUME Init PROVE TypeOK
    OBVIOUS
<1>1. <<>> \in Seq(Event)
    OBVIOUS
<1> QED BY <1>1 DEF Init, TypeOK, PCs

\* An event that is pushed: newer than anything issued.
Pushed(r, n) == [s |-> pushed + 1, n |-> n, at |-> r]

LEMMA AcceptNewer ==
    ASSUME StoreType, NEW r \in Replicas, NEW n \in {0, counter + 1}
    PROVE  /\ Pushed(r, n) \in Event
           /\ \A e \in Event : Issued(e) => Before(e, Pushed(r, n))
<1>1. n \in Nat /\ pushed + 1 \in Nat
    BY DEF StoreType
<1>2. Pushed(r, n) \in Event
    BY <1>1 DEF Pushed, Event
<1>3. ASSUME NEW e \in Event, Issued(e) PROVE Before(e, Pushed(r, n))
    <2>1. e.s <= pushed /\ e.n <= counter /\ Pushed(r, n).s = pushed + 1 /\ Pushed(r, n).n = n
        BY <1>3 DEF Issued, Pushed
    <2>2. e.s \in Nat /\ e.n \in Nat
        BY EventFields
    <2> QED BY <2>1, <2>2 DEF Before, Numeric, StoreType
<1> QED BY <1>2, <1>3

\* What the pushing actions do, the degraded one included.
LEMMA PushEffect ==
    ASSUME NEW r \in Replicas, PushEvent(r) \/ PushEventDegraded(r)
    PROVE  \E n \in {0, counter + 1} :
              /\ pushed' = pushed + 1
              /\ mem' = [mem EXCEPT ![r] = Keep(@, Pushed(r, n))]
              /\ pending' = [pending EXCEPT ![r] = Append(@, Pushed(r, n))]
              /\ UNCHANGED <<ring, publishing, published, connected, pc, closed, at, highWater, replayed,
                             queue, got, from, excused, window, opened>>
              /\ \/ counter' = counter + 1 /\ n = counter + 1 /\ failed' = failed /\ degraded' = degraded
                 \/ counter' = counter /\ n = 0 /\ failed' = TRUE /\ degraded' = [degraded EXCEPT ![r] = TRUE]
<1>1. CASE PushEvent(r)
    <2>1. counter' = counter + 1
        BY <1>1 DEF PushEvent
    <2> QED BY <1>1, <2>1 DEF PushEvent, Accept, Pushed, conn, ghost
<1>2. CASE PushEventDegraded(r)
    BY <1>2 DEF PushEventDegraded, Accept, Pushed, conn, ghost
<1> QED BY <1>1, <1>2

LEMMA PushType ==
    ASSUME TypeOK, OrderInv, NEW r \in Replicas, PushEvent(r) \/ PushEventDegraded(r)
    PROVE  TypeOK'
<1>0. StoreType /\ ClientType /\ GaugeType
    BY TypeParts
<1>1. PICK n \in {0, counter + 1} :
              /\ pushed' = pushed + 1
              /\ mem' = [mem EXCEPT ![r] = Keep(@, Pushed(r, n))]
              /\ pending' = [pending EXCEPT ![r] = Append(@, Pushed(r, n))]
              /\ UNCHANGED <<ring, publishing, published, connected, pc, closed, at, highWater, replayed,
                             queue, got, from, excused, window, opened>>
              /\ \/ counter' = counter + 1 /\ n = counter + 1 /\ failed' = failed /\ degraded' = degraded
                 \/ counter' = counter /\ n = 0 /\ failed' = TRUE /\ degraded' = [degraded EXCEPT ![r] = TRUE]
    BY PushEffect
<1>2. Pushed(r, n) \in Event /\ \A e \in Event : Issued(e) => Before(e, Pushed(r, n))
    BY <1>0, AcceptNewer
<1>3. mem[r] \in Seq(Event) /\ pending[r] \in Seq(Event) /\ Rising(mem[r])
      /\ \A e \in Range(mem[r]) : Issued(e)
    BY <1>0 DEF StoreType, OrderInv, StoreOrder, ReplicaOrder
<1>4. Range(mem[r]) \subseteq Event
    BY <1>3, InRange
<1>5. Keep(mem[r], Pushed(r, n)) \in Seq(Event)
    BY <1>2, <1>3, <1>4, KeepFacts
<1>6. Append(pending[r], Pushed(r, n)) \in Seq(Event)
    BY <1>2, <1>3, AppendFacts
<1>7. StoreType'
    BY <1>0, <1>1, <1>5, <1>6 DEF StoreType
<1>8. ClientType' /\ GaugeType'
    BY <1>0, <1>1 DEF ClientType, GaugeType
<1> QED BY <1>7, <1>8, TypeParts DEF TypeOK, StoreType, ClientType, GaugeType

\* What storing does, whether LPUSH succeeds or not.
LEMMA StoreEffect ==
    ASSUME NEW r \in Replicas, Store(r)
    PROVE  /\ pending[r] # <<>> /\ publishing[r] = {}
           /\ pending' = [pending EXCEPT ![r] = Tail(@)]
           /\ \E stored \in BOOLEAN :
                 /\ publishing' = [publishing EXCEPT ![r] = {[event |-> Head(pending[r]), stored |-> stored]}]
                 /\ ring' = IF stored THEN Keep(ring, Head(pending[r])) ELSE ring
                 /\ failed' = (failed \/ ~stored)
           /\ UNCHANGED <<pushed, counter, mem, published, degraded, connected, pc, closed, at, highWater,
                          replayed, queue, got, from, excused, window, opened>>
BY DEF Store, conn, ghost

LEMMA StoreTyped ==
    ASSUME TypeOK, OrderInv, NEW r \in Replicas, Store(r)
    PROVE  TypeOK'
<1>0. StoreType /\ ClientType /\ GaugeType
    BY TypeParts
<1>1. pending[r] \in Seq(Event) /\ pending[r] # <<>> /\ ring \in Seq(Event) /\ Rising(ring)
    BY <1>0, StoreEffect DEF StoreType, OrderInv, StoreOrder
<1>2. Head(pending[r]) \in Event /\ Tail(pending[r]) \in Seq(Event) /\ Head(pending[r]) \in Range(pending[r])
    BY <1>1, TailFacts
<1>3. Keep(ring, Head(pending[r])) \in Seq(Event)
    <2>1. \A f \in Range(ring) : Before(f, Head(pending[r]))
        BY <1>2 DEF OrderInv, StoreOrder, ReplicaOrder
    <2> QED BY <1>1, <1>2, <2>1, KeepFacts
<1>4. PICK stored \in BOOLEAN :
                 /\ publishing' = [publishing EXCEPT ![r] = {[event |-> Head(pending[r]), stored |-> stored]}]
                 /\ ring' = IF stored THEN Keep(ring, Head(pending[r])) ELSE ring
                 /\ failed' = (failed \/ ~stored)
    BY StoreEffect
<1>5. ring' \in Seq(Event)
    BY <1>1, <1>3, <1>4
<1>6. {[event |-> Head(pending[r]), stored |-> stored]} \in SUBSET [event : Event, stored : BOOLEAN]
    BY <1>2
<1>7. publishing' \in [Replicas -> SUBSET [event : Event, stored : BOOLEAN]]
    BY <1>0, <1>4, <1>6, Zenon DEF StoreType
<1>8. pending' \in [Replicas -> Seq(Event)]
    BY <1>0, <1>2, StoreEffect DEF StoreType
<1>9. StoreType'
    BY <1>0, <1>5, <1>7, <1>8, StoreEffect DEF StoreType
<1>10. failed' \in BOOLEAN
    BY <1>4
<1>11. ClientType' /\ GaugeType'
    BY <1>0, <1>10, StoreEffect DEF ClientType, GaugeType
<1> QED BY <1>9, <1>11 DEF TypeOK, StoreType, ClientType, GaugeType

\* What publishing does, whether PUBLISH succeeds or not.
LEMMA PublishEffect ==
    ASSUME NEW r \in Replicas, Publish(r)
    PROVE  \E x \in publishing[r], sent \in BOOLEAN :
        /\ publishing' = [publishing EXCEPT ![r] = {}]
        /\ published' = IF sent THEN published \cup {x.event} ELSE published
        /\ queue' = [c \in Clients |-> IF sent /\ pc[c] = "live"
                                       THEN Append(queue[c], x.event) ELSE queue[c]]
        /\ window' = [c \in Clients |-> IF sent /\ pc[c] = "subscribing"
                                        THEN window[c] \cup {x.event} ELSE window[c]]
        /\ degraded' = [degraded EXCEPT ![r] = IF x.stored /\ sent
                                               THEN @ /\ ~Numeric(x.event) ELSE TRUE]
        /\ failed' = (failed \/ ~sent)
        /\ UNCHANGED <<pushed, counter, ring, mem, pending, connected, pc, closed, at, highWater,
                       replayed, got, from, excused, opened>>
<1>1. PICK x \in publishing[r], sent \in {TRUE} \cup (IF MayFail THEN {FALSE} ELSE {}) :
        /\ publishing' = [publishing EXCEPT ![r] = {}]
        /\ published' = IF sent THEN published \cup {x.event} ELSE published
        /\ queue' = [c \in Clients |-> IF sent /\ pc[c] = "live"
                                       THEN Append(queue[c], x.event) ELSE queue[c]]
        /\ window' = [c \in Clients |-> IF sent /\ pc[c] = "subscribing"
                                        THEN window[c] \cup {x.event} ELSE window[c]]
        /\ degraded' = [degraded EXCEPT ![r] = IF x.stored /\ sent
                                               THEN @ /\ ~Numeric(x.event) ELSE TRUE]
        /\ failed' = (failed \/ ~sent)
        /\ UNCHANGED <<pushed, counter, ring, mem, pending, connected, pc, closed, conn, got,
                       from, excused, opened>>
    BY DEF Publish
<1>2. UNCHANGED <<at, highWater, replayed>>
    BY <1>1 DEF conn
<1>3. sent \in BOOLEAN
    BY LiveFaults
<1> QED BY <1>1, <1>2, <1>3

LEMMA PublishTyped ==
    ASSUME TypeOK, NEW r \in Replicas, Publish(r)
    PROVE  TypeOK'
<1>0. StoreType /\ ClientType /\ GaugeType
    BY TypeParts
<1>1. PICK x \in publishing[r], sent \in BOOLEAN :
        /\ publishing' = [publishing EXCEPT ![r] = {}]
        /\ published' = IF sent THEN published \cup {x.event} ELSE published
        /\ queue' = [c \in Clients |-> IF sent /\ pc[c] = "live"
                                       THEN Append(queue[c], x.event) ELSE queue[c]]
        /\ window' = [c \in Clients |-> IF sent /\ pc[c] = "subscribing"
                                        THEN window[c] \cup {x.event} ELSE window[c]]
        /\ degraded' = [degraded EXCEPT ![r] = IF x.stored /\ sent
                                               THEN @ /\ ~Numeric(x.event) ELSE TRUE]
        /\ failed' = (failed \/ ~sent)
        /\ UNCHANGED <<pushed, counter, ring, mem, pending, connected, pc, closed, at, highWater,
                       replayed, got, from, excused, opened>>
    BY PublishEffect
<1>2. x.event \in Event /\ x.stored \in BOOLEAN
    BY <1>0 DEF StoreType
<1>3. publishing' \in [Replicas -> SUBSET [event : Event, stored : BOOLEAN]]
    BY <1>0, <1>1 DEF StoreType
<1>4. published' \subseteq Event
    BY <1>0, <1>1, <1>2 DEF StoreType
<1>5. StoreType'
    BY <1>0, <1>1, <1>3, <1>4 DEF StoreType
<1>6. queue' \in [Clients -> Seq(Event)]
    <2>1. \A c \in Clients : Append(queue[c], x.event) \in Seq(Event) /\ queue[c] \in Seq(Event)
        BY <1>0, <1>2 DEF ClientType
    <2> QED BY <1>1, <2>1
<1>7. window' \in [Clients -> SUBSET Event]
    <2>1. \A c \in Clients : window[c] \cup {x.event} \in SUBSET Event /\ window[c] \in SUBSET Event
        BY <1>0, <1>2 DEF ClientType
    <2> QED BY <1>1, <2>1
<1>8. ClientType'
    BY <1>0, <1>1, <1>6, <1>7 DEF ClientType
<1>9. degraded' \in [Replicas -> BOOLEAN]
    <2>1. degraded[r] \in BOOLEAN
        BY <1>0 DEF GaugeType
    <2>2. (IF x.stored /\ sent THEN degraded[r] /\ ~Numeric(x.event) ELSE TRUE) \in BOOLEAN
        BY <2>1
    <2> QED BY <1>0, <1>1, <2>2, Zenon DEF GaugeType
<1>10. failed' \in BOOLEAN
    BY <1>1
<1>11. GaugeType'
    BY <1>0, <1>1, <1>9, <1>10 DEF GaugeType
<1> QED BY <1>5, <1>8, <1>11 DEF TypeOK, StoreType, ClientType, GaugeType

---------------------------------------------------------------------------
(* Replays.                                                                 *)

\* Events up to the cursor of a client.
Past(c, f) == got[c] # <<>> /\ f.s <= Last(got[c]).s

\* A replay is in order and holds issued events.
Sound(E) == E \in Seq(Event) /\ Rising(E) /\ \A e \in Range(E) : Issued(e)

\* A replay without a notice leaves out nothing that was published after the cursor, and
\* no replay skips an event that is still to be published.
Faithful(c, E, n) ==
    /\ \A e \in Range(E) : Exact(e)
    /\ n = "none" => \A f \in published : f \in Range(E) \/ Past(c, f)
    /\ E # <<>> => \A r \in Replicas : \A f \in Due(r) :
          f.s <= Last(E).s => \/ f \in Range(E) \/ Past(c, f)
                              \/ n # "none" /\ f \in published \cup Range(ring)

Notices == {"none", "unknown", "gap", "start"}

\* The reply E, n reaches client c, whose stream opened when it had received got[c].
Replays(c, E, n) ==
    /\ pc' = [pc EXCEPT ![c] = "subscribing"]
    /\ got' = [got EXCEPT ![c] = @ \o E]
    /\ replayed' = [replayed EXCEPT ![c] = Range(E)]
    /\ highWater' = [highWater EXCEPT ![c] = HighWater(E)]
    /\ excused' = IF n = "none" THEN excused
                  ELSE [excused EXCEPT ![c] = @ \cup published \cup Range(ring)]
    /\ from' = [from EXCEPT ![c] = Len(got[c])]
    /\ queue' \in {queue, [queue EXCEPT ![c] = <<>>]}
    /\ at' \in [Clients -> Replicas]
    /\ UNCHANGED <<pushed, counter, ring, mem, pending, publishing, published, window>>
    /\ failed' \in {failed, TRUE}

\* Send is the part of such a step that the routes share.
LEMMA SendReplays ==
    ASSUME TypeOK, NEW c \in Clients, NEW E, NEW n, Send(c, Replay(E, n)),
           from' = [from EXCEPT ![c] = Len(got[c])],
           queue' \in {queue, [queue EXCEPT ![c] = <<>>]},
           at' \in [Clients -> Replicas],
           UNCHANGED <<pushed, counter, ring, mem, pending, publishing, published, window>>,
           failed' \in {failed, TRUE}
    PROVE  Replays(c, E, n)
BY DEF Send, Replay, Replays

\* The cursor found in the process's own ring.
LEMMA RetainedReply ==
    ASSUME TypeOK, OrderInv, CleanInv, OneReplica, NEW c \in Clients, NEW r \in Replicas, Retained(c, r)
    PROVE  LET E == After(mem[r], Last(got[c])) IN Sound(E) /\ (~failed => Faithful(c, E, "none"))
<1> DEFINE cursor == Last(got[c])
           E == After(mem[r], cursor)
<1>0. StoreType /\ ClientType
    BY TypeParts
<1>1. mem[r] \in Seq(Event) /\ Rising(mem[r]) /\ (\A e \in Range(mem[r]) : Issued(e)) /\ cursor \in Range(mem[r])
      /\ got[c] # <<>> /\ got[c] \in Seq(Event)
    BY <1>0 DEF StoreType, ClientType, OrderInv, StoreOrder, ReplicaOrder, Retained
<1>2. E \in Seq(Event) /\ Rising(E) /\ Range(E) = {f \in Range(mem[r]) : cursor.s < f.s}
    BY <1>1, AfterFacts
<1>3. Sound(E)
    BY <1>1, <1>2 DEF Sound
<1>4. ASSUME ~failed PROVE Faithful(c, E, "none")
    <2>1. CleanReplica(r)
        BY <1>4 DEF CleanInv, CleanStore
    <2>2. \A e \in Range(E) : Exact(e)
        BY <1>2, <2>1 DEF CleanReplica
    <2>3. ASSUME NEW q \in Replicas, NEW f \in Due(q) PROVE f \in Range(E) \/ Past(c, f)
        <3>1. f \in Due(r)
            BY DEF OneReplica
        <3>2. f \in Event /\ cursor \in Event
            BY <1>0, <1>1, <3>1, InRange DEF Due, StoreType
        <3>3. f \in Range(mem[r]) \/ f.s < cursor.s
            BY <1>1, <2>1, <3>1 DEF CleanReplica
        <3>4. f.s \in Nat /\ cursor.s \in Nat
            BY <3>2, EventFields
        <3> HIDE DEF E, cursor
        <3>5. CASE cursor.s < f.s
            BY <1>2, <3>3, <3>4, <3>5
        <3>6. CASE f.s <= cursor.s
            BY <1>1, <3>6 DEF Past, cursor
        <3> QED BY <3>4, <3>5, <3>6
    <2>4. published \subseteq Due(r)
        BY DEF Due
    <2> HIDE DEF E
    <2> QED BY <2>2, <2>3, <2>4 DEF Faithful
<1> QED BY <1>3, <1>4

\* Nothing is replayed, and the client is told so.
LEMMA NoticeReply ==
    ASSUME NEW c \in Clients, NEW n \in Notices \ {"none"}
    PROVE  Sound(<<>>) /\ Faithful(c, <<>>, n)
<1>1. Range(<<>>) = {}
    BY DEF Range
<1>2. <<>> \in Seq(Event) /\ Rising(<<>>)
    BY DEF Rising
<1> QED BY <1>1, <1>2 DEF Sound, Faithful

\* Events waiting for their pipeline are newer than the shared ring; one that is being
\* published is in it.
LEMMA DueInRing ==
    ASSUME StoreType, OrderInv, CleanStore, NEW q \in Replicas, NEW f \in Due(q),
           NEW e \in Range(ring), f.s <= e.s
    PROVE  f \in published \cup Range(ring)
<1>1. CASE f \in Range(pending[q])
    <2>1. Before(e, f)
        BY <1>1 DEF OrderInv, StoreOrder, ReplicaOrder
    <2>2. e \in Event /\ f \in Event
        BY <1>1, InRange DEF StoreType
    <2> QED BY <2>1, <2>2, EventFields DEF Before
<1>2. CASE f \in {x.event : x \in publishing[q]}
    BY <1>2 DEF CleanStore, CleanReplica
<1> QED BY <1>1, <1>2 DEF Due

\* A client without a cursor gets the newest events of the shared ring.
LEMMA StartReply ==
    ASSUME TypeOK, OrderInv, CleanInv, NEW c \in Clients
    PROVE  LET E == Newest(ring, Snapshot) IN Sound(E) /\ (~failed => Faithful(c, E, "start"))
<1> DEFINE E == Newest(ring, Snapshot)
<1>0. StoreType /\ ring \in Seq(Event) /\ Rising(ring) /\ \A e \in Range(ring) : Issued(e)
    BY TypeParts DEF StoreType, OrderInv, StoreOrder
<1>1. E \in Seq(Event) /\ Rising(E) /\ Range(E) \subseteq Range(ring)
    BY <1>0, NewestFacts, SnapshotAssumption
<1> HIDE DEF E
<1>2. Sound(E)
    BY <1>0, <1>1 DEF Sound
<1>3. ASSUME ~failed PROVE Faithful(c, E, "start")
    <2>1. CleanStore
        BY <1>3 DEF CleanInv
    <2>2. \A e \in Range(E) : Exact(e)
        BY <1>1, <2>1 DEF CleanStore
    <2>3. ASSUME E # <<>>, NEW q \in Replicas, NEW f \in Due(q), f.s <= Last(E).s
          PROVE  f \in published \cup Range(ring)
        <3>1. Last(E) \in Range(ring)
            BY <1>1, <2>3, LastIn
        <3> QED BY <1>0, <2>1, <2>3, <3>1, DueInRing
    <2> QED BY <2>2, <2>3 DEF Faithful
<1> QED BY <1>2, <1>3 DEF E

\* The cursor looked up in events in order: sound, whatever they are.
LEMMA SharedSound ==
    ASSUME StoreType, NEW s \in Seq(Event), Rising(s), \A e \in Range(s) : Issued(e), NEW cursor
    PROVE  \E E \in Seq(Event), n \in Notices :
              /\ ReplayShared(s, cursor) = Replay(E, n)
              /\ Sound(E)
              /\ \/ n # "none" /\ E = <<>>
                 \/ n = "none" /\ cursor \in Range(Numbered(s)) /\ E = After(Numbered(s), cursor)
<1> DEFINE ordered == Numbered(s)
<1>1. ordered \in Seq(Event) /\ Rising(ordered) /\ Range(ordered) \subseteq Range(s)
    BY NumberedFacts
<1>2. \/ ReplayShared(s, cursor) = Replay(<<>>, "unknown")
      \/ ReplayShared(s, cursor) = Replay(<<>>, "gap")
      \/ cursor \in Range(ordered) /\ ReplayShared(s, cursor) = Replay(After(ordered, cursor), "none")
    BY DEF ReplayShared
<1> HIDE DEF ordered
<1>3. CASE ReplayShared(s, cursor) = Replay(<<>>, "unknown") \/ ReplayShared(s, cursor) = Replay(<<>>, "gap")
    <2>1. Sound(<<>>) /\ <<>> \in Seq(Event)
        BY DEF Sound, Rising, Range
    <2>2. "unknown" \in Notices /\ "gap" \in Notices /\ "unknown" # "none" /\ "gap" # "none"
        BY DEF Notices
    <2> QED BY <1>3, <2>1, <2>2
<1>4. CASE cursor \in Range(ordered) /\ ReplayShared(s, cursor) = Replay(After(ordered, cursor), "none")
    <2> DEFINE E == After(ordered, cursor)
    <2>1. E \in Seq(Event) /\ Rising(E) /\ Range(E) \subseteq Range(ordered)
        BY <1>1, <1>4, AfterFacts
    <2> HIDE DEF E
    <2>2. Sound(E) /\ "none" \in Notices
        BY <1>1, <2>1 DEF Sound, Notices
    <2> QED BY <1>4, <2>1, <2>2 DEF E, ordered
<1> QED BY <1>2, <1>3, <1>4

\* The cursor found in the shared ring, while Valkey answers.
LEMMA SharedFaithful ==
    ASSUME StoreType, ClientType, OrderInv, CleanStore, NEW c \in Clients, got[c] # <<>>,
           Last(got[c]) \in Range(Numbered(ring))
    PROVE  Faithful(c, After(Numbered(ring), Last(got[c])), "none")
<1> DEFINE cursor == Last(got[c])
           ordered == Numbered(ring)
           E == After(ordered, cursor)
<1>0. ring \in Seq(Event) /\ Rising(ring) /\ \A e \in Range(ring) : Exact(e) /\ e \in Event
    BY InRange DEF StoreType, OrderInv, StoreOrder, CleanStore
<1>1. ordered \in Seq(Event) /\ Rising(ordered) /\ Range(ordered) = Range(ring)
    BY <1>0, NumberedFacts DEF Exact, Numeric
<1> HIDE DEF ordered
<1>2. Range(E) = {f \in Range(ring) : cursor.s < f.s} /\ E \in Seq(Event)
    BY <1>1, AfterFacts DEF ordered
<1>3. cursor \in Range(ring) /\ cursor \in Event
    BY <1>0, <1>1 DEF ordered
<1> HIDE DEF E, cursor
<1>4. ASSUME NEW f \in published \cup Range(ring) PROVE f \in Range(E) \/ Past(c, f)
    <2>1. f \in Event /\ f.s \in Nat /\ cursor.s \in Nat
        BY <1>0, <1>3, EventFields DEF StoreType
    <2>2. f \in Range(ring) \/ f.s < cursor.s
        BY <1>3, <1>4 DEF CleanStore
    <2>3. CASE cursor.s < f.s
        BY <1>2, <2>1, <2>2, <2>3
    <2>4. CASE f.s <= cursor.s
        BY <2>4 DEF Past, cursor
    <2> QED BY <2>1, <2>3, <2>4
<1>5. \A e \in Range(E) : Exact(e)
    BY <1>0, <1>2
<1>6. ASSUME E # <<>>, NEW q \in Replicas, NEW f \in Due(q), f.s <= Last(E).s
      PROVE  f \in Range(E) \/ Past(c, f)
    <2>1. Last(E) \in Range(ring)
        BY <1>2, <1>6, LastIn
    <2> QED BY <1>4, <1>6, <2>1, DueInRing
<1>7. Faithful(c, E, "none")
    BY <1>4, <1>5, <1>6 DEF Faithful
<1> QED BY <1>7 DEF E, ordered, cursor

\* A step that answers client c with a replay.
Answers(c) ==
    \E E \in Seq(Event), n \in Notices :
        Replays(c, E, n) /\ Sound(E) /\ (~failed' => Faithful(c, E, n))

\* A step that only opens the stream of client c.
Opens(c) ==
    /\ pc' = [pc EXCEPT ![c] = "reading"]
    /\ queue' = [queue EXCEPT ![c] = <<>>]
    /\ from' = [from EXCEPT ![c] = Len(got[c])]
    /\ at' \in [Clients -> Replicas]
    /\ UNCHANGED <<pushed, counter, ring, mem, pending, publishing, published,
                   got, replayed, highWater, excused, window, failed>>

\* A stream opens with a replay of the local ring, with a notice, or waits for the shared ring.
LEMMA ConnectEffect ==
    ASSUME TypeOK, OrderInv, CleanInv, OneReplica, NEW c \in Clients, NEW r \in Replicas, Connect(c, r)
    PROVE  Answers(c) \/ Opens(c)
<1>1. /\ queue' = [queue EXCEPT ![c] = <<>>] /\ from' = [from EXCEPT ![c] = Len(got[c])]
      /\ UNCHANGED <<pushed, counter, ring, mem, pending, publishing, published, window>>
      /\ failed' = failed
    BY DEF Connect, store
<1>2. at' \in [Clients -> Replicas]
    BY DEF Connect, TypeOK
<1>3. CASE Retained(c, r) /\ Send(c, Replay(After(mem[r], Last(got[c])), "none"))
    <2> DEFINE E == After(mem[r], Last(got[c]))
    <2>1. Sound(E) /\ (~failed => Faithful(c, E, "none"))
        BY <1>3, RetainedReply
    <2> HIDE DEF E
    <2>2. Replays(c, E, "none")
        BY <1>1, <1>2, <1>3, SendReplays DEF E
    <2>3. E \in Seq(Event) /\ "none" \in Notices
        BY <2>1 DEF Sound, Notices
    <2> QED BY <1>1, <2>1, <2>2, <2>3 DEF Answers
<1>4. CASE Send(c, Replay(<<>>, "unknown"))
    <2>1. Replays(c, <<>>, "unknown")
        BY <1>1, <1>2, <1>4, SendReplays
    <2>2. "unknown" \in Notices \ {"none"} /\ <<>> \in Seq(Event)
        BY DEF Notices
    <2>3. Sound(<<>>) /\ Faithful(c, <<>>, "unknown")
        BY <2>2, NoticeReply
    <2> QED BY <2>1, <2>2, <2>3 DEF Answers
<1>5. CASE pc' = [pc EXCEPT ![c] = "reading"] /\ UNCHANGED <<got, replayed, highWater, excused>>
    BY <1>1, <1>2, <1>5 DEF Opens
<1> QED BY <1>3, <1>4, <1>5 DEF Connect

\* The events read, in order, are answered soundly.
LEMMA ResumeSound ==
    ASSUME StoreType, NEW s \in Seq(Event), Rising(s), \A e \in Range(s) : Issued(e),
           NEW c \in Clients, Resume(c, s)
    PROVE  \E E \in Seq(Event), n \in Notices :
              /\ Send(c, Replay(E, n)) /\ Sound(E)
              /\ \/ got[c] = <<>> /\ n = "start" /\ E = Newest(s, Snapshot)
                 \/ n # "none" /\ E = <<>>
                 \/ /\ n = "none" /\ got[c] # <<>> /\ Last(got[c]) \in Range(Numbered(s))
                    /\ E = After(Numbered(s), Last(got[c]))
<1>1. CASE got[c] = <<>>
    <2> DEFINE E == Newest(s, Snapshot)
    <2>1. E \in Seq(Event) /\ Rising(E) /\ Range(E) \subseteq Range(s)
        BY NewestFacts, SnapshotAssumption
    <2>2. Sound(E)
        BY <2>1 DEF Sound
    <2>3. Send(c, Replay(E, "start")) /\ "start" \in Notices
        BY <1>1 DEF Resume, Notices
    <2> QED BY <1>1, <2>1, <2>2, <2>3
<1>2. CASE got[c] # <<>>
    <2>1. Send(c, ReplayShared(s, Last(got[c])))
        BY <1>2 DEF Resume
    <2>2. PICK E \in Seq(Event), n \in Notices :
              /\ ReplayShared(s, Last(got[c])) = Replay(E, n)
              /\ Sound(E)
              /\ \/ n # "none" /\ E = <<>>
                 \/ n = "none" /\ Last(got[c]) \in Range(Numbered(s)) /\ E = After(Numbered(s), Last(got[c]))
        BY SharedSound
    <2> QED BY <1>2, <2>1, <2>2
<1> QED BY <1>1, <1>2

\* Reading the shared ring touches neither the store nor what the client had.
LEMMA ReadFrame ==
    ASSUME TypeOK, StreamInv, NEW c \in Clients, ReadRing(c) \/ ReadRingFails(c)
    PROVE  /\ from' = [from EXCEPT ![c] = Len(got[c])]
           /\ queue' \in {queue, [queue EXCEPT ![c] = <<>>]}
           /\ at' \in [Clients -> Replicas]
           /\ UNCHANGED <<pushed, counter, ring, mem, pending, publishing, published, window>>
           /\ failed' \in {failed, TRUE}
<1>1. /\ pc[c] = "reading" /\ UNCHANGED <<from, queue, at, window>>
      /\ UNCHANGED <<pushed, counter, ring, mem, pending, publishing, published>>
      /\ failed' \in {failed, TRUE}
    BY DEF ReadRing, ReadRingFails, store
<1>2. from[c] = Len(got[c])
    BY <1>1 DEF StreamInv, Stream
<1>3. [from EXCEPT ![c] = Len(got[c])] = from
    BY <1>2 DEF TypeOK
<1> QED BY <1>1, <1>3 DEF TypeOK

\* The shared ring answers faithfully.
LEMMA ReadRingEffect ==
    ASSUME TypeOK, OrderInv, StreamInv, CleanInv, NEW c \in Clients, ReadRing(c)
    PROVE  Answers(c)
<1>0. /\ StoreType /\ ClientType /\ ring \in Seq(Event) /\ Rising(ring) /\ Resume(c, ring)
      /\ \A e \in Range(ring) : Issued(e)
    BY TypeParts DEF StoreType, OrderInv, StoreOrder, ReadRing
<1>1. PICK E \in Seq(Event), n \in Notices :
              /\ Send(c, Replay(E, n)) /\ Sound(E)
              /\ \/ got[c] = <<>> /\ n = "start" /\ E = Newest(ring, Snapshot)
                 \/ n # "none" /\ E = <<>>
                 \/ /\ n = "none" /\ got[c] # <<>> /\ Last(got[c]) \in Range(Numbered(ring))
                    /\ E = After(Numbered(ring), Last(got[c]))
    BY <1>0, ResumeSound
<1>2. Replays(c, E, n)
    BY <1>1, ReadFrame, SendReplays
<1>3. ASSUME ~failed' PROVE Faithful(c, E, n)
    <2>1. ~failed
        BY <1>3, <1>2 DEF Replays
    <2>2. CleanStore
        BY <2>1 DEF CleanInv
    <2>3. CASE n = "start" /\ E = Newest(ring, Snapshot)
        BY <2>1, <2>3, StartReply
    <2>4. CASE n # "none" /\ E = <<>>
        BY <2>4, NoticeReply
    <2>5. CASE /\ n = "none" /\ got[c] # <<>> /\ Last(got[c]) \in Range(Numbered(ring))
               /\ E = After(Numbered(ring), Last(got[c]))
        BY <1>0, <2>2, <2>5, SharedFaithful
    <2> QED BY <1>1, <2>3, <2>4, <2>5
<1> QED BY <1>1, <1>2, <1>3 DEF Answers

\* The local ring stands in for it soundly.
LEMMA ReadRingFailsEffect ==
    ASSUME TypeOK, OrderInv, StreamInv, NEW c \in Clients, ReadRingFails(c)
    PROVE  Answers(c)
<1> DEFINE s == mem[at[c]]
<1>0. /\ StoreType /\ ClientType /\ s \in Seq(Event) /\ Rising(s) /\ Resume(c, s)
      /\ (\A e \in Range(s) : Issued(e)) /\ failed' = TRUE
    <2>1. at[c] \in Replicas
        BY DEF TypeOK
    <2> QED BY <2>1, TypeParts DEF StoreType, OrderInv, StoreOrder, ReplicaOrder, ReadRingFails
<1> HIDE DEF s
<1>1. PICK E \in Seq(Event), n \in Notices : Send(c, Replay(E, n)) /\ Sound(E)
    BY <1>0, ResumeSound
<1>2. Replays(c, E, n)
    BY <1>1, ReadFrame, SendReplays
<1> QED BY <1>0, <1>1, <1>2 DEF Answers

---------------------------------------------------------------------------
(* The clients: answered, left alone or moved.                              *)

\* A step that leaves the rings, the pipelines and the channel alone.
SameStore == UNCHANGED <<pushed, counter, ring, mem, pending, publishing, published>>

\* A step that leaves client d alone.
SameClient(d) ==
    /\ got'[d] = got[d] /\ queue'[d] = queue[d] /\ from'[d] = from[d] /\ pc'[d] = pc[d]
    /\ replayed'[d] = replayed[d] /\ highWater'[d] = highWater[d]
    /\ excused'[d] = excused[d] /\ window'[d] = window[d]

\* What such a step keeps of the store ...
LEMMA StoreKept ==
    ASSUME SameStore
    PROVE  /\ StoreType => StoreType'
           /\ StoreOrder => StoreOrder'
           /\ CleanStore => CleanStore'
           /\ \A r : Due(r)' = Due(r)
           /\ \A e : Issued(e)' <=> Issued(e)
<1>1. \A r : Due(r)' = Due(r)
    BY DEF SameStore, Due
<1>2. \A e : Issued(e)' <=> Issued(e)
    BY DEF SameStore, Issued
<1>3. \A r : ReplicaOrder(r)' <=> ReplicaOrder(r)
    BY <1>2 DEF SameStore, ReplicaOrder
<1>4. \A r : CleanReplica(r)' <=> CleanReplica(r)
    BY <1>1 DEF SameStore, CleanReplica
<1> QED BY <1>1, <1>2, <1>3, <1>4 DEF SameStore, StoreType, StoreOrder, CleanStore

\* ... and of a client it leaves alone.
LEMMA ClientKept ==
    ASSUME SameStore, NEW d, SameClient(d)
    PROVE  /\ ClientOrder(d) => ClientOrder(d)'
           /\ Stream(d) => Stream(d)'
           /\ CleanStream(d) => CleanStream(d)'
<1>1. (\A e : Issued(e)' <=> Issued(e)) /\ (\A r : Due(r)' = Due(r))
    BY StoreKept
<1>2. ClientOrder(d) => ClientOrder(d)'
    BY <1>1 DEF SameStore, SameClient, ClientOrder
<1>3. Stream(d) => Stream(d)'
    BY DEF SameStore, SameClient, Stream, Sent
<1>4. Told(d)' = Told(d)
    BY DEF SameClient, Told
<1>5. CleanStream(d) => CleanStream(d)'
    BY <1>1, <1>4 DEF SameStore, SameClient, CleanStream
<1> QED BY <1>2, <1>3, <1>5

\* A stream that opens and has not been answered yet.
LEMMA OpensKeeps ==
    ASSUME TypeOK, OrderInv, StreamInv, CleanInv, NEW c \in Clients, Opens(c)
    PROVE  StoreType' /\ ClientType' /\ OrderInv' /\ StreamInv' /\ CleanInv'
<1>0. StoreType /\ ClientType /\ GaugeType
    BY TypeParts
<1>1. SameStore
    BY DEF Opens, SameStore
<1>2. ASSUME NEW d \in Clients, d # c PROVE SameClient(d)
    BY <1>0, <1>2 DEF Opens, ClientType, SameClient
<1>3. /\ pc'[c] = "reading" /\ queue'[c] = <<>> /\ from'[c] = Len(got[c])
      /\ got' = got /\ replayed' = replayed /\ highWater' = highWater /\ excused' = excused /\ window' = window
    BY <1>0 DEF Opens, ClientType
<1>4. got[c] \in Seq(Event) /\ Len(got[c]) \in Nat
    BY <1>0 DEF ClientType
<1>5. StoreType'
    BY <1>0, <1>1, StoreKept
<1>6. ClientType'
    <2>1. <<>> \in Seq(Event)
        OBVIOUS
    <2> QED BY <1>0, <1>4, <2>1 DEF Opens, ClientType, PCs
<1>7. ClientOrder(c)'
    <2>1. Range(<<>>) = {} /\ Rising(<<>>)
        BY DEF Range, Rising
    <2>2. \A e : Issued(e)' <=> Issued(e)
        BY <1>1, StoreKept
    <2> QED BY <1>3, <2>1, <2>2 DEF OrderInv, ClientOrder
<1>8. Stream(c)'
    <2>1. Sent(c)' = {}
        BY <1>3, <1>4 DEF Sent
    <2> QED BY <1>3, <1>4, <2>1 DEF StreamInv, Stream
<1>9. ASSUME ~failed' PROVE CleanStream(c)'
    <2>1. CleanStream(c)
        BY <1>9 DEF Opens, CleanInv
    <2>2. (\A r : Due(r)' = Due(r)) /\ pushed' = pushed
        BY <1>1, StoreKept DEF SameStore
    <2>3. Told(c)' = Told(c)
        BY <1>3 DEF Told
    <2> QED BY <1>3, <2>1, <2>2, <2>3 DEF CleanStream
<1>10. OrderInv'
    BY <1>1, <1>2, <1>7, StoreKept, ClientKept DEF OrderInv
<1>11. StreamInv'
    BY <1>1, <1>2, <1>8, ClientKept DEF StreamInv
<1>12. CleanInv'
    <2> SUFFICES ASSUME ~failed' PROVE CleanStore' /\ \A d \in Clients : CleanStream(d)'
        BY DEF CleanInv
    <2>1. ~failed
        BY DEF Opens
    <2> QED BY <1>1, <1>2, <1>9, <2>1, StoreKept, ClientKept DEF CleanInv
<1> QED BY <1>5, <1>6, <1>10, <1>11, <1>12

\* The values of the client that is answered.
LEMMA ReplayValues ==
    ASSUME ClientType, StoreType, NEW c \in Clients, NEW E \in Seq(Event), NEW n \in Notices, Replays(c, E, n)
    PROVE  /\ SameStore
           /\ \A d \in Clients : d # c => SameClient(d)
           /\ pc'[c] = "subscribing" /\ got'[c] = got[c] \o E /\ replayed'[c] = Range(E)
           /\ highWater'[c] = HighWater(E) /\ from'[c] = Len(got[c])
           /\ excused'[c] = (IF n = "none" THEN excused[c] ELSE excused[c] \cup published \cup Range(ring))
           /\ window'[c] = window[c] /\ queue'[c] \in {queue[c], <<>>}
<1>1. SameStore
    BY DEF Replays, SameStore
<1>2. ASSUME NEW d \in Clients, d # c PROVE SameClient(d)
    BY <1>2 DEF Replays, ClientType, SameClient
<1>3. /\ pc'[c] = "subscribing" /\ got'[c] = got[c] \o E /\ replayed'[c] = Range(E)
      /\ highWater'[c] = HighWater(E) /\ from'[c] = Len(got[c]) /\ window'[c] = window[c]
      /\ queue'[c] \in {queue[c], <<>>}
    BY DEF Replays, ClientType
<1>4. excused'[c] = (IF n = "none" THEN excused[c] ELSE excused[c] \cup published \cup Range(ring))
    BY DEF Replays, ClientType
<1> QED BY <1>1, <1>2, <1>3, <1>4

LEMMA ReplayTyped ==
    ASSUME ClientType, StoreType, NEW c \in Clients, NEW E \in Seq(Event), NEW n \in Notices, Replays(c, E, n),
           Sound(E)
    PROVE  StoreType' /\ ClientType'
<1>1. StoreType'
    BY ReplayValues, StoreKept
<1>2. got[c] \o E \in Seq(Event) /\ Len(got[c]) \in Nat /\ Range(E) \in SUBSET Event /\ HighWater(E) \in Nat
    BY InRange, HighWaterFacts DEF ClientType, Sound
<1>3. excused[c] \cup published \cup Range(ring) \in SUBSET Event
    BY InRange DEF ClientType, StoreType
<1>4. excused' \in [Clients -> SUBSET Event]
    BY <1>3 DEF Replays, ClientType
<1>5. queue' \in [Clients -> Seq(Event)]
    <2>1. queue \in [Clients -> Seq(Event)] /\ <<>> \in Seq(Event)
        BY DEF ClientType
    <2>2. [queue EXCEPT ![c] = <<>>] \in [Clients -> Seq(Event)]
        BY <2>1
    <2> QED BY <2>1, <2>2 DEF Replays
<1>6. /\ pc' \in [Clients -> PCs] /\ got' \in [Clients -> Seq(Event)] /\ replayed' \in [Clients -> SUBSET Event]
      /\ highWater' \in [Clients -> Nat] /\ from' \in [Clients -> Nat]
    BY <1>2 DEF Replays, ClientType, PCs
<1> QED BY <1>1, <1>4, <1>5, <1>6 DEF Replays, ClientType

LEMMA ReplayOrder ==
    ASSUME ClientType, StoreType, OrderInv, NEW c \in Clients, NEW E \in Seq(Event), NEW n \in Notices,
           Replays(c, E, n), Sound(E)
    PROVE  OrderInv'
<1>1. SameStore /\ \A d \in Clients : d # c => SameClient(d)
    BY ReplayValues
<1>2. \A e : Issued(e)' <=> Issued(e)
    BY <1>1, StoreKept
<1>3. Range(got'[c]) = Range(got[c]) \cup Range(E)
    <2>1. got'[c] = got[c] \o E /\ got[c] \in Seq(Event)
        BY ReplayValues DEF ClientType
    <2> QED BY <2>1, ConcatFacts
<1>4. \A e \in Range(got'[c]) : Issued(e)'
    BY <1>2, <1>3 DEF OrderInv, ClientOrder, Sound
<1>5. Rising(queue'[c]) /\ Range(queue'[c]) \subseteq published
    <2>1. Range(<<>>) = {} /\ Rising(<<>>)
        BY DEF Range, Rising
    <2> QED BY <2>1, ReplayValues DEF OrderInv, ClientOrder
<1>6. ClientOrder(c)'
    BY <1>1, <1>4, <1>5 DEF ClientOrder, SameStore
<1> QED BY <1>1, <1>6, StoreKept, ClientKept DEF OrderInv

\* A stream that starts with its replay: in order, so nothing is in it twice.
LEMMA ReplayStream ==
    ASSUME ClientType, StoreType, StreamInv, NEW c \in Clients, NEW E \in Seq(Event), NEW n \in Notices,
           Replays(c, E, n), Sound(E)
    PROVE  StreamInv'
<1>1. SameStore /\ \A d \in Clients : d # c => SameClient(d)
    BY ReplayValues
<1>2. /\ pc'[c] = "subscribing" /\ got'[c] = got[c] \o E /\ replayed'[c] = Range(E)
      /\ highWater'[c] = HighWater(E) /\ from'[c] = Len(got[c])
    BY ReplayValues
<1>3. /\ got[c] \in Seq(Event) /\ Len(got[c]) \in Nat /\ Len(E) \in Nat /\ Len(got'[c]) = Len(got[c]) + Len(E)
      /\ \A i \in (Len(got[c]) + 1)..Len(got'[c]) : i - Len(got[c]) \in 1..Len(E) /\ got'[c][i] = E[i - Len(got[c])]
    BY <1>2, ConcatFacts DEF ClientType
<1>4. Sent(c)' = (Len(got[c]) + 1)..Len(got'[c])
    BY <1>2 DEF Sent
<1>5. ASSUME NEW i \in Sent(c)', NEW j \in Sent(c)', got'[c][i] = got'[c][j] PROVE i = j
    <2>1. i - Len(got[c]) \in 1..Len(E) /\ j - Len(got[c]) \in 1..Len(E) /\ i \in Int /\ j \in Int
        BY <1>3, <1>4
    <2>2. E[i - Len(got[c])] = E[j - Len(got[c])]
        BY <1>3, <1>4, <1>5
    <2>3. i - Len(got[c]) = j - Len(got[c])
        BY <2>1, <2>2, RisingPlaces DEF Sound
    <2> QED BY <1>3, <2>1, <2>3
<1>6. ASSUME NEW i \in Sent(c)' PROVE got'[c][i] \in replayed'[c]
    BY <1>2, <1>3, <1>4, InRange
<1>7. \A e \in replayed'[c] : Numeric(e) => e.n <= highWater'[c]
    BY <1>2, HighWaterFacts DEF Sound
<1>8. from'[c] <= Len(got'[c])
    BY <1>2, <1>3
<1>9. Stream(c)'
    BY <1>2, <1>5, <1>6, <1>7, <1>8 DEF Stream
<1> QED BY <1>1, <1>9, ClientKept DEF StreamInv

\* A client that is answered while Valkey answers: nothing published is missing.
LEMMA ReplayClean ==
    ASSUME ClientType, StoreType, OrderInv, CleanInv, NEW c \in Clients, NEW E \in Seq(Event), NEW n \in Notices,
           Replays(c, E, n), Sound(E), ~failed' => Faithful(c, E, n)
    PROVE  CleanInv'
<1> SUFFICES ASSUME ~failed' PROVE CleanStore' /\ \A d \in Clients : CleanStream(d)'
    BY DEF CleanInv
<1>0. ~failed /\ Faithful(c, E, n)
    <2>1. failed' \in {failed, TRUE}
        BY DEF Replays
    <2>2. ~failed
        BY <2>1
    <2>3. Faithful(c, E, n)
        OBVIOUS
    <2> QED BY <2>2, <2>3
<1>1. SameStore /\ \A d \in Clients : d # c => SameClient(d)
    BY ReplayValues
<1>2. /\ got'[c] = got[c] \o E /\ highWater'[c] = HighWater(E) /\ window'[c] = window[c]
      /\ excused'[c] = (IF n = "none" THEN excused[c] ELSE excused[c] \cup published \cup Range(ring))
    BY ReplayValues
<1>3. /\ got[c] \in Seq(Event) /\ Range(got'[c]) = Range(got[c]) \cup Range(E)
      /\ E = <<>> => got'[c] = got[c]
      /\ E # <<>> => Last(got'[c]) = Last(E)
    BY <1>2, ConcatFacts DEF ClientType
<1>4. CleanStore /\ CleanStream(c) /\ \A d \in Clients : CleanStream(d)
    BY <1>0 DEF CleanInv
<1>5. /\ Told(c) \subseteq Told(c)' /\ Range(E) \subseteq Told(c)'
      /\ n # "none" => published \cup Range(ring) \subseteq Told(c)'
    BY <1>2, <1>3 DEF Told
<1>6. (\A r : Due(r)' = Due(r)) /\ pushed' = pushed /\ published' = published
    BY <1>1, StoreKept DEF SameStore
<1>7. ASSUME NEW r \in Replicas, NEW f \in Due(r), Past(c, f) PROVE f \in Told(c)'
    BY <1>4, <1>5, <1>7 DEF CleanStream, Past
<1>8. ASSUME E # <<>>, NEW r \in Replicas, NEW f \in Due(r), f.s <= Last(E).s PROVE f \in Told(c)'
    <2>1. f \in Range(E) \/ Past(c, f) \/ (n # "none" /\ f \in published \cup Range(ring))
        BY <1>0, <1>8 DEF Faithful
    <2> QED BY <1>5, <1>7, <2>1
<1>9. ASSUME got'[c] # <<>>, NEW r \in Replicas, NEW f \in Due(r), f.s <= Last(got'[c]).s PROVE f \in Told(c)'
    <2>1. CASE E = <<>>
        BY <1>3, <1>7, <1>9, <2>1 DEF Past
    <2>2. CASE E # <<>>
        BY <1>3, <1>8, <1>9, <2>2
    <2> QED BY <2>1, <2>2
<1>10. ASSUME NEW r \in Replicas, NEW f \in Due(r), f.s <= highWater'[c] PROVE f \in Told(c)'
    <2>1. f \in Event /\ f.s \in Nat /\ Exact(f)
        BY <1>4, InRange, EventFields DEF CleanStore, CleanReplica, Due, StoreType
    <2>2. CASE HighWater(E) = 0
        BY <1>2, <1>10, <2>1, <2>2 DEF Exact
    <2>3. CASE \E e \in Range(E) : Numeric(e) /\ HighWater(E) = e.n
        <3>1. PICK e \in Range(E) : HighWater(E) = e.n
            BY <2>3
        <3>2. E # <<>> /\ e \in Event
            BY InRange DEF Range
        <3>3. Exact(e) /\ e.s <= Last(E).s
            BY <1>0, <3>2, LastRising DEF Faithful, Sound
        <3>4. Last(E).s \in Nat /\ e.s \in Nat
            BY <3>2, LastIn, EventFields
        <3>5. f.s <= Last(E).s
            BY <1>2, <1>10, <2>1, <3>1, <3>3, <3>4 DEF Exact
        <3> QED BY <1>8, <3>2, <3>5
    <2> QED BY <2>2, <2>3, HighWaterFacts DEF Sound
<1>11. published \subseteq Told(c)'
    <2>1. CASE n # "none"
        BY <1>5, <2>1
    <2>2. CASE n = "none"
        <3> SUFFICES ASSUME NEW f \in published PROVE f \in Told(c)'
            OBVIOUS
        <3>1. f \in Range(E) \/ Past(c, f)
            BY <1>0, <2>2 DEF Faithful
        <3>2. PICK r \in Replicas : f \in Due(r)
            <4>1. f.at \in Replicas
                BY EventFields DEF StoreType
            <4> QED BY <4>1 DEF Due
        <3> QED BY <1>5, <1>7, <3>1, <3>2
    <2> QED BY <2>1, <2>2
<1>12. highWater'[c] <= pushed
    <2>1. \A e \in Range(E) : e.n <= counter
        BY DEF Sound, Issued
    <2>2. counter = pushed /\ pushed \in Nat
        BY <1>4 DEF CleanStore, StoreType
    <2> QED BY <1>2, <2>1, <2>2, HighWaterFacts DEF Sound
<1>13. \A e \in Range(got'[c]) : Exact(e)
    BY <1>0, <1>3, <1>4 DEF Faithful, CleanStream
<1>14. CleanStream(c)'
    BY <1>6, <1>9, <1>10, <1>11, <1>12, <1>13 DEF CleanStream
<1> QED BY <1>1, <1>4, <1>14, StoreKept, ClientKept

LEMMA AnswersKeeps ==
    ASSUME TypeOK, OrderInv, StreamInv, CleanInv, NEW c \in Clients, Answers(c)
    PROVE  StoreType' /\ ClientType' /\ OrderInv' /\ StreamInv' /\ CleanInv'
<1>0. StoreType /\ ClientType
    BY TypeParts
<1>1. PICK E \in Seq(Event), n \in Notices :
        Replays(c, E, n) /\ Sound(E) /\ (~failed' => Faithful(c, E, n))
    BY DEF Answers
<1> QED BY <1>0, <1>1, ReplayTyped, ReplayOrder, ReplayStream, ReplayClean

---------------------------------------------------------------------------
(* The steps.                                                               *)

\* Push: the new event is newer than all others, so no ring or cursor reaches it.
LEMMA PushKeeps ==
    ASSUME TypeOK, OrderInv, StreamInv, CleanInv, OneReplica, NEW r \in Replicas,
           PushEvent(r) \/ PushEventDegraded(r)
    PROVE  OrderInv' /\ StreamInv' /\ CleanInv'
<1>0. StoreType /\ ClientType
    BY TypeParts
<1>1. PICK n \in {0, counter + 1} :
              /\ pushed' = pushed + 1
              /\ mem' = [mem EXCEPT ![r] = Keep(@, Pushed(r, n))]
              /\ pending' = [pending EXCEPT ![r] = Append(@, Pushed(r, n))]
              /\ UNCHANGED <<ring, publishing, published, connected, pc, closed, at, highWater, replayed,
                             queue, got, from, excused, window, opened>>
              /\ \/ counter' = counter + 1 /\ n = counter + 1 /\ failed' = failed /\ degraded' = degraded
                 \/ counter' = counter /\ n = 0 /\ failed' = TRUE /\ degraded' = [degraded EXCEPT ![r] = TRUE]
    BY PushEffect
<1>e. PICK e : e = Pushed(r, n)
    OBVIOUS
<1>2. e \in Event /\ \A f \in Event : Issued(f) => Before(f, e)
    BY <1>0, <1>e, AcceptNewer
<1>3. mem[r] \in Seq(Event) /\ pending[r] \in Seq(Event) /\ ReplicaOrder(r) /\ ring \in Seq(Event)
      /\ published \subseteq Event /\ \A x \in publishing[r] : x.event \in Event
    BY <1>0 DEF StoreType, OrderInv, StoreOrder
<1>4. Range(mem[r]) \subseteq Event /\ Range(pending[r]) \subseteq Event /\ Range(ring) \subseteq Event
    BY <1>3, InRange
<1>5. mem'[r] = Keep(mem[r], e) /\ pending'[r] = Append(pending[r], e)
    BY <1>0, <1>1, <1>e DEF StoreType
<1>6. e.s = pushed + 1 /\ e.n = n
    BY <1>e DEF Pushed
<1>7. \A f \in Range(mem[r]) \cup Range(pending[r]) : Issued(f) /\ Before(f, e)
    BY <1>2, <1>3, <1>4 DEF ReplicaOrder
<1>8. /\ Rising(mem'[r]) /\ Range(mem'[r]) \subseteq Range(mem[r]) \cup {e}
      /\ \A g \in Range(mem[r]) \cup {e} : g \in Range(mem'[r]) \/ \A f \in Range(mem'[r]) : g.s < f.s
    BY <1>2, <1>3, <1>5, <1>7, KeepFacts DEF ReplicaOrder
<1>9. Rising(pending'[r]) /\ Range(pending'[r]) = Range(pending[r]) \cup {e}
    BY <1>2, <1>3, <1>5, <1>7, AppendFacts DEF ReplicaOrder
<1>10. \A f \in Event : Issued(f) => Issued(f)'
    <2> SUFFICES ASSUME NEW f \in Event, Issued(f) PROVE f.s <= pushed + 1 /\ f.n <= counter'
        BY <1>1 DEF Issued
    <2>1. f.s \in Nat /\ f.n \in Nat /\ f.s <= pushed /\ f.n <= counter
        BY EventFields DEF Issued
    <2> QED BY <1>0, <1>1, <2>1 DEF StoreType
<1>11. Issued(e)'
    BY <1>0, <1>1, <1>6 DEF Issued, StoreType
<1>12. StoreOrder'
    <2>1. Rising(ring)' /\ \A f \in Range(ring') \cup published' : Issued(f)'
        BY <1>1, <1>3, <1>4, <1>10 DEF OrderInv, StoreOrder
    <2>2. \A f \in Range(mem'[r]) \cup Range(pending'[r]) : Issued(f)'
        BY <1>4, <1>7, <1>8, <1>9, <1>10, <1>11
    <2>3. \A x \in publishing'[r] : Issued(x.event)'
        BY <1>1, <1>3, <1>10 DEF ReplicaOrder
    <2>4. \A g \in Range(pending'[r]), f \in Range(ring') \cup published' : Before(f, g)
        <3>1. \A f \in Range(ring) \cup published : Before(f, e)
            BY <1>2, <1>3, <1>4 DEF OrderInv, StoreOrder
        <3> QED BY <1>1, <1>3, <1>9, <3>1 DEF ReplicaOrder
    <2>5. \A g \in Range(pending'[r]), x \in publishing'[r] : Before(x.event, g)
        <3>1. \A x \in publishing[r] : Before(x.event, e)
            BY <1>2, <1>3 DEF ReplicaOrder
        <3> QED BY <1>1, <1>3, <1>9, <3>1 DEF ReplicaOrder
    <2>6. \A x \in publishing'[r], f \in published' : Before(f, x.event)
        BY <1>1, <1>3 DEF ReplicaOrder
    <2>7. ReplicaOrder(r)'
        BY <1>8, <1>9, <2>2, <2>3, <2>4, <2>5, <2>6 DEF ReplicaOrder
    <2>8. \A q \in Replicas : ReplicaOrder(q)'
        BY <2>7 DEF OneReplica
    <2> QED BY <2>1, <2>8 DEF StoreOrder
<1>13. ASSUME NEW c \in Clients PROVE ClientOrder(c)'
    <2>1. ClientOrder(c) /\ got[c] \in Seq(Event)
        BY <1>0 DEF OrderInv, ClientType
    <2>2. Range(got[c]) \subseteq Event
        BY <2>1, InRange
    <2> QED BY <1>1, <1>10, <2>1, <2>2 DEF ClientOrder
<1>14. StreamInv'
    BY <1>1 DEF StreamInv, Stream, Sent
<1>15. CleanInv'
    <2> SUFFICES ASSUME ~failed' PROVE CleanStore' /\ \A c \in Clients : CleanStream(c)'
        BY DEF CleanInv
    <2>1. ~failed /\ counter' = counter + 1 /\ n = counter + 1
        BY <1>1
    <2>2. CleanStore /\ counter = pushed /\ CleanReplica(r) /\ \A c \in Clients : CleanStream(c)
        BY <2>1 DEF CleanInv, CleanStore
    <2>3. Exact(e)
        BY <1>0, <1>6, <2>1, <2>2 DEF Exact, StoreType
    <2>4. Due(r)' = Due(r) \cup {e}
        BY <1>1, <1>9 DEF Due
    <2>5. CleanReplica(r)'
        <3>1. \A f \in Due(r)' \cup Range(mem'[r]) : Exact(f)
            BY <1>8, <2>2, <2>3, <2>4 DEF CleanReplica
        <3>2. \A x \in publishing'[r] : x.event \in Range(ring')
            BY <1>1, <2>2 DEF CleanReplica
        <3>3. ASSUME NEW f \in Due(r)' PROVE f \in Range(mem'[r]) \/ \A g \in Range(mem'[r]) : f.s < g.s
            <4>1. CASE f \in Range(mem[r]) \cup {e}
                BY <1>8, <4>1
            <4>2. CASE f \in Due(r) /\ \A g \in Range(mem[r]) : f.s < g.s
                <5>1. f \in Event /\ Issued(f)
                    BY <1>3, <1>4, <4>2 DEF Due, OrderInv, StoreOrder, ReplicaOrder
                <5>2. Before(f, e)
                    BY <1>2, <5>1
                <5> QED BY <1>8, <4>2, <5>2 DEF Before
            <4> QED BY <2>2, <2>4, <4>1, <4>2 DEF CleanReplica
        <3> QED BY <3>1, <3>2, <3>3 DEF CleanReplica
    <2>6. \A q \in Replicas : CleanReplica(q)'
        BY <2>5 DEF OneReplica
    <2>7. CleanStore'
        BY <1>1, <2>1, <2>2, <2>6 DEF CleanStore
    <2>8. ASSUME NEW c \in Clients PROVE CleanStream(c)'
        <3>1. CleanStream(c) /\ Told(c)' = Told(c) /\ got' = got /\ highWater' = highWater
            BY <1>1, <2>2 DEF Told
        <3>2. got[c] \in Seq(Event) /\ highWater[c] \in Nat /\ highWater[c] <= pushed /\ pushed \in Nat
            BY <1>0, <3>1 DEF ClientType, StoreType, CleanStream
        <3>3. highWater'[c] <= pushed'
            BY <1>1, <3>1, <3>2
        <3>4. ASSUME got[c] # <<>> PROVE ~(e.s <= Last(got[c]).s)
            <4>1. Last(got[c]) \in Event /\ Issued(Last(got[c]))
                BY <3>2, <3>4, LastIn DEF OrderInv, ClientOrder
            <4> QED BY <1>6, <3>2, <4>1, EventFields DEF Issued
        <3>5. ~(e.s <= highWater[c])
            BY <1>6, <3>2
        <3>6. \A q \in Replicas : Due(q)' = Due(q) \cup {e}
            BY <2>4 DEF OneReplica
        <3> QED BY <1>1, <3>1, <3>3, <3>4, <3>5, <3>6 DEF CleanStream
    <2> QED BY <2>7, <2>8
<1> QED BY <1>12, <1>13, <1>14, <1>15 DEF OrderInv

\* The pipeline stores the oldest pending event.
LEMMA StoreKeeps ==
    ASSUME TypeOK, OrderInv, StreamInv, CleanInv, OneReplica, NEW r \in Replicas, Store(r)
    PROVE  OrderInv' /\ StreamInv' /\ CleanInv'
<1>0. StoreType /\ ClientType
    BY TypeParts
<1>1. PICK stored \in BOOLEAN :
                 /\ publishing' = [publishing EXCEPT ![r] = {[event |-> Head(pending[r]), stored |-> stored]}]
                 /\ ring' = IF stored THEN Keep(ring, Head(pending[r])) ELSE ring
                 /\ failed' = (failed \/ ~stored)
    BY StoreEffect
<1>2. /\ pending[r] # <<>> /\ pending' = [pending EXCEPT ![r] = Tail(@)] /\ publishing[r] = {}
      /\ UNCHANGED <<pushed, counter, mem, published, degraded, connected, pc, closed, at, highWater,
                          replayed, queue, got, from, excused, window, opened>>
    BY StoreEffect
<1> DEFINE e == Head(pending[r])
           x == [event |-> e, stored |-> stored]
<1>3. pending[r] \in Seq(Event) /\ ring \in Seq(Event) /\ Rising(ring) /\ ReplicaOrder(r)
    BY <1>0 DEF StoreType, OrderInv, StoreOrder
<1>4. /\ e \in Event /\ Range(pending[r]) = {e} \cup Range(Tail(pending[r]))
      /\ Rising(Tail(pending[r])) /\ \A f \in Range(Tail(pending[r])) : Before(e, f)
    BY <1>2, <1>3, TailFacts DEF ReplicaOrder
<1>5. pending'[r] = Tail(pending[r]) /\ publishing'[r] = {x} /\ x.event = e
    BY <1>0, <1>1, <1>2 DEF StoreType
<1> HIDE DEF e, x
<1>6. \A f \in Range(ring) \cup published : Before(f, e)
    BY <1>3, <1>4 DEF ReplicaOrder
<1>7. /\ Rising(Keep(ring, e)) /\ Range(Keep(ring, e)) \subseteq Range(ring) \cup {e} /\ e \in Range(Keep(ring, e))
      /\ \A g \in Range(ring) \cup {e} : g \in Range(Keep(ring, e)) \/ \A f \in Range(Keep(ring, e)) : g.s < f.s
    BY <1>3, <1>4, <1>6, KeepFacts
<1>8. Rising(ring') /\ Range(ring') \subseteq Range(ring) \cup {e}
    BY <1>1, <1>3, <1>7 DEF e
<1>9. \A f : Issued(f)' <=> Issued(f)
    BY <1>2 DEF Issued
<1>10. Issued(e)
    BY <1>3, <1>4 DEF ReplicaOrder
<1>11. StoreOrder'
    <2>1. Rising(ring)' /\ \A f \in Range(ring') \cup published' : Issued(f)'
        BY <1>2, <1>8, <1>9, <1>10 DEF OrderInv, StoreOrder
    <2>2. \A f \in Range(mem'[r]) \cup Range(pending'[r]) : Issued(f)'
        BY <1>2, <1>3, <1>4, <1>5, <1>9 DEF ReplicaOrder
    <2>3. \A y \in publishing'[r] : Issued(y.event)'
        BY <1>5, <1>9, <1>10
    <2>4. \A g \in Range(pending'[r]), f \in Range(ring') \cup published' : Before(f, g)
        BY <1>2, <1>3, <1>4, <1>5, <1>8 DEF ReplicaOrder
    <2>5. \A g \in Range(pending'[r]), y \in publishing'[r] : Before(y.event, g)
        BY <1>4, <1>5
    <2>6. \A y \in publishing'[r], f \in published' : Before(f, y.event)
        BY <1>2, <1>5, <1>6
    <2>7. ReplicaOrder(r)'
        BY <1>2, <1>3, <1>4, <1>5, <2>2, <2>3, <2>4, <2>5, <2>6 DEF ReplicaOrder
    <2>8. \A q \in Replicas : ReplicaOrder(q)'
        BY <2>7 DEF OneReplica
    <2> QED BY <2>1, <2>8 DEF StoreOrder
<1>12. OrderInv'
    BY <1>2, <1>9, <1>11 DEF OrderInv, ClientOrder
<1>13. StreamInv'
    BY <1>2 DEF StreamInv, Stream, Sent
<1>14. CleanInv'
    <2> SUFFICES ASSUME ~failed' PROVE CleanStore' /\ \A c \in Clients : CleanStream(c)'
        BY DEF CleanInv
    <2>1. ~failed /\ stored /\ ring' = Keep(ring, e)
        BY <1>1 DEF e
    <2>2. CleanStore /\ counter = pushed /\ CleanReplica(r) /\ \A c \in Clients : CleanStream(c)
        BY <2>1 DEF CleanInv, CleanStore
    <2>3. Due(r)' = Due(r)
        BY <1>2, <1>4, <1>5 DEF Due
    <2>4. e \in Due(r)
        BY <1>4 DEF Due
    <2>5. CleanReplica(r)'
        <3>1. \A f \in Due(r)' \cup Range(mem'[r]) : Exact(f)
            BY <1>2, <2>2, <2>3 DEF CleanReplica
        <3>2. \A y \in publishing'[r] : y.event \in Range(ring')
            BY <1>5, <1>7, <2>1
        <3> QED BY <1>2, <2>2, <2>3, <3>1, <3>2 DEF CleanReplica
    <2>6. \A q \in Replicas : CleanReplica(q)'
        BY <2>5 DEF OneReplica
    <2>7. \A f \in Range(ring') \cup published' : Exact(f)
        BY <1>2, <1>8, <2>2, <2>4 DEF CleanStore, CleanReplica
    <2>8. ASSUME NEW f \in published' PROVE f \in Range(ring') \/ \A g \in Range(ring') : f.s < g.s
        <3>1. CASE f \in Range(ring)
            BY <1>7, <2>1, <3>1
        <3>2. CASE \A g \in Range(ring) : f.s < g.s
            <4>1. f.s < e.s
                BY <1>2, <1>6, <2>8 DEF Before
            <4> QED BY <1>8, <3>2, <4>1
        <3> QED BY <1>2, <2>2, <2>8, <3>1, <3>2 DEF CleanStore
    <2>9. CleanStore'
        BY <1>2, <2>2, <2>6, <2>7, <2>8 DEF CleanStore
    <2>10. \A c \in Clients : CleanStream(c)'
        <3>1. \A q \in Replicas : Due(q)' = Due(q)
            BY <2>3 DEF OneReplica
        <3> QED BY <1>2, <2>2, <3>1 DEF CleanStream, Told
    <2> QED BY <2>9, <2>10
<1> QED BY <1>12, <1>13, <1>14

\* PUBLISH reaches the live streams; a stream between snapshot and SUBSCRIBE has it in its window.
LEMMA PublishKeeps ==
    ASSUME TypeOK, OrderInv, StreamInv, CleanInv, OneReplica, NEW r \in Replicas, Publish(r)
    PROVE  OrderInv' /\ StreamInv' /\ CleanInv'
<1>0. StoreType /\ ClientType
    BY TypeParts
<1>1. PICK x \in publishing[r], sent \in BOOLEAN :
        /\ publishing' = [publishing EXCEPT ![r] = {}]
        /\ published' = IF sent THEN published \cup {x.event} ELSE published
        /\ queue' = [c \in Clients |-> IF sent /\ pc[c] = "live"
                                       THEN Append(queue[c], x.event) ELSE queue[c]]
        /\ window' = [c \in Clients |-> IF sent /\ pc[c] = "subscribing"
                                        THEN window[c] \cup {x.event} ELSE window[c]]
        /\ degraded' = [degraded EXCEPT ![r] = IF x.stored /\ sent
                                               THEN @ /\ ~Numeric(x.event) ELSE TRUE]
        /\ failed' = (failed \/ ~sent)
        /\ UNCHANGED <<pushed, counter, ring, mem, pending, connected, pc, closed, at, highWater,
                       replayed, got, from, excused, opened>>
    BY PublishEffect
<1>e. PICK e : e = x.event
    OBVIOUS
<1>2. e \in Event /\ ReplicaOrder(r) /\ publishing'[r] = {}
    BY <1>0, <1>1, <1>e DEF StoreType, OrderInv, StoreOrder
<1>3. published' \subseteq published \cup {e} /\ published \subseteq published'
    BY <1>1, <1>e
<1>4. Issued(e) /\ (\A f \in published : Before(f, e)) /\ (\A f \in Range(pending[r]) : Before(e, f))
    BY <1>1, <1>2, <1>e DEF ReplicaOrder
<1>5. \A f : Issued(f)' <=> Issued(f)
    BY <1>1 DEF Issued
<1>6. StoreOrder'
    <2>1. Rising(ring)' /\ \A f \in Range(ring') \cup published' : Issued(f)'
        BY <1>1, <1>3, <1>4, <1>5 DEF OrderInv, StoreOrder
    <2>2. ReplicaOrder(r)'
        BY <1>1, <1>2, <1>3, <1>4, <1>5 DEF ReplicaOrder
    <2>3. \A q \in Replicas : ReplicaOrder(q)'
        BY <2>2 DEF OneReplica
    <2> QED BY <2>1, <2>3 DEF StoreOrder
<1>7. ASSUME NEW c \in Clients
      PROVE  /\ queue[c] \in Seq(Event) /\ Rising(queue[c]) /\ Range(queue[c]) \subseteq published
             /\ \/ queue'[c] = queue[c]
                \/ /\ queue'[c] = Append(queue[c], e) /\ e \in published'
                   /\ Rising(queue'[c]) /\ Range(queue'[c]) = Range(queue[c]) \cup {e}
    <2>1. queue[c] \in Seq(Event) /\ Rising(queue[c]) /\ Range(queue[c]) \subseteq published
        BY <1>0 DEF ClientType, OrderInv, ClientOrder
    <2>2. queue'[c] = queue[c] \/ (queue'[c] = Append(queue[c], e) /\ e \in published')
        BY <1>1, <1>e
    <2>3. Rising(Append(queue[c], e)) /\ Range(Append(queue[c], e)) = Range(queue[c]) \cup {e}
        BY <1>2, <1>4, <2>1, AppendFacts
    <2> QED BY <2>1, <2>2, <2>3
<1>8. \A c \in Clients : ClientOrder(c)'
    BY <1>1, <1>3, <1>5, <1>7 DEF OrderInv, ClientOrder
<1>9. ASSUME NEW c \in Clients PROVE Stream(c)'
    <2>1. Stream(c) /\ Sent(c)' = Sent(c)
        BY <1>1 DEF StreamInv, Sent
    <2>2. ASSUME NEW i \in Sent(c)
          PROVE  \/ got[c][i] \in replayed[c]
                 \/ got[c][i] \in published' /\ \A g \in Range(queue'[c]) : got[c][i].s < g.s
        <3>1. CASE got[c][i] \in replayed[c]
            BY <3>1
        <3>2. CASE got[c][i] \in published /\ \A g \in Range(queue[c]) : got[c][i].s < g.s
            <4>1. got[c][i].s < e.s
                <5>1. Before(got[c][i], e)
                    BY <1>4, <3>2
                <5> QED BY <5>1 DEF Before
            <4>2. Range(queue'[c]) \subseteq Range(queue[c]) \cup {e}
                BY <1>7
            <4> QED BY <1>3, <3>2, <4>1, <4>2
        <3> QED BY <2>1, <3>1, <3>2 DEF Stream
    <2> QED BY <1>1, <2>1, <2>2 DEF Stream
<1>10. CleanInv'
    <2> SUFFICES ASSUME ~failed' PROVE CleanStore' /\ \A c \in Clients : CleanStream(c)'
        BY DEF CleanInv
    <2>1. ~failed /\ sent
        BY <1>1
    <2>2. CleanStore /\ CleanReplica(r) /\ \A c \in Clients : CleanStream(c)
        BY <2>1 DEF CleanInv, CleanStore
    <2>3. published' = published \cup {e}
        BY <1>1, <1>e, <2>1
    <2>4. e \in Due(r) /\ Due(r)' \subseteq Due(r) /\ e \in Range(ring)
        BY <1>1, <1>2, <1>e, <2>2, <2>3 DEF Due, CleanReplica
    <2>5. CleanReplica(r)'
        BY <1>1, <1>2, <2>2, <2>4 DEF CleanReplica
    <2>6. \A q \in Replicas : CleanReplica(q)'
        BY <2>5 DEF OneReplica
    <2>7. CleanStore'
        BY <1>1, <2>2, <2>3, <2>4, <2>6 DEF CleanStore
    <2>8. ASSUME NEW c \in Clients PROVE CleanStream(c)'
        <3>1. Told(c) \subseteq Told(c)'
            BY <1>1 DEF Told
        <3>2. \A q \in Replicas : Due(q)' \subseteq Due(q)
            BY <2>4 DEF OneReplica
        <3>3. ASSUME pc[c] \in {"subscribing", "live"} PROVE published' \subseteq Told(c)' \cup Range(queue'[c])
            <4>1. published \subseteq Told(c) \cup Range(queue[c]) /\ Range(queue[c]) \subseteq Range(queue'[c])
                BY <1>7, <2>2, <3>3 DEF CleanStream
            <4>2. CASE pc[c] = "live"
                <5>1. queue'[c] = Append(queue[c], e)
                    BY <1>1, <1>e, <2>1, <4>2
                <5>2. e \in Range(queue'[c])
                    BY <1>2, <1>7, <5>1, AppendFacts
                <5> QED BY <2>3, <3>1, <4>1, <5>2
            <4>3. CASE pc[c] = "subscribing"
                <5>1. e \in window'[c]
                    BY <1>1, <1>e, <2>1, <4>3
                <5>2. e \in Told(c)'
                    BY <5>1 DEF Told
                <5> QED BY <2>3, <3>1, <4>1, <5>2
            <4> QED BY <3>3, <4>2, <4>3
        <3>4. CleanStream(c) /\ pc' = pc /\ got' = got /\ highWater' = highWater /\ pushed' = pushed
            BY <1>1, <2>2
        <3> QED BY <3>1, <3>2, <3>3, <3>4 DEF CleanStream
    <2> QED BY <2>7, <2>8
<1> QED BY <1>6, <1>8, <1>9, <1>10 DEF OrderInv, StreamInv

\* A message is sent to the browser unless the replay already covers it.
LEMMA DeliverKeeps ==
    ASSUME TypeOK, OrderInv, StreamInv, CleanInv, OneReplica, NEW c \in Clients, Deliver(c)
    PROVE  StoreType' /\ ClientType' /\ OrderInv' /\ StreamInv' /\ CleanInv'
<1>0. StoreType /\ ClientType
    BY TypeParts
<1>1. /\ pc[c] = "live" /\ queue[c] # <<>> /\ queue' = [queue EXCEPT ![c] = Tail(@)]
      /\ got' = IF Overlap(c, Head(queue[c])) THEN got ELSE [got EXCEPT ![c] = Append(@, Head(queue[c]))]
      /\ UNCHANGED <<pc, at, highWater, replayed, from, excused, window, failed>>
      /\ SameStore
    BY DEF Deliver, store, conn, ghost, SameStore
<1>e. PICK e : e = Head(queue[c])
    OBVIOUS
<1>2. queue[c] \in Seq(Event) /\ got[c] \in Seq(Event) /\ ClientOrder(c) /\ Stream(c)
    BY <1>0 DEF ClientType, OrderInv, StreamInv
<1>3. /\ e \in Event /\ Tail(queue[c]) \in Seq(Event) /\ Range(queue[c]) = {e} \cup Range(Tail(queue[c]))
      /\ Rising(Tail(queue[c])) /\ \A f \in Range(Tail(queue[c])) : Before(e, f)
    BY <1>1, <1>2, <1>e, TailFacts DEF ClientOrder
<1>4. queue'[c] = Tail(queue[c])
    BY <1>0, <1>1 DEF ClientType
<1>5. /\ Overlap(c, e) => got' = got
      /\ ~Overlap(c, e) => got' = [got EXCEPT ![c] = Append(@, e)] /\ got'[c] = Append(got[c], e)
    BY <1>0, <1>1, <1>e DEF ClientType
<1>6. /\ Append(got[c], e) \in Seq(Event) /\ Len(Append(got[c], e)) = Len(got[c]) + 1
      /\ \A i \in 1..Len(got[c]) : Append(got[c], e)[i] = got[c][i]
      /\ Append(got[c], e)[Len(got[c]) + 1] = e
      /\ Range(Append(got[c], e)) = Range(got[c]) \cup {e}
      /\ Append(got[c], e) # <<>> /\ Last(Append(got[c], e)) = e
    BY <1>2, <1>3, AppendFacts
<1>7. e \in published /\ Issued(e)
    BY <1>2, <1>3 DEF OrderInv, StoreOrder, ClientOrder
<1>8. ASSUME NEW d \in Clients, d # c PROVE SameClient(d)
    <2>1. got'[d] = got[d]
        BY <1>0, <1>5, <1>8 DEF ClientType
    <2>2. queue'[d] = queue[d]
        BY <1>0, <1>1, <1>8 DEF ClientType
    <2> QED BY <1>1, <2>1, <2>2 DEF SameClient
<1>9. StoreType'
    BY <1>0, <1>1, StoreKept
<1>10. ClientType'
    <2>1. got' \in [Clients -> Seq(Event)]
        BY <1>0, <1>5, <1>6 DEF ClientType
    <2>2. queue' \in [Clients -> Seq(Event)]
        BY <1>0, <1>1, <1>3 DEF ClientType
    <2> QED BY <1>0, <1>1, <2>1, <2>2 DEF ClientType
<1>11. (\A f : Issued(f)' <=> Issued(f)) /\ (\A r : Due(r)' = Due(r)) /\ published' = published /\ pushed' = pushed
    BY <1>1, StoreKept DEF SameStore
<1>12. ClientOrder(c)'
    <2>1. Range(got'[c]) \subseteq Range(got[c]) \cup {e}
        BY <1>5, <1>6
    <2> QED BY <1>2, <1>3, <1>4, <1>7, <1>11, <2>1 DEF ClientOrder
<1>13. Stream(c)'
    <2>0. from' = from /\ replayed' = replayed /\ highWater' = highWater /\ pc' = pc /\ pc[c] # "reading"
          /\ from[c] \in Nat /\ Len(got[c]) \in Nat /\ from[c] <= Len(got[c])
        BY <1>0, <1>1, <1>2 DEF Stream, ClientType
    <2>1. CASE Overlap(c, e)
        <3>1. got' = got /\ Sent(c)' = Sent(c)
            BY <1>5, <2>0, <2>1 DEF Sent
        <3> QED BY <1>2, <1>3, <1>4, <1>11, <2>0, <3>1 DEF Stream
    <2>2. CASE ~Overlap(c, e)
        <3>1. e \notin replayed[c]
            <4> SUFFICES ASSUME e \in replayed[c] PROVE FALSE
                OBVIOUS
            <4>1. Numeric(e) /\ e.n <= highWater[c]
                BY <1>2, <2>2 DEF Stream, Overlap
            <4> QED BY <1>0, <1>3, <2>2, <4>1, EventFields DEF Overlap, Numeric, ClientType
        <3>2. ASSUME NEW i \in Sent(c) PROVE got[c][i] # e
            <4>1. CASE got[c][i] \in replayed[c]
                BY <3>1, <4>1
            <4>2. CASE \A f \in Range(queue[c]) : got[c][i].s < f.s
                <5>1. got[c][i].s < e.s
                    BY <1>3, <4>2
                <5> QED BY <1>3, <5>1, EventFields
            <4> QED BY <1>2, <4>1, <4>2 DEF Stream
        <3>3. Sent(c)' = Sent(c) \cup {Len(got[c]) + 1} /\ Sent(c) \subseteq 1..Len(got[c])
            BY <1>5, <1>6, <2>0, <2>2 DEF Sent
        <3>4. \A i \in Sent(c) : got'[c][i] = got[c][i]
            BY <1>5, <1>6, <2>2, <3>3
        <3>5. got'[c][Len(got[c]) + 1] = e
            BY <1>5, <1>6, <2>2
        <3>6. ASSUME NEW i \in Sent(c)', NEW j \in Sent(c)', got'[c][i] = got'[c][j] PROVE i = j
            BY <1>2, <3>2, <3>3, <3>4, <3>5, <3>6 DEF Stream
        <3>7. ASSUME NEW i \in Sent(c)'
              PROVE  \/ got'[c][i] \in replayed[c]
                     \/ got'[c][i] \in published /\ \A f \in Range(Tail(queue[c])) : got'[c][i].s < f.s
            <4>1. CASE i \in Sent(c)
                BY <1>2, <1>3, <3>4, <4>1 DEF Stream
            <4>2. CASE i = Len(got[c]) + 1
                BY <1>3, <1>7, <3>5, <4>2 DEF Before
            <4> QED BY <3>3, <4>1, <4>2
        <3>8. from[c] <= Len(got'[c])
            BY <1>5, <1>6, <2>0, <2>2
        <3> QED BY <1>2, <1>4, <1>11, <2>0, <3>6, <3>7, <3>8 DEF Stream
    <2> QED BY <2>1, <2>2
<1>14. ASSUME ~failed' PROVE CleanStore /\ CleanStream(c)' /\ \A d \in Clients : CleanStream(d)
    <2>1. CleanStore /\ CleanStream(c) /\ \A d \in Clients : CleanStream(d)
        BY <1>1, <1>14 DEF CleanInv
    <2>2. Told(c) \subseteq Told(c)' /\ (~Overlap(c, e) => e \in Told(c)')
        BY <1>1, <1>5, <1>6 DEF Told
    <2>3. Exact(e)
        BY <1>7, <2>1 DEF CleanStore
    <2>4. published \subseteq Told(c) \cup Range(queue[c])
        BY <1>1, <2>1 DEF CleanStream
    <2>5. e \in Told(c)'
        <3>1. CASE ~Overlap(c, e)
            BY <2>2, <3>1
        <3>2. CASE Overlap(c, e)
            <4>1. e.n <= highWater[c] /\ e.s = e.n
                BY <2>3, <3>2 DEF Overlap, Exact, Numeric
            <4>2. e.at \in Replicas /\ e \in Due(e.at)
                BY <1>3, <1>7, EventFields DEF Due
            <4> QED BY <2>1, <2>2, <4>1, <4>2 DEF CleanStream
        <3> QED BY <3>1, <3>2
    <2>6. published' \subseteq Told(c)' \cup Range(queue'[c])
        BY <1>3, <1>4, <1>11, <2>2, <2>4, <2>5
    <2>7. ASSUME got'[c] # <<>>, NEW r \in Replicas, NEW f \in Due(r), f.s <= Last(got'[c]).s PROVE f \in Told(c)'
        <3>1. CASE Overlap(c, e)
            BY <1>5, <2>1, <2>2, <2>7, <3>1 DEF CleanStream
        <3>2. CASE ~Overlap(c, e)
            <4>1. f.s <= e.s
                BY <1>5, <1>6, <2>7, <3>2
            <4>2. f \in Event /\ Exact(f)
                BY <1>0, <2>1, InRange DEF CleanStore, CleanReplica, Due, StoreType
            <4>3. f \in published
                <5>1. ASSUME f \notin published PROVE Before(e, f)
                    BY <1>7, <5>1 DEF Due, OrderInv, StoreOrder, ReplicaOrder
                <5>2. ~Before(e, f)
                    BY <1>3, <4>1, <4>2, EventFields DEF Before
                <5> QED BY <5>1, <5>2
            <4>4. CASE f \in Told(c) \/ f = e
                BY <2>2, <2>5, <4>4
            <4>5. ASSUME f \in Range(Tail(queue[c])) PROVE FALSE
                BY <1>3, <4>1, <4>2, <4>5, EventFields DEF Before
            <4> QED BY <1>3, <2>4, <4>3, <4>4, <4>5
        <3> QED BY <3>1, <3>2
    <2>8. \A f \in Range(got'[c]) : Exact(f)
        BY <1>5, <1>6, <2>1, <2>3 DEF CleanStream
    <2>9. \A r \in Replicas : \A f \in Due(r) : f.s <= highWater[c] => f \in Told(c)'
        BY <2>1, <2>2 DEF CleanStream
    <2>10. CleanStream(c)'
        BY <1>1, <1>11, <2>1, <2>6, <2>7, <2>8, <2>9 DEF CleanStream
    <2> QED BY <2>1, <2>10
<1>15. OrderInv'
    BY <1>1, <1>8, <1>12, StoreKept, ClientKept DEF OrderInv
<1>16. StreamInv'
    BY <1>1, <1>8, <1>13, ClientKept DEF StreamInv
<1>17. CleanInv'
    <2> SUFFICES ASSUME ~failed' PROVE CleanStore' /\ \A d \in Clients : CleanStream(d)'
        BY DEF CleanInv
    <2> QED BY <1>1, <1>8, <1>14, StoreKept, ClientKept
<1> QED BY <1>9, <1>10, <1>15, <1>16, <1>17

\* A step that moves client d on, or drops its stream, and publishes nothing.
MovesClient(d) ==
    /\ queue'[d] \in {queue[d], <<>>}
    /\ pc'[d] = "reading" => pc[d] = "reading"
    /\ ~failed' /\ pc'[d] \in {"subscribing", "live"} =>
          pc[d] \in {"subscribing", "live"} /\ queue'[d] = queue[d]

\* A client that moves on, or off, keeps its part.
LEMMA ClientMoved ==
    ASSUME ClientType, NEW d \in Clients, MovesClient(d), ClientOrder(d), Stream(d),
           UNCHANGED <<pushed, counter, published, got, from, replayed, highWater, excused, window>>,
           \A r \in Replicas : Due(r)' \subseteq Due(r)
    PROVE  /\ ClientOrder(d)' /\ Stream(d)'
           /\ ~failed' /\ CleanStream(d) => CleanStream(d)'
<1>0. Range(<<>>) = {} /\ Rising(<<>>)
    BY DEF Range, Rising
<1>1. \A e : Issued(e)' <=> Issued(e)
    BY DEF Issued
<1>2. Range(queue'[d]) \subseteq Range(queue[d]) /\ (Rising(queue[d]) => Rising(queue'[d]))
    BY <1>0 DEF MovesClient
<1>3. ClientOrder(d)'
    BY <1>1, <1>2 DEF ClientOrder
<1>4. Sent(d)' = Sent(d)
    BY DEF Sent
<1>5. Stream(d)'
    BY <1>2, <1>4 DEF Stream, MovesClient
<1>6. Told(d)' = Told(d)
    BY DEF Told
<1>7. ASSUME ~failed', CleanStream(d) PROVE CleanStream(d)'
    <2>1. pc'[d] \in {"subscribing", "live"} => published \subseteq Told(d) \cup Range(queue'[d])
        BY <1>7 DEF CleanStream, MovesClient
    <2> QED BY <1>6, <1>7, <2>1 DEF CleanStream
<1> QED BY <1>3, <1>5, <1>7

\* Subscribing, aborting and finishing.
LEMMA MoveKeeps ==
    ASSUME TypeOK, OrderInv, StreamInv, CleanInv, NEW c \in Clients,
           Subscribe(c) \/ SubscribeFails(c) \/ Abort(c) \/ Finish(c)
    PROVE  StoreType' /\ ClientType' /\ OrderInv' /\ StreamInv' /\ CleanInv'
<1>0. StoreType /\ ClientType
    BY TypeParts
<1>1. /\ SameStore
      /\ UNCHANGED <<pushed, counter, published, got, from, replayed, highWater, excused, window, at>>
    BY DEF SameStore, Subscribe, SubscribeFails, Abort, Finish, Cleanup, store, conn, ghost
<1>2. \/ pc[c] = "subscribing" /\ pc' = [pc EXCEPT ![c] = "live"] /\ queue' = queue /\ failed' = failed
      \/ pc' = [pc EXCEPT ![c] = "deaf"] /\ queue' = queue /\ failed' = TRUE
      \/ pc' = pc /\ queue' = queue /\ failed' = failed
      \/ pc' = [pc EXCEPT ![c] = "off"] /\ queue' = [queue EXCEPT ![c] = <<>>] /\ failed' = failed
    BY DEF Subscribe, SubscribeFails, Abort, Finish, Cleanup
<1>3. pc \in [Clients -> PCs] /\ queue \in [Clients -> Seq(Event)]
    BY <1>0 DEF ClientType
<1>4. ASSUME NEW d \in Clients PROVE MovesClient(d)
    BY <1>2, <1>3 DEF MovesClient
<1>5. ClientType'
    <2>1. <<>> \in Seq(Event)
        OBVIOUS
    <2>2. pc' \in [Clients -> PCs] /\ queue' \in [Clients -> Seq(Event)]
        BY <1>2, <1>3, <2>1 DEF PCs
    <2> QED BY <1>0, <1>1, <2>2 DEF ClientType
<1>6. \A r \in Replicas : Due(r)' \subseteq Due(r)
    BY <1>1, StoreKept
<1>7. \A d \in Clients : /\ ClientOrder(d)' /\ Stream(d)' /\ (~failed' /\ CleanStream(d) => CleanStream(d)')
    BY <1>0, <1>1, <1>4, <1>6, ClientMoved DEF OrderInv, StreamInv
<1>8. ~failed' => ~failed
    BY <1>2
<1>9. CleanInv'
    BY <1>1, <1>7, <1>8, StoreKept DEF CleanInv
<1> QED BY <1>0, <1>1, <1>5, <1>7, <1>9, StoreKept DEF OrderInv, StreamInv

\* A restart drops what was not published, and every stream.
LEMMA RestartKeeps ==
    ASSUME TypeOK, OrderInv, StreamInv, CleanInv, OneReplica, NEW r \in Replicas, Restart(r)
    PROVE  StoreType' /\ ClientType' /\ OrderInv' /\ StreamInv' /\ CleanInv'
<1>0. StoreType /\ ClientType
    BY TypeParts
<1>1. /\ mem' = [mem EXCEPT ![r] = <<>>] /\ pending' = [pending EXCEPT ![r] = <<>>]
      /\ publishing' = [publishing EXCEPT ![r] = {}]
      /\ pc' = [c \in Clients |-> IF at[c] = r THEN "off" ELSE pc[c]]
      /\ queue' = [c \in Clients |-> IF at[c] = r THEN <<>> ELSE queue[c]]
      /\ UNCHANGED <<pushed, counter, ring, published, at, highWater, replayed, got, from, excused, window, failed>>
    BY DEF Restart, conn, ghost
<1>2. mem'[r] = <<>> /\ pending'[r] = <<>> /\ publishing'[r] = {}
    BY <1>0, <1>1 DEF StoreType
<1>3. Range(<<>>) = {} /\ Rising(<<>>) /\ <<>> \in Seq(Event)
    BY DEF Range, Rising
<1>4. StoreType'
    BY <1>0, <1>1, <1>3 DEF StoreType
<1>5. ClientType'
    <2>1. pc' \in [Clients -> PCs]
        BY <1>0, <1>1 DEF ClientType, PCs
    <2>2. queue' \in [Clients -> Seq(Event)]
        BY <1>0, <1>1, <1>3 DEF ClientType
    <2> QED BY <1>0, <1>1, <2>1, <2>2 DEF ClientType
<1>6. \A e : Issued(e)' <=> Issued(e)
    BY <1>1 DEF Issued
<1>7. StoreOrder'
    <2>1. ReplicaOrder(r)'
        BY <1>2, <1>3 DEF ReplicaOrder
    <2>2. \A q \in Replicas : ReplicaOrder(q)'
        BY <2>1 DEF OneReplica
    <2> QED BY <1>1, <1>6, <2>2 DEF OrderInv, StoreOrder
<1>8. Due(r)' = published
    BY <1>1, <1>2, <1>3 DEF Due
<1>9. \A q \in Replicas : Due(q)' \subseteq Due(q)
    BY <1>8 DEF OneReplica, Due
<1>10. \A d \in Clients : MovesClient(d)
    BY <1>0, <1>1 DEF MovesClient, ClientType
<1>11. \A d \in Clients : /\ ClientOrder(d)' /\ Stream(d)' /\ (~failed' /\ CleanStream(d) => CleanStream(d)')
    BY <1>0, <1>1, <1>9, <1>10, ClientMoved DEF OrderInv, StreamInv
<1>12. CleanStore => CleanStore'
    <2> SUFFICES ASSUME CleanStore PROVE CleanStore'
        OBVIOUS
    <2>1. CleanReplica(r)'
        BY <1>2, <1>3, <1>8 DEF CleanReplica, CleanStore
    <2>2. \A q \in Replicas : CleanReplica(q)'
        BY <2>1 DEF OneReplica
    <2> QED BY <1>1, <2>2 DEF CleanStore
<1>13. CleanInv'
    BY <1>1, <1>11, <1>12 DEF CleanInv
<1> QED BY <1>4, <1>5, <1>7, <1>11, <1>13 DEF OrderInv, StreamInv

\* The gauge, the flags and the counts keep their types.
LEMMA GaugeTyped ==
    ASSUME TypeOK, NEW c \in Clients, NEW r \in Replicas,
           \/ Connect(c, r) \/ ReadRing(c) \/ ReadRingFails(c) \/ Subscribe(c) \/ SubscribeFails(c)
           \/ Deliver(c) \/ Abort(c) \/ Finish(c) \/ Restart(r)
    PROVE  GaugeType'
<1>0. GaugeType /\ at[c] \in Replicas
    BY TypeParts DEF TypeOK
<1>1. CASE Connect(c, r)
    BY <1>0, <1>1 DEF Connect, GaugeType
<1>2. CASE ReadRing(c)
    BY <1>0, <1>2 DEF ReadRing, GaugeType
<1>3. CASE ReadRingFails(c)
    BY <1>0, <1>3 DEF ReadRingFails, GaugeType
<1>4. CASE Subscribe(c)
    BY <1>0, <1>4 DEF Subscribe, GaugeType, ghost
<1>5. CASE SubscribeFails(c)
    BY <1>0, <1>5 DEF SubscribeFails, GaugeType, ghost
<1>6. CASE Deliver(c)
    BY <1>0, <1>6 DEF Deliver, GaugeType, ghost
<1>7. CASE Abort(c) \/ Finish(c)
    <2>1. Max({0, connected[at[c]] - 1}) \in Nat
        BY <1>0, MaxType DEF GaugeType
    <2>2. connected' \in [Replicas -> Nat]
        BY <1>0, <1>7, <2>1 DEF Abort, Finish, Cleanup, GaugeType
    <2>3. closed' \in [Clients -> BOOLEAN] /\ UNCHANGED <<opened, failed, degraded>>
        BY <1>0, <1>7 DEF Abort, Finish, Cleanup, GaugeType, ghost
    <2> QED BY <1>0, <2>2, <2>3 DEF GaugeType
<1>8. CASE Restart(r)
    BY <1>0, <1>8 DEF Restart, GaugeType, ghost
<1> QED BY <1>1, <1>2, <1>3, <1>4, <1>5, <1>6, <1>7, <1>8

\* No events and no streams, at first.
LEMMA StreamsInit == OneReplica /\ Init => DeliveryInv
<1> SUFFICES ASSUME Init PROVE DeliveryInv
    OBVIOUS
<1>0. Range(<<>>) = {} /\ Rising(<<>>)
    BY DEF Range, Rising
<1>1. OrderInv
    BY <1>0 DEF Init, OrderInv, StoreOrder, ReplicaOrder, ClientOrder
<1>2. StreamInv
    <2> SUFFICES ASSUME NEW c \in Clients PROVE Stream(c)
        BY DEF StreamInv
    <2>1. got[c] = <<>> /\ from[c] = 0 /\ replayed[c] = {} /\ Len(<<>>) = 0
        BY DEF Init
    <2>2. Sent(c) = {}
        BY <2>1 DEF Sent
    <2> QED BY <2>1, <2>2 DEF Stream
<1>3. CleanStore
    BY <1>0 DEF Init, CleanStore, CleanReplica, Due
<1>4. \A c \in Clients : CleanStream(c)
    BY <1>0 DEF Init, CleanStream, Due
<1> QED BY <1>1, <1>2, <1>3, <1>4, TypeInit DEF DeliveryInv, CleanInv

\* Every step keeps the invariant: the three properties need all of its parts at once.
LEMMA StreamsStep ==
    ASSUME OneReplica, DeliveryInv, [Next]_vars
    PROVE  DeliveryInv'
<1>0. TypeOK /\ OrderInv /\ StreamInv /\ CleanInv
    BY DEF DeliveryInv
<1>1. ASSUME NEW r \in Replicas, PushEvent(r) \/ PushEventDegraded(r) PROVE DeliveryInv'
    BY <1>0, <1>1, PushType, PushKeeps DEF DeliveryInv
<1>2. ASSUME NEW r \in Replicas, Store(r) PROVE DeliveryInv'
    BY <1>0, <1>2, StoreTyped, StoreKeeps DEF DeliveryInv
<1>3. ASSUME NEW r \in Replicas, Publish(r) PROVE DeliveryInv'
    BY <1>0, <1>3, PublishTyped, PublishKeeps DEF DeliveryInv
<1>t. StoreType' /\ ClientType' /\ GaugeType' => TypeOK'
    BY DEF TypeOK, StoreType, ClientType, GaugeType
<1>4. ASSUME NEW c \in Clients, NEW r \in Replicas, Connect(c, r) PROVE DeliveryInv'
    BY <1>0, <1>4, <1>t, ConnectEffect, AnswersKeeps, OpensKeeps, GaugeTyped DEF DeliveryInv
<1>5. ASSUME NEW c \in Clients, ReadRing(c) \/ ReadRingFails(c) \/ Subscribe(c) \/ SubscribeFails(c)
                                \/ Deliver(c) \/ Abort(c) \/ Finish(c) PROVE DeliveryInv'
    <2>1. at[c] \in Replicas
        BY <1>0 DEF TypeOK
    <2>2. GaugeType'
        BY <1>0, <1>5, <2>1, GaugeTyped
    <2>3. CASE ReadRing(c) \/ ReadRingFails(c)
        BY <1>0, <1>t, <2>2, <2>3, ReadRingEffect, ReadRingFailsEffect, AnswersKeeps DEF DeliveryInv
    <2>4. CASE Deliver(c)
        BY <1>0, <1>t, <2>2, <2>4, DeliverKeeps DEF DeliveryInv
    <2>5. CASE Subscribe(c) \/ SubscribeFails(c) \/ Abort(c) \/ Finish(c)
        BY <1>0, <1>t, <2>2, <2>5, MoveKeeps DEF DeliveryInv
    <2> QED BY <1>5, <2>3, <2>4, <2>5
<1>6. ASSUME NEW r \in Replicas, Restart(r) PROVE DeliveryInv'
    <2>1. StoreType' /\ ClientType' /\ OrderInv' /\ StreamInv' /\ CleanInv'
        BY <1>0, <1>6, RestartKeeps
    <2>2. GaugeType'
        BY <1>0, <1>6, TypeParts DEF Restart, GaugeType, ghost
    <2> QED BY <1>t, <2>1, <2>2 DEF DeliveryInv
<1>7. CASE UNCHANGED vars
    <2>1. SameStore /\ UNCHANGED <<pc, queue, got, at, highWater, replayed, from, excused, window, opened, failed,
                                   degraded, connected, closed>>
        BY <1>7 DEF vars, store, conn, ghost, SameStore
    <2>2. \A d \in Clients : SameClient(d)
        BY <2>1 DEF SameClient
    <2>3. TypeOK'
        BY <1>0, <2>1 DEF TypeOK, SameStore
    <2>4. OrderInv' /\ StreamInv' /\ CleanInv'
        BY <1>0, <2>1, <2>2, StoreKept, ClientKept DEF OrderInv, StreamInv, CleanInv
    <2> QED BY <2>3, <2>4 DEF DeliveryInv
<1> QED BY <1>1, <1>2, <1>3, <1>4, <1>5, <1>6, <1>7 DEF Next

LEMMA Offset ==
    ASSUME NEW f \in Nat, NEW l \in Nat, f <= l, NEW k \in 1..(l - (f + 1) + 1)
    PROVE  f + 1 + k - 1 \in (f + 1)..l
OBVIOUS

\* The invariant says what the three properties say.
LEMMA StreamsSafe == DeliveryInv => NoOverlap /\ RetainedCursorReplayed /\ LostOnlyInWindow
<1> SUFFICES ASSUME DeliveryInv PROVE NoOverlap /\ RetainedCursorReplayed /\ LostOnlyInWindow
    OBVIOUS
<1>1. ASSUME NEW c \in Clients PROVE IsInjective(Received(c))
    <2>1. got[c] \in Seq(Event) /\ from[c] \in Nat /\ from[c] <= Len(got[c]) /\ Len(got[c]) \in Nat
        BY DEF DeliveryInv, TypeOK, StreamInv, Stream
    <2>2. from[c] + 1 \in 1..(Len(got[c]) + 1)
        BY <2>1
    <2> DEFINE t == SubSeq(got[c], from[c] + 1, Len(got[c]))
    <2>3. t \in Seq(Event) /\ Len(t) = Len(got[c]) - (from[c] + 1) + 1
          /\ \A i \in 1..Len(t) : t[i] = got[c][from[c] + 1 + i - 1]
        BY <2>1, <2>2, SuffixFacts
    <2> HIDE DEF t
    <2>4. ASSUME NEW a \in 1..Len(t), NEW b \in 1..Len(t), t[a] = t[b] PROVE a = b
        <3>1. from[c] + 1 + a - 1 \in Sent(c) /\ from[c] + 1 + b - 1 \in Sent(c)
            <4>1. \A k \in 1..Len(t) : from[c] + 1 + k - 1 \in (from[c] + 1)..Len(got[c])
                BY <2>1, <2>3, Offset
            <4> QED BY <4>1 DEF Sent
        <3>2. got[c][from[c] + 1 + a - 1] = got[c][from[c] + 1 + b - 1]
            BY <2>3, <2>4
        <3>3. from[c] + 1 + a - 1 = from[c] + 1 + b - 1
            BY <3>1, <3>2 DEF DeliveryInv, StreamInv, Stream
        <3> QED BY <2>1, <2>3, <3>3
    <2>5. DOMAIN t = 1..Len(t)
        BY <2>3
    <2>6. IsInjective(t)
        BY <2>4, <2>5 DEF IsInjective
    <2> QED BY <2>6 DEF Received, t
<1>2. ASSUME ~failed, NEW c \in Clients, pc[c] \in {"subscribing", "live"} PROVE Missing(c) \subseteq window[c]
    <2>1. published \subseteq Told(c) \cup Range(queue[c])
        BY <1>2 DEF DeliveryInv, CleanInv, CleanStream
    <2> QED BY <2>1 DEF Missing, Told
<1> QED BY <1>1, <1>2 DEF NoOverlap, RetainedCursorReplayed, LostOnlyInWindow

\* The inductive invariant holds of a portal with one replica.
LEMMA StreamsAlways == OneReplica => (Spec => []DeliveryInv)
<1> SUFFICES ASSUME OneReplica PROVE Spec => []DeliveryInv
    OBVIOUS
<1>1. Init => DeliveryInv
    BY StreamsInit
<1>2. DeliveryInv /\ [Next]_vars => DeliveryInv'
    BY StreamsStep
<1> QED BY <1>1, <1>2, PTL DEF Spec

\* Every variable of the stream model keeps its type (pushEvent, both rings, the SSE route).
THEOREM StreamsTyped == OneReplica => (Spec => []TypeOK)
<1> SUFFICES ASSUME OneReplica PROVE Spec => []TypeOK
    OBVIOUS
<1>1. Spec => []DeliveryInv
    BY StreamsAlways
<1>2. DeliveryInv => TypeOK
    BY DEF DeliveryInv
<1> QED BY <1>1, <1>2, PTL

\* A stream of a portal with one replica sends no event twice (the filters of the SSE
\* route against replayHighWaterId and replayedIds), for any clients, ring sizes and
\* failures, although replayed events may be published after the stream subscribed.
THEOREM SentOnce == OneReplica => (Spec => []NoOverlap)
<1> SUFFICES ASSUME OneReplica PROVE Spec => []NoOverlap
    OBVIOUS
<1>1. Spec => []DeliveryInv
    BY StreamsAlways
<1> QED BY <1>1, StreamsSafe, PTL

\* While Valkey answers, a client of a portal with one replica that has its replay misses no
\* published event without a notice, but those of its window (replayAfter): a cursor is
\* replayed in full from either ring, or reported, across restarts and ring rotation.
THEOREM CursorsReplayed == OneReplica => (Spec => []RetainedCursorReplayed)
<1> SUFFICES ASSUME OneReplica PROVE Spec => []RetainedCursorReplayed
    OBVIOUS
<1>1. Spec => []DeliveryInv
    BY StreamsAlways
<1> QED BY <1>1, StreamsSafe, PTL

\* While Valkey answers, a live client of a portal with one replica misses no published event
\* but those published between its snapshot and its SUBSCRIBE (subscribeLiveWithReplay and
\* the SSE route's filter): neither replay nor filter loses any.
THEOREM LossOnlyInWindow == OneReplica => (Spec => []LostOnlyInWindow)
<1> SUFFICES ASSUME OneReplica PROVE Spec => []LostOnlyInWindow
    OBVIOUS
<1>1. Spec => []DeliveryInv
    BY StreamsAlways
<1> QED BY <1>1, StreamsSafe, PTL
===============================================================================
