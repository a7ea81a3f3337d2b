---------------------------- MODULE InformerProofs ----------------------------
(***************************************************************************)
(* Machine-checked proofs about the Kubernetes event informer of module     *)
(* Informer, for any number of replicas, events, failures and crashes, any  *)
(* lease lifetime and any renewal delay below it.                           *)
(***************************************************************************)
EXTENDS Informer, SequenceTheorems, TLAPS

---------------------------------------------------------------------------
(* The inductive invariants.                                                *)

\* leaseHeld is only set between the acquisition and the finally block.
HeldInLoop == \A r \in Replicas :
    held[r] => pc[r] \in {"list", "resync", "watch", "read", "backoff", "release", "leave"}

\* A replica that watches under the lease has its own token in Valkey, and the
\* key has lost no more of its lifetime than the replica's renewal is late.
LeaseBacked == \A r \in Replicas :
    /\ Renewing(r) => due[r] <= RenewDelay
    /\ Watching(r) => leaseOwner = r /\ leaseTTL + due[r] >= LeaseTTL

LeaseInv == HeldInLoop /\ LeaseBacked

\* While Valkey answers, an event that is being pushed, or was, is claimed, and
\* its only claimant pushes it once.
ClaimInv == outages = 0 =>
    /\ \A r \in Replicas : inflight[r] # 0 => inflight[r] \in claimed /\ pushes[inflight[r]] = 0
    /\ \A r, s \in Replicas : inflight[r] # 0 /\ inflight[r] = inflight[s] => r = s
    /\ \A e \in Events : pushes[e] <= 1 /\ (pushes[e] > 0 => e \in claimed)

\* An event is accounted for: pushed, lost with its claimant, or being pushed.
Covered(e) == pushes[e] > 0 \/ e \in dropped \/ \E s \in Replicas : inflight[s] = e

\* Whatever a store refuses has been accounted for.
RefusedCovered ==
    /\ \A e \in claimed : Covered(e)
    /\ \A r \in Replicas : \A e \in local[r] : Covered(e)

\* Where the buffered events of a replica lie: after the cursor, in a watch; at the
\* end of the snapshot, whose first part has been accounted for, in a relist.
BufferPlaced(r) ==
    /\ pc[r] = "read" => \A i \in DOMAIN buffer[r] : buffer[r][i] = rv[r] + i
    /\ pc[r] = "resync" =>
         /\ target[r] > 0 /\ Len(buffer[r]) <= target[r]
         /\ \A i \in DOMAIN buffer[r] : buffer[r][i] = target[r] - Len(buffer[r]) + i
         /\ \A e \in 1 .. target[r] - Len(buffer[r]) : Covered(e)
    /\ pc[r] \notin {"read", "resync"} => buffer[r] = <<>>

\* A replica without a cursor has no coverage to continue, or a relist is due.
CursorKept(r) ==
    /\ pc[r] = "list" => rv[r] = 0
    /\ origin[r] > 0 => rv[r] > 0 \/ resync[r]

CoveredTo(r) == origin[r] > 0 => \A e \in origin[r] + 1 .. rv[r] : Covered(e)

ReplicaCovered(r) == BufferPlaced(r) /\ CursorKept(r) /\ CoveredTo(r)

CoverInv == RefusedCovered /\ \A r \in Replicas : ReplicaCovered(r)

---------------------------------------------------------------------------
(* Typing, in the groups of variables that the actions name.                *)

LeaseType == leaseOwner \in Replicas \cup {Nobody} /\ leaseTTL \in 0 .. LeaseTTL
FlagType ==
    /\ held \in [Replicas -> BOOLEAN] /\ aborted \in [Replicas -> BOOLEAN]
    /\ wasOwner \in [Replicas -> BOOLEAN] /\ resync \in [Replicas -> BOOLEAN]
LoopType ==
    due \in [Replicas -> Nat] /\ pc \in [Replicas -> PCs] /\ ownerState \in [Replicas -> OwnerStates]
CursorType ==
    /\ rv \in [Replicas -> 0 .. created] /\ target \in [Replicas -> 0 .. created]
    /\ inflight \in [Replicas -> 0 .. created] /\ origin \in [Replicas -> 0 .. created]
BufferType == buffer \in [Replicas -> Seq(1 .. created)]
DedupType ==
    /\ local \in [Replicas -> SUBSET Events]
    /\ claimed \subseteq Events /\ pushes \in [Events -> Nat] /\ dropped \subseteq Events
ClusterType == created \in Events /\ horizon \in 0 .. created
BoundType == faults \in Nat /\ outages \in Nat /\ crashes \in Nat

LEMMA IsSequence ==
    ASSUME NEW S, NEW n \in Nat, NEW f \in [1 .. n -> S]
    PROVE  f \in Seq(S)
BY SeqDef

LEMMA TypeParts ==
    TypeOK <=> /\ LeaseType /\ FlagType /\ LoopType /\ CursorType
               /\ BufferType /\ DedupType /\ ClusterType /\ BoundType
BY DEF TypeOK, LeaseType, FlagType, LoopType, CursorType, BufferType, DedupType, ClusterType,
       BoundType

LEMMA TypePartsNext ==
    TypeOK' <=> /\ LeaseType' /\ FlagType' /\ LoopType' /\ CursorType'
                /\ BufferType' /\ DedupType' /\ ClusterType' /\ BoundType'
BY DEF TypeOK, LeaseType, FlagType, LoopType, CursorType, BufferType, DedupType, ClusterType,
       BoundType

\* A group whose variables stay the same stays well-formed.
LEMMA TypeKept ==
    ASSUME TypeOK
    PROVE  /\ UNCHANGED lease => LeaseType'
           /\ UNCHANGED <<held, aborted, wasOwner, resync>> => FlagType'
           /\ UNCHANGED <<due, pc, ownerState>> => LoopType'
           /\ UNCHANGED <<rv, target, inflight, origin, created>> => CursorType'
           /\ UNCHANGED <<buffer, created>> => BufferType'
           /\ UNCHANGED dedup => DedupType'
           /\ UNCHANGED cluster => ClusterType'
           /\ UNCHANGED bounds => BoundType'
BY TypeParts DEF LeaseType, FlagType, LoopType, CursorType, BufferType, DedupType, ClusterType,
       BoundType, lease, dedup, cluster, bounds

LEMMA SeqMonotone ==
    ASSUME NEW S, NEW T, S \subseteq T
    PROVE  Seq(S) \subseteq Seq(T)
OBVIOUS

LEMMA TypeInit == Init => TypeOK
<1> SUFFICES ASSUME Init PROVE TypeOK
  OBVIOUS
<1>1. LeaseType /\ FlagType /\ BoundType
  BY LeaseAssumption DEF Init, LeaseType, FlagType, BoundType
<1>2. LoopType /\ CursorType /\ BufferType
  BY DEF Init, LoopType, CursorType, BufferType, PCs, OwnerStates
<1>3. DedupType /\ ClusterType
  BY InformerBounds DEF Init, DedupType, ClusterType, Events
<1> QED BY <1>1, <1>2, <1>3, TypeParts

\* Taking an event off the buffer: the rest is a buffer, and the event exists.
LEMMA TakeType ==
    ASSUME TypeOK, NEW r \in Replicas, Take(r)
    PROVE  /\ Head(buffer[r]) \in 1 .. created /\ Head(buffer[r]) \in Events
           /\ buffer' \in [Replicas -> Seq(1 .. created)]
           /\ rv' \in [Replicas -> 0 .. created]
<1>1. buffer[r] \in Seq(1 .. created) /\ buffer[r] # <<>>
  BY DEF TypeOK, Take
<1>2. Head(buffer[r]) \in 1 .. created /\ Tail(buffer[r]) \in Seq(1 .. created)
  BY <1>1, HeadTailProperties
<1>3. Head(buffer[r]) \in Events /\ Head(buffer[r]) \in 0 .. created
  <2>1. created \in Events
    BY DEF TypeOK
  <2> QED BY <1>2, <2>1, InformerBounds DEF Events
<1>4. buffer' \in [Replicas -> Seq(1 .. created)]
  BY <1>2, TypeParts DEF Take, BufferType
<1>5. rv' \in [Replicas -> 0 .. created]
  BY <1>3, TypeParts DEF Take, CursorType
<1> QED BY <1>2, <1>3, <1>4, <1>5

\* Every step keeps the state well-formed.
LEMMA TypeStep ==
    ASSUME TypeOK, [Next]_vars
    PROVE  TypeOK'
<1> USE TypeKept, TypePartsNext
        DEF loop, cursor, Goto, Say
<1>0. /\ created \in Nat /\ created \in 0 .. created /\ 0 \in 0 .. created
      /\ LeaseTTL \in 0 .. LeaseTTL /\ 0 \in 0 .. LeaseTTL
      /\ leaseOwner \in Replicas \cup {Nobody} /\ leaseTTL \in 0 .. LeaseTTL
  BY TypeParts, LeaseAssumption, InformerBounds DEF ClusterType, LeaseType, Events
<1>1. ASSUME NEW r \in Replicas,
             Start(r) \/ Wake(r) \/ RequestAborted(r) \/ Sleep(r) \/ WatchOpens(r)
               \/ WatchErrorEvent(r) \/ ReadEnds(r)
      PROVE  TypeOK'
  <2>1. LoopType'
    BY <1>1, TypeParts DEF LoopType, PCs, Start, Wake, RequestAborted, Sleep, WatchOpens,
                           WatchErrorEvent, ReadEnds
  <2> QED BY <1>1, <2>1 DEF Start, Wake, RequestAborted, Sleep, WatchOpens, WatchErrorEvent, ReadEnds,
              cluster
<1>18. ASSUME NEW r \in Replicas, RequestFails(r)
       PROVE  TypeOK'
  <2>1. LoopType' /\ BoundType'
    BY <1>18, TypeParts DEF LoopType, BoundType, PCs, RequestFails, ApiFails
  <2> QED BY <1>18, <2>1 DEF RequestFails, cluster
<1>2. ASSUME NEW r \in Replicas, Acquire(r)
      PROVE  TypeOK'
  <2>1. LeaseType'
    BY <1>0, <1>2 DEF Acquire, LeaseType
  <2>2. FlagType'
    BY <1>2, TypeParts DEF Acquire, Enter, FlagType
  <2>3. LoopType'
    BY <1>2, TypeParts DEF Acquire, Enter, LoopType, PCs, OwnerStates
  <2>4. CursorType'
    BY <1>0, <1>2, TypeParts DEF Acquire, Enter, CursorType, cluster
  <2> QED BY <1>2, <2>1, <2>2, <2>3, <2>4 DEF Acquire, cluster
<1>3. ASSUME NEW r \in Replicas, Standby(r)
      PROVE  TypeOK'
  <2>1. LeaseType' /\ FlagType'
    BY <1>3, TypeParts DEF Standby, LeaseType, FlagType
  <2>2. LoopType'
    BY <1>3, TypeParts DEF Standby, LoopType, PCs, OwnerStates
  <2>3. CursorType'
    BY <1>0, <1>3, TypeParts DEF Standby, CursorType, cluster
  <2> QED BY <1>3, <2>1, <2>2, <2>3 DEF Standby, cluster
<1>4. ASSUME NEW r \in Replicas, Fallback(r)
      PROVE  TypeOK'
  <2>1. LeaseType'
    BY <1>0, <1>4 DEF Fallback, LeaseType
  <2>2. FlagType' /\ BoundType'
    BY <1>4, TypeParts DEF Fallback, Enter, FlagType, BoundType, ValkeyFails
  <2>3. LoopType'
    BY <1>4, TypeParts DEF Fallback, Enter, LoopType, PCs, OwnerStates
  <2>4. CursorType'
    BY <1>0, <1>4, TypeParts DEF Fallback, Enter, CursorType, cluster
  <2> QED BY <1>4, <2>1, <2>2, <2>3, <2>4 DEF Fallback, cluster
<1>5. ASSUME NEW r \in Replicas, Renew(r) \/ RenewFails(r)
      PROVE  TypeOK'
  <2>1. LeaseType'
    BY <1>0, <1>5 DEF Renew, RenewFails, LeaseType
  <2>2. FlagType'
    BY <1>5, TypeParts DEF Renew, RenewFails, FlagType
  <2>3. LoopType'
    BY <1>5, TypeParts DEF Renew, RenewFails, LoopType, OwnerStates
  <2>4. BoundType'
    BY <1>5, TypeParts DEF Renew, RenewFails, BoundType, bounds, ValkeyFails
  <2> QED BY <1>5, <2>1, <2>2, <2>3, <2>4 DEF Renew, RenewFails, cluster
<1>6. ASSUME NEW r \in Replicas, Release(r) \/ ReleaseFails(r)
      PROVE  TypeOK'
  <2>1. LeaseType'
    BY <1>0, <1>6 DEF Release, ReleaseFails, LeaseType
  <2>2. FlagType'
    BY <1>6, TypeParts DEF Release, ReleaseFails, Done, FlagType
  <2>3. LoopType'
    BY <1>6, TypeParts DEF Release, ReleaseFails, Done, LoopType, OwnerStates, PCs
  <2>4. BoundType'
    BY <1>6, TypeParts DEF Release, ReleaseFails, BoundType, bounds, ValkeyFails
  <2> QED BY <1>6, <2>1, <2>2, <2>3, <2>4 DEF Release, ReleaseFails, cluster
<1>7. ASSUME NEW r \in Replicas, List(r) \/ WatchGone(r) \/ Resynced(r)
      PROVE  TypeOK'
  <2>1. FlagType'
    BY <1>7, TypeParts DEF List, WatchGone, Resynced, FlagType
  <2>2. LoopType'
    BY <1>7, TypeParts DEF List, WatchGone, Resynced, LoopType, PCs
  <2>3. CursorType'
    <3>1. CursorType /\ created' = created /\ created \in 0 .. created
      BY <1>0, <1>7, TypeParts DEF List, WatchGone, Resynced, cluster
    <3>2. PICK v \in 0 .. created : rv' = [rv EXCEPT ![r] = v]
      BY <1>7, <3>1 DEF List, WatchGone, Resynced, CursorType
    <3>3. origin' = origin \/ origin' = [origin EXCEPT ![r] = created]
      BY <1>7 DEF List, WatchGone, Resynced
    <3>4. UNCHANGED <<target, inflight>>
      BY <1>7 DEF List, WatchGone, Resynced
    <3> QED BY <3>1, <3>2, <3>3, <3>4 DEF CursorType
  <2> QED BY <1>7, <2>1, <2>2, <2>3 DEF List, WatchGone, Resynced, cluster
<1>8. ASSUME NEW r \in Replicas, Snapshot(r)
      PROVE  TypeOK'
  <2>1. [i \in 1 .. created |-> i] \in Seq(1 .. created)
    BY <1>0
  <2>2. BufferType'
    BY <1>8, <2>1, TypeParts DEF Snapshot, BufferType, cluster
  <2>3. LoopType' /\ CursorType'
    BY <1>0, <1>8, TypeParts DEF Snapshot, LoopType, CursorType, PCs, cluster
  <2> QED BY <1>8, <2>2, <2>3 DEF Snapshot, cluster
<1>9. ASSUME NEW r \in Replicas, Read(r)
      PROVE  TypeOK'
  <2>1. PICK last \in rv[r] + 1 .. created :
           buffer' = [buffer EXCEPT ![r] = [i \in 1 .. last - rv[r] |-> rv[r] + i]]
    BY <1>9 DEF Read
  <2>2. rv[r] \in 0 .. created
    BY TypeParts DEF CursorType
  <2>3. [i \in 1 .. last - rv[r] |-> rv[r] + i] \in Seq(1 .. created)
    <3>1. /\ last - rv[r] \in Nat
          /\ \A i \in 1 .. last - rv[r] : rv[r] + i \in 1 .. created
      BY <1>0, <2>1, <2>2
    <3>2. [i \in 1 .. last - rv[r] |-> rv[r] + i] \in [1 .. last - rv[r] -> 1 .. created]
      BY <3>1, Zenon
    <3> QED BY <3>1, <3>2, IsSequence
  <2>4. BufferType'
    BY <1>9, <2>1, <2>3, TypeParts DEF Read, BufferType, cluster
  <2> QED BY <1>9, <2>4 DEF Read, cluster
<1>10. ASSUME NEW r \in Replicas, Claim(r)
       PROVE  TypeOK'
  <2>4. Take(r) /\ UNCHANGED <<created, target, origin>>
    BY <1>10 DEF Claim, cluster
  <2>5. Head(buffer[r]) \in 0 .. created
    BY <1>0, <2>4, TakeType
  <2>6. BufferType' /\ rv' \in [Replicas -> 0 .. created]
    BY <2>4, TakeType DEF BufferType
  <2>7. inflight' \in [Replicas -> 0 .. created]
    BY <1>10, <2>5, TypeParts DEF Claim, CursorType
  <2>1. CursorType'
    BY <2>4, <2>6, <2>7, TypeParts DEF CursorType
  <2>2. DedupType'
    BY <1>10, TakeType, TypeParts DEF Claim, DedupType
  <2> QED BY <1>10, <2>1, <2>6, <2>2 DEF Claim
<1>11. ASSUME NEW r \in Replicas, ClaimFallback(r)
       PROVE  TypeOK'
  <2>4. Take(r) /\ UNCHANGED <<created, target, origin>>
    BY <1>11 DEF ClaimFallback, cluster
  <2>5. Head(buffer[r]) \in 0 .. created
    BY <1>0, <2>4, TakeType
  <2>6. BufferType' /\ rv' \in [Replicas -> 0 .. created]
    BY <2>4, TakeType DEF BufferType
  <2>7. inflight' \in [Replicas -> 0 .. created]
    BY <1>11, <2>5, TypeParts DEF ClaimFallback, CursorType
  <2>1. CursorType'
    BY <2>4, <2>6, <2>7, TypeParts DEF CursorType
  <2>2. DedupType'
    BY <1>11, TakeType, TypeParts DEF ClaimFallback, DedupType
  <2>3. BoundType'
    BY <1>11, TypeParts DEF ClaimFallback, ValkeyFails, BoundType
  <2> QED BY <1>11, <2>1, <2>6, <2>2, <2>3 DEF ClaimFallback
<1>12. ASSUME NEW r \in Replicas, Push(r)
       PROVE  TypeOK'
  <2>1. inflight[r] \in Events
    BY <1>12, TypeParts, InformerBounds DEF Push, CursorType, ClusterType, Events
  <2>2. DedupType' /\ CursorType'
    BY <1>0, <1>12, <2>1, TypeParts DEF Push, DedupType, CursorType, cluster
  <2> QED BY <1>12, <2>2 DEF Push, cluster
<1>13. ASSUME NEW r \in Replicas, Crash(r)
       PROVE  TypeOK'
  <2>1. inflight[r] # 0 => inflight[r] \in Events
    BY TypeParts, InformerBounds DEF CursorType, ClusterType, Events
  <2>2. LeaseType' /\ BoundType'
    BY <1>13, TypeParts DEF Crash, LeaseType, BoundType
  <2>3. FlagType'
    BY <1>13, TypeParts DEF Crash, FlagType
  <2>4. LoopType'
    BY <1>13, TypeParts DEF Crash, LoopType, PCs, OwnerStates
  <2>5. CursorType'
    BY <1>0, <1>13, TypeParts DEF Crash, CursorType, cluster
  <2>6. BufferType'
    BY <1>13, TypeParts DEF Crash, BufferType, cluster
  <2>7. DedupType'
    BY <1>13, <2>1, TypeParts DEF Crash, DedupType
  <2> QED BY <1>13, <2>2, <2>3, <2>4, <2>5, <2>6, <2>7 DEF Crash
<1>14. ASSUME Tick
       PROVE  TypeOK'
  <2>1. LeaseType' /\ LoopType'
    BY <1>14, <1>0, LeaseAssumption, TypeParts DEF Tick, LeaseType, LoopType
  <2> QED BY <1>14, <2>1 DEF Tick, cluster
<1>15. ASSUME CreateEvent
       PROVE  TypeOK'
  <2>1. ClusterType' /\ 0 .. created \subseteq 0 .. created' /\ 1 .. created \subseteq 1 .. created'
    BY <1>15, TypeParts, InformerBounds DEF CreateEvent, ClusterType, Events
  <2>2. CursorType'
    BY <1>15, <2>1, TypeParts DEF CreateEvent, CursorType
  <2>3. BufferType'
    BY <1>15, <2>1, SeqMonotone, TypeParts DEF CreateEvent, BufferType
  <2> QED BY <1>15, <2>1, <2>2, <2>3 DEF CreateEvent
<1>16. ASSUME Compact
       PROVE  TypeOK'
  <2>1. ClusterType'
    BY <1>16, TypeParts, InformerBounds DEF Compact, ClusterType, Events
  <2> QED BY <1>16, <2>1 DEF Compact
<1>17. CASE UNCHANGED vars
  BY <1>17 DEF vars, cluster
<1> QED
  BY <1>1, <1>2, <1>3, <1>4, <1>5, <1>6, <1>7, <1>8, <1>9, <1>10, <1>11, <1>12, <1>13,
     <1>14, <1>15, <1>16, <1>17, <1>18
     DEF Next, Loop

\* Typing: in every reachable state every variable of the informer's model holds a
\* value of its kind, and every cursor is a version the API server handed out.
THEOREM InformerTyping == Spec => []TypeOK
BY TypeInit, TypeStep, PTL DEF Spec

---------------------------------------------------------------------------
(* The lease.                                                               *)

LEMMA LeaseInit == Init => LeaseInv
BY DEF Init, LeaseInv, HeldInLoop, LeaseBacked, Renewing, Watching

\* Only the phases of the loop a replica is in, whether it holds the lease and
\* whether its watch is aborted matter to the invariant: a step that moves a
\* replica between the phases in which the renew timer runs, or out of them, and
\* touches neither the lease nor a timer, keeps it.
LEMMA LeaseKept ==
    ASSUME TypeOK, LeaseInv, NEW r \in Replicas,
           UNCHANGED <<lease, held, aborted, due>>,
           \A s \in Replicas : s # r => pc'[s] = pc[s],
           pc'[r] # pc[r] /\ held[r] =>
             /\ pc'[r] \in {"list", "resync", "watch", "read", "backoff", "release", "leave"}
             /\ pc[r] \in {"list", "resync", "watch", "read", "backoff"}
    PROVE  LeaseInv'
<1>1. HeldInLoop'
  BY DEF LeaseInv, HeldInLoop
<1>2. \A s \in Replicas : Renewing(s)' => Renewing(s)
  BY DEF LeaseInv, HeldInLoop, Renewing
<1>3. LeaseBacked'
  BY <1>2 DEF LeaseInv, LeaseBacked, Watching, lease
<1> QED BY <1>1, <1>3 DEF LeaseInv

\* Every step keeps the lease behind whoever watches.
LEMMA LeaseStep ==
    ASSUME TypeOK, LeaseInv, [Next]_vars
    PROVE  LeaseInv'
<1> USE DEF Goto, Say
<1>0. /\ pc \in [Replicas -> PCs] /\ due \in [Replicas -> Nat]
      /\ held \in [Replicas -> BOOLEAN] /\ aborted \in [Replicas -> BOOLEAN]
      /\ leaseTTL \in 0 .. LeaseTTL
  BY TypeParts DEF LoopType, FlagType, LeaseType
<1>1. ASSUME NEW r \in Replicas,
             Start(r) \/ Wake(r) \/ List(r) \/ Snapshot(r) \/ RequestFails(r)
               \/ RequestAborted(r) \/ Sleep(r) \/ WatchOpens(r) \/ WatchGone(r)
               \/ WatchErrorEvent(r) \/ Read(r) \/ ReadEnds(r) \/ Claim(r) \/ ClaimFallback(r)
               \/ Push(r) \/ Resynced(r)
      PROVE  LeaseInv'
  <2>1. UNCHANGED <<lease, held, aborted, due>>
    BY <1>1 DEF loop, Start, Wake, List, Snapshot, RequestFails, RequestAborted, Sleep,
       WatchOpens, WatchGone, WatchErrorEvent, Read, ReadEnds, Claim, ClaimFallback, Push, Resynced
  <2>2. /\ \A s \in Replicas : s # r => pc'[s] = pc[s]
        /\ pc'[r] # pc[r] /\ held[r] =>
             /\ pc'[r] \in {"list", "resync", "watch", "read", "backoff", "release", "leave"}
             /\ pc[r] \in {"list", "resync", "watch", "read", "backoff"}
    BY <1>0, <1>1 DEF loop, LeaseInv, HeldInLoop, Start, Wake, List, Snapshot, RequestFails,
       RequestAborted, Sleep, WatchOpens, WatchGone, WatchErrorEvent, Read, ReadEnds, Claim,
       ClaimFallback, Push, Resynced
  <2> QED BY <2>1, <2>2, LeaseKept
<1>2. ASSUME NEW r \in Replicas, Acquire(r)
      PROVE  LeaseInv'
  <2>1. HeldInLoop'
    BY <1>0, <1>2 DEF Acquire, Enter, LeaseInv, HeldInLoop
  \* The key was gone, so nobody was watching.
  <2>2. \A s \in Replicas : ~ Watching(s)
    BY <1>0, <1>2, LeaseAssumption DEF Acquire, LeaseInv, LeaseBacked, Watching
  <2>3. ASSUME NEW s \in Replicas, s # r
        PROVE  /\ Renewing(s)' => due'[s] <= RenewDelay
               /\ ~ Watching(s)'
    BY <1>0, <1>2, <2>2, <2>3 DEF Acquire, Enter, LeaseInv, LeaseBacked, Watching, Renewing
  <2>4. due'[r] = 0 /\ leaseOwner' = r /\ leaseTTL' = LeaseTTL
    BY <1>0, <1>2 DEF Acquire, Enter
  <2>5. LeaseBacked'
    BY <2>3, <2>4, LeaseAssumption DEF LeaseBacked
  <2> QED BY <2>1, <2>5 DEF LeaseInv
<1>3. ASSUME NEW r \in Replicas, Standby(r)
      PROVE  LeaseInv'
  <2>1. HeldInLoop' /\ ~ held[r]
    BY <1>0, <1>3 DEF Standby, LeaseInv, HeldInLoop
  <2>2. \A s \in Replicas : Renewing(s)' => Renewing(s) /\ s # r
    BY <1>0, <1>3, <2>1 DEF Standby, Renewing
  <2>3. LeaseBacked'
    BY <1>3, <2>2 DEF Standby, LeaseInv, LeaseBacked, Watching
  <2> QED BY <2>1, <2>3 DEF LeaseInv
<1>4. ASSUME NEW r \in Replicas, Fallback(r)
      PROVE  LeaseInv'
  <2>1. HeldInLoop' /\ ~ held[r] /\ ~ held'[r]
    BY <1>0, <1>4 DEF Fallback, Enter, LeaseInv, HeldInLoop
  <2>2. ASSUME NEW s \in Replicas, Renewing(s)'
        PROVE  Renewing(s) /\ s # r /\ due'[s] = due[s] /\ aborted'[s] = aborted[s]
    BY <1>0, <1>4, <2>1, <2>2 DEF Fallback, Enter, Renewing
  \* Valkey ran the failed command only if the key was gone, and then nobody watched.
  <2>3. ASSUME NEW s \in Replicas, Watching(s)'
        PROVE  leaseOwner' = s /\ leaseTTL' = leaseTTL
    <3>1. Watching(s) /\ s # r
      BY <2>2, <2>3 DEF Watching
    <3>2. leaseOwner = s /\ leaseTTL # 0
      BY <1>0, <3>1, LeaseAssumption DEF LeaseInv, LeaseBacked, Watching
    <3> QED BY <1>4, <3>1, <3>2 DEF Fallback
  <2>4. LeaseBacked'
    BY <2>2, <2>3 DEF LeaseInv, LeaseBacked, Watching
  <2> QED BY <2>1, <2>4 DEF LeaseInv
<1>5. ASSUME NEW r \in Replicas, Renew(r) \/ RenewFails(r)
      PROVE  LeaseInv'
  <2>1. HeldInLoop'
    BY <1>5 DEF Renew, RenewFails, LeaseInv, HeldInLoop
  <2>2. \A s \in Replicas : Renewing(s)' <=> Renewing(s)
    BY <1>5 DEF Renew, RenewFails, Renewing
  <2>3. ASSUME NEW s \in Replicas, s # r
        PROVE  /\ due'[s] = due[s] /\ aborted'[s] = aborted[s]
               /\ leaseOwner = s => leaseOwner' = s /\ leaseTTL' = leaseTTL
    BY <1>0, <1>5, <2>3 DEF Renew, RenewFails
  <2>4. /\ due'[r] = 0
        /\ aborted'[r] \/ (leaseOwner' = r /\ leaseTTL' = LeaseTTL)
    BY <1>0, <1>5 DEF Renew, RenewFails
  <2>5. LeaseBacked'
    BY <2>2, <2>3, <2>4, LeaseAssumption DEF LeaseInv, LeaseBacked, Watching
  <2> QED BY <2>1, <2>5 DEF LeaseInv
<1>6. ASSUME NEW r \in Replicas, Release(r) \/ ReleaseFails(r)
      PROVE  LeaseInv'
  <2>1. /\ HeldInLoop' /\ ~ held'[r]
        /\ \A s \in Replicas : s # r => /\ due'[s] = due[s] /\ aborted'[s] = aborted[s]
                                        /\ pc'[s] = pc[s] /\ held'[s] = held[s]
    BY <1>0, <1>6 DEF Release, ReleaseFails, Done, LeaseInv, HeldInLoop
  <2>2. \A s \in Replicas : Renewing(s)' => Renewing(s) /\ s # r
    BY <2>1 DEF Renewing
  <2>3. \A s \in Replicas : s # r /\ leaseOwner = s => leaseOwner' = s /\ leaseTTL' = leaseTTL
    BY <1>6 DEF Release, ReleaseFails
  <2>4. LeaseBacked'
    BY <2>1, <2>2, <2>3 DEF LeaseInv, LeaseBacked, Watching
  <2> QED BY <2>1, <2>4 DEF LeaseInv
<1>7. ASSUME NEW r \in Replicas, Crash(r)
      PROVE  LeaseInv'
  <2>1. /\ HeldInLoop' /\ ~ held'[r]
        /\ \A s \in Replicas : s # r => /\ due'[s] = due[s] /\ aborted'[s] = aborted[s]
                                        /\ pc'[s] = pc[s] /\ held'[s] = held[s]
    BY <1>0, <1>7 DEF Crash, LeaseInv, HeldInLoop
  <2>2. \A s \in Replicas : Renewing(s)' => Renewing(s) /\ s # r
    BY <2>1 DEF Renewing
  <2>3. \A s \in Replicas : s # r /\ leaseOwner = s => leaseOwner' = s /\ leaseTTL' = leaseTTL
    BY <1>7 DEF Crash
  <2>4. LeaseBacked'
    BY <2>1, <2>2, <2>3 DEF LeaseInv, LeaseBacked, Watching
  <2> QED BY <2>1, <2>4 DEF LeaseInv
<1>8. ASSUME Tick
      PROVE  LeaseInv'
  <2>1. HeldInLoop' /\ \A s \in Replicas : Renewing(s)' <=> Renewing(s)
    BY <1>8 DEF Tick, LeaseInv, HeldInLoop, Renewing
  <2>2. ASSUME NEW s \in Replicas, Renewing(s)
        PROVE  due[s] < RenewDelay /\ due'[s] = due[s] + 1
    BY <1>8, <2>2 DEF Tick
  <2>3. ASSUME NEW s \in Replicas, Watching(s)'
        PROVE  leaseOwner' = s /\ leaseTTL' + due'[s] >= LeaseTTL
    <3>1. Watching(s)
      BY <1>8, <2>1, <2>3 DEF Watching, Tick
    <3>2. leaseOwner = s /\ leaseTTL + due[s] >= LeaseTTL /\ Renewing(s)
      BY <3>1 DEF LeaseInv, LeaseBacked, Watching
    <3>3. leaseTTL' = leaseTTL - 1 /\ leaseOwner' = s
      BY <1>0, <1>8, <2>2, <3>2, LeaseAssumption DEF Tick
    <3> QED BY <1>0, <2>2, <3>2, <3>3, LeaseAssumption
  <2>4. LeaseBacked'
    BY <1>0, <2>1, <2>2, <2>3, LeaseAssumption DEF LeaseBacked
  <2> QED BY <2>1, <2>4 DEF LeaseInv
<1>9. CASE CreateEvent \/ Compact \/ UNCHANGED vars
  BY <1>9 DEF CreateEvent, Compact, vars, lease, loop, LeaseInv, HeldInLoop, LeaseBacked, Renewing,
              Watching
<1> QED
  BY <1>1, <1>2, <1>3, <1>4, <1>5, <1>6, <1>7, <1>8, <1>9 DEF Next, Loop

\* Whatever expires, crashes, fails or runs late, two replicas never watch under the
\* lease at once (RENEW_SCRIPT, RELEASE_SCRIPT and the renew timer), for every
\* lifetime of the lease that exceeds the delay of a renewal.
THEOREM LeaseIsExclusive == Spec => []LeaseExclusive
<1>1. LeaseInv => LeaseExclusive
  BY DEF LeaseInv, LeaseBacked, LeaseExclusive
<1>2. TypeOK /\ LeaseInv /\ [Next]_vars => LeaseInv'
  BY LeaseStep
<1> QED BY <1>1, <1>2, LeaseInit, InformerTyping, PTL DEF Spec

---------------------------------------------------------------------------
(* The claim.                                                               *)

LEMMA ClaimInit == Init => ClaimInv
BY DEF Init, ClaimInv

\* Every step keeps an event with its one claimant.
LEMMA ClaimStep ==
    ASSUME TypeOK, ClaimInv, [Next]_vars
    PROVE  ClaimInv'
<1>0. /\ inflight \in [Replicas -> 0 .. created] /\ outages \in Nat
      /\ claimed \subseteq Events /\ pushes \in [Events -> Nat]
      /\ \A r \in Replicas : inflight[r] # 0 => inflight[r] \in Events
  <2>1. /\ inflight \in [Replicas -> 0 .. created] /\ outages \in Nat
        /\ claimed \subseteq Events /\ pushes \in [Events -> Nat] /\ created \in Events
    BY TypeParts DEF CursorType, DedupType, BoundType, ClusterType
  <2>2. \A x \in 0 .. created : x # 0 => x \in Events
    BY <2>1, InformerBounds DEF Events
  <2> QED BY <2>1, <2>2
<1>1. ASSUME NEW r \in Replicas, Claim(r)
      PROVE  ClaimInv'
  <2> DEFINE e == Head(buffer[r])
             won == e \notin claimed /\ e \notin local[r]
  <2>1. e \in Events /\ e # 0
    BY <1>1, TakeType, InformerBounds DEF Claim, Events
  <2>2. UNCHANGED <<outages, pushes>>
    BY <1>1 DEF Claim, bounds
  <2>3. CASE won
    <3>1. claimed' = claimed \cup {e} /\ inflight' = [inflight EXCEPT ![r] = e]
      BY <1>1, <2>3 DEF Claim
    <3> HIDE DEF e
    <3> SUFFICES ASSUME outages = 0 PROVE ClaimInv'
      BY <2>2 DEF ClaimInv
    <3>2. pushes[e] = 0
      BY <1>0, <2>1, <2>3 DEF ClaimInv
    <3> QED BY <1>0, <2>1, <2>2, <2>3, <3>1, <3>2 DEF ClaimInv
  <2>4. CASE ~ won
    BY <1>1, <2>2, <2>4 DEF Claim, ClaimInv
  <2> QED BY <2>3, <2>4
<1>2. ASSUME NEW r \in Replicas, Push(r)
      PROVE  ClaimInv'
  <2>1. UNCHANGED <<outages, claimed>>
    BY <1>2 DEF Push, bounds
  <2>2. inflight[r] \in Events /\ pushes' = [pushes EXCEPT ![inflight[r]] = @ + 1]
           /\ inflight' = [inflight EXCEPT ![r] = 0]
    BY <1>0, <1>2 DEF Push
  <2> SUFFICES ASSUME outages = 0 PROVE ClaimInv'
    BY <2>1 DEF ClaimInv
  <2>3. inflight[r] \in claimed /\ pushes[inflight[r]] = 0
    BY <1>2 DEF ClaimInv, Push
  <2>4. \A s \in Replicas : s # r /\ inflight[s] # 0 => inflight[s] # inflight[r]
    BY <1>2 DEF ClaimInv, Push
  <2> QED BY <1>0, <2>1, <2>2, <2>3, <2>4 DEF ClaimInv
<1>3. ASSUME NEW r \in Replicas, Crash(r)
      PROVE  ClaimInv'
  BY <1>0, <1>3 DEF Crash, ClaimInv
<1>4. ASSUME NEW r \in Replicas, ValkeyFails
      PROVE  ClaimInv'
  BY <1>0, <1>4 DEF ValkeyFails, ClaimInv
<1>5. ASSUME UNCHANGED <<claimed, pushes, inflight, outages>>
      PROVE  ClaimInv'
  BY <1>5 DEF ClaimInv
<1>6. ASSUME NEW r \in Replicas,
             Fallback(r) \/ RenewFails(r) \/ ReleaseFails(r) \/ ClaimFallback(r)
      PROVE  ClaimInv'
  BY <1>4, <1>6 DEF Fallback, RenewFails, ReleaseFails, ClaimFallback
<1> QED
  BY <1>1, <1>2, <1>3, <1>5, <1>6
     DEF Next, Loop, vars, cursor, dedup, bounds, Start, Acquire, Standby, Wake, Release, List,
         Snapshot, RequestAborted, Sleep, WatchOpens, WatchGone, WatchErrorEvent, Read, Resynced,
         Renew, RequestFails, ApiFails, ReadEnds, Tick, CreateEvent, Compact

\* While Valkey answers no event is pushed twice (claimIdempotencyKey in
\* ingestK8sEvent), whichever replicas overlap, relist or restart.
THEOREM EventsPushedOnce == Spec => []PushedOnce
<1>1. ClaimInv => PushedOnce
  BY DEF ClaimInv, PushedOnce
<1>2. TypeOK /\ ClaimInv /\ [Next]_vars => ClaimInv'
  BY ClaimStep
<1> QED BY <1>1, <1>2, ClaimInit, InformerTyping, PTL DEF Spec

---------------------------------------------------------------------------
(* The cursor.                                                              *)

LEMMA CoverInit == Init => CoverInv
BY DEF Init, CoverInv, RefusedCovered, ReplicaCovered, BufferPlaced, CursorKept, CoveredTo

\* What is accounted for stays so when no event leaves a replica's hands; and when
\* one does it is pushed, or lost in a crash.
LEMMA CoveredKept ==
    ASSUME TypeOK,
           \/ UNCHANGED <<pushes, dropped, inflight>>
           \/ \E r \in Replicas : Push(r) \/ Crash(r) \/ Claim(r) \/ ClaimFallback(r)
    PROVE  \A e \in Events : Covered(e) => Covered(e)'
<1>0. /\ inflight \in [Replicas -> 0 .. created] /\ pushes \in [Events -> Nat]
      /\ \A r \in Replicas : inflight[r] # 0 => inflight[r] \in Events
      /\ 0 \notin Events
  BY TypeParts, InformerBounds DEF CursorType, DedupType, ClusterType, Events
<1>1. CASE UNCHANGED <<pushes, dropped, inflight>>
  BY <1>1 DEF Covered
<1>2. ASSUME NEW r \in Replicas, Push(r), NEW e \in Events, Covered(e)
      PROVE  Covered(e)'
  BY <1>0, <1>2 DEF Push, Covered
<1>3. ASSUME NEW r \in Replicas, Crash(r), NEW e \in Events, Covered(e)
      PROVE  Covered(e)'
  BY <1>0, <1>3 DEF Crash, Covered
<1>4. ASSUME NEW r \in Replicas, Claim(r) \/ ClaimFallback(r), NEW e \in Events, Covered(e)
      PROVE  Covered(e)'
  <2>1. inflight[r] = 0 /\ UNCHANGED <<pushes, dropped>>
    BY <1>4 DEF Claim, ClaimFallback, Take
  <2>2. \A s \in Replicas : s # r => inflight'[s] = inflight[s]
    BY <1>0, <1>4 DEF Claim, ClaimFallback
  <2> QED BY <1>0, <1>4, <2>1, <2>2 DEF Covered
<1> QED BY <1>1, <1>2, <1>3, <1>4

\* A replica the step does not touch keeps its part of the invariant.
LEMMA OthersCovered ==
    ASSUME TypeOK, NEW s \in Replicas, ReplicaCovered(s),
           \A e \in Events : Covered(e) => Covered(e)',
           /\ pc'[s] = pc[s] /\ buffer'[s] = buffer[s] /\ rv'[s] = rv[s]
           /\ target'[s] = target[s] /\ resync'[s] = resync[s] /\ origin'[s] = origin[s]
    PROVE  ReplicaCovered(s)'
<1>1. /\ \A e \in 1 .. target[s] - Len(buffer[s]) : e \in Events
      /\ \A e \in origin[s] + 1 .. rv[s] : e \in Events
  <2>1. /\ created \in Nat /\ created <= MaxEvents /\ Len(buffer[s]) \in Nat
        /\ target[s] \in 0 .. created /\ rv[s] \in 0 .. created /\ origin[s] \in 0 .. created
    BY TypeParts, InformerBounds DEF CursorType, BufferType, ClusterType, Events
  <2> QED BY <2>1, InformerBounds DEF Events
<1>2. BufferPlaced(s)'
  BY <1>1 DEF ReplicaCovered, BufferPlaced
<1>3. CursorKept(s)' /\ CoveredTo(s)'
  BY <1>1 DEF ReplicaCovered, CursorKept, CoveredTo
<1> QED BY <1>2, <1>3 DEF ReplicaCovered

\* So does the invariant, when the step touches one replica's loop and keeps that
\* replica's part.
LEMMA CoverOne ==
    ASSUME TypeOK, CoverInv, NEW r \in Replicas,
           \A e \in Events : Covered(e) => Covered(e)',
           UNCHANGED <<claimed, local>>,
           \A s \in Replicas : s # r =>
             /\ pc'[s] = pc[s] /\ buffer'[s] = buffer[s] /\ rv'[s] = rv[s]
             /\ target'[s] = target[s] /\ resync'[s] = resync[s] /\ origin'[s] = origin[s],
           ReplicaCovered(r)'
    PROVE  CoverInv'
<1>1. RefusedCovered'
  BY TypeParts DEF CoverInv, RefusedCovered, DedupType
<1>2. \A s \in Replicas : ReplicaCovered(s)'
  BY OthersCovered DEF CoverInv
<1> QED BY <1>1, <1>2 DEF CoverInv

\* A step that only moves one replica's loop on, with nothing left to ingest.
LEMMA MoveCovered ==
    ASSUME TypeOK, CoverInv, NEW r \in Replicas, NEW where \in PCs \ {"list", "resync"},
           Goto(r, where), buffer[r] = <<>>, UNCHANGED <<cursor, dedup>>
    PROVE  CoverInv'
<1>1. \A e \in Events : Covered(e) => Covered(e)'
  BY CoveredKept DEF cursor, dedup
<1>2. pc \in [Replicas -> PCs]
  BY TypeParts DEF LoopType
<1>3. ReplicaCovered(r)'
  <2>1. pc'[r] = where /\ UNCHANGED <<buffer, rv, resync, origin, pushes, dropped, inflight>>
    BY <1>2 DEF Goto, cursor, dedup
  <2> QED BY <2>1 DEF CoverInv, ReplicaCovered, BufferPlaced, CursorKept, CoveredTo, Covered
<1> QED BY <1>1, <1>2, <1>3, CoverOne DEF Goto, cursor, dedup

\* One event of a watch or of a snapshot is claimed, or refused because it was.
LEMMA IngestCovered ==
    ASSUME TypeOK, CoverInv, NEW r \in Replicas, Claim(r) \/ ClaimFallback(r)
    PROVE  CoverInv'
<1>0. /\ Take(r) /\ UNCHANGED <<pc, target, resync, origin, pushes, dropped>>
      /\ rv \in [Replicas -> 0 .. created] /\ buffer \in [Replicas -> Seq(1 .. created)]
      /\ inflight \in [Replicas -> 0 .. created] /\ local \in [Replicas -> SUBSET Events]
      /\ target[r] \in 0 .. created /\ created \in Nat /\ origin[r] \in 0 .. created
      /\ claimed \subseteq Events
  BY TypeParts DEF Claim, ClaimFallback, loop, CursorType, BufferType, DedupType, ClusterType, Events
<1>1. PICK e \in Events : e = Head(buffer[r])
  BY <1>0, TakeType
<1>2. \A x \in Events : Covered(x) => Covered(x)'
  BY CoveredKept
<1>4. e \in claimed \/ e \in local[r] \/ inflight'[r] = e
  BY <1>0, <1>1 DEF Claim, ClaimFallback
<1>5. Covered(e)'
  <2>1. CASE e \in claimed \/ e \in local[r]
    <3>1. Covered(e)
      BY <2>1 DEF CoverInv, RefusedCovered
    <3> QED BY <1>1, <1>2, <3>1
  <2>2. CASE inflight'[r] = e
    BY <2>2 DEF Covered
  <2> QED BY <1>4, <2>1, <2>2
<1>6. RefusedCovered'
  <2>1. claimed' \subseteq claimed \cup {e} /\ \A s \in Replicas : local'[s] \subseteq local[s] \cup {e}
    BY <1>0, <1>1 DEF Claim, ClaimFallback
  <2>2. \A x \in Events : (x \in claimed \/ \E s \in Replicas : x \in local[s]) => Covered(x)'
    BY <1>2 DEF CoverInv, RefusedCovered
  <2>3. claimed \subseteq Events /\ \A s \in Replicas : local[s] \subseteq Events
    BY <1>0
  <2> QED BY <1>5, <2>1, <2>2, <2>3 DEF RefusedCovered
<1>7. \A s \in Replicas : s # r => buffer'[s] = buffer[s] /\ rv'[s] = rv[s]
  BY <1>0 DEF Take
<1>8. ASSUME NEW s \in Replicas, s # r
      PROVE  ReplicaCovered(s)'
  <2>1. ReplicaCovered(s)
    BY DEF CoverInv
  <2> QED BY <1>0, <1>2, <1>7, <1>8, <2>1, OthersCovered
\* The buffer loses its first event, which has just been accounted for.
<1>9. /\ buffer'[r] = Tail(buffer[r]) /\ Len(buffer[r]) \in Nat \ {0}
      /\ Len(buffer'[r]) = Len(buffer[r]) - 1 /\ buffer[r][1] = e
      /\ DOMAIN buffer'[r] = 1 .. Len(buffer[r]) - 1 /\ DOMAIN buffer[r] = 1 .. Len(buffer[r])
      /\ \A i \in DOMAIN buffer'[r] : i + 1 \in DOMAIN buffer[r] /\ buffer'[r][i] = buffer[r][i + 1]
  <2>1. buffer[r] \in Seq(1 .. created) /\ buffer[r] # <<>> /\ buffer'[r] = Tail(buffer[r])
    BY <1>0 DEF Take
  <2>2. Tail(buffer[r]) \in Seq(1 .. created) /\ Len(Tail(buffer[r])) = Len(buffer[r]) - 1
    BY <2>1, HeadTailProperties
  <2>3. /\ Len(buffer[r]) \in Nat \ {0} /\ DOMAIN buffer[r] = 1 .. Len(buffer[r])
        /\ DOMAIN buffer'[r] = 1 .. Len(buffer[r]) - 1
    BY <2>1, <2>2, LenProperties
  <2> QED BY <1>1, <2>1, <2>2, <2>3
<1>10. BufferPlaced(r) /\ CursorKept(r) /\ CoveredTo(r)
  BY DEF CoverInv, ReplicaCovered
<1>11. CASE pc[r] = "read"
  <2>1. e = rv[r] + 1 /\ rv'[r] = e
    <3>1. rv'[r] = e
      BY <1>0, <1>1, <1>11 DEF Take
    <3>2. 1 \in DOMAIN buffer[r]
      BY <1>9
    <3>3. buffer[r][1] = rv[r] + 1
      BY <1>10, <1>11, <3>2 DEF BufferPlaced
    <3> QED BY <1>9, <3>1, <3>3
  <2>2. \A i \in DOMAIN buffer'[r] : buffer'[r][i] = rv'[r] + i
    <3> SUFFICES ASSUME NEW i \in DOMAIN buffer'[r] PROVE buffer'[r][i] = rv'[r] + i
      OBVIOUS
    <3>1. i \in Int /\ rv[r] \in Int
      BY <1>0, <1>9
    <3>2. buffer[r][i + 1] = rv[r] + (i + 1)
      BY <1>9, <1>10, <1>11 DEF BufferPlaced
    <3> QED BY SMTT(30), <1>9, <2>1, <3>1, <3>2
  <2>3. BufferPlaced(r)'
    BY <1>0, <1>11, <2>2 DEF BufferPlaced
  <2>4. CursorKept(r)'
    <3>1. rv'[r] > 0
      BY <1>1, <2>1 DEF Events
    <3> QED BY <1>0, <1>11, <3>1 DEF CursorKept
  <2>5. CoveredTo(r)'
    <3> SUFFICES ASSUME origin[r] > 0, NEW x \in origin[r] + 1 .. rv'[r] PROVE Covered(x)'
      BY <1>0 DEF CoveredTo
    <3>1. x = e \/ x \in origin[r] + 1 .. rv[r]
      <4> QED BY <1>0, <2>1
    <3>2. rv'[r] \in 0 .. created /\ created <= MaxEvents
      BY <1>0, TakeType, TypeParts, InformerBounds DEF ClusterType, Events
    <3>3. x \in Events
      BY <1>0, <3>2, InformerBounds DEF Events
    <3> QED BY <1>2, <1>5, <1>10, <3>1, <3>3 DEF CoveredTo
  <2>6. ReplicaCovered(r)'
    BY <2>3, <2>4, <2>5 DEF ReplicaCovered
  <2> QED BY <1>6, <1>8, <2>6 DEF CoverInv
<1>12. CASE pc[r] = "resync"
  <2>0. UNCHANGED rv /\ pc'[r] = "resync" /\ target'[r] = target[r]
    BY <1>0, <1>12 DEF Take
  <2>1. /\ target[r] > 0 /\ Len(buffer[r]) <= target[r]
        /\ \A i \in DOMAIN buffer[r] : buffer[r][i] = target[r] - Len(buffer[r]) + i
        /\ \A x \in 1 .. target[r] - Len(buffer[r]) : Covered(x)
    BY <1>10, <1>12 DEF BufferPlaced
  <2>2. e = target[r] - Len(buffer[r]) + 1
    BY <1>9, <2>1
  <2>3. \A i \in DOMAIN buffer'[r] : buffer'[r][i] = target[r] - Len(buffer'[r]) + i
    <3> SUFFICES ASSUME NEW i \in DOMAIN buffer'[r]
                 PROVE  buffer'[r][i] = target[r] - Len(buffer'[r]) + i
      OBVIOUS
    <3>1. buffer'[r][i] = target[r] - Len(buffer[r]) + (i + 1)
      BY <1>9, <2>1
    <3> QED BY SMTT(30), <1>0, <1>9, <3>1
  <2>4. \A x \in 1 .. target[r] - Len(buffer'[r]) : Covered(x)'
    <3> SUFFICES ASSUME NEW x \in 1 .. target[r] - Len(buffer'[r]) PROVE Covered(x)'
      OBVIOUS
    <3>1. x = e \/ x \in 1 .. target[r] - Len(buffer[r])
      <4> QED BY <1>0, <1>9, <2>2
    <3>2. target[r] <= MaxEvents /\ target[r] \in Nat
      BY <1>0, TypeParts, InformerBounds DEF ClusterType, Events
    <3>3. x \in 1 .. target[r] - Len(buffer[r]) => x \in Events
      BY <1>9, <3>2, InformerBounds DEF Events
    <3> QED BY <1>2, <1>5, <2>1, <3>1, <3>3
  <2>5. BufferPlaced(r)'
    <3>1. Len(buffer'[r]) <= target[r]
      BY <1>0, <1>9, <2>1
    <3> QED BY <2>0, <2>1, <2>3, <2>4, <3>1 DEF BufferPlaced
  <2>6. CursorKept(r)'
    BY <1>0, <1>10, <2>0 DEF CursorKept
  <2>7. CoveredTo(r)'
    <3>1. \A x \in origin[r] + 1 .. rv[r] : x \in Events
      <4>1. rv[r] \in 0 .. created /\ created <= MaxEvents
        BY <1>0, TypeParts, InformerBounds DEF ClusterType, Events
      <4> QED BY <1>0, <4>1, InformerBounds DEF Events
    <3> QED BY <1>0, <1>2, <1>10, <2>0, <3>1 DEF CoveredTo
  <2>8. ReplicaCovered(r)'
    BY <2>5, <2>6, <2>7 DEF ReplicaCovered
  <2> QED BY <1>6, <1>8, <2>8 DEF CoverInv
<1> QED BY <1>0, <1>11, <1>12 DEF Take

\* Every step leaves the events behind each cursor accounted for.
LEMMA CoverStep ==
    ASSUME TypeOK, CoverInv, [Next]_vars
    PROVE  CoverInv'
<1>0. /\ pc \in [Replicas -> PCs] /\ rv \in [Replicas -> 0 .. created]
      /\ target \in [Replicas -> 0 .. created] /\ origin \in [Replicas -> 0 .. created]
      /\ buffer \in [Replicas -> Seq(1 .. created)] /\ created \in Nat \ {0}
      /\ resync \in [Replicas -> BOOLEAN] /\ created <= MaxEvents
  BY TypeParts, InformerBounds
     DEF LoopType, CursorType, BufferType, ClusterType, FlagType, Events
<1>1. ASSUME NEW r \in Replicas
      PROVE  ReplicaCovered(r) /\ BufferPlaced(r) /\ CursorKept(r) /\ CoveredTo(r)
  BY DEF CoverInv, ReplicaCovered
<1>2. UNCHANGED <<pushes, dropped, inflight>> => \A e \in Events : Covered(e) => Covered(e)'
  BY CoveredKept
<1>3. ASSUME NEW r \in Replicas,
             Start(r) \/ Wake(r) \/ RequestFails(r) \/ RequestAborted(r) \/ Sleep(r)
               \/ WatchOpens(r) \/ WatchErrorEvent(r) \/ ReadEnds(r) \/ Release(r) \/ ReleaseFails(r)
      PROVE  CoverInv'
  <2>1. UNCHANGED <<cursor, dedup>> /\ buffer[r] = <<>>
    BY <1>1, <1>3 DEF BufferPlaced, Start, Wake, RequestFails, RequestAborted, Sleep, WatchOpens,
       WatchErrorEvent, ReadEnds, Release, ReleaseFails
  <2>2. \E where \in PCs \ {"list", "resync"} : Goto(r, where)
    BY <1>3 DEF PCs, Start, Wake, RequestFails, RequestAborted, Sleep, WatchOpens,
       WatchErrorEvent, ReadEnds, Release, ReleaseFails, Done
  <2> QED BY <2>1, <2>2, MoveCovered
<1>4. ASSUME NEW r \in Replicas, Acquire(r) \/ Fallback(r)
      PROVE  CoverInv'
  <2>1. /\ UNCHANGED <<resync, target, buffer, inflight, dedup>> /\ buffer[r] = <<>>
        /\ \A s \in Replicas : s # r => pc'[s] = pc[s] /\ rv'[s] = rv[s] /\ origin'[s] = origin[s]
    BY <1>0, <1>1, <1>4 DEF Acquire, Fallback, Enter, Goto, BufferPlaced
  <2>2. pc'[r] \in {"list", "watch"} /\ (pc'[r] = "list" => rv'[r] = 0)
    BY <1>0, <1>4 DEF Acquire, Fallback, Enter, Goto
  \* Coverage goes on from the same cursor, or starts at the cursor, or is given up.
  <2>3. \/ origin'[r] = 0
        \/ rv'[r] = rv[r] /\ origin'[r] = origin[r]
        \/ rv'[r] = rv[r] /\ origin'[r] = rv[r]
    BY <1>0, <1>4 DEF Acquire, Fallback, Enter
  <2>4. CursorKept(r)'
    BY <1>1, <2>1, <2>2, <2>3 DEF CursorKept
  <2>5. CoveredTo(r)'
    <3>1. \A e \in Events : Covered(e) => Covered(e)'
      BY <1>2, <2>1 DEF dedup
    <3>2. origin[r] \in Nat /\ rv[r] \in Nat /\ \A e \in origin[r] + 1 .. rv[r] : e \in Events
      BY <1>0, InformerBounds DEF Events
    <3>3. CASE origin'[r] = 0
      BY <3>3 DEF CoveredTo
    <3>4. CASE rv'[r] = rv[r] /\ origin'[r] = origin[r]
      BY <1>1, <3>1, <3>2, <3>4 DEF CoveredTo
    <3>5. CASE rv'[r] = rv[r] /\ origin'[r] = rv[r]
      BY <3>2, <3>5 DEF CoveredTo
    <3> QED BY <2>3, <3>3, <3>4, <3>5
  <2>6. ReplicaCovered(r)'
    BY <2>1, <2>2, <2>4, <2>5 DEF ReplicaCovered, BufferPlaced
  <2> QED BY <1>2, <2>1, <2>6, CoverOne DEF dedup
<1>5. ASSUME NEW r \in Replicas, Standby(r)
      PROVE  CoverInv'
  <2>1. /\ UNCHANGED <<rv, target, buffer, inflight, dedup>> /\ buffer[r] = <<>>
        /\ \A s \in Replicas : s # r => /\ pc'[s] = pc[s] /\ resync'[s] = resync[s]
                                        /\ origin'[s] = origin[s]
        /\ pc'[r] = "standby" /\ origin'[r] = 0
    BY <1>0, <1>1, <1>5 DEF Standby, Goto, BufferPlaced
  <2>2. ReplicaCovered(r)'
    BY <2>1 DEF ReplicaCovered, BufferPlaced, CursorKept, CoveredTo
  <2> QED BY <1>2, <2>1, <2>2, CoverOne DEF dedup
<1>6. ASSUME NEW r \in Replicas, List(r)
      PROVE  CoverInv'
  \* A plain list only starts coverage: a replica that has some keeps its cursor.
  <2>1. origin[r] = 0
    <3>1. rv[r] = 0 /\ ~ resync[r] /\ (origin[r] > 0 => rv[r] > 0 \/ resync[r])
      BY <1>1, <1>6 DEF List, CursorKept
    <3>2. origin[r] \in Nat /\ ~ (origin[r] > 0)
      BY <1>0, <3>1
    <3> QED BY <3>2
  <2>2. /\ UNCHANGED <<resync, target, buffer, inflight, dedup>> /\ buffer[r] = <<>>
        /\ \A s \in Replicas : s # r => pc'[s] = pc[s] /\ rv'[s] = rv[s] /\ origin'[s] = origin[s]
        /\ pc'[r] = "watch" /\ origin'[r] = created /\ rv'[r] = created
    BY <1>0, <1>1, <1>6, <2>1 DEF List, Goto, BufferPlaced
  <2>3. ReplicaCovered(r)'
    BY <1>0, <2>2 DEF ReplicaCovered, BufferPlaced, CursorKept, CoveredTo
  <2> QED BY <1>2, <2>2, <2>3, CoverOne DEF dedup
<1>7. ASSUME NEW r \in Replicas, Snapshot(r)
      PROVE  CoverInv'
  <2>1. /\ UNCHANGED <<rv, resync, origin, inflight, dedup>> /\ rv[r] = 0
        /\ \A s \in Replicas : s # r => /\ pc'[s] = pc[s] /\ target'[s] = target[s]
                                        /\ buffer'[s] = buffer[s]
        /\ pc'[r] = "resync" /\ target'[r] = created
        /\ buffer'[r] = [i \in 1 .. created |-> i]
    BY <1>0, <1>1, <1>7 DEF Snapshot, Goto, CursorKept
  <2>2. Len(buffer'[r]) = created /\ DOMAIN buffer'[r] = 1 .. created
    BY <1>0, <2>1
  <2>3. BufferPlaced(r)'
    BY <1>0, <2>1, <2>2 DEF BufferPlaced
  <2>4. CursorKept(r)' /\ CoveredTo(r)'
    BY <1>0, <1>1, <2>1 DEF CursorKept, CoveredTo
  <2>5. ReplicaCovered(r)'
    BY <2>3, <2>4 DEF ReplicaCovered
  <2> QED BY <1>2, <2>1, <2>5, CoverOne DEF dedup
<1>8. ASSUME NEW r \in Replicas, WatchGone(r)
      PROVE  CoverInv'
  <2>1. /\ UNCHANGED <<target, buffer, origin, inflight, dedup>> /\ buffer[r] = <<>>
        /\ \A s \in Replicas : s # r => pc'[s] = pc[s] /\ rv'[s] = rv[s] /\ resync'[s] = resync[s]
        /\ pc'[r] = "release" /\ rv'[r] = 0 /\ resync'[r]
    BY <1>0, <1>1, <1>8 DEF WatchGone, Goto, BufferPlaced
  <2>2. ReplicaCovered(r)'
    BY <1>0, <2>1 DEF ReplicaCovered, BufferPlaced, CursorKept, CoveredTo
  <2> QED BY <1>2, <2>1, <2>2, CoverOne DEF dedup
<1>9. ASSUME NEW r \in Replicas, Read(r)
      PROVE  CoverInv'
  <2>1. PICK last \in rv[r] + 1 .. created :
           buffer' = [buffer EXCEPT ![r] = [i \in 1 .. last - rv[r] |-> rv[r] + i]]
    BY <1>9 DEF Read
  <2>2. UNCHANGED <<pc, rv, resync, target, origin, inflight, dedup>> /\ pc[r] = "read"
    BY <1>9 DEF Read, loop
  <2>3. BufferPlaced(r)'
    BY <1>0, <2>1, <2>2 DEF BufferPlaced
  <2>4. CursorKept(r)' /\ CoveredTo(r)'
    BY <1>1, <2>2 DEF CursorKept, CoveredTo, Covered, dedup
  <2>5. ReplicaCovered(r)'
    BY <2>3, <2>4 DEF ReplicaCovered
  <2> QED BY <1>0, <1>2, <2>1, <2>2, <2>5, CoverOne DEF dedup
<1>10. ASSUME NEW r \in Replicas, Resynced(r)
       PROVE  CoverInv'
  <2>1. /\ UNCHANGED <<target, buffer, origin, inflight, dedup>> /\ buffer[r] = <<>>
        /\ \A s \in Replicas : s # r => pc'[s] = pc[s] /\ rv'[s] = rv[s] /\ resync'[s] = resync[s]
        /\ pc'[r] \in {"leave", "watch"} /\ rv'[r] = target[r]
    BY <1>0, <1>10 DEF Resynced, Goto
  \* The whole snapshot has been accounted for.
  <2>2. target[r] > 0 /\ \A e \in 1 .. target[r] : Covered(e)
    <3>1. Len(buffer[r]) = 0 /\ target[r] \in Nat
      BY <1>0, <2>1
    <3> QED BY <1>1, <1>10, <3>1 DEF Resynced, BufferPlaced
  <2>3. CoveredTo(r)'
    <3>1. origin[r] \in Nat /\ target[r] \in Nat
      BY <1>0
    <3> QED BY <2>1, <2>2, <3>1 DEF CoveredTo, Covered, dedup
  <2>4. ReplicaCovered(r)'
    BY <2>1, <2>2, <2>3 DEF ReplicaCovered, BufferPlaced, CursorKept
  <2> QED BY <1>2, <2>1, <2>4, CoverOne DEF dedup
<1>11. ASSUME NEW r \in Replicas, Push(r) \/ Crash(r)
       PROVE  CoverInv'
  <2>1. \A e \in Events : Covered(e) => Covered(e)'
    BY <1>11, CoveredKept
  <2>2. RefusedCovered'
    <3>1. claimed' = claimed /\ \A s \in Replicas : local'[s] \subseteq local[s]
      BY <1>11, TypeParts DEF Push, Crash, DedupType
    <3> QED BY <2>1, <3>1, TypeParts DEF CoverInv, RefusedCovered, DedupType
  <2>3. \A s \in Replicas :
          \/ /\ pc'[s] = pc[s] /\ buffer'[s] = buffer[s] /\ rv'[s] = rv[s]
             /\ target'[s] = target[s] /\ resync'[s] = resync[s] /\ origin'[s] = origin[s]
          \/ pc'[s] = "off" /\ buffer'[s] = <<>> /\ origin'[s] = 0
    BY <1>0, <1>11 DEF Push, Crash, loop, Goto
  <2>4. ASSUME NEW s \in Replicas, pc'[s] = "off" /\ buffer'[s] = <<>> /\ origin'[s] = 0
        PROVE  ReplicaCovered(s)'
    BY <2>4 DEF ReplicaCovered, BufferPlaced, CursorKept, CoveredTo
  <2>5. \A s \in Replicas : ReplicaCovered(s)'
    BY <1>1, <2>1, <2>3, <2>4, OthersCovered
  <2> QED BY <2>2, <2>5 DEF CoverInv
<1>12. ASSUME NEW r \in Replicas, Claim(r) \/ ClaimFallback(r)
       PROVE  CoverInv'
  BY <1>12, IngestCovered
<1>13. ASSUME UNCHANGED <<pc, cursor, dedup>>
       PROVE  CoverInv'
  <2>1. \A s \in Replicas : ReplicaCovered(s)'
    BY <1>13 DEF CoverInv, ReplicaCovered, BufferPlaced, CursorKept, CoveredTo, Covered, cursor, dedup
  <2>2. RefusedCovered'
    BY <1>13 DEF CoverInv, RefusedCovered, Covered, cursor, dedup
  <2> QED BY <2>1, <2>2 DEF CoverInv
<1>14. ASSUME Tick \/ CreateEvent \/ Compact \/ UNCHANGED vars
              \/ \E r \in Replicas : Renew(r) \/ RenewFails(r)
       PROVE  CoverInv'
  BY <1>13, <1>14 DEF Tick, CreateEvent, Compact, vars, loop, Renew, RenewFails
<1> QED
  BY <1>3, <1>4, <1>5, <1>6, <1>7, <1>8, <1>9, <1>10, <1>11, <1>12, <1>14 DEF Next, Loop

\* No cursor passes an event that was not ingested (watchOnce, resyncAfterGone):
\* through failed requests, expired cursors, lost leases and crashes, every event
\* since a replica's coverage began was pushed, is being pushed or died with its
\* claimant.
THEOREM CursorIsCovered == Spec => []CursorCovered
<1>1. CoverInv => CursorCovered
  BY DEF CoverInv, ReplicaCovered, CoveredTo, Covered, CursorCovered
<1>2. TypeOK /\ CoverInv /\ [Next]_vars => CoverInv'
  BY CoverStep
<1> QED BY <1>1, <1>2, CoverInit, InformerTyping, PTL DEF Spec
===============================================================================
