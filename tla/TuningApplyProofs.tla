--------------------------- MODULE TuningApplyProofs ---------------------------
(***************************************************************************)
(* Machine-checked proofs about module TuningApply: the composition keeps   *)
(* the dedup store's guarantees, and with the relation between the two TTLs *)
(* Valkey grants an approval once.                                          *)
(***************************************************************************)
EXTENDS TuningApply, IdempotencyProofs, SequenceTheorems

---------------------------------------------------------------------------
(* The composition is an implementation of the store's specification.       *)

\* Of the store's own steps, the routes take claims, the claims' steps and restarts.
LEMMA TuningCases ==
    ASSUME [TNext]_tvars
    PROVE  \/ \E c \in Calls : ConsumeApproval(c)
           \/ StoreStep
           \/ \E r \in Replicas : Crash(r)
           \/ UNCHANGED vars
<1>1. ASSUME NEW k \in Keys, IssueTuningApproval(k) PROVE UNCHANGED vars
  BY <1>1 DEF IssueTuningApproval, store
<1>2. ASSUME NEW c \in Calls,
             \/ RejectApproval(c) \/ BeginOperation(c) \/ CreateJob(c) \/ CreateReply(c)
             \/ CreateFails(c) \/ LateCreate(c) \/ JobFinishes(c)
      PROVE  UNCHANGED vars
  BY <1>2 DEF RejectApproval, BeginOperation, CreateJob, CreateReply, CreateFails, LateCreate,
              JobFinishes, store
<1>3. ASSUME NEW c \in Calls,
             \/ PollFinished(c) \/ PollDeadline(c) \/ RequestThrows(c)
             \/ ReadLogs(c) \/ DeleteJob(c) \/ FinishOperation(c)
      PROVE  UNCHANGED vars
  BY <1>3 DEF PollFinished, PollDeadline, RequestThrows, ReadLogs, DeleteJob, FinishOperation,
              store
<1>4. ASSUME NEW r \in Replicas, Restart(r) PROVE Crash(r)
  BY <1>4 DEF Restart
<1>5. CASE UNCHANGED tvars
  BY <1>5 DEF tvars
<1> QED
  BY <1>1, <1>2, <1>3, <1>4, <1>5 DEF TNext

LEMMA TuningStep == [TNext]_tvars => [Next]_vars
BY TuningCases DEF ConsumeApproval, StoreStep, Next

\* StoreRefined: applying tunings uses the dedup store as its specification allows,
\* so everything proved of the store holds of the approvals it keeps.
THEOREM StoreRefined == TSpec => Spec
<1>1. TInit => Init
  BY DEF TInit
<1>2. [TNext]_tvars => [Next]_vars
  BY TuningStep
<1> QED
  BY <1>1, <1>2, PTL DEF TSpec, Spec

---------------------------------------------------------------------------
(* When an approval can be granted.                                         *)

\* An approval was issued before now, and is valid for ApprovalTTL.
Issued == \A k \in Keys : expires[k] # 0 => expires[k] <= now + ApprovalTTL

\* A claim began while its approval was valid,
Began ==
    \A c \in Calls : pc[c] # "idle" =>
        /\ began[c] < expires[key[c]]
        /\ expires[key[c]] <= began[c] + ApprovalTTL

\* is awaited no longer than its timeout allows,
Awaited == \A c \in Calls : pc[c] \in {"setnx", "ok", "get"} => began[c] <= now /\ now <= began[c] + CallTicks

\* and was granted meanwhile.
GrantedInTime ==
    \A c \in Calls : Granted(c) => began[c] <= granted[c] /\ granted[c] <= began[c] + CallTicks

ExpiresType == expires \in [Keys -> Nat]

Window == ExpiresType /\ Issued /\ Began /\ Awaited /\ GrantedInTime

LEMMA WindowInit == TInit => Window
<1> SUFFICES ASSUME TInit PROVE Window
  OBVIOUS
<1>1. ExpiresType /\ Issued
  BY DEF TInit, ExpiresType, Issued
<1>2. Began /\ Awaited /\ GrantedInTime
  BY DEF TInit, Init, Began, Awaited, GrantedInTime, Granted
<1> QED
  BY <1>1, <1>2 DEF Window

\* A step that leaves approvals and claims as they are keeps the window.
LEMMA WindowKept ==
    ASSUME Window, UNCHANGED <<expires, vars>>
    PROVE  Window'
BY DEF Window, ExpiresType, Issued, Began, Awaited, GrantedInTime, Granted, vars

\* So does a step of a claim that is already under way: it begins nothing, and what
\* it awaits or was granted is no more than it was.
LEMMA WindowLater ==
    ASSUME TypeOK, Window, expires' = expires, key' = key, began' = began, now' = now,
           \A c \in Calls : pc'[c] # "idle" => pc[c] # "idle",
           \A c \in Calls : pc'[c] \in {"setnx", "ok", "get"} => pc[c] \in {"setnx", "ok", "get"},
           \A c \in Calls : Granted(c)' =>
               \/ Granted(c) /\ granted'[c] = granted[c]
               \/ pc[c] = "setnx" /\ granted'[c] = now
    PROVE  Window'
<1>1. ExpiresType' /\ Issued' /\ Began' /\ Awaited'
  BY DEF Window, ExpiresType, Issued, Began, Awaited
<1>2. GrantedInTime'
  BY DEF Window, Awaited, GrantedInTime
<1> QED
  BY <1>1, <1>2 DEF Window

LEMMA WindowStep ==
    ASSUME TypeOK, GrantInv, Window, [TNext]_tvars
    PROVE  Window'
<1> USE DEF args, map, outcome
<1>1. ASSUME NEW k \in Keys, IssueTuningApproval(k) PROVE Window'
  <2>1. now \in Nat /\ now + ApprovalTTL \in Nat /\ expires[k] = 0
    BY <1>1, ApprovalTTLAssumption DEF IssueTuningApproval, TypeOK
  <2>2. expires' = [expires EXCEPT ![k] = now + ApprovalTTL] /\ UNCHANGED vars
    BY <1>1 DEF IssueTuningApproval, store
  <2>3. ExpiresType' /\ Issued'
    BY <2>1, <2>2 DEF Window, ExpiresType, Issued, vars
  <2>4. \A c \in Calls : pc[c] # "idle" => key[c] # k
    BY <2>1 DEF Window, Began, TypeOK
  <2>5. Began'
    BY <2>2, <2>4 DEF Window, ExpiresType, Began, TypeOK, vars
  <2>6. Awaited' /\ GrantedInTime'
    BY <2>2 DEF Window, Awaited, GrantedInTime, Granted, vars
  <2> QED BY <2>3, <2>5, <2>6 DEF Window
<1>2. ASSUME NEW c \in Calls, ConsumeApproval(c) PROVE Window'
  <2>1. /\ Claim(c) /\ expires' = expires /\ now < expires[key[c]] /\ expires[key[c]] # 0
    BY <1>2 DEF ConsumeApproval, Revalidate, tuning
  <2>2. /\ pc[c] = "idle" /\ began' = [began EXCEPT ![c] = now] /\ now' = now /\ key' = key
        /\ granted' = granted /\ via' = via
        /\ \/ pc' = [pc EXCEPT ![c] = "dup"]
           \/ pc' = [pc EXCEPT ![c] = "setnx"]
    BY <2>1 DEF Claim, Duplicate
  <2>3. /\ began'[c] = now /\ now \in Nat /\ now <= now + CallTicks
        /\ \A d \in Calls : d # c => began'[d] = began[d] /\ pc'[d] = pc[d]
    BY <2>2, CallTicksAssumption DEF TypeOK
  <2>4. ExpiresType' /\ Issued'
    BY <2>1, <2>2 DEF Window, ExpiresType, Issued
  <2>5. Began'
    BY <2>1, <2>2, <2>3 DEF Window, Issued, Began, TypeOK
  <2>6. Awaited'
    BY <2>2, <2>3 DEF Window, Awaited
  <2>7. via[c] = "none"
    BY <2>2 DEF GrantInv, Undecided
  <2>8. ~Granted(c)'
    BY <2>2, <2>7 DEF Granted, TypeOK
  <2>9. GrantedInTime'
    BY <2>2, <2>3, <2>8 DEF Window, GrantedInTime, Granted
  <2> QED BY <2>4, <2>5, <2>6, <2>9 DEF Window
<1>3. CASE StoreStep
  <2>0. expires' = expires
    BY <1>3 DEF StoreStep, tuning
  <2>1. ASSUME NEW c \in Calls, ServerSetNX(c) PROVE Window'
    BY <2>0, <2>1, WindowLater DEF ServerSetNX, Granted, TypeOK
  <2>2. ASSUME NEW c \in Calls, ClaimGranted(c) PROVE Window'
    BY <2>0, <2>2, WindowLater DEF ClaimGranted, Win, Granted, TypeOK
  <2>3. ASSUME NEW c \in Calls, ServerGet(c) PROVE Window'
    BY <2>0, <2>3, WindowLater DEF ServerGet, Win, Duplicate, Granted, TypeOK
  <2>4. ASSUME NEW c \in Calls, ClaimError(c) PROVE Window'
    <3>1. via[c] = "none" /\ pc[c] \in {"setnx", "ok", "get"}
      BY <2>4 DEF ClaimError, GrantInv, Undecided
    <3> DEFINE found == Live(fallback[at[c]], key[c])
    <3>2. Duplicate(c, found) \/ Win(c, "fallback", now)
      BY <2>4 DEF ClaimError, FallbackClaim
    <3>3. now' = now /\ key' = key /\ began' = began
      BY <2>4 DEF ClaimError
    <3> QED
      BY <2>0, <3>1, <3>2, <3>3, WindowLater DEF Win, Duplicate, Granted, TypeOK
  <2>5. ASSUME NEW m \in late, ServerLate(m) PROVE Window'
    BY <2>0, <2>5, WindowLater DEF ServerLate, Granted
  <2>6. ASSUME ValkeyDown \/ ValkeyUp PROVE Window'
    BY <2>0, <2>6, WindowLater DEF ValkeyDown, ValkeyUp, Granted
  <2>7. CASE Tick
    <3>1. /\ now' = now + 1 /\ UNCHANGED <<key, pc, began, via, granted>>
          /\ \A c \in Calls : pc[c] \in InFlight => now - began[c] < CallTicks
      BY <2>7 DEF Tick
    <3>2. now \in Nat /\ CallTicks \in Nat /\ ApprovalTTL \in Nat /\ \A c \in Calls : began[c] \in Nat
      BY CallTicksAssumption, ApprovalTTLAssumption DEF TypeOK
    <3>3. ExpiresType' /\ Issued'
      BY <2>0, <3>1, <3>2 DEF Window, ExpiresType, Issued
    <3>4. Awaited'
      BY <3>1, <3>2 DEF Window, Awaited, InFlight
    <3>5. Began' /\ GrantedInTime'
      BY <2>0, <3>1 DEF Window, Began, GrantedInTime, Granted
    <3> QED BY <3>3, <3>4, <3>5 DEF Window
  <2> QED BY <1>3, <2>1, <2>2, <2>3, <2>4, <2>5, <2>6, <2>7 DEF StoreStep
<1>4. ASSUME NEW r \in Replicas, Restart(r) PROVE Window'
  <2>1. expires' = expires /\ Crash(r)
    BY <1>4 DEF Restart
  <2> QED BY <2>1, WindowLater DEF Crash, InFlight, Granted, TypeOK
<1>5. ASSUME NEW c \in Calls,
             \/ RejectApproval(c) \/ BeginOperation(c) \/ CreateJob(c) \/ CreateReply(c)
             \/ CreateFails(c) \/ LateCreate(c) \/ JobFinishes(c)
      PROVE  Window'
  <2>1. UNCHANGED <<expires, vars>>
    BY <1>5 DEF RejectApproval, BeginOperation, CreateJob, CreateReply, CreateFails, LateCreate,
                JobFinishes, store
  <2> QED BY <2>1, WindowKept
<1>6. ASSUME NEW c \in Calls,
             \/ PollFinished(c) \/ PollDeadline(c) \/ RequestThrows(c)
             \/ ReadLogs(c) \/ DeleteJob(c) \/ FinishOperation(c)
      PROVE  Window'
  <2>1. UNCHANGED <<expires, vars>>
    BY <1>6 DEF PollFinished, PollDeadline, RequestThrows, ReadLogs, DeleteJob, FinishOperation,
                store
  <2> QED BY <2>1, WindowKept
<1>7. CASE UNCHANGED tvars
  BY <1>7, WindowKept DEF tvars, tuning
<1> QED
  BY <1>1, <1>2, <1>3, <1>4, <1>5, <1>6, <1>7 DEF TNext

\* Two grants of one approval would be closer than the approval's replay TTL.
LEMMA GrantedClose ==
    ASSUME TypeOK, GrantInv, Window
    PROVE  GrantedOnce
<1> SUFFICES ASSUME NEW c \in Calls, NEW d \in Calls, c # d, key[c] = key[d],
                    via[c] = "valkey", via[d] = "valkey"
             PROVE  FALSE
  BY DEF GrantedOnce
<1> DEFINE e == expires[key[c]]
<1>1. /\ granted[c] \in Nat /\ granted[d] \in Nat /\ began[c] \in Nat /\ began[d] \in Nat
      /\ e \in Nat /\ key[c] \in Keys
  BY DEF TypeOK, Window, ExpiresType
<1>2. ApprovalTTL \in Nat /\ CallTicks \in Nat /\ TTL[key[c]] \in Nat
  BY <1>1, ApprovalTTLAssumption, CallTicksAssumption, TTLAssumption
<1>3. TTL[key[c]] >= ApprovalTTL + CallTicks
  BY <1>1, ApprovalTTLAssumption
<1>4. Granted(c) /\ Granted(d) /\ pc[c] # "idle" /\ pc[d] # "idle"
  BY DEF Granted, GrantInv, Undecided
<1>5. /\ began[c] < e /\ e <= began[c] + ApprovalTTL
      /\ began[d] < e /\ e <= began[d] + ApprovalTTL
  BY <1>4 DEF Window, Began
<1>6. /\ began[c] <= granted[c] /\ granted[c] <= began[c] + CallTicks
      /\ began[d] <= granted[d] /\ granted[d] <= began[d] + CallTicks
  BY <1>4 DEF Window, GrantedInTime
<1>7. \/ granted[c] >= granted[d] + TTL[key[c]]
      \/ granted[d] >= granted[c] + TTL[key[c]]
  BY <1>4 DEF GrantInv, Apart
<1> HIDE DEF e
<1> QED
  BY <1>1, <1>2, <1>3, <1>5, <1>6, <1>7

\* ApprovalGrantedOnce: for every approval and replay TTL with the replay claim at
\* least as long as the approval and one claim(), any number of replicas and requests
\* and any failures, Valkey grants an approval to at most one request.
THEOREM ApprovalGrantedOnce == TSpec => []GrantedOnce
<1>1. TInit => Init /\ Window
  BY WindowInit DEF TInit
<1>2. Init => GrantInv
  BY DEF Init, GrantInv, Undecided, Recorded, Apart, Granted
<1>3. TypeOK /\ GrantInv /\ Window /\ [TNext]_tvars => GrantInv' /\ Window'
  BY TuningStep, GrantStep, WindowStep
<1>4. TypeOK /\ GrantInv /\ Window => GrantedOnce
  BY GrantedClose
<1>5. TSpec => []TypeOK
  BY StoreRefined, Typing, PTL
<1> QED
  BY <1>1, <1>2, <1>3, <1>4, <1>5, PTL DEF TSpec

---------------------------------------------------------------------------
(* A replay is refused.                                                     *)

\* A record of an approval outlives every claim of it: it was set after the approval
\* was issued.
Outlives ==
    \A v \in valkey : expires[v.key] + TTL[v.key] <= v.exp + ApprovalTTL

\* A request that Valkey refused finds a record when it asks for it: no approval is
\* won because its claim expired between SET NX and GET.
NoRace ==
    \A c \in Calls :
        /\ pc[c] = "get" => HeldUntil(key[c], 0)
        /\ via[c] # "race"
        /\ Won(c) => began[c] <= granted[c]

\* A request that follows a remembered consumer of its approval does not win.
Refused ==
    \A c, d \in Calls : Remembered(c) /\ Follows(d, c) =>
        /\ pc[d] = "setnx" => HeldUntil(key[d], 0)
        /\ pc[d] # "ok" /\ ~Won(d)

ReplayInv == Outlives /\ NoRace /\ Refused

\* While a claim of an approval is under way, every record of it is live.
LEMMA RecordLive ==
    ASSUME TypeOK, Window, Outlives, NEW d \in Calls, pc[d] \in {"setnx", "ok", "get"},
           HeldUntil(key[d], 0)
    PROVE  Live(valkey, key[d]) # {}
<1>1. PICK v \in valkey : v.key = key[d]
  BY DEF HeldUntil
<1>2. /\ began[d] < expires[key[d]] /\ now <= began[d] + CallTicks
      /\ expires[key[d]] + TTL[key[d]] <= v.exp + ApprovalTTL
  BY <1>1 DEF Window, Began, Awaited, Outlives
<1>3. /\ v.exp \in Nat /\ began[d] \in Nat /\ expires[key[d]] \in Nat /\ now \in Nat
      /\ TTL[key[d]] \in Nat /\ ApprovalTTL \in Nat /\ CallTicks \in Nat
      /\ TTL[key[d]] >= ApprovalTTL + CallTicks
  BY Numbers, ApprovalTTLAssumption DEF TypeOK, ValkeyRecord, Window, ExpiresType
<1>4. v.exp > now
  BY <1>2, <1>3
<1> QED BY <1>1, <1>4 DEF Live

\* The TTL of a consumer of the approval is not over while another claim is under way.
LEMMA NotOver ==
    ASSUME TypeOK, Window, NoRace, NEW c \in Calls, NEW d \in Calls, Won(c), key[c] = key[d],
           now < expires[key[d]] + CallTicks
    PROVE  now < granted[c] + TTL[key[c]]
<1>1. pc[c] # "idle" /\ began[c] <= granted[c]
  BY DEF Won, Winner, NoRace
<1>2. expires[key[c]] <= began[c] + ApprovalTTL
  BY <1>1 DEF Window, Began
<1>3. /\ began[c] \in Nat /\ expires[key[c]] \in Nat /\ now \in Nat /\ granted[c] \in Nat
      /\ TTL[key[c]] \in Nat /\ ApprovalTTL \in Nat /\ CallTicks \in Nat
      /\ TTL[key[c]] >= ApprovalTTL + CallTicks
  BY Numbers, ApprovalTTLAssumption DEF Window, ExpiresType
<1> QED BY <1>1, <1>2, <1>3

LEMMA OutlivesStep ==
    ASSUME TypeOK, RefusalInv, Window, Outlives, [TNext]_tvars
    PROVE  Outlives'
<1> USE DEF args, map, outcome
<1>1. CASE UNCHANGED <<valkey, expires>>
  BY <1>1 DEF Outlives
<1>2. ASSUME NEW c \in Calls, Set(c), expires' = expires PROVE Outlives'
  <2> SUFFICES ASSUME NEW v \in valkey', v \notin valkey
               PROVE  expires[v.key] + TTL[v.key] <= v.exp + ApprovalTTL
    BY <1>2 DEF Outlives
  <2>1. v = [key |-> key[c], by |-> c, exp |-> now + TTL[key[c]]]
    BY <1>2 DEF Set
  <2>2. v.key = key[c] /\ v.exp = now + TTL[key[c]]
    BY <2>1
  <2>3. /\ expires[key[c]] \in Nat /\ now \in Nat /\ TTL[key[c]] \in Nat /\ ApprovalTTL \in Nat
        /\ expires[key[c]] # 0 => expires[key[c]] <= now + ApprovalTTL
    BY Numbers, ApprovalTTLAssumption DEF Window, ExpiresType, Issued
  <2> QED BY <2>2, <2>3
<1>3. ASSUME NEW k \in Keys, IssueTuningApproval(k) PROVE Outlives'
  <2>1. /\ valkey' = valkey /\ expires[k] = 0
        /\ expires' = [expires EXCEPT ![k] = now + ApprovalTTL]
    BY <1>3 DEF IssueTuningApproval, store, vars
  <2>2. ASSUME NEW v \in valkey PROVE v.key # k
    <3>1. v.by \in Calls /\ key[v.by] = v.key /\ pc[v.by] \in Answerable
      BY DEF RefusalInv, RecordBy, TypeOK, ValkeyRecord
    <3>2. began[v.by] < expires[v.key] /\ began[v.by] \in Nat
      BY <3>1 DEF Answerable, Winner, Window, Began, TypeOK
    <3> QED BY <2>1, <3>2
  <2>3. \A v \in valkey : v.key \in Keys
    BY DEF TypeOK, ValkeyRecord
  <2> QED BY <2>1, <2>2, <2>3 DEF Outlives, Window, ExpiresType
<1>4. CASE StoreStep
  <2>1. expires' = expires
    BY <1>4 DEF StoreStep, tuning
  <2>2. ASSUME NEW m \in late, ServerLate(m) PROVE Outlives'
    <3>1. m.call \in Calls
      BY DEF TypeOK, Command
    <3> QED BY <1>1, <1>2, <2>1, <2>2, <3>1 DEF ServerLate
  <2> QED
    BY <1>1, <1>2, <1>4, <2>1, <2>2
       DEF StoreStep, ServerSetNX, ClaimGranted, ServerGet, ClaimError, ValkeyDown, ValkeyUp, Tick
<1>5. ASSUME \/ \E c \in Calls : ConsumeApproval(c)
             \/ \E r \in Replicas : Restart(r)
      PROVE  Outlives'
  BY <1>1, <1>5 DEF ConsumeApproval, Claim, Restart, Crash, tuning
<1>6. ASSUME NEW c \in Calls,
             \/ RejectApproval(c) \/ BeginOperation(c) \/ CreateJob(c) \/ CreateReply(c)
             \/ CreateFails(c) \/ LateCreate(c) \/ JobFinishes(c)
      PROVE  UNCHANGED <<valkey, expires>>
  BY <1>6 DEF RejectApproval, BeginOperation, CreateJob, CreateReply, CreateFails, LateCreate,
              JobFinishes, store, vars
<1>7. ASSUME NEW c \in Calls,
             \/ PollFinished(c) \/ PollDeadline(c) \/ RequestThrows(c)
             \/ ReadLogs(c) \/ DeleteJob(c) \/ FinishOperation(c)
      PROVE  UNCHANGED <<valkey, expires>>
  BY <1>7 DEF PollFinished, PollDeadline, RequestThrows, ReadLogs, DeleteJob, FinishOperation,
              store, vars
<1>8. CASE UNCHANGED tvars
  BY <1>1, <1>8 DEF tvars, tuning, vars
<1> QED
  BY <1>1, <1>3, <1>4, <1>5, <1>6, <1>7, <1>8 DEF TNext

\* Valkey never forgets that it has seen a key.
LEMMA HeldOn ==
    ASSUME TypeOK, [Next]_vars, NEW c \in Calls, HeldUntil(key[c], 0)
    PROVE  HeldUntil(key[c], 0)'
<1>1. key' = key
  BY DEF Next, Claim, ServerSetNX, ClaimGranted, ServerGet, ClaimError, Fulfill, ServerSet,
     MirrorResult, ServerLate, ValkeyDown, ValkeyUp, Crash, Tick, vars, args
<1>2. PICK k : k = key[c]
  OBVIOUS
<1>3. k \in Keys /\ 0 \in Int /\ 0 <= now + TTL[k]
  BY <1>2, Numbers
<1>4. HeldUntil(k, 0)'
  BY <1>2, <1>3, HeldStep
<1>5. k = key'[c]
  BY <1>1, <1>2
<1> QED BY <1>4, <1>5

LEMMA NoRaceStep ==
    ASSUME TypeOK, Window, Outlives, NoRace, [TNext]_tvars
    PROVE  NoRace'
<1> USE DEF args, map, outcome
<1>0. [Next]_vars
  BY TuningStep
<1> SUFFICES ASSUME NEW c \in Calls
             PROVE  /\ pc'[c] = "get" => HeldUntil(key[c], 0)'
                    /\ via'[c] # "race"
                    /\ Won(c)' => began'[c] <= granted'[c]
  BY DEF NoRace
<1>1. ASSUME pc'[c] = "get" => pc[c] = "get", via'[c] = via[c], began'[c] = began[c],
             granted'[c] = granted[c], Won(c)' => Won(c)
      PROVE  /\ pc'[c] = "get" => HeldUntil(key[c], 0)'
             /\ via'[c] # "race"
             /\ Won(c)' => began'[c] <= granted'[c]
  BY <1>0, <1>1, HeldOn DEF NoRace
<1>2. via[c] # "race"
  BY DEF NoRace
<1>3. ASSUME NEW b \in Calls, ConsumeApproval(b)
      PROVE  /\ pc'[c] = "get" => HeldUntil(key[c], 0)'
             /\ via'[c] # "race"
             /\ Won(c)' => began'[c] <= granted'[c]
  <2>0. Claim(b)
    BY <1>3 DEF ConsumeApproval
  <2>1. CASE b = c
    <3>1. pc'[c] \in {"dup", "setnx"} /\ via'[c] = via[c]
      BY <2>0, <2>1 DEF Claim, Duplicate, TypeOK
    <3> QED BY <1>2, <3>1 DEF Won, Winner
  <2>2. CASE b # c
    <3>1. pc'[c] = pc[c] /\ via'[c] = via[c] /\ began'[c] = began[c] /\ granted'[c] = granted[c]
      BY <2>0, <2>2 DEF Claim, Duplicate, TypeOK
    <3> QED BY <1>1, <3>1 DEF Won
  <2> QED BY <2>1, <2>2
<1>4. ASSUME NEW b \in Calls, ServerSetNX(b)
      PROVE  /\ pc'[c] = "get" => HeldUntil(key[c], 0)'
             /\ via'[c] # "race"
             /\ Won(c)' => began'[c] <= granted'[c]
  <2>1. CASE b = c
    <3>1. /\ pc'[c] \in {"ok", "get"} /\ via'[c] = via[c] /\ key' = key
          /\ pc'[c] = "get" => Live(valkey, key[c]) # {} /\ valkey' = valkey
      BY <1>4, <2>1 DEF ServerSetNX, TypeOK
    <3>2. pc'[c] = "get" => HeldUntil(key[c], 0)'
      BY <3>1 DEF Live, HeldUntil, TypeOK, ValkeyRecord
    <3> QED BY <1>2, <3>1, <3>2 DEF Won, Winner
  <2>2. CASE b # c
    <3>1. pc'[c] = pc[c] /\ via'[c] = via[c] /\ began'[c] = began[c] /\ granted'[c] = granted[c]
      BY <1>4, <2>2 DEF ServerSetNX, TypeOK
    <3> QED BY <1>1, <3>1 DEF Won
  <2> QED BY <2>1, <2>2
<1>5. ASSUME NEW b \in Calls, ClaimGranted(b) \/ ServerGet(b) \/ ClaimError(b)
      PROVE  /\ pc'[c] = "get" => HeldUntil(key[c], 0)'
             /\ via'[c] # "race"
             /\ Won(c)' => began'[c] <= granted'[c]
  <2>0. began' = began
    BY <1>5 DEF ClaimGranted, ServerGet, ClaimError
  <2>1. \/ \E found : Duplicate(b, found)
        \/ pc[b] = "ok" /\ Win(b, "valkey", granted[b])
        \/ pc[b] \in {"setnx", "ok", "get"} /\ Win(b, "fallback", now)
    <3>1. ServerGet(b) => Live(valkey, key[b]) # {}
      BY RecordLive DEF ServerGet, NoRace
    <3> QED BY <1>5, <3>1 DEF ClaimGranted, ServerGet, ClaimError, FallbackClaim
  <2>2. CASE b # c
    <3>1. pc'[c] = pc[c] /\ via'[c] = via[c] /\ granted'[c] = granted[c]
      BY <2>1, <2>2 DEF Duplicate, Win, TypeOK
    <3> QED BY <1>1, <2>0, <3>1 DEF Won
  <2>3. CASE b = c
    <3>1. CASE \E found : Duplicate(b, found)
      BY <1>2, <2>3, <3>1 DEF Duplicate, Won, Winner, TypeOK
    <3>2. CASE pc[c] = "ok" /\ Win(c, "valkey", granted[c])
      <4>1. began[c] <= granted[c]
        BY <3>2 DEF Window, GrantedInTime, Granted
      <4> QED BY <2>0, <3>2, <4>1 DEF Win, TypeOK
    <3>3. CASE pc[c] \in {"setnx", "ok", "get"} /\ Win(c, "fallback", now)
      <4>1. began[c] <= now
        BY <3>3 DEF Window, Awaited
      <4> QED BY <2>0, <3>3, <4>1 DEF Win, TypeOK
    <3> QED BY <2>1, <2>3, <3>1, <3>2, <3>3
  <2> QED BY <2>2, <2>3
<1>6. ASSUME \/ \E m \in late : ServerLate(m)
             \/ \E r \in Replicas : Crash(r)
             \/ ValkeyDown \/ ValkeyUp \/ Tick \/ UNCHANGED vars
      PROVE  /\ pc'[c] = "get" => HeldUntil(key[c], 0)'
             /\ via'[c] # "race"
             /\ Won(c)' => began'[c] <= granted'[c]
  <2>1. /\ pc'[c] = pc[c] \/ pc'[c] = "crashed"
        /\ via' = via /\ began' = began /\ granted' = granted
    BY <1>6 DEF ServerLate, Crash, ValkeyDown, ValkeyUp, Tick, vars
  <2> QED BY <1>1, <2>1 DEF Won, Winner
<1> QED
  BY <1>3, <1>4, <1>5, <1>6, TuningCases DEF StoreStep

LEMMA RefusedStep ==
    ASSUME TypeOK, WinnerInv, Window, ReplayInv, [TNext]_tvars
    PROVE  Refused'
<1> USE DEF args, map, outcome
<1>0. /\ [Next]_vars /\ Outlives /\ NoRace /\ Refused
      /\ Timely /\ Kept /\ Earlier
  BY TuningStep DEF ReplayInv, WinnerInv
<1> SUFFICES ASSUME NEW c \in Calls, NEW d \in Calls, Remembered(c)', Follows(d, c)'
             PROVE  (pc'[d] = "setnx" => HeldUntil(key[d], 0)') /\ pc'[d] # "ok" /\ ~Won(d)'
  BY DEF Refused
<1>1. at' = at /\ key' = key
  BY <1>0 DEF Next, Claim, ServerSetNX, ClaimGranted, ServerGet, ClaimError, Fulfill, ServerSet,
     MirrorResult, ServerLate, ValkeyDown, ValkeyUp, Crash, Tick, vars
<1>2. at[c] = at[d] /\ key[c] = key[d] /\ c \in prior'[d]
  BY <1>1 DEF Follows
<1>3. pc[c] \in Winner \cup {"crashed"}
  BY <1>0, <1>2, PriorStep DEF Earlier
<1>4. Won(c) /\ Remembered(c) /\ KeptCall(c)
  BY <1>0, <1>3, RememberedBefore DEF Kept, Remembered
<1>5. ASSUME now < expires[key[d]] + CallTicks
      PROVE  \E e \in Live(fallback[at[d]], key[d]) : e.degraded \/ Known(c)
  <2>1. now < granted[c] + TTL[key[c]]
    BY <1>0, <1>2, <1>4, <1>5, NotOver
  <2>2. PICK e \in fallback[at[c]] : Covers(e, c)
    BY <1>4, <2>1, Numbers DEF KeptCall
  <2>3. e.exp \in Nat
    BY <2>2, Numbers DEF TypeOK, FallbackEntry
  <2>4. e.exp > now
    BY <2>1, <2>2, <2>3, Numbers DEF Covers
  <2> QED BY <1>2, <2>2, <2>4 DEF Covers, Live
<1>6. ASSUME pc[d] \in {"setnx", "ok", "get"}
      PROVE  now < expires[key[d]] + CallTicks
  <2>1. began[d] < expires[key[d]] /\ now <= began[d] + CallTicks
    BY <1>6 DEF Window, Began, Awaited
  <2>2. began[d] \in Nat /\ now \in Nat /\ CallTicks \in Nat /\ expires[key[d]] \in Nat
    BY Numbers DEF Window, ExpiresType
  <2> QED BY <2>1, <2>2
<1>7. CASE Claim(d) /\ now < expires[key[d]]
  <2>1. CASE PeekDegraded(fallback[at[d]], key[d]) = {}
    <3>1. now < expires[key[d]] + CallTicks
      BY <1>7, Numbers DEF Window, ExpiresType
    <3>2. Known(c)
      BY <1>5, <2>1, <3>1 DEF PeekDegraded
    <3>3. HeldUntil(key[d], 0)
      BY <1>2, <3>2 DEF Known, HeldUntil, TypeOK, ValkeyRecord
    <3>4. pc'[d] = "setnx"
      BY <1>7, <2>1 DEF Claim, Duplicate, TypeOK
    <3> QED BY <1>0, <3>3, <3>4, HeldOn DEF Won, Winner
  <2>2. CASE PeekDegraded(fallback[at[d]], key[d]) # {}
    <3>1. pc'[d] = "dup"
      BY <1>7, <2>2 DEF Claim, Duplicate, TypeOK
    <3> QED BY <3>1 DEF Won, Winner
  <2> QED BY <2>1, <2>2
<1>8. CASE prior'[d] = prior[d] /\ ~Claim(d)
  <2>1. Follows(d, c)
    BY <1>2, <1>8 DEF Follows
  <2>2. (pc[d] = "setnx" => HeldUntil(key[d], 0)) /\ pc[d] # "ok" /\ ~Won(d)
    BY <1>0, <1>4, <2>1 DEF Refused
  <2>3. ASSUME pc'[d] = pc[d] \/ pc'[d] \in {"get", "dup", "crashed"}
        PROVE  (pc'[d] = "setnx" => HeldUntil(key[d], 0)') /\ pc'[d] # "ok" /\ ~Won(d)'
    BY <1>0, <2>2, <2>3, HeldOn DEF Won, Winner
  <2>4. ASSUME NEW b \in Calls, ConsumeApproval(b) PROVE pc'[d] = pc[d]
    BY <1>8, <2>4 DEF ConsumeApproval, Claim, Duplicate, TypeOK
  <2>5. ASSUME NEW b \in Calls, ServerSetNX(b) PROVE pc'[d] = pc[d] \/ pc'[d] = "get"
    <3>1. CASE b = d
      <4>1. pc[d] = "setnx"
        BY <2>5, <3>1 DEF ServerSetNX
      <4>2. Live(valkey, key[d]) # {}
        BY <1>0, <2>2, <4>1, RecordLive
      <4> QED BY <2>5, <3>1, <4>2 DEF ServerSetNX, TypeOK
    <3>2. CASE b # d
      BY <2>5, <3>2 DEF ServerSetNX, TypeOK
    <3> QED BY <3>1, <3>2
  <2>6. ASSUME NEW b \in Calls, ClaimGranted(b) PROVE pc'[d] = pc[d]
    BY <2>2, <2>6 DEF ClaimGranted, Win, TypeOK
  <2>7. ASSUME NEW b \in Calls, b # d, ServerGet(b) \/ ClaimError(b) PROVE pc'[d] = pc[d]
    <3>1. (\E found : Duplicate(b, found)) \/ (\E how, when : Win(b, how, when))
      BY <2>7 DEF ServerGet, ClaimError, FallbackClaim
    <3> QED BY <2>7, <3>1 DEF Duplicate, Win, TypeOK
  <2>8. ASSUME ServerGet(d) PROVE pc'[d] = "dup"
    <3>1. Live(valkey, key[d]) # {}
      BY <1>0, <2>8, RecordLive DEF ServerGet, NoRace
    <3> QED BY <2>8, <3>1 DEF ServerGet, Duplicate, TypeOK
  <2>9. ASSUME ClaimError(d) PROVE pc'[d] = "dup"
    <3>1. Live(fallback[at[d]], key[d]) # {}
      BY <1>5, <1>6, <2>9 DEF ClaimError
    <3>2. Duplicate(d, Live(fallback[at[d]], key[d]))
      BY <2>9, <3>1 DEF ClaimError, FallbackClaim
    <3> QED BY <3>2 DEF Duplicate, TypeOK
  <2>10. ASSUME \/ \E m \in late : ServerLate(m)
                \/ \E r \in Replicas : Crash(r)
                \/ ValkeyDown \/ ValkeyUp \/ Tick \/ UNCHANGED vars
         PROVE  pc'[d] = pc[d] \/ pc'[d] = "crashed"
    BY <2>10 DEF ServerLate, Crash, ValkeyDown, ValkeyUp, Tick, vars
  <2> QED
    BY <2>3, <2>4, <2>5, <2>6, <2>7, <2>8, <2>9, <2>10, TuningCases DEF StoreStep
<1>9. Claim(d) => now < expires[key[d]]
  <2> SUFFICES ASSUME Claim(d) PROVE now < expires[key[d]]
    OBVIOUS
  <2>1. pc[d] = "idle" /\ pc'[d] # "idle"
    BY DEF Claim, Duplicate, TypeOK
  <2>2. CASE \E b \in Calls : ConsumeApproval(b)
    <3>1. PICK b \in Calls : ConsumeApproval(b)
      BY <2>2
    <3>2. b = d
      BY <2>1, <3>1 DEF ConsumeApproval, Claim, Duplicate, TypeOK
    <3> QED BY <3>1, <3>2 DEF ConsumeApproval, Revalidate
  <2>3. ASSUME NEW b \in Calls, ServerSetNX(b) \/ ClaimGranted(b) \/ ServerGet(b) \/ ClaimError(b)
        PROVE  FALSE
    <3>1. b # d
      BY <2>1, <2>3 DEF ServerSetNX, ClaimGranted, ServerGet, ClaimError
    <3>2. \E x : pc' = [pc EXCEPT ![b] = x]
      BY <2>3 DEF ServerSetNX, ClaimGranted, ServerGet, ClaimError, FallbackClaim, Duplicate, Win
    <3> QED BY <2>1, <3>1, <3>2 DEF TypeOK
  <2>4. ASSUME \/ \E m \in late : ServerLate(m)
               \/ \E r \in Replicas : Crash(r)
               \/ ValkeyDown \/ ValkeyUp \/ Tick \/ UNCHANGED vars
        PROVE  FALSE
    BY <2>1, <2>4 DEF ServerLate, Crash, ValkeyDown, ValkeyUp, Tick, vars, InFlight
  <2> QED BY <2>2, <2>3, <2>4, TuningCases DEF StoreStep
<1> QED BY <1>0, <1>7, <1>8, <1>9, PriorStep

\* ReplayRefused: once a request has consumed an approval, every request that begins
\* later in the same process is refused, through outages and recoveries of Valkey and
\* late commands, for every approval and replay TTL with the replay claim at least as
\* long as the approval and one claim() (consumeTuningApproval).
THEOREM ReplayRefused == TSpec => []ReplayRejected
<1>1. TInit => Window /\ ReplayInv
  <2> SUFFICES ASSUME TInit PROVE ReplayInv
    BY WindowInit
  <2>1. \A c \in Calls : pc[c] = "idle" /\ via[c] = "none" /\ prior[c] = {}
    BY DEF TInit, Init
  <2>2. \A c \in Calls : ~Won(c)
    BY <2>1 DEF Won, Winner
  <2>3. Outlives
    BY DEF TInit, Init, Outlives
  <2> QED BY <2>1, <2>2, <2>3 DEF ReplayInv, NoRace, Refused, Follows
<1>2. /\ TypeOK /\ GrantInv /\ WinnerInv /\ RefusalInv
      /\ Window /\ ReplayInv /\ [TNext]_tvars
      => Window' /\ ReplayInv'
  BY WindowStep, OutlivesStep, NoRaceStep, RefusedStep DEF ReplayInv
<1>3. ReplayInv => ReplayRejected
  BY DEF ReplayInv, NoRace, Refused, Remembered, Follows, ReplayRejected
<1>4. TSpec => []TypeOK /\ []GrantInv /\ []WinnerInv /\ []RefusalInv
  BY StoreRefined, Typing, GrantInvariant, WinnerInvariant, RefusalInvariant, PTL
<1> QED
  BY <1>1, <1>2, <1>3, <1>4, PTL DEF TSpec

---------------------------------------------------------------------------
(* The operation: its events, its job, and what the route knows of it.      *)

\* The lifecycle events emitted so far follow the route's progress.
Emitted ==
    \A c \in Calls :
        /\ step[c] \in {"none", "rejected"} => events[c] = <<>>
        /\ step[c] \in Running => events[c] = <<"started">>

\* A request that gave up on its POST never learned of the job,
Strayed ==
    \A c \in stray : step[c] = "dead" \/ (step[c] \in {"finish", "done"} /\ seen[c] = "unconfirmed")

\* a job found to have succeeded did succeed,
Truthful ==
    \A c \in Calls :
        /\ job[c] = "succeeded" => c \in succeeded
        /\ seen[c] = "succeeded" => c \in succeeded

\* operation.completed is emitted for such a job only,
Completed == \A c \in Calls : events[c] = <<"started", "completed">> => seen[c] = "succeeded"

\* and the clean-up comes before the terminal event.
CleanedUp ==
    \A c \in Calls :
        step[c] \in {"finish", "done"} /\ job[c] = "active" =>
            c \in undeleted \/ seen[c] = "unconfirmed"

OperationInv == TuningTypeOK /\ Emitted /\ Strayed /\ Truthful /\ Completed /\ CleanedUp

LEMMA OperationInit == TInit => OperationInv
<1> SUFFICES ASSUME TInit PROVE OperationInv
  OBVIOUS
<1>1. TuningTypeOK
  BY TypeInit DEF TInit, TuningTypeOK, Steps
<1>2. Emitted /\ Strayed /\ Truthful /\ Completed /\ CleanedUp
  BY DEF TInit, Emitted, Strayed, Truthful, Completed, CleanedUp, Running
<1> QED
  BY <1>1, <1>2 DEF OperationInv

LEMMA AppendEvents ==
    /\ Append(<<>>, "started") = <<"started">>
    /\ Append(<<"started">>, "completed") = <<"started", "completed">>
    /\ Append(<<"started">>, "failed") = <<"started", "failed">>
    /\ <<"started">> # <<"started", "completed">>
    /\ <<>> # <<"started", "completed">>
    /\ <<"started", "failed">> # <<"started", "completed">>
<1> DEFINE E == {"started", "completed", "failed"}
<1>1. Append(<<>>, "started") = <<"started">>
  OBVIOUS
<1>2. ASSUME NEW e \in E PROVE Append(<<"started">>, e) = <<"started", e>>
  <2>1. <<"started">> \in Seq(E) /\ Len(<<"started">>) = 1 /\ <<"started">>[1] = "started"
    OBVIOUS
  <2>2. /\ <<"started", e>> \in Seq(E) /\ Len(<<"started", e>>) = 2
        /\ <<"started", e>>[1] = "started" /\ <<"started", e>>[2] = e
    OBVIOUS
  <2> DEFINE s == Append(<<"started">>, e)
  <2>3. s \in Seq(E) /\ Len(s) = 2 /\ s[1] = "started" /\ s[2] = e
    BY <2>1, AppendProperties
  <2> HIDE DEF s
  <2>4. \A i \in 1 .. Len(s) : s[i] = <<"started", e>>[i]
    BY <2>2, <2>3
  <2>5. s = <<"started", e>>
    BY <2>2, <2>3, <2>4, SeqEqual
  <2> QED BY <2>5 DEF s
<1>3. "completed" \in E /\ "failed" \in E
  OBVIOUS
<1>4. /\ Len(<<>>) = 0 /\ Len(<<"started">>) = 1 /\ Len(<<"started", "completed">>) = 2
  OBVIOUS
<1>5. <<"started", "failed">>[2] = "failed" /\ <<"started", "completed">>[2] = "completed"
  OBVIOUS
<1>6. "failed" # "completed"
  OBVIOUS
<1> QED BY <1>1, <1>2, <1>3, <1>4, <1>5, <1>6

LEMMA OperationStep ==
    ASSUME OperationInv, [TNext]_tvars
    PROVE  OperationInv'
<1> USE DEF request, cluster, Running, Steps
<1>0. TypeOK'
  BY TuningStep, TypeStep DEF OperationInv, TuningTypeOK
<1>1. ASSUME NEW k \in Keys, IssueTuningApproval(k) PROVE OperationInv'
  <2>1. expires' \in [Keys -> Nat]
    BY <1>1, ApprovalTTLAssumption DEF IssueTuningApproval, OperationInv, TuningTypeOK, TypeOK
  <2>2. UNCHANGED <<intact, request, cluster>>
    BY <1>1 DEF IssueTuningApproval
  <2>3. TuningTypeOK'
    BY <1>0, <2>1, <2>2 DEF OperationInv, TuningTypeOK
  <2> QED
    BY <2>2, <2>3 DEF OperationInv, Emitted, Strayed, Truthful, Completed, CleanedUp
<1>2. ASSUME UNCHANGED tuning PROVE OperationInv'
  BY <1>0, <1>2 DEF tuning, OperationInv, TuningTypeOK, Emitted, Strayed, Truthful, Completed, CleanedUp
<1>3. ASSUME NEW c \in Calls, RejectApproval(c) PROVE OperationInv'
  <2>1. TuningTypeOK'
    BY <1>0, <1>3 DEF RejectApproval, OperationInv, TuningTypeOK
  <2> QED
    BY <1>3, <2>1 DEF RejectApproval, OperationInv, TuningTypeOK, Emitted, Strayed, Truthful, Completed, CleanedUp
<1>4. ASSUME NEW c \in Calls, BeginOperation(c) PROVE OperationInv'
  <2>1. /\ step[c] = "none" /\ step' = [step EXCEPT ![c] = "create"]
        /\ events' = [events EXCEPT ![c] = <<"started">>]
        /\ UNCHANGED <<expires, intact, seen, verified, cluster>>
    BY <1>4, AppendEvents DEF BeginOperation, OperationInv, TuningTypeOK, Emitted
  <2>2. TuningTypeOK'
    BY <1>0, <2>1 DEF OperationInv, TuningTypeOK
  <2>3. Emitted' /\ Strayed' /\ Truthful' /\ CleanedUp'
    BY <2>1 DEF OperationInv, TuningTypeOK, Emitted, Strayed, Truthful, CleanedUp
  <2>4. Completed'
    BY <2>1, AppendEvents DEF OperationInv, TuningTypeOK, Completed
  <2> QED BY <2>2, <2>3, <2>4 DEF OperationInv
<1>5. ASSUME NEW c \in Calls, CreateJob(c) \/ CreateReply(c) PROVE OperationInv'
  <2>1. TuningTypeOK'
    BY <1>0, <1>5 DEF CreateJob, CreateReply, OperationInv, TuningTypeOK
  <2>2. Emitted' /\ Strayed' /\ Completed'
    BY <1>5 DEF CreateJob, CreateReply, OperationInv, TuningTypeOK, Emitted, Strayed, Completed
  <2>3. Truthful' /\ CleanedUp'
    BY <1>5 DEF CreateJob, CreateReply, OperationInv, TuningTypeOK, Truthful, CleanedUp
  <2> QED BY <2>1, <2>2, <2>3 DEF OperationInv
<1>6. ASSUME NEW c \in Calls, CreateFails(c) PROVE OperationInv'
  <2>0. events[c] # <<"started", "completed">>
    BY <1>6, AppendEvents DEF CreateFails, OperationInv, Emitted
  <2>1. TuningTypeOK'
    BY <1>0, <1>6 DEF CreateFails, OperationInv, TuningTypeOK
  <2>2. Emitted' /\ Strayed'
    BY <1>6 DEF CreateFails, OperationInv, TuningTypeOK, Emitted, Strayed
  <2>3. Truthful' /\ Completed' /\ CleanedUp'
    BY <1>6, <2>0 DEF CreateFails, OperationInv, TuningTypeOK, Truthful, Completed, CleanedUp
  <2> QED BY <2>1, <2>2, <2>3 DEF OperationInv
<1>7. ASSUME NEW c \in Calls, LateCreate(c) PROVE OperationInv'
  <2>1. TuningTypeOK'
    BY <1>0, <1>7 DEF LateCreate, OperationInv, TuningTypeOK
  <2>2. Emitted' /\ Strayed' /\ Completed'
    BY <1>7 DEF LateCreate, OperationInv, Emitted, Strayed, Completed
  <2>3. Truthful' /\ CleanedUp'
    BY <1>7 DEF LateCreate, OperationInv, TuningTypeOK, Truthful, Strayed, CleanedUp
  <2> QED BY <2>1, <2>2, <2>3 DEF OperationInv
<1>8. ASSUME NEW c \in Calls, JobFinishes(c) PROVE OperationInv'
  <2>1. TuningTypeOK'
    BY <1>0, <1>8 DEF JobFinishes, OperationInv, TuningTypeOK
  <2>2. Emitted' /\ Strayed' /\ Completed'
    BY <1>8 DEF JobFinishes, OperationInv, Emitted, Strayed, Completed
  <2>3. Truthful' /\ CleanedUp'
    BY <1>8 DEF JobFinishes, OperationInv, TuningTypeOK, Truthful, CleanedUp
  <2> QED BY <2>1, <2>2, <2>3 DEF OperationInv
<1>9. ASSUME NEW c \in Calls, PollFinished(c) \/ PollDeadline(c) \/ RequestThrows(c)
      PROVE  OperationInv'
  <2>0. step[c] \in {"poll", "pods"} /\ events[c] # <<"started", "completed">>
    BY <1>9, AppendEvents DEF PollFinished, PollDeadline, RequestThrows, OperationInv, Emitted
  <2>1. TuningTypeOK'
    BY SMTT(30), <1>0, <1>9 DEF PollFinished, PollDeadline, RequestThrows, OperationInv, TuningTypeOK
  <2>2. Emitted' /\ Strayed'
    BY <1>9, <2>0 DEF PollFinished, PollDeadline, RequestThrows, OperationInv, TuningTypeOK, Emitted, Strayed
  <2>3. Truthful' /\ Completed' /\ CleanedUp'
    BY <1>9, <2>0 DEF PollFinished, PollDeadline, RequestThrows, OperationInv, TuningTypeOK, Truthful, Completed, CleanedUp
  <2> QED BY <2>1, <2>2, <2>3 DEF OperationInv
<1>10. ASSUME NEW c \in Calls, ReadLogs(c) \/ DeleteJob(c) PROVE OperationInv'
  <2>1. TuningTypeOK'
    BY SMTT(30), <1>0, <1>10 DEF ReadLogs, DeleteJob, OperationInv, TuningTypeOK
  <2>2. Emitted' /\ Strayed' /\ Completed'
    BY <1>10 DEF ReadLogs, DeleteJob, OperationInv, TuningTypeOK, Emitted, Strayed, Completed
  <2>3. Truthful' /\ CleanedUp'
    BY <1>10 DEF ReadLogs, DeleteJob, OperationInv, TuningTypeOK, Truthful, CleanedUp
  <2> QED BY <2>1, <2>2, <2>3 DEF OperationInv
<1>11. ASSUME NEW c \in Calls, FinishOperation(c) PROVE OperationInv'
  <2> DEFINE last == IF VerifiedOk(c) THEN <<"started", "completed">> ELSE <<"started", "failed">>
  <2>1. /\ step[c] = "finish" /\ step' = [step EXCEPT ![c] = "done"]
        /\ events' = [events EXCEPT ![c] = last]
        /\ UNCHANGED <<expires, intact, seen, verified, cluster>>
    BY <1>11, AppendEvents DEF FinishOperation, OperationInv, TuningTypeOK, Emitted
  <2>2. TuningTypeOK'
    BY <1>0, <2>1 DEF OperationInv, TuningTypeOK
  <2>3. Emitted' /\ Strayed' /\ Truthful' /\ CleanedUp'
    BY <2>1 DEF OperationInv, TuningTypeOK, Emitted, Strayed, Truthful, CleanedUp
  <2>4. Completed'
    BY <2>1, AppendEvents DEF OperationInv, TuningTypeOK, Completed, VerifiedOk
  <2> QED BY <2>2, <2>3, <2>4 DEF OperationInv
<1>12. ASSUME NEW r \in Replicas, Restart(r) PROVE OperationInv'
  <2>1. TuningTypeOK'
    BY <1>0, <1>12 DEF Restart, OperationInv, TuningTypeOK
  <2>2. Emitted' /\ Completed'
    BY <1>12 DEF Restart, OperationInv, TuningTypeOK, Emitted, Completed
  <2>3. Strayed'
    BY <1>12 DEF Restart, OperationInv, TuningTypeOK, Strayed
  <2>4. Truthful' /\ CleanedUp'
    BY <1>12 DEF Restart, OperationInv, TuningTypeOK, Truthful, CleanedUp
  <2> QED BY <2>1, <2>2, <2>3, <2>4 DEF OperationInv
<1> QED
  BY <1>1, <1>2, <1>3, <1>4, <1>5, <1>6, <1>7, <1>8, <1>9, <1>10, <1>11, <1>12
     DEF TNext, ConsumeApproval, StoreStep, tvars

LEMMA OperationInvariant == TSpec => []OperationInv
<1>1. OperationInv /\ [TNext]_tvars => OperationInv'
  BY OperationStep
<1> QED
  BY <1>1, OperationInit, PTL DEF TSpec

\* TuningTyping: every variable keeps its type, and an operation that was started
\* emits at most one terminal event.
THEOREM TuningTyping == TSpec => []TuningTypeOK
<1>1. OperationInv => TuningTypeOK
  BY DEF OperationInv
<1> QED
  BY <1>1, OperationInvariant, PTL

\* CompletedTruthful: operation.completed is never emitted for a job that did not
\* complete on the host.
THEOREM CompletedTruthful == TSpec => []CompletedMeansSucceeded
<1>1. OperationInv => CompletedMeansSucceeded
  BY DEF OperationInv, Completed, Truthful, CompletedMeansSucceeded
<1> QED
  BY <1>1, OperationInvariant, PTL

\* JobsCleanedUp: a request that has been answered leaves no privileged job running,
\* unless its creation was never confirmed or its DELETE failed.
THEOREM JobsCleanedUp == TSpec => []NoJobLeftRunning
<1>1. OperationInv => NoJobLeftRunning
  BY DEF OperationInv, CleanedUp, NoJobLeftRunning
<1> QED
  BY <1>1, OperationInvariant, PTL
===============================================================================
