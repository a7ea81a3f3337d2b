--------------------------- MODULE IdempotencyProofs ---------------------------
(***************************************************************************)
(* Machine-checked proofs about the dedup store of module Idempotency, for  *)
(* any number of replicas, keys and calls, any TTLs, capacity and timeout.  *)
(***************************************************************************)
EXTENDS Idempotency, FiniteSetTheorems, WellFoundedInduction, TLAPS

---------------------------------------------------------------------------
(* Typing.                                                                  *)

\* What setBounded writes is made of well-formed entries.
LEMMA SetBoundedType ==
    ASSUME TypeOK,
           NEW S \in SUBSET FallbackEntry, NEW k \in Keys, NEW c \in Calls,
           NEW degraded \in BOOLEAN, NEW n \in Nat
    PROVE  SetBounded(S, k, c, degraded, n) \in SUBSET FallbackEntry
<1> DEFINE kept == Sweep(S) \ Evicted(S, k)
           ord == IF \E e \in kept : e.key = k
                  THEN (CHOOSE e \in kept : e.key = k).ord ELSE n
<1>1. kept \subseteq FallbackEntry
  BY DEF Sweep
<1>2. ord \in Nat
  BY <1>1 DEF FallbackEntry
<1>3. now + TTL[k] \in Nat
  BY TTLAssumption DEF TypeOK
<1>4. [key |-> k, by |-> c, exp |-> now + TTL[k], degraded |-> degraded, ord |-> ord]
         \in FallbackEntry
  <2> HIDE DEF ord
  <2> QED BY <1>2, <1>3 DEF FallbackEntry
<1> QED
  BY <1>1, <1>4 DEF SetBounded

\* The map stays well-formed when a call writes it.
LEMMA WriteType ==
    ASSUME TypeOK, NEW c \in Calls, NEW degraded \in BOOLEAN, Write(c, degraded)
    PROVE  /\ fallback' \in [Replicas -> SUBSET FallbackEntry]
           /\ inserts' \in [Replicas -> Nat]
           /\ forgotten' \subseteq Calls
<1>1. at[c] \in Replicas /\ key[c] \in Keys /\ inserts[at[c]] + 1 \in Nat
  BY DEF TypeOK
<1>2. SetBounded(fallback[at[c]], key[c], c, degraded, inserts[at[c]] + 1)
         \in SUBSET FallbackEntry
  BY <1>1, SetBoundedType DEF TypeOK
<1> QED
  BY <1>1, <1>2 DEF Write, Unmarked, TypeOK

\* So does a call's outcome, whichever it is.
LEMMA WinType ==
    ASSUME TypeOK, NEW c \in Calls, NEW how \in Vias, NEW when \in Nat, Win(c, how, when)
    PROVE  /\ pc' \in [Calls -> PCs] /\ via' \in [Calls -> Vias]
           /\ granted' \in [Calls -> Nat] /\ of' \in [Calls -> Calls]
BY DEF Win, TypeOK, PCs, Winner

LEMMA DuplicateType ==
    ASSUME TypeOK, NEW c \in Calls, NEW found, \A e \in found : e.by \in Calls,
           Duplicate(c, found)
    PROVE  /\ pc' \in [Calls -> PCs] /\ via' \in [Calls -> Vias]
           /\ granted' \in [Calls -> Nat] /\ of' \in [Calls -> Calls]
BY DEF Duplicate, TypeOK, PCs

LEMMA LiveBy ==
    ASSUME TypeOK, NEW k
    PROVE  /\ \A e \in Live(valkey, k) : e.by \in Calls
           /\ \A r \in Replicas : \A e \in Live(fallback[r], k) : e.by \in Calls
BY DEF Live, TypeOK, ValkeyRecord, FallbackEntry

\* The record Valkey stores for a call is well-formed.
LEMMA SetType ==
    ASSUME TypeOK, NEW c \in Calls, Set(c)
    PROVE  valkey' \subseteq ValkeyRecord
<1>1. key[c] \in Keys /\ now + TTL[key[c]] \in Nat
  BY TTLAssumption DEF TypeOK
<1>2. [key |-> key[c], by |-> c, exp |-> now + TTL[key[c]]] \in ValkeyRecord
  BY <1>1 DEF ValkeyRecord
<1> QED
  BY <1>2 DEF Set, TypeOK

LEMMA AbandonType ==
    ASSUME TypeOK, NEW c \in Calls, Abandon(c)
    PROVE  late' \subseteq Command
BY DEF Abandon, TypeOK, Command

\* Every step keeps the state well-formed.
LEMMA TypeStep ==
    ASSUME TypeOK, [Next]_vars
    PROVE  TypeOK'
<1> USE DEF args, map, outcome
<1>1. ASSUME NEW c \in Calls, Claim(c)
      PROVE  TypeOK'
  <2>1. /\ began' \in [Calls -> Nat]
        /\ prior' \in [Calls -> SUBSET Calls]
    BY <1>1 DEF Claim, TypeOK
  <2>2. /\ pc' \in [Calls -> PCs] /\ via' \in [Calls -> Vias]
        /\ granted' \in [Calls -> Nat] /\ of' \in [Calls -> Calls]
    <3> DEFINE unreconciled == PeekDegraded(fallback[at[c]], key[c])
    <3>1. CASE unreconciled # {}
      <4>1. \A e \in unreconciled : e.by \in Calls
        BY LiveBy DEF PeekDegraded, TypeOK
      <4>2. Duplicate(c, unreconciled)
        BY <1>1, <3>1 DEF Claim
      <4> QED BY <4>1, <4>2, DuplicateType
    <3>2. CASE unreconciled = {}
      BY <1>1, <3>2 DEF Claim, TypeOK, PCs, InFlight
    <3> QED BY <3>1, <3>2
  <2> QED BY <1>1, <2>1, <2>2 DEF Claim, TypeOK
<1>2. ASSUME NEW c \in Calls, ServerSetNX(c)
      PROVE  TypeOK'
  <2>1. valkey' \subseteq ValkeyRecord
    BY <1>2, SetType DEF ServerSetNX, TypeOK
  <2>2. pc' \in [Calls -> PCs] /\ granted' \in [Calls -> Nat]
    BY <1>2 DEF ServerSetNX, TypeOK, PCs, InFlight
  <2> QED BY <1>2, <2>1, <2>2 DEF ServerSetNX, TypeOK
<1>3. ASSUME NEW c \in Calls, ClaimGranted(c)
      PROVE  TypeOK'
  <2>1. granted[c] \in Nat /\ "valkey" \in Vias
    BY DEF TypeOK, Vias
  <2> QED BY <1>3, <2>1, WriteType, WinType DEF ClaimGranted, TypeOK
<1>4. ASSUME NEW c \in Calls, ServerGet(c)
      PROVE  TypeOK'
  <2>1. now \in Nat /\ "race" \in Vias /\ key[c] \in Keys
    BY DEF TypeOK, Vias
  <2>2. /\ pc' \in [Calls -> PCs] /\ via' \in [Calls -> Vias]
        /\ granted' \in [Calls -> Nat] /\ of' \in [Calls -> Calls]
    BY <1>4, <2>1, LiveBy, DuplicateType, WinType DEF ServerGet
  <2> QED BY <1>4, <2>2 DEF ServerGet, TypeOK
<1>5. ASSUME NEW c \in Calls, ClaimError(c)
      PROVE  TypeOK'
  <2> DEFINE found == Live(fallback[at[c]], key[c])
  <2>1. now \in Nat /\ "fallback" \in Vias /\ at[c] \in Replicas
    BY DEF TypeOK, Vias
  <2>2. /\ pc' \in [Calls -> PCs] /\ via' \in [Calls -> Vias]
        /\ granted' \in [Calls -> Nat] /\ of' \in [Calls -> Calls]
    BY <1>5, <2>1, LiveBy, DuplicateType, WinType DEF ClaimError, FallbackClaim
  <2>3. /\ fallback' \in [Replicas -> SUBSET FallbackEntry]
        /\ inserts' \in [Replicas -> Nat]
        /\ forgotten' \subseteq Calls
    <3>1. CASE UNCHANGED map
      BY <3>1 DEF TypeOK
    <3>2. CASE Write(c, TRUE)
      BY <3>2, WriteType
    <3> QED BY <1>5, <3>1, <3>2 DEF ClaimError, FallbackClaim
  <2> QED BY <1>5, <2>2, <2>3, AbandonType DEF ClaimError, TypeOK
<1>6. ASSUME NEW c \in Calls, Fulfill(c)
      PROVE  TypeOK'
  BY <1>6 DEF Fulfill, TypeOK, PCs, InFlight
<1>7. ASSUME NEW c \in Calls, ServerSet(c)
      PROVE  TypeOK'
  <2>1. pc' \in [Calls -> PCs]
    BY <1>7 DEF ServerSet, TypeOK, PCs, InFlight
  <2> QED BY <1>7, <2>1, SetType DEF ServerSet, TypeOK
<1>8. ASSUME NEW c \in Calls, MirrorResult(c)
      PROVE  TypeOK'
  <2>1. pc' \in [Calls -> PCs]
    BY <1>8 DEF MirrorResult, TypeOK, PCs, Winner
  <2> QED BY <1>8, <2>1, WriteType, AbandonType DEF MirrorResult, TypeOK
<1>9. ASSUME NEW m \in late, ServerLate(m)
      PROVE  TypeOK'
  <2>1. m.call \in Calls
    BY DEF TypeOK, Command
  <2>2. valkey' \subseteq ValkeyRecord
    BY <1>9, <2>1, SetType DEF ServerLate, TypeOK
  <2> QED BY <1>9, <2>2 DEF ServerLate, TypeOK
<1>10. ASSUME ValkeyDown \/ ValkeyUp
       PROVE  TypeOK'
  BY <1>10 DEF ValkeyDown, ValkeyUp, TypeOK
<1>11. ASSUME NEW r \in Replicas, Crash(r)
       PROVE  TypeOK'
  <2>1. late' \subseteq Command
    BY <1>11 DEF Crash, TypeOK, Command
  <2>2. pc' \in [Calls -> PCs]
    BY <1>11 DEF Crash, TypeOK, PCs
  <2> QED BY <1>11, <2>1, <2>2 DEF Crash, TypeOK
<1>12. ASSUME Tick
       PROVE  TypeOK'
  BY <1>12 DEF Tick, TypeOK
<1>13. CASE UNCHANGED vars
  BY <1>13 DEF vars, TypeOK
<1> QED
  BY <1>1, <1>2, <1>3, <1>4, <1>5, <1>6, <1>7, <1>8, <1>9, <1>10, <1>11, <1>12, <1>13
     DEF Next

LEMMA TypeInit == Init => TypeOK
BY DEF Init, TypeOK, PCs, Vias

\* Typing: in every reachable state every variable of the dedup store's model
\* holds a value of its kind.
THEOREM Typing == Spec => []TypeOK
BY TypeInit, TypeStep, PTL DEF Spec

---------------------------------------------------------------------------
(* The fallback map never outgrows its capacity.                            *)

LEMMA SmallestOf ==
    ASSUME NEW T \in SUBSET Nat, T # {}
    PROVE  \E m \in T : \A n \in T : m <= n
<1> DEFINE R == {ss \in Nat \X Nat : ss[1] < ss[2]}
<1>1. IsWellFoundedOn(R, Nat)
  BY NatLessThanWellFounded, Zenon DEF OpToRel
<1>2. PICK m \in T : \A n \in T : ~(<<n, m>> \in R)
  <2> HIDE DEF R
  <2> QED BY <1>1, WFMin
<1>3. \A n \in T : ~(n < m)
  <2> TAKE n \in T
  <2>1. <<n, m>> \in Nat \X Nat
    OBVIOUS
  <2> QED BY <1>2, <2>1
<1> QED BY <1>3

\* setBounded finds an oldest entry whenever it looks for one.
LEMMA OldestIn ==
    ASSUME NEW S \in SUBSET FallbackEntry, S # {}
    PROVE  Oldest(S) \in S
<1> DEFINE T == {e.ord : e \in S}
<1>1. T \in SUBSET Nat /\ T # {}
  BY DEF FallbackEntry
<1>2. PICK m \in T : \A n \in T : m <= n
  <2> HIDE DEF T
  <2> QED BY <1>1, SmallestOf
<1>3. \E e \in S : \A f \in S : e.ord <= f.ord
  BY <1>2
<1> QED BY <1>3 DEF Oldest

\* The inductive form of the bound: the map is finite as well as small.
Bounded(S) == IsFiniteSet(S) /\ Cardinality(S) <= MaxEntries

FallbackInv == \A r \in Replicas : Bounded(fallback[r])

LEMMA SetBoundedBounded ==
    ASSUME NEW S \in SUBSET FallbackEntry, Bounded(S), NEW k, NEW c, NEW degraded, NEW n
    PROVE  Bounded(SetBounded(S, k, c, degraded, n))
<1> DEFINE kept == Sweep(S) \ Evicted(S, k)
           others == {e \in kept : e.key # k}
           ord == IF \E e \in kept : e.key = k
                  THEN (CHOOSE e \in kept : e.key = k).ord ELSE n
           new == [key |-> k, by |-> c, exp |-> now + TTL[k], degraded |-> degraded, ord |-> ord]
<1>1. /\ Sweep(S) \in SUBSET S
      /\ IsFiniteSet(Sweep(S))
      /\ Cardinality(Sweep(S)) <= Cardinality(S)
  <2>1. Sweep(S) \in SUBSET S
    BY DEF Sweep
  <2> QED BY <2>1, FS_Subset DEF Bounded
<1>2. /\ Cardinality(S) \in Nat
      /\ Cardinality(Sweep(S)) \in Nat
      /\ Cardinality(S) <= MaxEntries
      /\ MaxEntries \in Nat
  BY <1>1, FS_CardinalityType, MaxEntriesAssumption DEF Bounded
<1>3. IsFiniteSet(others) /\ Cardinality(others) \in Nat /\ Cardinality(others) + 1 <= MaxEntries
  <2>1. others \in SUBSET Sweep(S)
    OBVIOUS
  <2>2. IsFiniteSet(others) /\ Cardinality(others) \in Nat
    <3> HIDE DEF others
    <3> QED BY <1>1, <2>1, FS_Subset, FS_CardinalityType
  <2>3. \A e \in Sweep(S) : e \notin others => Cardinality(others) + 1 <= Cardinality(Sweep(S))
    <3> HIDE DEF others
    <3> TAKE e \in Sweep(S)
    <3> HAVE e \notin others
    <3>1. others \in SUBSET (Sweep(S) \ {e})
      BY <2>1
    <3>2. /\ IsFiniteSet(Sweep(S) \ {e})
          /\ Cardinality(Sweep(S) \ {e}) = Cardinality(Sweep(S)) - 1
      BY <1>1, FS_RemoveElement
    <3>3. Cardinality(others) <= Cardinality(Sweep(S) \ {e})
      BY <3>1, <3>2, FS_Subset
    <3> QED BY <3>2, <3>3, <2>2, <1>2
  <2>4. CASE \E e \in Sweep(S) : e.key = k
    BY <1>1, <1>2, <2>2, <2>3, <2>4
  <2>5. CASE (\A e \in Sweep(S) : e.key # k) /\ Cardinality(Sweep(S)) >= MaxEntries
    <3>1. Sweep(S) # {}
      BY <1>1, <1>2, <2>5, FS_EmptySet, MaxEntriesAssumption
    <3>2. Oldest(Sweep(S)) \in Sweep(S)
      BY <1>1, <3>1, OldestIn
    <3>3. Oldest(Sweep(S)) \notin others
      BY <2>5 DEF Evicted
    <3> QED BY <1>1, <1>2, <2>2, <2>3, <3>2, <3>3
  <2>6. CASE (\A e \in Sweep(S) : e.key # k) /\ ~(Cardinality(Sweep(S)) >= MaxEntries)
    <3>1. Cardinality(others) <= Cardinality(Sweep(S))
      <4> HIDE DEF others
      <4> QED BY <1>1, <2>1, FS_Subset
    <3> QED BY <1>2, <2>2, <2>6, <3>1
  <2> QED BY <2>4, <2>5, <2>6
<1>4. IsFiniteSet(others \cup {new}) /\ Cardinality(others \cup {new}) <= MaxEntries
  <2>1. IsFiniteSet(others)
    BY <1>3
  <2> HIDE DEF others, new
  <2>2. /\ IsFiniteSet(others \cup {new})
        /\ Cardinality(others \cup {new}) =
              IF new \in others THEN Cardinality(others) ELSE Cardinality(others) + 1
    BY <2>1, FS_AddElement, Zenon
  <2> QED BY <1>2, <1>3, <2>2
<1>5. SetBounded(S, k, c, degraded, n) = others \cup {new}
  BY DEF SetBounded
<1> QED
  BY <1>4, <1>5 DEF Bounded

LEMMA WriteBounded ==
    ASSUME TypeOK, FallbackInv, NEW c \in Calls, NEW degraded, Write(c, degraded)
    PROVE  FallbackInv'
<1>1. at[c] \in Replicas /\ fallback[at[c]] \in SUBSET FallbackEntry
  BY DEF TypeOK
<1>2. Bounded(SetBounded(fallback[at[c]], key[c], c, degraded, inserts[at[c]] + 1))
  BY <1>1, SetBoundedBounded DEF FallbackInv
<1> QED
  BY <1>1, <1>2 DEF Write, TypeOK, FallbackInv, Bounded

LEMMA BoundedStep ==
    ASSUME TypeOK, FallbackInv, [Next]_vars
    PROVE  FallbackInv'
<1> USE DEF map
<1>1. ASSUME NEW c \in Calls, ClaimGranted(c) PROVE FallbackInv'
  BY <1>1, WriteBounded DEF ClaimGranted
<1>2. ASSUME NEW c \in Calls, ClaimError(c) PROVE FallbackInv'
  <2>1. CASE UNCHANGED map
    BY <2>1 DEF FallbackInv, Bounded
  <2>2. CASE Write(c, TRUE)
    BY <2>2, WriteBounded
  <2> QED BY <1>2, <2>1, <2>2 DEF ClaimError, FallbackClaim
<1>3. ASSUME NEW c \in Calls, MirrorResult(c) PROVE FallbackInv'
  BY <1>3, WriteBounded DEF MirrorResult
<1>4. ASSUME NEW r \in Replicas, Crash(r) PROVE FallbackInv'
  <2>1. Bounded({})
    BY FS_EmptySet, MaxEntriesAssumption DEF Bounded
  <2> QED BY <1>4, <2>1 DEF Crash, FallbackInv, Bounded, TypeOK
<1>5. ASSUME UNCHANGED fallback PROVE FallbackInv'
  BY <1>5 DEF FallbackInv, Bounded
<1> QED
  BY <1>1, <1>2, <1>3, <1>4, <1>5
     DEF Next, Claim, ServerSetNX, ServerGet, Fulfill, ServerSet, ServerLate,
         ValkeyDown, ValkeyUp, Tick, vars

\* FallbackCapacity: the in-memory map of InMemoryIdempotencyStore holds at most
\* maxEntries entries, whatever mix of outage claims, mirrored claims and
\* fulfilled results writes it.
THEOREM FallbackCapacity == Spec => []FallbackBounded
<1>1. Init => FallbackInv
  BY FS_EmptySet, MaxEntriesAssumption DEF Init, FallbackInv, Bounded
<1>2. TypeOK /\ FallbackInv /\ [Next]_vars => FallbackInv'
  BY BoundedStep
<1>3. FallbackInv => FallbackBounded
  BY DEF FallbackInv, Bounded, FallbackBounded
<1> QED
  BY <1>1, <1>2, <1>3, Typing, PTL DEF Spec

---------------------------------------------------------------------------
(* Two claims of a key that Valkey itself granted are a TTL apart.          *)

\* Valkey accepted c's SET NX and c knows it, or its reply is on the way.
Granted(c) == pc[c] = "ok" \/ via[c] = "valkey"

\* A call still in claim() has not won anything.
Undecided == \A c \in Calls : pc[c] \in {"idle", "setnx", "ok", "get"} => via[c] = "none"

\* Valkey still has a record of every key it granted, which outlives the grant's
\* TTL; expired records stay in the set until they are overwritten.
Recorded ==
    \A c \in Calls : Granted(c) =>
        /\ granted[c] <= now
        /\ \E e \in valkey : e.key = key[c] /\ e.exp >= granted[c] + TTL[key[c]]

Apart ==
    \A c, d \in Calls :
        c # d /\ Granted(c) /\ Granted(d) /\ key[c] = key[d]
        => \/ granted[c] >= granted[d] + TTL[key[c]]
           \/ granted[d] >= granted[c] + TTL[key[c]]

GrantInv == Undecided /\ Recorded /\ Apart

\* A SET of one call's key keeps every grant recorded.
LEMMA SetRecorded ==
    ASSUME TypeOK, Recorded, NEW c \in Calls, Set(c), NEW d \in Calls, Granted(d)
    PROVE  \E e \in valkey' : e.key = key[d] /\ e.exp >= granted[d] + TTL[key[d]]
<1> DEFINE new == [key |-> key[c], by |-> c, exp |-> now + TTL[key[c]]]
<1>1. new \in valkey' /\ new.key = key[c] /\ new.exp = now + TTL[key[c]]
  BY DEF Set
<1>2. PICK e \in valkey : e.key = key[d] /\ e.exp >= granted[d] + TTL[key[d]]
  BY DEF Recorded
<1>3. CASE key[d] = key[c]
  <2>1. granted[d] <= now /\ granted[d] \in Nat /\ now \in Nat /\ TTL[key[d]] \in Nat
    BY TTLAssumption DEF Recorded, TypeOK
  <2>2. new.exp >= granted[d] + TTL[key[d]]
    BY <1>1, <1>3, <2>1
  <2> QED BY <1>1, <1>3, <2>2
<1>4. CASE key[d] # key[c]
  <2>1. e \in valkey'
    BY <1>2, <1>4 DEF Set
  <2> QED BY <1>2, <2>1
<1> QED BY <1>3, <1>4

\* A step that grants nothing new and writes no record keeps the invariant.
LEMMA GrantKept ==
    ASSUME TypeOK, GrantInv, now' \in Nat, now' >= now, valkey' = valkey, key' = key,
           Undecided',
           \A c \in Calls : Granted(c)' => Granted(c) /\ granted'[c] = granted[c]
    PROVE  GrantInv'
<1>1. Recorded'
  <2> SUFFICES ASSUME NEW c \in Calls, Granted(c)'
               PROVE  /\ granted'[c] <= now'
                      /\ \E e \in valkey' : e.key = key'[c] /\ e.exp >= granted'[c] + TTL[key'[c]]
    BY DEF Recorded
  <2>1. Granted(c) /\ granted'[c] = granted[c] /\ granted[c] \in Nat /\ now \in Nat
    BY DEF TypeOK
  <2> QED BY <2>1 DEF GrantInv, Recorded
<1>2. Apart'
  BY DEF GrantInv, Apart
<1> QED BY <1>1, <1>2 DEF GrantInv

LEMMA GrantStep ==
    ASSUME TypeOK, GrantInv, [Next]_vars
    PROVE  GrantInv'
<1> USE DEF args, map, outcome
<1>0. now \in Nat /\ now >= now
  BY DEF TypeOK
<1>1. ASSUME NEW c \in Calls, Claim(c) PROVE GrantInv'
  <2>1. \A d \in Calls : Granted(d)' => Granted(d) /\ granted'[d] = granted[d]
    BY <1>1 DEF Claim, Duplicate, Granted, TypeOK
  <2>2. Undecided'
    BY <1>1 DEF Claim, Duplicate, GrantInv, Undecided, TypeOK
  <2> QED BY <1>0, <1>1, <2>1, <2>2, GrantKept DEF Claim
<1>2. ASSUME NEW c \in Calls, ServerSetNX(c) PROVE GrantInv'
  <2>1. Undecided'
    BY <1>2 DEF ServerSetNX, GrantInv, Undecided, TypeOK
  <2>2. CASE Live(valkey, key[c]) # {}
    <3>1. \A d \in Calls : Granted(d)' => Granted(d) /\ granted'[d] = granted[d]
      BY <1>2, <2>2 DEF ServerSetNX, Granted, TypeOK
    <3> QED BY <1>0, <1>2, <2>1, <2>2, <3>1, GrantKept DEF ServerSetNX
  <2>3. CASE Live(valkey, key[c]) = {}
    <3>1. /\ Set(c) /\ now' = now /\ key' = key /\ via' = via
          /\ pc' = [pc EXCEPT ![c] = "ok"] /\ granted' = [granted EXCEPT ![c] = now]
      BY <1>2, <2>3 DEF ServerSetNX
    <3>2. \A d \in Calls : d # c /\ Granted(d)' => Granted(d) /\ granted'[d] = granted[d]
      BY <3>1 DEF Granted, TypeOK
    <3>3. granted'[c] = now
      BY <3>1 DEF TypeOK
    <3>4. ASSUME NEW d \in Calls, d # c, Granted(d), key[d] = key[c]
          PROVE  granted[d] + TTL[key[d]] <= now
      <4>1. PICK e \in valkey : e.key = key[d] /\ e.exp >= granted[d] + TTL[key[d]]
        BY <3>4 DEF GrantInv, Recorded
      <4>2. ~(e.exp > now)
        BY <2>3, <3>4, <4>1 DEF Live
      <4>3. e.exp \in Nat /\ granted[d] \in Nat /\ TTL[key[d]] \in Nat
        BY TTLAssumption DEF TypeOK, ValkeyRecord
      <4> QED BY <1>0, <4>1, <4>2, <4>3
    <3>5. Recorded'
      <4> SUFFICES ASSUME NEW d \in Calls, Granted(d)'
                   PROVE  /\ granted'[d] <= now'
                          /\ \E e \in valkey' : e.key = key'[d] /\ e.exp >= granted'[d] + TTL[key'[d]]
        BY DEF Recorded
      <4>1. CASE d = c
        <5> DEFINE new == [key |-> key[c], by |-> c, exp |-> now + TTL[key[c]]]
        <5>1. new \in valkey' /\ new.key = key[c] /\ new.exp = now + TTL[key[c]]
          BY <3>1 DEF Set
        <5>2. TTL[key[c]] \in Nat
          BY TTLAssumption DEF TypeOK
        <5>3. new.exp >= granted'[d] + TTL[key'[d]]
          BY <1>0, <3>1, <3>3, <4>1, <5>1, <5>2
        <5> QED BY <1>0, <3>1, <3>3, <4>1, <5>1, <5>3
      <4>2. CASE d # c
        BY <3>1, <3>2, <4>2, SetRecorded DEF GrantInv, Recorded
      <4> QED BY <4>1, <4>2
    <3>6. Apart'
      <4> SUFFICES ASSUME NEW a \in Calls, NEW b \in Calls, a # b,
                          Granted(a)', Granted(b)', key'[a] = key'[b]
                   PROVE  \/ granted'[a] >= granted'[b] + TTL[key'[a]]
                          \/ granted'[b] >= granted'[a] + TTL[key'[a]]
        BY DEF Apart
      <4>0. /\ granted[a] \in Nat /\ granted[b] \in Nat
            /\ TTL[key[a]] \in Nat /\ key[a] = key[b]
        BY <3>1, TTLAssumption DEF TypeOK
      <4>1. CASE a = c
        BY <1>0, <3>1, <3>2, <3>3, <3>4, <4>0, <4>1
      <4>2. CASE b = c
        BY <1>0, <3>1, <3>2, <3>3, <3>4, <4>0, <4>2
      <4>3. CASE a # c /\ b # c
        BY <3>1, <3>2, <4>3 DEF GrantInv, Apart
      <4> QED BY <4>1, <4>2, <4>3
    <3> QED BY <2>1, <3>5, <3>6 DEF GrantInv
  <2> QED BY <2>2, <2>3
<1>3. ASSUME NEW c \in Calls, ClaimGranted(c) PROVE GrantInv'
  <2>1. \A d \in Calls : Granted(d)' => Granted(d) /\ granted'[d] = granted[d]
    BY <1>3 DEF ClaimGranted, Win, Granted, TypeOK
  <2>2. Undecided'
    BY <1>3 DEF ClaimGranted, Win, GrantInv, Undecided, TypeOK
  <2> QED BY <1>0, <1>3, <2>1, <2>2, GrantKept DEF ClaimGranted
<1>4. ASSUME NEW c \in Calls, ServerGet(c) PROVE GrantInv'
  <2>1. \A d \in Calls : Granted(d)' => Granted(d) /\ granted'[d] = granted[d]
    BY <1>4 DEF ServerGet, Win, Duplicate, Granted, TypeOK
  <2>2. Undecided'
    BY <1>4 DEF ServerGet, Win, Duplicate, GrantInv, Undecided, TypeOK
  <2> QED BY <1>0, <1>4, <2>1, <2>2, GrantKept DEF ServerGet
<1>5. ASSUME NEW c \in Calls, ClaimError(c) PROVE GrantInv'
  <2>0. via[c] = "none"
    BY <1>5 DEF ClaimError, GrantInv, Undecided
  <2>1. /\ \A d \in Calls : Granted(d)' => Granted(d) /\ granted'[d] = granted[d]
        /\ Undecided'
    <3> DEFINE found == Live(fallback[at[c]], key[c])
    <3>1. CASE Duplicate(c, found)
      BY <2>0, <3>1 DEF Duplicate, Granted, GrantInv, Undecided, TypeOK
    <3>2. CASE Win(c, "fallback", now)
      BY <2>0, <3>2 DEF Win, Granted, GrantInv, Undecided, TypeOK
    <3> QED BY <1>5, <3>1, <3>2 DEF ClaimError, FallbackClaim
  <2> QED BY <1>0, <1>5, <2>1, GrantKept DEF ClaimError
<1>6. ASSUME NEW c \in Calls, Fulfill(c) PROVE GrantInv'
  <2>1. \A d \in Calls : Granted(d)' => Granted(d) /\ granted'[d] = granted[d]
    BY <1>6 DEF Fulfill, Granted, TypeOK
  <2>2. Undecided'
    BY <1>6 DEF Fulfill, GrantInv, Undecided, TypeOK
  <2> QED BY <1>0, <1>6, <2>1, <2>2, GrantKept DEF Fulfill
<1>7. ASSUME NEW c \in Calls, Set(c), now' = now, key' = key, Undecided',
             \A d \in Calls : Granted(d)' => Granted(d) /\ granted'[d] = granted[d]
      PROVE  GrantInv'
  <2>1. Recorded'
    BY <1>7, SetRecorded DEF GrantInv, Recorded
  <2>2. Apart'
    BY <1>7 DEF GrantInv, Apart
  <2> QED BY <1>7, <2>1, <2>2 DEF GrantInv
<1>8. ASSUME NEW c \in Calls, ServerSet(c) PROVE GrantInv'
  <2>1. \A d \in Calls : Granted(d)' => Granted(d) /\ granted'[d] = granted[d]
    BY <1>8 DEF ServerSet, Granted, TypeOK
  <2>2. Undecided'
    BY <1>8 DEF ServerSet, GrantInv, Undecided, TypeOK
  <2> QED BY <1>7, <1>8, <2>1, <2>2 DEF ServerSet
<1>9. ASSUME NEW c \in Calls, MirrorResult(c) PROVE GrantInv'
  <2>1. \A d \in Calls : Granted(d)' => Granted(d) /\ granted'[d] = granted[d]
    BY <1>9 DEF MirrorResult, Granted, TypeOK
  <2>2. Undecided'
    BY <1>9 DEF MirrorResult, GrantInv, Undecided, TypeOK
  <2> QED BY <1>0, <1>9, <2>1, <2>2, GrantKept DEF MirrorResult
<1>10. ASSUME NEW m \in late, ServerLate(m) PROVE GrantInv'
  <2>1. \A d \in Calls : Granted(d)' => Granted(d) /\ granted'[d] = granted[d]
    BY <1>10 DEF ServerLate, Granted, TypeOK
  <2>2. Undecided'
    BY <1>10 DEF ServerLate, GrantInv, Undecided, TypeOK
  <2>3. m.call \in Calls
    BY DEF TypeOK, Command
  <2>4. CASE UNCHANGED valkey
    BY <1>0, <1>10, <2>1, <2>2, <2>4, GrantKept DEF ServerLate
  <2>5. CASE Set(m.call)
    BY <1>7, <1>10, <2>1, <2>2, <2>3, <2>5 DEF ServerLate
  <2> QED BY <1>10, <2>4, <2>5 DEF ServerLate
<1>11. ASSUME NEW r \in Replicas, Crash(r) PROVE GrantInv'
  <2>1. \A d \in Calls : Granted(d)' => Granted(d) /\ granted'[d] = granted[d]
    BY <1>11 DEF Crash, Granted, TypeOK
  <2>2. Undecided'
    BY <1>11 DEF Crash, GrantInv, Undecided, TypeOK
  <2> QED BY <1>0, <1>11, <2>1, <2>2, GrantKept DEF Crash
<1>12. ASSUME ValkeyDown \/ ValkeyUp \/ Tick \/ UNCHANGED vars PROVE GrantInv'
  <2>1. \A d \in Calls : Granted(d)' => Granted(d) /\ granted'[d] = granted[d]
    BY <1>12 DEF ValkeyDown, ValkeyUp, Tick, vars, Granted
  <2>2. Undecided'
    BY <1>12 DEF ValkeyDown, ValkeyUp, Tick, vars, GrantInv, Undecided
  <2>3. now' \in Nat /\ now' >= now /\ valkey' = valkey /\ key' = key
    BY <1>0, <1>12 DEF ValkeyDown, ValkeyUp, Tick, vars
  <2> QED BY <2>1, <2>2, <2>3, GrantKept
<1> QED
  BY <1>1, <1>2, <1>3, <1>4, <1>5, <1>6, <1>8, <1>9, <1>10, <1>11, <1>12 DEF Next

LEMMA GrantInvariant == Spec => []GrantInv
<1>1. Init => GrantInv
  BY DEF Init, GrantInv, Undecided, Recorded, Apart, Granted
<1> QED BY <1>1, GrantStep, Typing, PTL DEF Spec

\* GrantsApart: two calls that Valkey's SET NX granted the same key won it at
\* least the key's TTL apart, through outages, lost replies, late commands,
\* fulfilled results and replica restarts.
THEOREM GrantsApart == Spec => []ValkeyGrantsApart
<1>1. GrantInv => ValkeyGrantsApart
  BY DEF GrantInv, Apart, Granted, ValkeyGrantsApart
<1> QED BY <1>1, GrantInvariant, PTL

---------------------------------------------------------------------------
(* A key is never refused to everyone.                                      *)

\* What setBounded leaves in the map: the unexpired entries of other keys, less the
\* evicted one, and the entry it writes.
LEMMA SetBoundedMembers ==
    ASSUME NEW S, NEW k, NEW c, NEW degraded, NEW n
    PROVE  /\ \A e \in SetBounded(S, k, c, degraded, n) :
                 \/ e \in S /\ e.key # k
                 \/ e.key = k /\ e.by = c
           /\ \A e \in S : e.key # k /\ e.exp > now /\ e \notin Evicted(S, k) =>
                 e \in SetBounded(S, k, c, degraded, n)
           /\ \E e \in SetBounded(S, k, c, degraded, n) :
                 e.key = k /\ e.by = c /\ e.exp = now + TTL[k] /\ e.degraded = degraded
<1> DEFINE kept == Sweep(S) \ Evicted(S, k)
           ord == IF \E e \in kept : e.key = k
                  THEN (CHOOSE e \in kept : e.key = k).ord ELSE n
           new == [key |-> k, by |-> c, exp |-> now + TTL[k], degraded |-> degraded, ord |-> ord]
           others == {e \in kept : e.key # k}
<1>1. SetBounded(S, k, c, degraded, n) = others \cup {new}
  BY DEF SetBounded
<1>2. new.key = k /\ new.by = c /\ new.exp = now + TTL[k] /\ new.degraded = degraded
  OBVIOUS
<1>3. /\ \A e \in others : e \in S /\ e.key # k
      /\ \A e \in S : e.key # k /\ e.exp > now /\ e \notin Evicted(S, k) => e \in others
  BY DEF Sweep
<1> HIDE DEF others, new
<1> QED BY <1>1, <1>2, <1>3

\* An entry of a replica's map was written by a winner of its key on that replica.
MapBy ==
    \A r \in Replicas : \A e \in fallback[r] :
        at[e.by] = r /\ key[e.by] = e.key /\ pc[e.by] \in Winner

\* Some call with key k has won, is about to, or was cut off by a crash.
Backed(k) == \E d \in Calls : key[d] = k /\ pc[d] \in Winner \cup {"ok", "crashed"}

\* Where a call is that the server may have accepted a SET of.
Answerable == Winner \cup {"ok", "dup", "crashed"}

\* Valkey's records, and the commands it may still run, are of keys that are backed.
RecordBy ==
    /\ \A v \in valkey : key[v.by] = v.key /\ pc[v.by] \in Answerable /\ Backed(v.key)
    /\ \A m \in late : pc[m.call] \in Answerable /\ Backed(key[m.call])

DupBy == \A c \in Calls : pc[c] = "dup" => of[c] # c /\ Backed(key[c])

RefusalInv == MapBy /\ RecordBy /\ DupBy

LEMMA WriteMapBy ==
    ASSUME TypeOK, MapBy, NEW c \in Calls, NEW degraded, Write(c, degraded),
           at' = at, key' = key, NEW x \in Winner, pc' = [pc EXCEPT ![c] = x]
    PROVE  MapBy'
<1> SUFFICES ASSUME NEW r \in Replicas, NEW e \in fallback'[r]
             PROVE  at[e.by] = r /\ key[e.by] = e.key /\ pc'[e.by] \in Winner
  BY DEF MapBy
<1>1. at[c] \in Replicas /\ pc'[c] = x /\ (\A d \in Calls : d # c => pc'[d] = pc[d])
  BY DEF TypeOK
<1>2. ASSUME e \in fallback[r]
      PROVE  at[e.by] = r /\ key[e.by] = e.key /\ pc'[e.by] \in Winner
  <2>1. at[e.by] = r /\ key[e.by] = e.key /\ pc[e.by] \in Winner
    BY <1>2 DEF MapBy
  <2>2. e.by \in Calls
    BY <1>2 DEF TypeOK, FallbackEntry
  <2> QED BY <1>1, <2>1, <2>2
<1>3. CASE r = at[c]
  <2>1. fallback'[r] = SetBounded(fallback[r], key[c], c, degraded, inserts[r] + 1)
    BY <1>1, <1>3 DEF Write, TypeOK
  <2>2. e \in fallback[r] \/ (e.key = key[c] /\ e.by = c)
    BY <2>1, SetBoundedMembers
  <2> QED BY <1>1, <1>2, <1>3, <2>2
<1>4. CASE r # at[c]
  BY <1>2, <1>4 DEF Write, TypeOK
<1> QED BY <1>3, <1>4

LEMMA MapByStep ==
    ASSUME TypeOK, MapBy, [Next]_vars
    PROVE  MapBy'
<1> USE DEF args, map, outcome
<1>0. \A r \in Replicas : \A e \in fallback[r] : e.by \in Calls
  BY DEF TypeOK, FallbackEntry
<1>1. ASSUME UNCHANGED <<fallback, at, key>>,
             \A d \in Calls : pc[d] \in Winner => pc'[d] \in Winner
      PROVE  MapBy'
  BY <1>0, <1>1 DEF MapBy
<1>2. ASSUME NEW c \in Calls,
             Claim(c) \/ ServerSetNX(c) \/ ServerGet(c) \/ Fulfill(c) \/ ServerSet(c)
      PROVE  MapBy'
  <2>1. UNCHANGED <<fallback, at, key>>
    BY <1>2 DEF Claim, ServerSetNX, ServerGet, Fulfill, ServerSet
  <2>2. \A d \in Calls : pc[d] \in Winner => pc'[d] \in Winner
    BY <1>2 DEF Claim, ServerSetNX, ServerGet, Fulfill, ServerSet, Duplicate, Win, Winner, TypeOK
  <2> QED BY <1>1, <2>1, <2>2
<1>3. ASSUME NEW c \in Calls, ClaimGranted(c) PROVE MapBy'
  <2>1. pc' = [pc EXCEPT ![c] = "won"] /\ "won" \in Winner
    BY <1>3 DEF ClaimGranted, Win, Winner
  <2> QED BY <1>3, <2>1, WriteMapBy DEF ClaimGranted
<1>4. ASSUME NEW c \in Calls, ClaimError(c) PROVE MapBy'
  <2>1. CASE Duplicate(c, Live(fallback[at[c]], key[c])) /\ UNCHANGED map
    BY <1>1, <1>4, <2>1 DEF ClaimError, Duplicate, Winner, TypeOK
  <2>2. CASE Write(c, TRUE) /\ Win(c, "fallback", now)
    <3>1. pc' = [pc EXCEPT ![c] = "won"] /\ "won" \in Winner
      BY <2>2 DEF Win, Winner
    <3> QED BY <1>4, <2>2, <3>1, WriteMapBy DEF ClaimError
  <2> QED BY <1>4, <2>1, <2>2 DEF ClaimError, FallbackClaim
<1>5. ASSUME NEW c \in Calls, MirrorResult(c) PROVE MapBy'
  <2>1. "fulfilled" \in Winner
    BY DEF Winner
  <2> QED BY <1>5, <2>1, WriteMapBy DEF MirrorResult
<1>6. ASSUME NEW q \in Replicas, Crash(q) PROVE MapBy'
  <2> SUFFICES ASSUME NEW r \in Replicas, NEW e \in fallback'[r]
               PROVE  at'[e.by] = r /\ key'[e.by] = e.key /\ pc'[e.by] \in Winner
    BY DEF MapBy
  <2>1. r # q /\ e \in fallback[r]
    BY <1>6 DEF Crash, TypeOK
  <2>2. e.by \in Calls /\ at[e.by] = r /\ key[e.by] = e.key /\ pc[e.by] \in Winner
    BY <1>0, <2>1 DEF MapBy
  <2> QED BY <1>6, <2>1, <2>2 DEF Crash
<1>7. ASSUME (\E m \in late : ServerLate(m)) \/ ValkeyDown \/ ValkeyUp \/ Tick \/ UNCHANGED vars
      PROVE  MapBy'
  BY <1>1, <1>7 DEF ServerLate, ValkeyDown, ValkeyUp, Tick, vars
<1> QED
  BY <1>2, <1>3, <1>4, <1>5, <1>6, <1>7 DEF Next

\* A backed key stays backed: whoever loses its claim although Valkey granted it
\* was refused for a winner in its replica's map.
LEMMA BackedStep ==
    ASSUME TypeOK, MapBy, [Next]_vars, NEW k, Backed(k)
    PROVE  Backed(k)'
<1> USE DEF args, map, outcome
<1>1. PICK d \in Calls : key[d] = k /\ pc[d] \in Winner \cup {"ok", "crashed"}
  BY DEF Backed
<1>2. ASSUME key' = key, pc'[d] \in Winner \cup {"ok", "crashed"} PROVE Backed(k)'
  BY <1>1, <1>2 DEF Backed
<1>3. ASSUME NEW c \in Calls,
             \/ Claim(c) \/ ServerSetNX(c) \/ ServerGet(c) \/ Fulfill(c) \/ ServerSet(c)
             \/ ClaimGranted(c) \/ MirrorResult(c)
      PROVE  Backed(k)'
  <2>1. key' = key
    BY <1>3 DEF Claim, ServerSetNX, ServerGet, Fulfill, ServerSet, ClaimGranted, MirrorResult
  <2>2. pc'[d] \in Winner \cup {"ok", "crashed"}
    <3>1. CASE Claim(c) \/ ServerGet(c)
      BY <1>1, <3>1 DEF Claim, ServerGet, Duplicate, Win, Winner, TypeOK
    <3>2. CASE ServerSetNX(c) \/ Fulfill(c) \/ ServerSet(c)
      BY <1>1, <3>2 DEF ServerSetNX, Fulfill, ServerSet, Winner, TypeOK
    <3>3. CASE ClaimGranted(c) \/ MirrorResult(c)
      <4>1. \E x \in {"won", "fulfilled"} : pc' = [pc EXCEPT ![c] = x]
        BY <3>3 DEF ClaimGranted, MirrorResult, Win
      <4> QED BY <1>1, <4>1 DEF Winner, TypeOK
    <3> QED BY <1>3, <3>1, <3>2, <3>3
  <2> QED BY <1>2, <2>1, <2>2
<1>4. ASSUME NEW c \in Calls, ClaimError(c) PROVE Backed(k)'
  <2>1. CASE Duplicate(c, Live(fallback[at[c]], key[c]))
    <3>1. CASE d = c
      <4>1. PICK e \in Live(fallback[at[c]], key[c]) : TRUE
        BY <2>1 DEF Duplicate
      <4>2. at[c] \in Replicas /\ e \in fallback[at[c]] /\ e.key = key[c]
        BY <4>1 DEF Live, TypeOK
      <4>3. e.by \in Calls /\ key[e.by] = k /\ pc[e.by] \in Winner
        BY <1>1, <3>1, <4>2 DEF MapBy, TypeOK, FallbackEntry
      <4>4. e.by # c
        BY <1>4, <4>3 DEF ClaimError, Winner
      <4>5. pc'[e.by] = pc[e.by] /\ key' = key
        BY <1>4, <2>1, <4>3, <4>4 DEF Duplicate, ClaimError, TypeOK
      <4> QED BY <4>3, <4>5 DEF Backed
    <3>2. CASE d # c
      BY <1>1, <1>2, <1>4, <2>1, <3>2 DEF Duplicate, ClaimError, TypeOK
    <3> QED BY <3>1, <3>2
  <2>2. CASE Win(c, "fallback", now)
    BY <1>1, <1>2, <1>4, <2>2 DEF Win, ClaimError, Winner, TypeOK
  <2> QED BY <1>4, <2>1, <2>2 DEF ClaimError, FallbackClaim
<1>5. ASSUME NEW q \in Replicas, Crash(q) PROVE Backed(k)'
  BY <1>1, <1>2, <1>5 DEF Crash
<1>6. ASSUME (\E m \in late : ServerLate(m)) \/ ValkeyDown \/ ValkeyUp \/ Tick \/ UNCHANGED vars
      PROVE  Backed(k)'
  BY <1>1, <1>2, <1>6 DEF ServerLate, ValkeyDown, ValkeyUp, Tick, vars
<1> QED
  BY <1>3, <1>4, <1>5, <1>6 DEF Next

\* A call the server may have accepted a SET of never claims again.
LEMMA AnswerableStep ==
    ASSUME TypeOK, [Next]_vars, NEW d \in Calls, pc[d] \in Answerable
    PROVE  pc'[d] \in Answerable
<1> USE DEF args, map, outcome
<1>1. ASSUME NEW c \in Calls, NEW x \in Answerable, pc' = [pc EXCEPT ![c] = x]
      PROVE  pc'[d] \in Answerable
  BY <1>1 DEF TypeOK
<1>2. ASSUME NEW c \in Calls, Claim(c) \/ ServerSetNX(c) PROVE pc'[d] \in Answerable
  BY <1>2 DEF Claim, Duplicate, ServerSetNX, Answerable, Winner, TypeOK
<1>3. ASSUME NEW c \in Calls,
             \/ ServerGet(c) \/ ClaimError(c) \/ Fulfill(c) \/ ServerSet(c) \/ ClaimGranted(c)
             \/ MirrorResult(c)
      PROVE  pc'[d] \in Answerable
  <2>1. \E x \in {"dup", "won", "set", "stored", "fulfilled"} : pc' = [pc EXCEPT ![c] = x]
    BY <1>3 DEF ServerGet, ClaimError, FallbackClaim, Fulfill, ServerSet, ClaimGranted,
         MirrorResult, Duplicate, Win
  <2>2. {"dup", "won", "set", "stored", "fulfilled"} \subseteq Answerable
    BY DEF Answerable, Winner
  <2> QED BY <1>1, <2>1, <2>2
<1>4. ASSUME NEW q \in Replicas, Crash(q) PROVE pc'[d] \in Answerable
  BY <1>4 DEF Crash, Answerable
<1>5. ASSUME (\E m \in late : ServerLate(m)) \/ ValkeyDown \/ ValkeyUp \/ Tick \/ UNCHANGED vars
      PROVE  pc'[d] \in Answerable
  BY <1>5 DEF ServerLate, ValkeyDown, ValkeyUp, Tick, vars
<1> QED
  BY <1>2, <1>3, <1>4, <1>5 DEF Next

\* Of a call that decided in its replica's map, the key is backed.
LEMMA FallbackBacked ==
    ASSUME TypeOK, MapBy, NEW c \in Calls, ClaimError(c)
    PROVE  /\ pc'[c] \in {"won", "dup"} /\ Backed(key[c])'
           /\ pc'[c] = "dup" => of'[c] # c
<1>0. key' = key /\ key[c] \in Keys /\ at[c] \in Replicas
  BY DEF ClaimError, args, TypeOK
<1>1. CASE Duplicate(c, Live(fallback[at[c]], key[c]))
  <2>1. PICK e \in Live(fallback[at[c]], key[c]) : of' = [of EXCEPT ![c] = e.by]
    BY <1>1 DEF Duplicate
  <2>2. e \in fallback[at[c]] /\ e.key = key[c]
    BY <2>1 DEF Live
  <2>3. e.by \in Calls /\ key[e.by] = key[c] /\ pc[e.by] \in Winner
    BY <1>0, <2>2 DEF MapBy, TypeOK, FallbackEntry
  <2>4. e.by # c
    BY <2>3 DEF ClaimError, Winner
  <2>5. pc'[e.by] = pc[e.by] /\ pc'[c] = "dup" /\ of'[c] = e.by
    BY <1>1, <2>1, <2>3, <2>4 DEF Duplicate, TypeOK
  <2> QED BY <1>0, <2>3, <2>4, <2>5 DEF Backed
<1>2. CASE Win(c, "fallback", now)
  BY <1>0, <1>2 DEF Win, Backed, Winner, TypeOK
<1> QED BY <1>1, <1>2 DEF ClaimError, FallbackClaim

LEMMA RecordByStep ==
    ASSUME TypeOK, RefusalInv, [Next]_vars
    PROVE  RecordBy'
<1> USE DEF args, map, outcome
<1>0. /\ \A v \in valkey : v.by \in Calls
      /\ \A m \in late : m.call \in Calls
      /\ MapBy /\ RecordBy
  BY DEF TypeOK, ValkeyRecord, Command, RefusalInv
<1>1. ASSUME key' = key,
             \A v \in valkey' : v \in valkey \/
                 (v.by \in Calls /\ v.key = key[v.by] /\ pc'[v.by] \in Answerable /\ Backed(v.key)'),
             \A m \in late' : m \in late \/ (pc'[m.call] \in Answerable /\ Backed(key[m.call])')
      PROVE  RecordBy'
  <2>1. ASSUME NEW v \in valkey'
        PROVE  key'[v.by] = v.key /\ pc'[v.by] \in Answerable /\ Backed(v.key)'
    <3>1. CASE v \in valkey
      <4>1. key[v.by] = v.key /\ pc[v.by] \in Answerable /\ Backed(v.key) /\ v.by \in Calls
        BY <1>0, <3>1 DEF RecordBy
      <4> QED BY <1>0, <1>1, <4>1, AnswerableStep, BackedStep
    <3> QED BY <1>1, <2>1, <3>1
  <2>2. ASSUME NEW m \in late'
        PROVE  pc'[m.call] \in Answerable /\ Backed(key[m.call])'
    <3>1. CASE m \in late
      <4>1. pc[m.call] \in Answerable /\ Backed(key[m.call]) /\ m.call \in Calls
        BY <1>0, <3>1 DEF RecordBy
      <4>2. PICK k : k = key[m.call]
        OBVIOUS
      <4>3. Backed(k)' /\ k = key'[m.call]
        BY <1>0, <1>1, <4>1, <4>2, BackedStep
      <4> QED BY <4>1, <4>2, <4>3, AnswerableStep
    <3> QED BY <1>1, <2>2, <3>1
  <2> QED BY <2>1, <2>2 DEF RecordBy
<1>2. ASSUME NEW c \in Calls, Set(c), key' = key, pc'[c] \in Answerable, Backed(key[c])'
      PROVE  \A v \in valkey' : v \in valkey \/
                 (v.by \in Calls /\ v.key = key[v.by] /\ pc'[v.by] \in Answerable /\ Backed(v.key)')
  <2> TAKE v \in valkey'
  <2> DEFINE new == [key |-> key[c], by |-> c, exp |-> now + TTL[key[c]]]
  <2>1. v \in valkey \/ v = new
    BY <1>2 DEF Set
  <2>2. new.by = c /\ new.key = key[c]
    OBVIOUS
  <2>3. CASE v = new
    <3>1. v.by = c /\ v.key = key[c]
      BY <2>2, <2>3
    <3> QED BY <1>2, <3>1
  <2> QED BY <2>1, <2>3
<1>3. ASSUME NEW c \in Calls, Claim(c) \/ ServerGet(c) \/ ClaimGranted(c) \/ Fulfill(c)
      PROVE  RecordBy'
  <2>1. UNCHANGED <<valkey, late, key>>
    BY <1>3 DEF Claim, ServerGet, ClaimGranted, Fulfill
  <2> QED BY <1>1, <2>1
<1>4. ASSUME NEW c \in Calls, ServerSetNX(c) PROVE RecordBy'
  <2>1. late' = late /\ key' = key
    BY <1>4 DEF ServerSetNX
  <2>2. CASE Set(c) /\ pc' = [pc EXCEPT ![c] = "ok"]
    <3>1. pc'[c] \in Answerable /\ Backed(key[c])'
      BY <2>1, <2>2 DEF Answerable, Backed, TypeOK
    <3> QED BY <1>1, <1>2, <2>1, <2>2, <3>1
  <2>3. CASE UNCHANGED valkey
    BY <1>1, <2>1, <2>3
  <2> QED BY <1>4, <2>2, <2>3 DEF ServerSetNX
<1>5. ASSUME NEW c \in Calls, ClaimError(c) PROVE RecordBy'
  <2>1. valkey' = valkey /\ key' = key
    BY <1>5 DEF ClaimError
  <2>2. \A m \in late' : m \in late \/ m.call = c
    BY <1>5 DEF ClaimError, Abandon
  <2>3. pc'[c] \in Answerable /\ Backed(key[c])'
    BY <1>0, <1>5, FallbackBacked DEF Answerable, Winner
  <2> QED BY <1>1, <2>1, <2>2, <2>3
<1>6. ASSUME NEW c \in Calls, ServerSet(c) PROVE RecordBy'
  <2>1. late' = late /\ key' = key /\ Set(c)
    BY <1>6 DEF ServerSet
  <2>2. pc'[c] = "stored"
    BY <1>6 DEF ServerSet, TypeOK
  <2>3. pc'[c] \in Answerable /\ Backed(key[c])'
    BY <2>1, <2>2 DEF Answerable, Backed, Winner
  <2> QED BY <1>1, <1>2, <2>1, <2>3
<1>7. ASSUME NEW c \in Calls, MirrorResult(c) PROVE RecordBy'
  <2>1. valkey' = valkey /\ key' = key
    BY <1>7 DEF MirrorResult
  <2>2. \A m \in late' : m \in late \/ m.call = c
    BY <1>7 DEF MirrorResult, Abandon
  <2>3. pc'[c] = "fulfilled"
    BY <1>7 DEF MirrorResult, TypeOK
  <2>4. pc'[c] \in Answerable /\ Backed(key[c])'
    BY <2>1, <2>3 DEF Answerable, Backed, Winner
  <2> QED BY <1>1, <2>1, <2>2, <2>4
<1>8. ASSUME NEW m \in late, ServerLate(m) PROVE RecordBy'
  <2>1. late' \subseteq late /\ key' = key /\ pc' = pc
    BY <1>8 DEF ServerLate
  <2>2. m.call \in Calls /\ pc[m.call] \in Answerable /\ Backed(key[m.call])
    BY <1>0 DEF RecordBy
  <2>3. Backed(key[m.call])'
    BY <2>1, <2>2 DEF Backed
  <2>4. CASE Set(m.call)
    BY <1>1, <1>2, <2>1, <2>2, <2>3, <2>4
  <2>5. CASE UNCHANGED valkey
    BY <1>1, <2>1, <2>5
  <2> QED BY <1>8, <2>4, <2>5 DEF ServerLate
<1>9. ASSUME NEW q \in Replicas, Crash(q) PROVE RecordBy'
  <2>1. valkey' = valkey /\ key' = key
    BY <1>9 DEF Crash
  <2>2. ASSUME NEW m \in late', m \notin late
        PROVE  pc'[m.call] \in Answerable /\ Backed(key[m.call])'
    <3>1. PICK c \in Calls : at[c] = q /\ pc[c] \in {"setnx", "set"} /\ m = [op |-> pc[c], call |-> c]
      BY <1>9, <2>2 DEF Crash
    <3>2. m.call = c
      BY <3>1
    <3>3. pc'[c] = "crashed"
      BY <1>9, <3>1 DEF Crash, InFlight
    <3> QED BY <2>1, <3>2, <3>3 DEF Answerable, Backed
  <2> QED BY <1>1, <2>1, <2>2
<1>10. ASSUME ValkeyDown \/ ValkeyUp \/ Tick \/ UNCHANGED vars PROVE RecordBy'
  BY <1>1, <1>10 DEF ValkeyDown, ValkeyUp, Tick, vars
<1> QED
  BY <1>3, <1>4, <1>5, <1>6, <1>7, <1>8, <1>9, <1>10 DEF Next

LEMMA DupByStep ==
    ASSUME TypeOK, RefusalInv, [Next]_vars
    PROVE  DupBy'
<1> USE DEF args, map, outcome
<1>0. MapBy /\ RecordBy /\ DupBy
  BY DEF RefusalInv
<1>1. ASSUME key' = key,
             \A c \in Calls : pc'[c] = "dup" =>
                (pc[c] = "dup" /\ of'[c] = of[c]) \/ (of'[c] # c /\ Backed(key[c])')
      PROVE  DupBy'
  <2> SUFFICES ASSUME NEW c \in Calls, pc'[c] = "dup", pc[c] = "dup", of'[c] = of[c]
               PROVE  of'[c] # c /\ Backed(key[c])'
    BY <1>1 DEF DupBy
  <2>1. PICK k : k = key[c]
    OBVIOUS
  <2>2. Backed(k) /\ of[c] # c
    BY <1>0, <2>1 DEF DupBy
  <2>3. Backed(k)' /\ k = key'[c]
    BY <1>0, <1>1, <2>1, <2>2, BackedStep
  <2> QED BY <2>1, <2>2, <2>3
<1>2. ASSUME NEW c \in Calls, NEW k, NEW b \in Calls, key' = key, k = key[c], Backed(k), b # c,
             pc' = [pc EXCEPT ![c] = "dup"], of' = [of EXCEPT ![c] = b]
      PROVE  DupBy'
  <2>1. Backed(k)' /\ k = key'[c]
    BY <1>0, <1>2, BackedStep
  <2>2. Backed(key[c])'
    BY <2>1
  <2>3. of'[c] = b /\ \A d \in Calls : d # c => pc'[d] = pc[d] /\ of'[d] = of[d]
    BY <1>2 DEF TypeOK
  <2> QED BY <1>1, <1>2, <2>2, <2>3
<1>3. ASSUME NEW c \in Calls, Claim(c) PROVE DupBy'
  <2> DEFINE found == PeekDegraded(fallback[at[c]], key[c])
  <2>1. CASE Duplicate(c, found)
    <3>1. PICK e \in found : of' = [of EXCEPT ![c] = e.by]
      BY <2>1 DEF Duplicate
    <3>2. e \in fallback[at[c]] /\ e.key = key[c] /\ at[c] \in Replicas
      BY <3>1 DEF PeekDegraded, Live, TypeOK
    <3>3. e.by \in Calls /\ key[e.by] = key[c] /\ pc[e.by] \in Winner
      BY <1>0, <3>2 DEF MapBy, TypeOK, FallbackEntry
    <3>4. e.by # c
      BY <1>3, <3>3 DEF Claim, Winner
    <3>5. PICK k : k = key[c]
      OBVIOUS
    <3>6. Backed(k)
      BY <3>3, <3>5 DEF Backed
    <3>7. key' = key /\ pc' = [pc EXCEPT ![c] = "dup"]
      BY <1>3, <2>1 DEF Claim, Duplicate
    <3> QED BY <1>2, <3>1, <3>3, <3>4, <3>5, <3>6, <3>7
  <2>2. CASE pc' = [pc EXCEPT ![c] = "setnx"] /\ of' = of
    BY <1>1, <1>3, <2>2 DEF Claim, TypeOK
  <2> QED BY <1>3, <2>1, <2>2 DEF Claim
<1>4. ASSUME NEW c \in Calls, ServerGet(c) PROVE DupBy'
  <2>1. CASE Duplicate(c, Live(valkey, key[c]))
    <3>1. PICK e \in Live(valkey, key[c]) : of' = [of EXCEPT ![c] = e.by]
      BY <2>1 DEF Duplicate
    <3>2. e \in valkey /\ e.key = key[c]
      BY <3>1 DEF Live
    <3>3. e.by \in Calls /\ pc[e.by] \in Answerable /\ Backed(e.key)
      BY <1>0, <3>2 DEF RecordBy, TypeOK, ValkeyRecord
    <3>4. e.by # c
      BY <1>4, <3>3 DEF ServerGet, Answerable, Winner
    <3>5. key' = key /\ pc' = [pc EXCEPT ![c] = "dup"]
      BY <1>4, <2>1 DEF ServerGet, Duplicate
    <3> QED BY <1>2, <3>1, <3>2, <3>3, <3>4, <3>5
  <2>2. CASE Win(c, "race", now)
    BY <1>1, <1>4, <2>2 DEF ServerGet, Win, TypeOK
  <2> QED BY <1>4, <2>1, <2>2 DEF ServerGet
<1>5. ASSUME NEW c \in Calls, ClaimError(c) PROVE DupBy'
  <2>1. key' = key /\ \A d \in Calls : d # c => pc'[d] = pc[d] /\ of'[d] = of[d]
    <3>1. CASE Duplicate(c, Live(fallback[at[c]], key[c]))
      BY <1>5, <3>1 DEF ClaimError, Duplicate, TypeOK
    <3>2. CASE Win(c, "fallback", now)
      BY <1>5, <3>2 DEF ClaimError, Win, TypeOK
    <3> QED BY <1>5, <3>1, <3>2 DEF ClaimError, FallbackClaim
  <2>2. pc'[c] = "dup" => of'[c] # c /\ Backed(key[c])'
    BY <1>0, <1>5, FallbackBacked
  <2> QED BY <1>1, <2>1, <2>2
<1>6. ASSUME NEW c \in Calls,
             ServerSetNX(c) \/ Fulfill(c) \/ ServerSet(c) \/ ClaimGranted(c) \/ MirrorResult(c)
      PROVE  DupBy'
  <2>1. key' = key /\ of' = of
    BY <1>6 DEF ServerSetNX, Fulfill, ServerSet, ClaimGranted, MirrorResult, Win
  <2>2. \E x \in {"ok", "get", "set", "stored", "won", "fulfilled"} : pc' = [pc EXCEPT ![c] = x]
    BY <1>6 DEF ServerSetNX, Fulfill, ServerSet, ClaimGranted, MirrorResult, Win
  <2>3. \A d \in Calls : pc'[d] = "dup" => pc[d] = "dup"
    BY <2>2 DEF TypeOK
  <2> QED BY <1>1, <2>1, <2>3
<1>7. ASSUME NEW q \in Replicas, Crash(q) PROVE DupBy'
  BY <1>1, <1>7 DEF Crash
<1>8. ASSUME (\E m \in late : ServerLate(m)) \/ ValkeyDown \/ ValkeyUp \/ Tick \/ UNCHANGED vars
      PROVE  DupBy'
  BY <1>1, <1>8 DEF ServerLate, ValkeyDown, ValkeyUp, Tick, vars
<1> QED
  BY <1>3, <1>4, <1>5, <1>6, <1>7, <1>8 DEF Next

LEMMA RefusalInvariant == Spec => []RefusalInv
<1>1. Init => RefusalInv
  BY DEF Init, RefusalInv, MapBy, RecordBy, DupBy
<1>2. TypeOK /\ RefusalInv /\ [Next]_vars => RefusalInv'
  BY MapByStep, RecordByStep, DupByStep DEF RefusalInv
<1> QED BY <1>1, <1>2, Typing, PTL DEF Spec

\* RefusedForAWinner: claim() answers "duplicate" only of another call, and only
\* while some call with the key has won, is about to, or was cut off by a crash,
\* through outages, lost replies, late commands, eviction and restarts.
THEOREM RefusedForAWinner == Spec => []DuplicateHasWinner
<1>1. RefusalInv => DuplicateHasWinner
  <2> SUFFICES ASSUME RefusalInv, NEW c \in Calls, pc[c] = "dup"
               PROVE  /\ of[c] # c
                      /\ \E d \in Calls : key[d] = key[c] /\ (Won(d) \/ pc[d] \in InFlight \cup {"crashed"})
    BY DEF DuplicateHasWinner
  <2>1. of[c] # c /\ Backed(key[c])
    BY DEF RefusalInv, DupBy
  <2> QED BY <2>1 DEF Backed, Won, InFlight
<1> QED BY <1>1, RefusalInvariant, PTL

---------------------------------------------------------------------------
(* A redelivery does not win again.                                         *)

\* Valkey has a record of key k that lives until t or longer; expired records stay
\* in the set until they are overwritten.
HeldUntil(k, t) == \E v \in valkey : v.key = k /\ v.exp >= t

\* Valkey's clock of a key never runs backwards: a SET only extends it.
LEMMA HeldStep ==
    ASSUME TypeOK, [Next]_vars, NEW k \in Keys, NEW t \in Int, t <= now + TTL[k], HeldUntil(k, t)
    PROVE  HeldUntil(k, t)'
<1> USE DEF args, map, outcome
<1>1. CASE UNCHANGED valkey
  BY <1>1 DEF HeldUntil
<1>2. ASSUME NEW c \in Calls, Set(c) PROVE HeldUntil(k, t)'
  <2> DEFINE new == [key |-> key[c], by |-> c, exp |-> now + TTL[key[c]]]
  <2>1. PICK v \in valkey : v.key = k /\ v.exp >= t
    BY DEF HeldUntil
  <2>2. CASE k = key[c]
    <3>1. new \in valkey' /\ new.key = k /\ new.exp = now + TTL[k]
      BY <1>2, <2>2 DEF Set
    <3>2. now + TTL[k] >= t
      BY TTLAssumption DEF TypeOK
    <3> QED BY <3>1, <3>2 DEF HeldUntil
  <2>3. CASE k # key[c]
    BY <1>2, <2>1, <2>3 DEF Set, HeldUntil
  <2> QED BY <2>2, <2>3
<1>3. ASSUME NEW m \in late, ServerLate(m) PROVE HeldUntil(k, t)'
  <2>1. m.call \in Calls
    BY DEF TypeOK, Command
  <2> QED BY <1>1, <1>2, <1>3, <2>1 DEF ServerLate
<1> QED
  BY <1>1, <1>2, <1>3
     DEF Next, Claim, ServerSetNX, ClaimGranted, ServerGet, ClaimError, Fulfill, ServerSet,
         MirrorResult, ValkeyDown, ValkeyUp, Crash, Tick, vars

\* A call awaits no command longer than its timeout, wins no earlier than it claims,
\* and is recorded in Valkey once its SET was accepted.
TimelyCall(c) ==
    /\ pc[c] \in InFlight => began[c] <= now /\ now <= began[c] + CallTicks
    /\ pc[c] = "ok" => began[c] <= granted[c]
    /\ Won(c) => granted[c] <= now /\ via[c] # "none"
    /\ pc[c] = "stored" => HeldUntil(key[c], began[c] + TTL[key[c]])

Timely == \A c \in Calls : TimelyCall(c)

LEMMA TimelyStep ==
    ASSUME TypeOK, Timely, GrantInv, [Next]_vars
    PROVE  Timely'
<1> USE DEF args, map, outcome
<1>0. /\ now \in Nat /\ CallTicks \in Nat
      /\ \A d \in Calls : /\ began[d] \in Nat /\ granted[d] \in Nat /\ key[d] \in Keys
                          /\ TTL[key[d]] \in Nat
  BY TTLAssumption, CallTicksAssumption DEF TypeOK
<1>1. ASSUME NEW d \in Calls, pc'[d] = pc[d] \/ pc'[d] = "crashed", via'[d] = via[d],
             began'[d] = began[d], granted'[d] = granted[d], now' = now, key' = key
      PROVE  TimelyCall(d)'
  <2>1. CASE pc'[d] = "crashed"
    BY <2>1 DEF TimelyCall, Won, InFlight, Winner
  <2>2. CASE pc'[d] = pc[d]
    <3>1. ASSUME pc[d] = "stored" PROVE HeldUntil(key[d], began[d] + TTL[key[d]])'
      <4>1. began[d] <= now /\ HeldUntil(key[d], began[d] + TTL[key[d]])
        BY <3>1 DEF Timely, TimelyCall, InFlight
      <4>2. PICK k, t : k = key[d] /\ t = began[d] + TTL[key[d]]
        OBVIOUS
      <4>3. t \in Int /\ t <= now + TTL[k]
        BY <1>0, <4>1, <4>2
      <4>4. HeldUntil(k, t)'
        BY <1>0, <4>1, <4>2, <4>3, HeldStep
      <4>5. k = key'[d] /\ t = began'[d] + TTL[key'[d]]
        BY <1>1, <4>2
      <4> QED BY <4>4, <4>5
    <3>2. TimelyCall(d)
      BY DEF Timely
    <3> QED BY <1>1, <2>2, <3>1, <3>2 DEF TimelyCall, Won
  <2> QED BY <1>1, <2>1, <2>2
<1>2. ASSUME NEW c \in Calls, TimelyCall(c)', now' = now, key' = key,
             \A d \in Calls \ {c} : /\ pc'[d] = pc[d] /\ via'[d] = via[d]
                                    /\ began'[d] = began[d] /\ granted'[d] = granted[d]
      PROVE  Timely'
  <2> SUFFICES ASSUME NEW d \in Calls PROVE TimelyCall(d)'
    BY DEF Timely
  <2>1. CASE d = c
    BY <1>2, <2>1
  <2>2. CASE d # c
    BY <1>1, <1>2, <2>2
  <2> QED BY <2>1, <2>2
<1>3. ASSUME NEW c \in Calls, Claim(c) PROVE Timely'
  <2>1. pc'[c] \in {"setnx", "dup"} /\ began'[c] = now /\ now' = now /\ key' = key
    BY <1>3 DEF Claim, Duplicate, TypeOK
  <2>2. TimelyCall(c)'
    BY <1>0, <2>1 DEF TimelyCall, InFlight, Winner, Won
  <2>3. \A d \in Calls \ {c} : /\ pc'[d] = pc[d] /\ via'[d] = via[d]
                               /\ began'[d] = began[d] /\ granted'[d] = granted[d]
    BY <1>3 DEF Claim, Duplicate, TypeOK
  <2> QED BY <1>2, <2>1, <2>2, <2>3
<1>4. ASSUME NEW c \in Calls, ServerSetNX(c) PROVE Timely'
  <2>1. /\ pc[c] = "setnx" /\ began' = began /\ now' = now /\ key' = key
        /\ (pc'[c] = "ok" /\ granted'[c] = now) \/ pc'[c] = "get"
    BY <1>4 DEF ServerSetNX, TypeOK
  <2>2. began[c] <= now /\ now <= began[c] + CallTicks
    BY <2>1 DEF Timely, TimelyCall, InFlight
  <2>3. TimelyCall(c)'
    BY <1>0, <2>1, <2>2 DEF TimelyCall, InFlight, Winner, Won
  <2>4. \A d \in Calls \ {c} : /\ pc'[d] = pc[d] /\ via'[d] = via[d]
                               /\ began'[d] = began[d] /\ granted'[d] = granted[d]
    BY <1>4 DEF ServerSetNX, TypeOK
  <2> QED BY <1>2, <2>1, <2>3, <2>4
<1>5. ASSUME NEW c \in Calls, NEW how \in Vias \ {"none"}, NEW when \in Nat, Win(c, how, when),
             when <= now, began' = began, now' = now, key' = key
      PROVE  Timely'
  <2>1. pc'[c] = "won" /\ via'[c] = how /\ granted'[c] = when
    BY <1>5 DEF Win, TypeOK
  <2>2. TimelyCall(c)'
    BY <1>5, <2>1 DEF TimelyCall, InFlight, Winner, Won
  <2>3. \A d \in Calls \ {c} : /\ pc'[d] = pc[d] /\ via'[d] = via[d]
                               /\ began'[d] = began[d] /\ granted'[d] = granted[d]
    BY <1>5 DEF Win, TypeOK
  <2> QED BY <1>2, <1>5, <2>2, <2>3
<1>6. ASSUME NEW c \in Calls, NEW found, Duplicate(c, found),
             began' = began, now' = now, key' = key
      PROVE  Timely'
  <2>1. pc'[c] = "dup"
    BY <1>6 DEF Duplicate, TypeOK
  <2>2. TimelyCall(c)'
    BY <2>1 DEF TimelyCall, InFlight, Winner, Won
  <2>3. \A d \in Calls \ {c} : /\ pc'[d] = pc[d] /\ via'[d] = via[d]
                               /\ began'[d] = began[d] /\ granted'[d] = granted[d]
    BY <1>6 DEF Duplicate, TypeOK
  <2> QED BY <1>2, <1>6, <2>2, <2>3
<1>7. ASSUME NEW c \in Calls, ClaimGranted(c) \/ ServerGet(c) \/ ClaimError(c) PROVE Timely'
  <2>1. began' = began /\ now' = now /\ key' = key
    BY <1>7 DEF ClaimGranted, ServerGet, ClaimError
  <2>2. CASE ClaimGranted(c)
    <3>1. granted[c] <= now
      BY <2>2 DEF ClaimGranted, GrantInv, Recorded, Granted
    <3>2. Win(c, "valkey", granted[c]) /\ "valkey" \in Vias \ {"none"}
      BY <2>2 DEF ClaimGranted, Vias
    <3> QED BY <1>0, <1>5, <2>1, <3>1, <3>2
  <2>3. CASE Win(c, "race", now) \/ Win(c, "fallback", now)
    <3>1. "race" \in Vias \ {"none"} /\ "fallback" \in Vias \ {"none"} /\ now <= now
      BY <1>0 DEF Vias
    <3> QED BY <1>0, <1>5, <2>1, <2>3, <3>1
  <2>4. CASE \E found : Duplicate(c, found)
    BY <1>6, <2>1, <2>4
  <2> QED BY <1>7, <2>2, <2>3, <2>4 DEF ServerGet, ClaimError, FallbackClaim
<1>8. ASSUME NEW c \in Calls, Fulfill(c) PROVE Timely'
  <2>1. /\ pc[c] = "won" /\ pc'[c] = "set" /\ began'[c] = now /\ now' = now /\ key' = key
        /\ granted' = granted /\ via' = via
    BY <1>8 DEF Fulfill, TypeOK
  <2>2. granted[c] <= now /\ via[c] # "none"
    BY <2>1 DEF Timely, TimelyCall, Won, Winner
  <2>3. TimelyCall(c)'
    BY <1>0, <2>1, <2>2 DEF TimelyCall, InFlight, Winner, Won
  <2>4. \A d \in Calls \ {c} : /\ pc'[d] = pc[d] /\ via'[d] = via[d]
                               /\ began'[d] = began[d] /\ granted'[d] = granted[d]
    BY <1>8 DEF Fulfill, TypeOK
  <2> QED BY <1>2, <2>1, <2>3, <2>4
<1>9. ASSUME NEW c \in Calls, ServerSet(c) PROVE Timely'
  <2>1. /\ pc[c] = "set" /\ pc'[c] = "stored" /\ UNCHANGED <<began, now, key, granted, via>>
    BY <1>9 DEF ServerSet, TypeOK
  <2>2. granted[c] <= now /\ via[c] # "none" /\ began[c] <= now /\ now <= began[c] + CallTicks
    BY <2>1 DEF Timely, TimelyCall, Won, Winner, InFlight
  <2>3. HeldUntil(key[c], began[c] + TTL[key[c]])'
    <3> DEFINE new == [key |-> key[c], by |-> c, exp |-> now + TTL[key[c]]]
    <3>1. new \in valkey' /\ new.key = key[c] /\ new.exp = now + TTL[key[c]]
      BY <1>9 DEF ServerSet, Set
    <3>2. new.exp >= began[c] + TTL[key[c]]
      BY <1>0, <2>2, <3>1
    <3> QED BY <2>1, <3>1, <3>2 DEF HeldUntil
  <2>4. TimelyCall(c)'
    BY <1>0, <2>1, <2>2, <2>3 DEF TimelyCall, InFlight, Winner, Won
  <2>5. \A d \in Calls \ {c} : /\ pc'[d] = pc[d] /\ via'[d] = via[d]
                               /\ began'[d] = began[d] /\ granted'[d] = granted[d]
    BY <1>9 DEF ServerSet, TypeOK
  <2> QED BY <1>2, <2>1, <2>4, <2>5
<1>10. ASSUME NEW c \in Calls, MirrorResult(c) PROVE Timely'
  <2>1. /\ pc[c] \in {"set", "stored"} /\ pc'[c] = "fulfilled"
        /\ UNCHANGED <<began, now, key, granted, via>>
    BY <1>10 DEF MirrorResult, TypeOK
  <2>2. granted[c] <= now /\ via[c] # "none"
    BY <2>1 DEF Timely, TimelyCall, Won, Winner
  <2>3. TimelyCall(c)'
    BY <2>1, <2>2 DEF TimelyCall, InFlight, Winner, Won
  <2>4. \A d \in Calls \ {c} : /\ pc'[d] = pc[d] /\ via'[d] = via[d]
                               /\ began'[d] = began[d] /\ granted'[d] = granted[d]
    BY <1>10 DEF MirrorResult, TypeOK
  <2> QED BY <1>2, <2>1, <2>3, <2>4
<1>11. ASSUME (\E r \in Replicas : Crash(r)) \/ (\E m \in late : ServerLate(m))
              \/ ValkeyDown \/ ValkeyUp \/ UNCHANGED vars
       PROVE  Timely'
  <2> SUFFICES ASSUME NEW d \in Calls PROVE TimelyCall(d)'
    BY DEF Timely
  <2>1. /\ pc'[d] = pc[d] \/ pc'[d] = "crashed"
        /\ UNCHANGED <<began, now, key, granted, via>>
    BY <1>11 DEF Crash, ServerLate, ValkeyDown, ValkeyUp, vars
  <2> QED BY <1>1, <2>1
<1>12. ASSUME Tick PROVE Timely'
  <2> SUFFICES ASSUME NEW d \in Calls PROVE TimelyCall(d)'
    BY DEF Timely
  <2>1. /\ now' = now + 1 /\ UNCHANGED <<valkey, key, pc, began, granted, via>>
        /\ pc[d] \in InFlight => now - began[d] < CallTicks
    BY <1>12 DEF Tick
  <2>2. TimelyCall(d)
    BY DEF Timely
  <2>3. HeldUntil(key[d], began[d] + TTL[key[d]]) => HeldUntil(key[d], began[d] + TTL[key[d]])'
    BY <2>1 DEF HeldUntil
  <2> QED BY <1>0, <2>1, <2>2, <2>3 DEF TimelyCall, Won
<1> QED
  BY <1>3, <1>4, <1>7, <1>8, <1>9, <1>10, <1>11, <1>12 DEF Next

\* Valkey knows of a claim of c's key that outlives c's own but for a timeout.
Known(c) == HeldUntil(key[c], granted[c] + TTL[key[c]] - CallTicks)

\* A winner whose replica still remembers it.
Remembered(c) == Won(c) /\ via[c] # "race" /\ c \notin forgotten

\* Entry e of the map stands for c's claim; a plain mirror does so only if Valkey
\* knows the key.
Covers(e, c) ==
    /\ e.key = key[c] /\ e.exp >= granted[c] + TTL[key[c]]
    /\ e.degraded \/ Known(c)

\* For its whole TTL a remembered winner is covered by an entry of its replica's map.
KeptCall(c) ==
    \/ now >= granted[c] + TTL[key[c]]
    \/ \E e \in fallback[at[c]] : Covers(e, c)

Kept == \A c \in Calls : Remembered(c) => KeptCall(c)

\* What a call knows to have won before it is over, and is not itself.
Earlier == \A d \in Calls : \A c \in prior[d] : c # d /\ pc[c] \in Winner \cup {"crashed"}

Follows(d, c) == c \in prior[d] /\ at[c] = at[d] /\ key[c] = key[d]

\* A redelivery d of the remembered winner c that awaits Valkey will be refused
\* there; one that was granted or has won did so when c's TTL was over.
Excludes(c, d) ==
    /\ pc[d] \in {"setnx", "get"} => now >= granted[c] + TTL[key[c]] \/ Known(c)
    /\ pc[d] = "ok" \/ Won(d) => granted[d] + CallTicks >= granted[c] + TTL[key[c]]

Excluded == \A c, d \in Calls : Remembered(c) /\ Follows(d, c) => Excludes(c, d)

WinnerInv == Timely /\ Kept /\ Earlier /\ Excluded

LEMMA Numbers ==
    ASSUME TypeOK, NEW c \in Calls
    PROVE  /\ now \in Nat /\ CallTicks \in Nat /\ granted[c] \in Nat /\ key[c] \in Keys
           /\ TTL[key[c]] \in Nat /\ at[c] \in Replicas /\ began[c] \in Nat
BY TTLAssumption, CallTicksAssumption DEF TypeOK

\* A winner stays what it is, and is not remembered anew.
LEMMA RememberedBefore ==
    ASSUME TypeOK, [Next]_vars, NEW c \in Calls, Remembered(c)', pc[c] \in Winner \cup {"crashed"}
    PROVE  Remembered(c) /\ granted'[c] = granted[c] /\ via'[c] = via[c]
<1> USE DEF args, map, outcome
<1>1. ASSUME pc[c] \in Winner, via'[c] = via[c], granted'[c] = granted[c], forgotten \subseteq forgotten'
      PROVE  Remembered(c) /\ granted'[c] = granted[c] /\ via'[c] = via[c]
  BY <1>1 DEF Remembered, Won
<1>2. pc'[c] \in Winner
  BY DEF Remembered, Won
<1>3. ASSUME NEW d \in Calls,
             \/ Claim(d) \/ ServerSetNX(d) \/ ServerGet(d) \/ ClaimError(d) \/ ClaimGranted(d)
      PROVE  Remembered(c) /\ granted'[c] = granted[c] /\ via'[c] = via[c]
  <2>1. d # c
    BY <1>3 DEF Claim, ServerSetNX, ServerGet, ClaimError, ClaimGranted, Winner
  <2>2. pc'[c] = pc[c] /\ via'[c] = via[c] /\ granted'[c] = granted[c]
    <3>1. CASE Claim(d) \/ ServerSetNX(d)
      BY <2>1, <3>1 DEF Claim, ServerSetNX, Duplicate, TypeOK
    <3>2. CASE (\E found : Duplicate(d, found)) \/ (\E how, when : Win(d, how, when))
      BY <2>1, <3>2 DEF Duplicate, Win, TypeOK
    <3> QED BY <1>3, <3>1, <3>2 DEF ServerGet, ClaimError, ClaimGranted, FallbackClaim
  <2>3. forgotten \subseteq forgotten'
    BY <1>3 DEF Claim, ServerSetNX, ServerGet, ClaimError, ClaimGranted, FallbackClaim, Write
  <2> QED BY <1>1, <1>2, <2>2, <2>3
<1>4. ASSUME NEW d \in Calls, Fulfill(d) \/ ServerSet(d) \/ MirrorResult(d)
      PROVE  Remembered(c) /\ granted'[c] = granted[c] /\ via'[c] = via[c]
  <2>1. UNCHANGED outcome /\ forgotten \subseteq forgotten'
    BY <1>4 DEF Fulfill, ServerSet, MirrorResult, Write
  <2>2. pc[c] \in Winner
    <3>1. pc[d] \in Winner /\ \E x : pc' = [pc EXCEPT ![d] = x]
      BY <1>4 DEF Fulfill, ServerSet, MirrorResult, Winner
    <3> QED BY <1>2, <3>1 DEF TypeOK
  <2> QED BY <1>1, <2>1, <2>2
<1>5. ASSUME NEW r \in Replicas, Crash(r)
      PROVE  Remembered(c) /\ granted'[c] = granted[c] /\ via'[c] = via[c]
  <2>1. pc[c] \in Winner /\ UNCHANGED outcome /\ forgotten \subseteq forgotten'
    BY <1>2, <1>5 DEF Crash, Winner
  <2> QED BY <1>1, <2>1
<1>6. ASSUME (\E m \in late : ServerLate(m)) \/ ValkeyDown \/ ValkeyUp \/ Tick \/ UNCHANGED vars
      PROVE  Remembered(c) /\ granted'[c] = granted[c] /\ via'[c] = via[c]
  BY <1>1, <1>2, <1>6 DEF ServerLate, ValkeyDown, ValkeyUp, Tick, vars
<1> QED
  BY <1>3, <1>4, <1>5, <1>6 DEF Next

\* What Valkey knows of a winner's key it goes on knowing.
LEMMA KnownStep ==
    ASSUME TypeOK, Timely, [Next]_vars, NEW c \in Calls, Won(c), Known(c),
           key'[c] = key[c], granted'[c] = granted[c]
    PROVE  Known(c)'
<1>1. PICK k, t : k = key[c] /\ t = granted[c] + TTL[key[c]] - CallTicks
  OBVIOUS
<1>2. granted[c] <= now
  BY DEF Timely, TimelyCall
<1>3. k \in Keys /\ t \in Int /\ t <= now + TTL[k]
  BY <1>1, <1>2, Numbers
<1>4. HeldUntil(k, t)'
  BY <1>1, <1>3, HeldStep DEF Known
<1>5. k = key'[c] /\ t = granted'[c] + TTL[key'[c]] - CallTicks
  BY <1>1
<1> QED BY <1>4, <1>5 DEF Known

LEMMA GrantedKnown ==
    ASSUME TypeOK, GrantInv, NEW c \in Calls, Granted(c)
    PROVE  Known(c)
<1>1. PICK v \in valkey : v.key = key[c] /\ v.exp >= granted[c] + TTL[key[c]]
  BY DEF GrantInv, Recorded
<1>2. v.exp \in Nat
  BY DEF TypeOK, ValkeyRecord
<1>3. v.exp >= granted[c] + TTL[key[c]] - CallTicks
  BY <1>1, <1>2, Numbers
<1> QED BY <1>1, <1>3 DEF Known, HeldUntil

\* A write of the map keeps a winner covered that is remembered after it.
LEMMA WriteKept ==
    ASSUME TypeOK, Timely, [Next]_vars, NEW b \in Calls, NEW degraded \in BOOLEAN,
           Write(b, degraded), UNCHANGED <<now, at, key>>,
           NEW c \in Calls, Remembered(c), KeptCall(c), c \notin forgotten',
           granted'[c] = granted[c],
           at[c] = at[b] /\ key[c] = key[b] => degraded \/ Known(c)
    PROVE  KeptCall(c)'
<1> DEFINE S == fallback[at[b]]
           new == SetBounded(S, key[b], b, degraded, inserts[at[b]] + 1)
<1>0. /\ at[b] \in Replicas /\ at[c] \in Replicas
      /\ fallback'[at[b]] = new
      /\ \A r \in Replicas : r # at[b] => fallback'[r] = fallback[r]
  BY DEF Write, TypeOK
<1>1. Won(c) /\ granted[c] <= now
  BY DEF Remembered, Timely, TimelyCall
<1>2. CASE now >= granted[c] + TTL[key[c]]
  BY <1>2 DEF KeptCall
<1>3. CASE ~(now >= granted[c] + TTL[key[c]])
  <2>1. PICK e \in fallback[at[c]] : Covers(e, c)
    BY <1>3 DEF KeptCall
  <2>2. ASSUME NEW f, f \in fallback'[at[c]], f.key = key[c],
               f.exp >= granted[c] + TTL[key[c]], f.degraded \/ Known(c)
        PROVE  KeptCall(c)'
    <3>1. Known(c) => Known(c)'
      BY <1>1, KnownStep
    <3> QED BY <2>2, <3>1 DEF KeptCall, Covers
  <2>3. CASE at[c] # at[b]
    <3>1. e \in fallback'[at[c]]
      BY <1>0, <2>3
    <3> QED BY <2>1, <2>2, <3>1 DEF Covers
  <2>4. CASE at[c] = at[b] /\ key[c] = key[b]
    <3>1. PICK f \in new : f.key = key[b] /\ f.exp = now + TTL[key[b]] /\ f.degraded = degraded
      <4> HIDE DEF S
      <4> QED BY SetBoundedMembers
    <3>2. f.exp >= granted[c] + TTL[key[c]]
      BY <1>1, <2>4, <3>1, Numbers
    <3> HIDE DEF new
    <3> QED BY <1>0, <2>2, <2>4, <3>1, <3>2
  <2>5. CASE at[c] = at[b] /\ key[c] # key[b]
    <3>1. e \in S /\ e.key # key[b]
      BY <2>1, <2>5 DEF Covers
    <3>2. e.exp > now
      <4>1. e.exp \in Nat
        BY <2>1, <1>0 DEF TypeOK, FallbackEntry
      <4> QED BY <1>3, <2>1, <4>1, Numbers DEF Covers
    <3>3. e \notin Evicted(S, key[b])
      BY <2>1, <2>5 DEF Write, Covers
    <3>4. e \in new
      <4> HIDE DEF S
      <4> QED BY <3>1, <3>2, <3>3, SetBoundedMembers
    <3> HIDE DEF new
    <3> QED BY <1>0, <2>1, <2>2, <2>5, <3>4 DEF Covers
  <2> QED BY <2>3, <2>4, <2>5
<1> QED BY <1>2, <1>3

\* The winner itself is covered by the entry it writes.
LEMMA WriterKept ==
    ASSUME TypeOK, NEW b \in Calls, NEW degraded \in BOOLEAN,
           Write(b, degraded), UNCHANGED <<now, at, key>>,
           granted'[b] \in Nat, granted'[b] <= now, degraded \/ Known(b)'
    PROVE  KeptCall(b)'
<1> DEFINE S == fallback[at[b]]
           new == SetBounded(S, key[b], b, degraded, inserts[at[b]] + 1)
<1>0. at[b] \in Replicas /\ fallback'[at[b]] = new
  BY DEF Write, TypeOK
<1>1. PICK f \in new : f.key = key[b] /\ f.exp = now + TTL[key[b]] /\ f.degraded = degraded
  <2> HIDE DEF S
  <2> QED BY SetBoundedMembers
<1>2. f.exp >= granted'[b] + TTL[key[b]]
  BY <1>1, Numbers
<1> HIDE DEF new
<1> QED BY <1>0, <1>1, <1>2 DEF KeptCall, Covers

LEMMA KeptStep ==
    ASSUME TypeOK, GrantInv, WinnerInv, [Next]_vars
    PROVE  Kept'
<1> USE DEF args, map, outcome
<1>0. Timely /\ Kept
  BY DEF WinnerInv
<1> SUFFICES ASSUME NEW c \in Calls, Remembered(c)' PROVE KeptCall(c)'
  BY DEF Kept
<1>1. ASSUME pc[c] \in Winner \cup {"crashed"}
      PROVE  Remembered(c) /\ KeptCall(c) /\ granted'[c] = granted[c] /\ via'[c] = via[c]
  BY <1>0, <1>1, RememberedBefore DEF Kept
<1>2. ASSUME Remembered(c), KeptCall(c), granted'[c] = granted[c], UNCHANGED <<fallback, at, key>>,
             now' \in Nat, now' >= now
      PROVE  KeptCall(c)'
  <2>1. CASE now >= granted[c] + TTL[key[c]]
    <3>1. now' >= granted'[c] + TTL[key'[c]]
      BY <1>2, <2>1, Numbers
    <3> QED BY <3>1 DEF KeptCall
  <2>2. CASE \E e \in fallback[at[c]] : Covers(e, c)
    <3>1. Known(c) => Known(c)'
      BY <1>0, <1>2, KnownStep DEF Remembered
    <3> QED BY <1>2, <2>2, <3>1 DEF KeptCall, Covers
  <2> QED BY <1>2, <2>1, <2>2 DEF KeptCall
<1>3. pc'[c] \in Winner /\ via'[c] # "race" /\ c \notin forgotten'
  BY DEF Remembered, Won
<1>4. now \in Nat /\ now >= now
  BY DEF TypeOK
<1>5. ASSUME NEW b \in Calls, Claim(b) \/ ServerSetNX(b) \/ Fulfill(b) \/ ServerSet(b) \/ ServerGet(b)
      PROVE  KeptCall(c)'
  <2>1. UNCHANGED <<fallback, at, key, now>>
    BY <1>5 DEF Claim, ServerSetNX, Fulfill, ServerSet, ServerGet
  <2>2. pc[c] \in Winner
    <3>1. CASE Claim(b) \/ ServerSetNX(b) \/ Fulfill(b) \/ ServerSet(b)
      BY <1>3, <3>1 DEF Claim, ServerSetNX, Fulfill, ServerSet, Duplicate, Winner, TypeOK
    <3>2. CASE ServerGet(b)
      BY <1>3, <3>2 DEF ServerGet, Duplicate, Win, Winner, TypeOK
    <3> QED BY <1>5, <3>1, <3>2
  <2> QED BY <1>1, <1>2, <1>4, <2>1, <2>2
<1>6. ASSUME NEW b \in Calls, ClaimGranted(b) PROVE KeptCall(c)'
  <2>1. /\ Write(b, FALSE) /\ UNCHANGED <<now, at, key, valkey, granted>>
        /\ pc[b] = "ok" /\ pc' = [pc EXCEPT ![b] = "won"]
    BY <1>6 DEF ClaimGranted, Win, TypeOK
  <2>2. Granted(b) /\ granted[b] <= now
    BY <2>1 DEF Granted, GrantInv, Recorded
  <2>3. CASE c = b
    <3>1. Known(b)'
      BY <2>1, <2>2, GrantedKnown DEF Known, HeldUntil
    <3>2. granted'[b] \in Nat /\ granted'[b] <= now
      BY <2>1, <2>2, Numbers
    <3> QED BY <2>1, <2>3, <3>1, <3>2, WriterKept
  <2>4. CASE c # b
    <3>1. pc[c] \in Winner
      BY <1>3, <2>1, <2>4 DEF TypeOK
    <3>2. Remembered(c) /\ KeptCall(c)
      BY <1>1, <3>1
    <3>3. ASSUME key[c] = key[b] PROVE Known(c)
      <4>1. PICK v \in valkey : v.key = key[b] /\ v.exp >= granted[b] + TTL[key[b]]
        BY <2>2 DEF GrantInv, Recorded
      <4>2. began[b] <= granted[b] /\ now <= began[b] + CallTicks
        BY <1>0, <2>1 DEF Timely, TimelyCall, InFlight
      <4>3. granted[c] <= now
        BY <1>0, <3>2 DEF Timely, TimelyCall, Remembered
      <4>4. v.exp \in Nat
        BY DEF TypeOK, ValkeyRecord
      <4>5. v.exp >= granted[c] + TTL[key[c]] - CallTicks
        BY <3>3, <4>1, <4>2, <4>3, <4>4, Numbers
      <4> QED BY <3>3, <4>1, <4>5 DEF Known, HeldUntil
    <3> QED BY <1>0, <1>3, <2>1, <3>2, <3>3, WriteKept
  <2> QED BY <2>3, <2>4
<1>7. ASSUME NEW b \in Calls, ClaimError(b) PROVE KeptCall(c)'
  <2>1. UNCHANGED <<now, at, key, valkey>> /\ pc[b] \in {"setnx", "ok", "get"}
    BY <1>7 DEF ClaimError
  <2>2. CASE Duplicate(b, Live(fallback[at[b]], key[b])) /\ UNCHANGED map
    <3>1. pc[c] \in Winner
      BY <1>3, <2>2 DEF Duplicate, Winner, TypeOK
    <3> QED BY <1>1, <1>2, <1>4, <2>1, <2>2, <3>1
  <2>3. CASE Write(b, TRUE) /\ Win(b, "fallback", now)
    <3>1. /\ granted' = [granted EXCEPT ![b] = now] /\ pc' = [pc EXCEPT ![b] = "won"]
      BY <2>3 DEF Win
    <3>2. CASE c = b
      <4>1. granted'[b] = now
        BY <3>1 DEF TypeOK
      <4> QED BY <1>4, <2>1, <2>3, <3>2, <4>1, WriterKept
    <3>3. CASE c # b
      <4>1. pc[c] \in Winner
        BY <1>3, <3>1, <3>3 DEF TypeOK
      <4> QED BY <1>0, <1>1, <1>3, <2>1, <2>3, <4>1, WriteKept
    <3> QED BY <3>2, <3>3
  <2> QED BY <1>7, <2>2, <2>3 DEF ClaimError, FallbackClaim
<1>8. ASSUME NEW b \in Calls, MirrorResult(b) PROVE KeptCall(c)'
  <2>1. /\ Write(b, FALSE) /\ UNCHANGED <<now, at, key, valkey, granted, via>>
        /\ pc[b] \in {"set", "stored"} /\ pc' = [pc EXCEPT ![b] = "fulfilled"]
    BY <1>8 DEF MirrorResult
  <2>2. pc[c] \in Winner
    BY <1>3, <2>1 DEF Winner, TypeOK
  <2>3. Remembered(c) /\ KeptCall(c)
    BY <1>1, <2>2
  <2>4. granted[c] <= now /\ via[c] # "none"
    BY <1>0, <2>3 DEF Timely, TimelyCall, Remembered
  <2>5. ASSUME at[c] = at[b], key[c] = key[b] PROVE Known(c)
    <3>1. CASE pc[b] = "stored"
      <4>1. HeldUntil(key[b], began[b] + TTL[key[b]]) /\ now <= began[b] + CallTicks
        BY <1>0, <3>1 DEF Timely, TimelyCall, InFlight
      <4>2. PICK v \in valkey : v.key = key[b] /\ v.exp >= began[b] + TTL[key[b]]
        BY <4>1 DEF HeldUntil
      <4>3. v.exp \in Nat
        BY DEF TypeOK, ValkeyRecord
      <4>4. v.exp >= granted[c] + TTL[key[c]] - CallTicks
        BY <2>4, <2>5, <4>1, <4>2, <4>3, Numbers
      <4> QED BY <2>5, <4>2, <4>4 DEF Known, HeldUntil
    <3>2. CASE pc[b] = "set"
      <4>1. via[c] # "fallback"
        BY <1>3, <2>1, <2>5, <3>2 DEF Write, Unmarked
      <4>2. via[c] = "valkey"
        BY <1>3, <2>1, <2>4, <4>1 DEF TypeOK, Vias
      <4> QED BY <4>2, GrantedKnown DEF Granted
    <3> QED BY <2>1, <3>1, <3>2
  <2> QED BY <1>0, <1>3, <2>1, <2>3, <2>5, WriteKept
<1>9. ASSUME NEW r \in Replicas, Crash(r) PROVE KeptCall(c)'
  <2>1. /\ UNCHANGED <<now, at, key, granted>> /\ pc[c] \in Winner
        /\ fallback' = [fallback EXCEPT ![r] = {}]
    BY <1>3, <1>9 DEF Crash, Winner
  <2>2. at[c] # r
    BY <1>3, <1>9, <2>1 DEF Crash, Winner
  <2>3. fallback'[at[c]] = fallback[at[c]]
    BY <2>1, <2>2 DEF TypeOK
  <2>4. Remembered(c) /\ KeptCall(c)
    BY <1>1, <2>1
  <2>5. Known(c) => Known(c)'
    BY <1>0, <2>1, <2>4, KnownStep DEF Remembered
  <2> QED BY <2>1, <2>3, <2>4, <2>5 DEF KeptCall, Covers
<1>10. ASSUME (\E m \in late : ServerLate(m)) \/ ValkeyDown \/ ValkeyUp \/ Tick \/ UNCHANGED vars
       PROVE  KeptCall(c)'
  <2>1. UNCHANGED <<fallback, at, key, pc>> /\ now' \in Nat /\ now' >= now
    BY <1>4, <1>10 DEF ServerLate, ValkeyDown, ValkeyUp, Tick, vars
  <2> QED BY <1>1, <1>2, <1>3, <2>1
<1> QED
  BY <1>5, <1>6, <1>7, <1>8, <1>9, <1>10 DEF Next

\* Winners stay winners or are cut off.
LEMMA OverStep ==
    ASSUME TypeOK, [Next]_vars, NEW c \in Calls, pc[c] \in Winner \cup {"crashed"}
    PROVE  pc'[c] \in Winner \cup {"crashed"}
<1> USE DEF args, map, outcome
<1>1. ASSUME NEW d \in Calls, NEW x, d # c \/ x \in Winner, pc' = [pc EXCEPT ![d] = x]
      PROVE  pc'[c] \in Winner \cup {"crashed"}
  BY <1>1 DEF TypeOK
<1>2. ASSUME NEW d \in Calls,
             \/ Claim(d) \/ ServerSetNX(d) \/ ServerGet(d) \/ ClaimError(d) \/ ClaimGranted(d)
      PROVE  pc'[c] \in Winner \cup {"crashed"}
  <2>1. d # c
    BY <1>2 DEF Claim, ServerSetNX, ServerGet, ClaimError, ClaimGranted, Winner
  <2>2. \E x : pc' = [pc EXCEPT ![d] = x]
    BY <1>2 DEF Claim, ServerSetNX, ServerGet, ClaimError, ClaimGranted, FallbackClaim,
         Duplicate, Win
  <2> QED BY <1>1, <2>1, <2>2
<1>3. ASSUME NEW d \in Calls, Fulfill(d) \/ ServerSet(d) \/ MirrorResult(d)
      PROVE  pc'[c] \in Winner \cup {"crashed"}
  <2>1. \E x \in Winner : pc' = [pc EXCEPT ![d] = x]
    BY <1>3 DEF Fulfill, ServerSet, MirrorResult, Winner
  <2> QED BY <1>1, <2>1
<1>4. ASSUME \/ \E r \in Replicas : Crash(r)
             \/ \E m \in late : ServerLate(m)
             \/ ValkeyDown \/ ValkeyUp \/ Tick \/ UNCHANGED vars
      PROVE  pc'[c] \in Winner \cup {"crashed"}
  BY <1>4 DEF Crash, ServerLate, ValkeyDown, ValkeyUp, Tick, vars
<1> QED
  BY <1>2, <1>3, <1>4 DEF Next

\* Which calls a call knows to have won before it changes only when it claims.
LEMMA PriorStep ==
    ASSUME TypeOK, [Next]_vars, NEW d \in Calls
    PROVE  \/ prior'[d] = prior[d]
           \/ Claim(d) /\ prior'[d] = {c \in Calls : pc[c] \in Winner}
<1>1. ASSUME NEW b \in Calls, Claim(b)
      PROVE  \/ prior'[d] = prior[d]
             \/ Claim(d) /\ prior'[d] = {c \in Calls : pc[c] \in Winner}
  BY <1>1 DEF Claim, TypeOK
<1>2. CASE UNCHANGED prior
  BY <1>2
<1> QED
  BY <1>1, <1>2
     DEF Next, ServerSetNX, ClaimGranted, ServerGet, ClaimError, Fulfill, ServerSet,
         MirrorResult, ServerLate, ValkeyDown, ValkeyUp, Crash, Tick, vars

LEMMA EarlierStep ==
    ASSUME TypeOK, Earlier, [Next]_vars
    PROVE  Earlier'
<1> SUFFICES ASSUME NEW d \in Calls, NEW c \in prior'[d]
             PROVE  c # d /\ pc'[c] \in Winner \cup {"crashed"}
  BY DEF Earlier
<1>1. CASE prior'[d] = prior[d]
  <2>1. c \in Calls /\ c # d /\ pc[c] \in Winner \cup {"crashed"}
    BY <1>1 DEF Earlier, TypeOK
  <2> QED BY <2>1, OverStep
<1>2. CASE Claim(d) /\ prior'[d] = {b \in Calls : pc[b] \in Winner}
  <2>1. c \in Calls /\ pc[c] \in Winner /\ pc[d] = "idle"
    BY <1>2 DEF Claim
  <2>2. c # d
    BY <2>1 DEF Winner
  <2> QED BY <2>1, <2>2, OverStep
<1> QED BY <1>1, <1>2, PriorStep

\* Valkey refuses whoever asks while it knows of c's claim.
LEMMA RefusedWhileKnown ==
    ASSUME TypeOK, NEW c \in Calls, now >= granted[c] + TTL[key[c]] \/ Known(c),
           Live(valkey, key[c]) = {}
    PROVE  now + CallTicks >= granted[c] + TTL[key[c]]
<1>1. CASE now >= granted[c] + TTL[key[c]]
  BY <1>1, Numbers
<1>2. CASE Known(c)
  <2>1. PICK v \in valkey : v.key = key[c] /\ v.exp >= granted[c] + TTL[key[c]] - CallTicks
    BY <1>2 DEF Known, HeldUntil
  <2>2. v.exp \in Nat /\ ~(v.exp > now)
    BY <2>1 DEF TypeOK, ValkeyRecord, Live
  <2> QED BY <2>1, <2>2, Numbers
<1> QED BY <1>1, <1>2

LEMMA ExcludedStep ==
    ASSUME TypeOK, GrantInv, WinnerInv, [Next]_vars
    PROVE  Excluded'
<1> USE DEF args, map, outcome
<1>0. Timely /\ Kept /\ Earlier /\ Excluded
  BY DEF WinnerInv
<1> SUFFICES ASSUME NEW c \in Calls, NEW d \in Calls, Remembered(c)', Follows(d, c)'
             PROVE  Excludes(c, d)'
  BY DEF Excluded
<1>1. at' = at /\ key' = key
  BY DEF Next, Claim, ServerSetNX, ClaimGranted, ServerGet, ClaimError, Fulfill, ServerSet,
     MirrorResult, ServerLate, ValkeyDown, ValkeyUp, Crash, Tick, vars
<1>2. at[c] = at[d] /\ key[c] = key[d] /\ c \in prior'[d]
  BY <1>1 DEF Follows
<1>3. pc[c] \in Winner \cup {"crashed"}
  BY <1>0, <1>2, PriorStep DEF Earlier
<1>4. Remembered(c) /\ KeptCall(c) /\ granted'[c] = granted[c]
  BY <1>0, <1>3, RememberedBefore DEF Kept
<1>5. ASSUME now' \in Nat, now' >= now, now >= granted[c] + TTL[key[c]] \/ Known(c)
      PROVE  now' >= granted'[c] + TTL[key'[c]] \/ Known(c)'
  <2>1. CASE now >= granted[c] + TTL[key[c]]
    <3>1. now' >= granted'[c] + TTL[key'[c]]
      BY <1>1, <1>4, <1>5, <2>1, Numbers
    <3> QED BY <3>1
  <2>2. CASE Known(c)
    BY <1>0, <1>1, <1>4, <2>2, KnownStep DEF Remembered
  <2> QED BY <1>5, <2>1, <2>2
<1>6. now' \in Nat /\ now' >= now
  <2>1. now \in Nat
    BY DEF TypeOK
  <2>2. CASE Tick
    BY <2>1, <2>2 DEF Tick
  <2>3. CASE UNCHANGED now
    BY <2>1, <2>3
  <2> QED
    BY <2>2, <2>3 DEF Next, Claim, ServerSetNX, ClaimGranted, ServerGet, ClaimError, Fulfill,
       ServerSet, MirrorResult, ServerLate, ValkeyDown, ValkeyUp, Crash, vars
<1>7. CASE Claim(d) /\ prior'[d] = {b \in Calls : pc[b] \in Winner}
  <2>1. CASE pc'[d] = "setnx" /\ PeekDegraded(fallback[at[d]], key[d]) = {}
    <3>1. now >= granted[c] + TTL[key[c]] \/ Known(c)
      <4>1. ASSUME NEW e \in fallback[at[c]], Covers(e, c), ~(now >= granted[c] + TTL[key[c]])
            PROVE  Known(c)
        <5>1. e.exp \in Nat /\ e.exp > now
          BY <4>1, Numbers DEF Covers, TypeOK, FallbackEntry
        <5>2. ~e.degraded
          BY <1>2, <2>1, <4>1, <5>1 DEF PeekDegraded, Live, Covers
        <5> QED BY <4>1, <5>2 DEF Covers
      <4> QED BY <1>4, <4>1 DEF KeptCall
    <3> QED BY <1>5, <1>6, <2>1, <3>1 DEF Excludes, Won, Winner
  <2>2. CASE pc'[d] = "dup"
    BY <2>2 DEF Excludes, Won, Winner
  <2> QED BY <1>7, <2>1, <2>2 DEF Claim, Duplicate, TypeOK
<1>8. CASE prior'[d] = prior[d]
  <2>1. c # d /\ Follows(d, c) /\ Excludes(c, d)
    BY <1>0, <1>2, <1>4, <1>8 DEF Follows, Excluded, Earlier
  <2>2. ASSUME pc'[d] = pc[d] \/ (pc[d] = "setnx" /\ pc'[d] = "get")
                 \/ (pc[d] = "ok" /\ pc'[d] = "won")
                 \/ (Won(d) /\ Won(d)')
                 \/ pc'[d] \in {"dup", "crashed"},
               granted'[d] = granted[d]
        PROVE  Excludes(c, d)'
    <3>1. pc'[d] \in {"setnx", "get"} => pc[d] \in {"setnx", "get"}
      BY <2>2 DEF Won, Winner
    <3>2. pc'[d] = "ok" \/ Won(d)' => pc[d] = "ok" \/ Won(d)
      BY <2>2 DEF Won, Winner
    <3> QED BY <1>1, <1>4, <1>5, <1>6, <2>1, <2>2, <3>1, <3>2 DEF Excludes
  <2>3. ASSUME pc'[d] \in {"ok", "won"}, granted'[d] = now,
               now + CallTicks >= granted[c] + TTL[key[c]]
        PROVE  Excludes(c, d)'
    <3>1. granted'[d] + CallTicks >= granted'[c] + TTL[key'[c]]
      BY <1>1, <1>4, <2>3
    <3> QED BY <2>3, <3>1 DEF Excludes
  <2>4. ASSUME NEW b \in Calls, Claim(b) PROVE Excludes(c, d)'
    <3>1. CASE b # d
      <4>1. pc'[d] = pc[d] /\ granted'[d] = granted[d]
        BY <2>4, <3>1 DEF Claim, Duplicate, TypeOK
      <4> QED BY <2>2, <4>1
    <3>2. CASE b = d
      <4>1. prior'[d] = {a \in Calls : pc[a] \in Winner}
        BY <2>4, <3>2 DEF Claim, TypeOK
      <4> QED BY <1>7, <2>4, <3>2, <4>1
    <3> QED BY <3>1, <3>2
  <2>5. ASSUME NEW b \in Calls, ServerSetNX(b) PROVE Excludes(c, d)'
    <3>1. CASE b # d
      <4>1. pc'[d] = pc[d] /\ granted'[d] = granted[d]
        BY <2>5, <3>1 DEF ServerSetNX, TypeOK
      <4> QED BY <2>2, <4>1
    <3>2. CASE b = d /\ Live(valkey, key[d]) = {}
      <4>1. pc[d] = "setnx" /\ pc'[d] = "ok" /\ granted'[d] = now
        BY <2>5, <3>2 DEF ServerSetNX, TypeOK
      <4>2. now + CallTicks >= granted[c] + TTL[key[c]]
        BY <1>2, <2>1, <3>2, <4>1, RefusedWhileKnown DEF Excludes
      <4> QED BY <2>3, <4>1, <4>2
    <3>3. CASE b = d /\ Live(valkey, key[d]) # {}
      <4>1. pc[d] = "setnx" /\ pc'[d] = "get" /\ granted'[d] = granted[d]
        BY <2>5, <3>3 DEF ServerSetNX, TypeOK
      <4> QED BY <2>2, <4>1
    <3> QED BY <3>1, <3>2, <3>3
  <2>6. ASSUME NEW b \in Calls, ClaimGranted(b) PROVE Excludes(c, d)'
    <3>1. pc[b] = "ok" /\ pc' = [pc EXCEPT ![b] = "won"] /\ granted'[d] = granted[d]
      BY <2>6 DEF ClaimGranted, Win, TypeOK
    <3>2. pc'[d] = pc[d] \/ (pc[d] = "ok" /\ pc'[d] = "won")
      BY <3>1 DEF TypeOK
    <3> QED BY <2>2, <3>1, <3>2
  <2>7. ASSUME NEW b \in Calls, b # d, ServerGet(b) \/ ClaimError(b) PROVE Excludes(c, d)'
    <3>1. (\E found : Duplicate(b, found)) \/ (\E how, when : Win(b, how, when))
      BY <2>7 DEF ServerGet, ClaimError, FallbackClaim
    <3>2. pc'[d] = pc[d] /\ granted'[d] = granted[d]
      BY <2>7, <3>1 DEF Duplicate, Win, TypeOK
    <3> QED BY <2>2, <3>2
  <2>8. ASSUME NEW found, Duplicate(d, found) PROVE Excludes(c, d)'
    <3>1. pc'[d] = "dup" /\ granted'[d] = granted[d]
      BY <2>8 DEF Duplicate, TypeOK
    <3> QED BY <2>2, <3>1
  <2>9. ASSUME ServerGet(d) PROVE Excludes(c, d)'
    <3>1. CASE Live(valkey, key[d]) = {} /\ Win(d, "race", now)
      <4>1. pc[d] = "get" /\ pc'[d] = "won" /\ granted'[d] = now
        BY <2>9, <3>1 DEF ServerGet, Win, TypeOK
      <4>2. now + CallTicks >= granted[c] + TTL[key[c]]
        BY <1>2, <2>1, <3>1, <4>1, RefusedWhileKnown DEF Excludes
      <4> QED BY <2>3, <4>1, <4>2
    <3> QED BY <2>8, <2>9, <3>1 DEF ServerGet
  <2>10. ASSUME ClaimError(d) PROVE Excludes(c, d)'
    <3>1. CASE Live(fallback[at[d]], key[d]) = {} /\ Win(d, "fallback", now)
      <4>1. pc'[d] = "won" /\ granted'[d] = now
        BY <3>1 DEF Win, TypeOK
      <4>2. now + CallTicks >= granted[c] + TTL[key[c]]
        <5>1. CASE now >= granted[c] + TTL[key[c]]
          BY <5>1, Numbers
        <5>2. ASSUME NEW e \in fallback[at[c]], Covers(e, c)
              PROVE  now + CallTicks >= granted[c] + TTL[key[c]]
          <6>1. e.exp \in Nat /\ ~(e.exp > now)
            BY <1>2, <3>1, <5>2, Numbers DEF Live, Covers, TypeOK, FallbackEntry
          <6> QED BY <5>2, <6>1, Numbers DEF Covers
        <5> QED BY <1>4, <5>1, <5>2 DEF KeptCall
      <4> QED BY <2>3, <4>1, <4>2
    <3> QED BY <2>8, <2>10, <3>1 DEF ClaimError, FallbackClaim
  <2>11. ASSUME NEW b \in Calls, Fulfill(b) \/ ServerSet(b) \/ MirrorResult(b)
         PROVE  Excludes(c, d)'
    <3>1. granted'[d] = granted[d]
      BY <2>11 DEF Fulfill, ServerSet, MirrorResult
    <3>2. pc[b] \in Winner /\ \E x \in Winner : pc' = [pc EXCEPT ![b] = x]
      BY <2>11 DEF Fulfill, ServerSet, MirrorResult, Winner
    <3>3. pc'[d] = pc[d] \/ (Won(d) /\ Won(d)')
      BY <3>2 DEF Won, TypeOK
    <3> QED BY <2>2, <3>1, <3>3
  <2>12. ASSUME \/ \E r \in Replicas : Crash(r)
                \/ \E m \in late : ServerLate(m)
                \/ ValkeyDown \/ ValkeyUp \/ Tick \/ UNCHANGED vars
         PROVE  Excludes(c, d)'
    <3>1. (pc'[d] = pc[d] \/ pc'[d] = "crashed") /\ granted'[d] = granted[d]
      BY <2>12 DEF Crash, ServerLate, ValkeyDown, ValkeyUp, Tick, vars
    <3> QED BY <2>2, <3>1
  <2> QED
    BY <2>4, <2>5, <2>6, <2>7, <2>9, <2>10, <2>11, <2>12 DEF Next
<1> QED BY <1>7, <1>8, PriorStep

LEMMA WinnerInit == Init => WinnerInv
<1> SUFFICES ASSUME Init PROVE WinnerInv
  OBVIOUS
<1>1. \A c \in Calls : pc[c] = "idle" /\ prior[c] = {}
  BY DEF Init
<1>2. \A c \in Calls : ~Won(c) /\ pc[c] \notin InFlight
  BY <1>1 DEF Won, Winner, InFlight
<1>3. Timely
  BY <1>1, <1>2 DEF Timely, TimelyCall
<1> QED
  BY <1>1, <1>2, <1>3 DEF WinnerInv, Kept, Remembered, Earlier, Excluded, Follows

LEMMA WinnerStep ==
    ASSUME TypeOK, GrantInv, WinnerInv, [Next]_vars
    PROVE  WinnerInv'
BY TimelyStep, KeptStep, EarlierStep, ExcludedStep DEF WinnerInv

LEMMA WinnerInvariant == Spec => []WinnerInv
BY WinnerInit, WinnerStep, GrantInvariant, Typing, PTL DEF Spec

\* RedeliveryRefused: a call that begins after another won its key on the same
\* replica wins the key again only when the other's TTL is over but for a command's
\* timeout, through outages, recoveries, lost replies, late commands and other
\* callers' fulfilled results, as long as the replica remembers the winner
\* (peekDegraded and the mirror of ValkeyIdempotencyStore).
THEOREM RedeliveryRefused == Spec => []NoSecondWinner
<1>1. WinnerInv => NoSecondWinner
  BY DEF WinnerInv, Excluded, Excludes, Remembered, Follows, NoSecondWinner
<1> QED BY <1>1, WinnerInvariant, PTL
===============================================================================
