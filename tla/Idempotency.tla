------------------------------ MODULE Idempotency ------------------------------
(***************************************************************************)
(* The dedup store of the portal backend (portal/src/lib/idempotency.ts):   *)
(* a Valkey register shared by all replicas (SET key value EX ttl NX) and,  *)
(* in every replica, a bounded in-memory map that mirrors the claims Valkey *)
(* granted and takes claims by itself while Valkey does not answer.         *)
(*                                                                          *)
(* A call is one request, watch event or approval that claims a key; it     *)
(* claims with a value of its own, so the call stands for the value.  One   *)
(* action is the code between two awaits, or one command at the server.     *)
(***************************************************************************)
EXTENDS Integers, FiniteSets

CONSTANTS
    Replicas,      \* portal processes
    Keys,          \* idempotency keys
    Calls,         \* claims made in one behaviour
    TTL,           \* [Keys -> Nat]: the ttlSeconds the key's callers pass
    MaxEntries,    \* capacity of a replica's in-memory map (5000 in the code)
    CallTicks,     \* the clock ticks a call can be in flight (commandTimeout)
    FulfillKeys,   \* keys whose callers overwrite the claim with a result
    MayCrash,      \* whether replicas restart
    MaxClock       \* bound on the clock

ASSUME TTLAssumption == TTL \in [Keys -> Nat \ {0}]
ASSUME MaxEntriesAssumption == MaxEntries \in Nat \ {0}
ASSUME CallTicksAssumption == CallTicks \in Nat
ASSUME FulfillAssumption == FulfillKeys \subseteq Keys
ASSUME MayCrashAssumption == MayCrash \in BOOLEAN
ASSUME MaxClockAssumption == MaxClock \in Nat

VARIABLES
    now,        \* the clock (Date.now() and Valkey's own agree)
    up,         \* Valkey answers
    valkey,     \* Valkey's records: [key, by, exp]
    fallback,   \* per replica, the map's entries: [key, by, exp, degraded, ord]
    inserts,    \* per replica, how many entries its map has had: orders them
    late,       \* commands whose caller gave up and the server may still run
    at, key,    \* per call, its replica and its key: arguments, never changed
    pc,         \* per call, where it is
    began,      \* per call, when the claim() or fulfill() it is in began
    via,        \* per call, how it won
    granted,    \* per call, when the claim it won took effect
    of,         \* per call, the call whose value a duplicate was given
    prior,      \* per call, the calls that had already won when it began
    forgotten   \* winners whose entry their replica evicted, lost in a restart or
                \* unmarked while Valkey does not know the claim (ghost)

args == <<at, key>>
map == <<fallback, inserts, forgotten>>
outcome == <<via, granted, of>>
vars == <<now, up, valkey, fallback, inserts, late, at, key, pc, began, via,
          granted, of, prior, forgotten>>

---------------------------------------------------------------------------
(* Types.                                                                   *)

\* "setnx", "get", "set": awaiting a command.  "ok", "stored": its reply is on
\* the way.  "won": claim() returned null; "dup": it returned a value.
InFlight == {"setnx", "ok", "get", "set", "stored"}
Winner == {"won", "set", "stored", "fulfilled"}
PCs == InFlight \cup Winner \cup {"idle", "dup", "crashed"}
\* How a claim was won: granted by SET NX, by the fallback map, or because the
\* key expired between SET NX and GET.
Vias == {"none", "valkey", "fallback", "race"}

ValkeyRecord == [key : Keys, by : Calls, exp : Nat]
FallbackEntry == [key : Keys, by : Calls, exp : Nat, degraded : BOOLEAN, ord : Nat]
Command == [op : {"setnx", "set"}, call : Calls]

\* Every variable holds a value of its kind.
TypeOK ==
    /\ now \in Nat
    /\ up \in BOOLEAN
    /\ valkey \subseteq ValkeyRecord
    /\ fallback \in [Replicas -> SUBSET FallbackEntry]
    /\ inserts \in [Replicas -> Nat]
    /\ late \subseteq Command
    /\ at \in [Calls -> Replicas]
    /\ key \in [Calls -> Keys]
    /\ pc \in [Calls -> PCs]
    /\ began \in [Calls -> Nat]
    /\ via \in [Calls -> Vias]
    /\ granted \in [Calls -> Nat]
    /\ of \in [Calls -> Calls]
    /\ prior \in [Calls -> SUBSET Calls]
    /\ forgotten \subseteq Calls

---------------------------------------------------------------------------
(* The in-memory map: a set of entries, at most one per key; ord is the     *)
(* Map's insertion order, which overwriting an entry keeps.                 *)

Live(S, k) == {e \in S : e.key = k /\ e.exp > now}

Sweep(S) == {e \in S : e.exp > now}

Oldest(S) == CHOOSE e \in S : \A f \in S : e.ord <= f.ord

\* The entries setBounded evicts to make room for key k.
Evicted(S, k) ==
    IF (\A e \in Sweep(S) : e.key # k) /\ Cardinality(Sweep(S)) >= MaxEntries
    THEN {Oldest(Sweep(S))}
    ELSE {}

\* Overwriting a present entry keeps its place; n numbers a new one.
SetBounded(S, k, c, degraded, n) ==
    LET kept == Sweep(S) \ Evicted(S, k)
        ord == IF \E e \in kept : e.key = k
               THEN (CHOOSE e \in kept : e.key = k).ord
               ELSE n
    IN  {e \in kept : e.key # k} \cup
        {[key |-> k, by |-> c, exp |-> now + TTL[k], degraded |-> degraded, ord |-> ord]}

\* Mutant: the store before portal#178 did not look for outage claims.
PeekNothing(S, k) == {}

\* The unexpired entry claimed while Valkey was away, if any.
PeekDegraded(S, k) == {e \in Live(S, k) : e.degraded}

\* fulfill() whose SET failed takes the degraded flag off the key's entry: outage
\* claims of the key that this replica took are not looked for any more.
Unmarked(c) ==
    {d \in Calls : pc[c] = "set" /\ at[d] = at[c] /\ key[d] = key[c] /\ via[d] = "fallback"}

\* Call c writes its replica's map; whoever it evicts or unmarks is forgotten.
Write(c, degraded) ==
    LET r == at[c] IN
    /\ fallback' = [fallback EXCEPT ![r] = SetBounded(@, key[c], c, degraded, inserts[r] + 1)]
    /\ inserts' = [inserts EXCEPT ![r] = @ + 1]
    /\ forgotten' = forgotten \cup Unmarked(c) \cup
          {d \in Calls : at[d] = r /\ \E e \in Evicted(fallback[r], key[c]) : e.key = key[d]}

---------------------------------------------------------------------------
(* The outcomes of claim().                                                 *)

Win(c, how, when) ==
    /\ pc' = [pc EXCEPT ![c] = "won"]
    /\ via' = [via EXCEPT ![c] = how]
    /\ granted' = [granted EXCEPT ![c] = when]
    /\ UNCHANGED of

\* One of the (at most one) records found answers the call.
Duplicate(c, found) ==
    /\ pc' = [pc EXCEPT ![c] = "dup"]
    /\ \E e \in found : of' = [of EXCEPT ![c] = e.by]
    /\ UNCHANGED <<via, granted>>

\* InMemoryIdempotencyStore.claim: an unexpired entry makes this a duplicate,
\* whatever its degraded flag.
FallbackClaim(c) ==
    LET found == Live(fallback[at[c]], key[c])
    IN  \/ found # {} /\ Duplicate(c, found) /\ UNCHANGED map
        \/ found = {} /\ Write(c, TRUE) /\ Win(c, "fallback", now)

---------------------------------------------------------------------------
Init ==
    /\ now = 0
    /\ up = TRUE
    /\ valkey = {}
    /\ fallback = [r \in Replicas |-> {}]
    /\ inserts = [r \in Replicas |-> 0]
    /\ late = {}
    /\ at \in [Calls -> Replicas]
    /\ key \in [Calls -> Keys]
    /\ pc = [c \in Calls |-> "idle"]
    /\ began = [c \in Calls |-> 0]
    /\ via = [c \in Calls |-> "none"]
    /\ granted = [c \in Calls |-> 0]
    /\ of = [c \in Calls |-> c]
    /\ prior = [c \in Calls |-> {}]
    /\ forgotten = {}

\* ValkeyIdempotencyStore.claim up to its first await: peekDegraded, send SET NX.
Claim(c) ==
    /\ pc[c] = "idle"
    /\ began' = [began EXCEPT ![c] = now]
    /\ prior' = [prior EXCEPT ![c] = {d \in Calls : pc[d] \in Winner}]
    /\ LET unreconciled == PeekDegraded(fallback[at[c]], key[c])
       IN  \/ unreconciled # {} /\ Duplicate(c, unreconciled)
           \/ /\ unreconciled = {}
              /\ pc' = [pc EXCEPT ![c] = "setnx"]
              /\ UNCHANGED outcome
    /\ UNCHANGED <<now, up, valkey, late, args, map>>

\* What SET key value EX ttl does to Valkey.
Set(c) ==
    valkey' = {e \in valkey : e.key # key[c]} \cup
                 {[key |-> key[c], by |-> c, exp |-> now + TTL[key[c]]]}

\* Mutant: SET without NX.
ServerSetAlways(c) ==
    /\ up
    /\ pc[c] = "setnx"
    /\ Set(c)
    /\ pc' = [pc EXCEPT ![c] = "ok"]
    /\ granted' = [granted EXCEPT ![c] = now]
    /\ UNCHANGED <<now, up, late, args, map, began, prior, via, of>>

\* Mutant: the reply OK is taken for a miss.
ServerSetNXMissed(c) ==
    /\ up
    /\ pc[c] = "setnx"
    /\ \/ Live(valkey, key[c]) = {} /\ Set(c)
       \/ Live(valkey, key[c]) # {} /\ UNCHANGED valkey
    /\ pc' = [pc EXCEPT ![c] = "get"]
    /\ UNCHANGED <<now, up, late, args, map, began, prior, outcome>>

\* The server runs SET NX.  A refused caller goes on to send GET.
ServerSetNX(c) ==
    /\ up
    /\ pc[c] = "setnx"
    /\ \/ /\ Live(valkey, key[c]) = {}
          /\ Set(c)
          /\ pc' = [pc EXCEPT ![c] = "ok"]
          /\ granted' = [granted EXCEPT ![c] = now]
       \/ /\ Live(valkey, key[c]) # {}
          /\ pc' = [pc EXCEPT ![c] = "get"]
          /\ UNCHANGED <<valkey, granted>>
    /\ UNCHANGED <<now, up, late, args, map, began, prior, via, of>>

\* The reply OK: mirror the claim in the fallback map, return null.
ClaimGranted(c) ==
    /\ pc[c] = "ok"
    /\ Write(c, FALSE)
    /\ Win(c, "valkey", granted[c])
    /\ UNCHANGED <<now, up, valkey, late, args, began, prior>>

\* GET after a refused SET NX: the holder's value, or null if it expired since.
ServerGet(c) ==
    /\ up
    /\ pc[c] = "get"
    /\ LET held == Live(valkey, key[c])
       IN  \/ held # {} /\ Duplicate(c, held)
           \/ held = {} /\ Win(c, "race", now)
    /\ UNCHANGED <<now, up, valkey, late, args, map, began, prior>>

\* A command rejects: Valkey is away or commandTimeout passed.  A SET that was
\* sent may still be run later, or never; a reply on its way is lost.
Abandon(c) ==
    \/ late' = late
    \/ pc[c] \in {"setnx", "set"} /\ late' = late \cup {[op |-> pc[c], call |-> c]}

ClaimError(c) ==
    /\ pc[c] \in {"setnx", "ok", "get"}
    /\ Abandon(c)
    /\ FallbackClaim(c)
    /\ UNCHANGED <<now, up, valkey, args, began, prior>>

\* ValkeyIdempotencyStore.fulfill, called by a winner once it has its result.
Fulfill(c) ==
    /\ pc[c] = "won"
    /\ key[c] \in FulfillKeys
    /\ pc' = [pc EXCEPT ![c] = "set"]
    /\ began' = [began EXCEPT ![c] = now]
    /\ UNCHANGED <<now, up, valkey, late, args, map, prior, outcome>>

ServerSet(c) ==
    /\ up
    /\ pc[c] = "set"
    /\ Set(c)
    /\ pc' = [pc EXCEPT ![c] = "stored"]
    /\ UNCHANGED <<now, up, late, args, map, began, prior, outcome>>

\* After the SET, or after its error was swallowed, the mirror is written.
MirrorResult(c) ==
    /\ pc[c] \in {"set", "stored"}
    /\ Abandon(c)
    /\ Write(c, FALSE)
    /\ pc' = [pc EXCEPT ![c] = "fulfilled"]
    /\ UNCHANGED <<now, up, valkey, args, began, prior, outcome>>

\* The server runs a command whose caller is no longer waiting for it.
ServerLate(m) ==
    /\ up
    /\ late' = late \ {m}
    /\ \/ m.op = "setnx" /\ Live(valkey, key[m.call]) # {} /\ UNCHANGED valkey
       \/ m.op = "setnx" /\ Live(valkey, key[m.call]) = {} /\ Set(m.call)
       \/ m.op = "set" /\ Set(m.call)
    /\ UNCHANGED <<now, up, args, map, pc, began, prior, outcome>>

\* The connection to Valkey drops and comes back.
ValkeyDown ==
    /\ up /\ up' = FALSE
    /\ UNCHANGED <<now, valkey, late, args, map, pc, began, prior, outcome>>

ValkeyUp ==
    /\ ~up /\ up' = TRUE
    /\ UNCHANGED <<now, valkey, late, args, map, pc, began, prior, outcome>>

\* A replica restarts: its map and its calls are gone.
Crash(r) ==
    /\ MayCrash
    /\ fallback' = [fallback EXCEPT ![r] = {}]
    /\ inserts' = [inserts EXCEPT ![r] = 0]
    /\ \E lost \in SUBSET {c \in Calls : at[c] = r /\ pc[c] \in {"setnx", "set"}} :
          late' = late \cup {[op |-> pc[c], call |-> c] : c \in lost}
    /\ pc' = [c \in Calls |-> IF at[c] = r /\ pc[c] \in InFlight THEN "crashed" ELSE pc[c]]
    /\ forgotten' = forgotten \cup {c \in Calls : at[c] = r /\ pc[c] # "idle"}
    /\ UNCHANGED <<now, up, valkey, args, began, prior, outcome>>

\* Time passes, but no command is awaited longer than its timeout allows.
Tick ==
    /\ now < MaxClock
    /\ \A c \in Calls : pc[c] \in InFlight => now - began[c] < CallTicks
    /\ now' = now + 1
    /\ UNCHANGED <<up, valkey, late, args, map, pc, began, prior, outcome>>

Next ==
    \/ \E c \in Calls : Claim(c)
    \/ \E c \in Calls : ServerSetNX(c)
    \/ \E c \in Calls : ClaimGranted(c)
    \/ \E c \in Calls : ServerGet(c)
    \/ \E c \in Calls : ClaimError(c)
    \/ \E c \in Calls : Fulfill(c)
    \/ \E c \in Calls : ServerSet(c)
    \/ \E c \in Calls : MirrorResult(c)
    \/ \E m \in late : ServerLate(m)
    \/ ValkeyDown
    \/ ValkeyUp
    \/ \E r \in Replicas : Crash(r)
    \/ Tick

Spec == Init /\ [][Next]_vars

---------------------------------------------------------------------------
(* Properties.                                                              *)

Won(c) == pc[c] \in Winner

\* The in-memory map never holds more than maxEntries entries, whichever of
\* claim, mirrored claim and fulfilled result writes it (setBounded).
FallbackBounded == \A r \in Replicas : Cardinality(fallback[r]) <= MaxEntries

\* Two calls that Valkey granted the same key got it a TTL apart, on whatever
\* replicas they ran and whatever was lost in between (claim's SET NX).
ValkeyGrantsApart ==
    \A c, d \in Calls :
        /\ c # d /\ Won(c) /\ Won(d) /\ key[c] = key[d]
        /\ via[c] = "valkey" /\ via[d] = "valkey"
        => \/ granted[c] >= granted[d] + TTL[key[c]]
           \/ granted[d] >= granted[c] + TTL[key[c]]

\* A redelivery that begins after a claim was won on the same replica does not win
\* the key again within its TTL, through any outage and recovery of Valkey, unless
\* the replica evicted the entry or restarted, or a fulfill() that did not reach
\* Valkey unmarked it (peekDegraded, portal#178 gap 2).
NoSecondWinner ==
    \A c, d \in Calls :
        /\ Won(c) /\ Won(d) /\ c \in prior[d]
        /\ at[c] = at[d] /\ key[c] = key[d]
        /\ via[c] # "race" /\ c \notin forgotten
        => granted[d] + CallTicks >= granted[c] + TTL[key[c]]

\* A call is told it is a duplicate only of another call, and some call with its
\* key has won or is still deciding (or its replica crashed): a key is never
\* refused to everyone.
DuplicateHasWinner ==
    \A c \in Calls : pc[c] = "dup" =>
        /\ of[c] # c
        /\ \E d \in Calls : key[d] = key[c] /\ (Won(d) \/ pc[d] \in InFlight \cup {"crashed"})
===============================================================================
