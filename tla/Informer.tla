------------------------------- MODULE Informer -------------------------------
(***************************************************************************)
(* The Kubernetes event informer (portal/src/lib/live-k8s-informer.ts): the *)
(* lease loop that picks the replica to watch, the watch with its           *)
(* process-local resourceVersion, the relist after 410 Gone                 *)
(* (portal/src/lib/k8s-event-resync.ts) and the claim that keeps replicas    *)
(* from pushing an event twice.                                             *)
(*                                                                          *)
(* Kubernetes events are numbered by resourceVersion; 0 is the code's "0".   *)
(* Time advances in steps of LEASE_RENEW_MS.  Backoff lengths and events     *)
(* toIngest does not surface are left out.                                  *)
(***************************************************************************)
EXTENDS Integers, Sequences, FiniteSets

CONSTANTS
    Replicas,      \* portal processes
    Nobody,        \* the owner of a key whose token no replica uses any more
    LeaseTTL,      \* LEASE_TTL_MS / LEASE_RENEW_MS, 3 in the code
    RenewDelay,    \* a renewal that is due runs before this many steps pass
    Expiry,        \* how the API server reports expired cursors: "status", "event"
    MaxEvents,     \* bound on the events created
    MaxFaults,     \* bound on failed API server requests
    MaxOutages,    \* bound on failed Valkey commands
    MaxCrashes     \* bound on crashes

ASSUME NobodyAssumption == Nobody \notin Replicas
ASSUME LeaseAssumption ==
    LeaseTTL \in Nat /\ RenewDelay \in Nat /\ 0 < RenewDelay /\ RenewDelay < LeaseTTL
ASSUME InformerBounds ==
    /\ MaxEvents \in Nat \ {0} /\ MaxFaults \in Nat /\ MaxOutages \in Nat
    /\ MaxCrashes \in Nat /\ Expiry \subseteq {"status", "event"}

VARIABLES
    leaseOwner,   \* whose token Valkey's lease key holds
    leaseTTL,     \* steps until the key expires (0: no key)
    held,         \* per replica, leaseHeld
    aborted,      \* per replica, watchController.signal.aborted
    due,          \* per replica, steps since the renew timer last ran
    pc,           \* per replica, where its loop is
    ownerState,   \* per replica, informerMetrics.ownerState
    wasOwner,     \* per replica
    rv,           \* per replica, resourceVersion of the watch
    resync,       \* per replica, resyncDueTo410
    target,       \* per replica, resourceVersion of the snapshot being ingested
    buffer,       \* per replica, events read and not yet ingested
    inflight,     \* per replica, the event claimed and not yet pushed (0: none)
    local,        \* per replica, events in its fallback idempotency store
    created,      \* number of events, and the API server's resourceVersion
    horizon,      \* oldest resourceVersion a watch may start from
    claimed,      \* events claimed in Valkey
    pushes,       \* per event, how often it was pushed
    origin,       \* per replica, where its unbroken coverage starts (0: nowhere)
    dropped,      \* events whose claimant crashed before pushing
    faults, outages, crashes

lease == <<leaseOwner, leaseTTL>>
loop == <<held, aborted, due, pc, ownerState, wasOwner>>
cursor == <<rv, resync, target, buffer, inflight, origin>>
dedup == <<local, claimed, pushes, dropped>>
cluster == <<created, horizon>>
bounds == <<faults, outages, crashes>>
vars == <<lease, loop, cursor, dedup, cluster, bounds>>

PCs == {"off", "acquire", "standby", "list", "resync", "watch", "read", "backoff",
        "release", "leave", "stopped"}
OwnerStates == {"owner", "standby", "local-fallback", "stopped"}
Events == 1 .. MaxEvents

\* Every variable has its type, and a cursor is a resourceVersion the API server
\* has handed out.
TypeOK ==
    /\ leaseOwner \in Replicas \cup {Nobody} /\ leaseTTL \in 0 .. LeaseTTL
    /\ held \in [Replicas -> BOOLEAN] /\ aborted \in [Replicas -> BOOLEAN]
    /\ due \in [Replicas -> Nat]
    /\ pc \in [Replicas -> PCs] /\ ownerState \in [Replicas -> OwnerStates]
    /\ wasOwner \in [Replicas -> BOOLEAN] /\ resync \in [Replicas -> BOOLEAN]
    /\ rv \in [Replicas -> 0 .. created] /\ target \in [Replicas -> 0 .. created]
    /\ buffer \in [Replicas -> Seq(1 .. created)] /\ inflight \in [Replicas -> 0 .. created]
    /\ local \in [Replicas -> SUBSET Events]
    /\ created \in Events /\ horizon \in 0 .. created
    /\ claimed \subseteq Events /\ pushes \in [Events -> Nat] /\ dropped \subseteq Events
    /\ origin \in [Replicas -> 0 .. created]
    /\ faults \in Nat /\ outages \in Nat /\ crashes \in Nat

\* The process starts: event 1 is older than every informer.
Init ==
    /\ leaseOwner = Nobody /\ leaseTTL = 0
    /\ held = [r \in Replicas |-> FALSE] /\ aborted = [r \in Replicas |-> FALSE]
    /\ due = [r \in Replicas |-> 0]
    /\ pc = [r \in Replicas |-> "off"] /\ ownerState = [r \in Replicas |-> "stopped"]
    /\ wasOwner = [r \in Replicas |-> FALSE]
    /\ rv = [r \in Replicas |-> 0] /\ resync = [r \in Replicas |-> FALSE]
    /\ target = [r \in Replicas |-> 0] /\ buffer = [r \in Replicas |-> <<>>]
    /\ inflight = [r \in Replicas |-> 0] /\ origin = [r \in Replicas |-> 0]
    /\ local = [r \in Replicas |-> {}]
    /\ created = 1 /\ horizon = 0
    /\ claimed = {} /\ pushes = [e \in Events |-> 0] /\ dropped = {}
    /\ faults = 0 /\ outages = 0 /\ crashes = 0

Goto(r, where) == pc' = [pc EXCEPT ![r] = where]
Say(r, state) == ownerState' = [ownerState EXCEPT ![r] = state]
ValkeyFails == outages < MaxOutages /\ outages' = outages + 1 /\ UNCHANGED <<faults, crashes>>
ApiFails == faults < MaxFaults /\ faults' = faults + 1 /\ UNCHANGED <<outages, crashes>>

---------------------------------------------------------------------------
(* The lease loop.                                                          *)

Start(r) ==
    /\ pc[r] = "off"
    /\ Goto(r, "acquire")
    /\ UNCHANGED <<lease, held, aborted, due, ownerState, wasOwner, cursor, dedup, cluster, bounds>>

\* An iteration that goes on to watch: first it lists when it has no cursor.
Enter(r, version) ==
    /\ rv' = [rv EXCEPT ![r] = version]
    /\ aborted' = [aborted EXCEPT ![r] = FALSE]
    /\ due' = [due EXCEPT ![r] = 0]
    /\ Goto(r, IF version = 0 THEN "list" ELSE "watch")

\* SET NX with a fresh token succeeds.  Without unbroken ownership the cursor is
\* not used: the watch starts from now.
Acquire(r) ==
    /\ pc[r] = "acquire"
    /\ leaseTTL = 0
    /\ leaseOwner' = r /\ leaseTTL' = LeaseTTL
    /\ held' = [held EXCEPT ![r] = TRUE]
    /\ Say(r, "owner")
    /\ wasOwner' = [wasOwner EXCEPT ![r] = TRUE]
    /\ Enter(r, IF wasOwner[r] THEN rv[r] ELSE 0)
    /\ origin' = IF wasOwner[r] THEN origin ELSE [origin EXCEPT ![r] = 0]
    /\ UNCHANGED <<resync, target, buffer, inflight, dedup, cluster, bounds>>

\* Mutant: a replica that finds the lease taken leaves the loop.
StandbyOnce(r) ==
    /\ pc[r] = "acquire"
    /\ leaseTTL > 0
    /\ leaseOwner' = IF leaseOwner = r THEN Nobody ELSE leaseOwner
    /\ wasOwner' = [wasOwner EXCEPT ![r] = FALSE]
    /\ resync' = [resync EXCEPT ![r] = FALSE]
    /\ origin' = [origin EXCEPT ![r] = 0]
    /\ Say(r, "standby")
    /\ Goto(r, "stopped")
    /\ UNCHANGED <<leaseTTL, held, aborted, due, rv, target, buffer, inflight, dedup, cluster, bounds>>

\* SET NX is refused: sleep.  The lease may even hold this replica's last token,
\* which the fresh token has replaced.
Standby(r) ==
    /\ pc[r] = "acquire"
    /\ leaseTTL > 0
    /\ leaseOwner' = IF leaseOwner = r THEN Nobody ELSE leaseOwner
    /\ wasOwner' = [wasOwner EXCEPT ![r] = FALSE]
    /\ resync' = [resync EXCEPT ![r] = FALSE]
    /\ origin' = [origin EXCEPT ![r] = 0]
    /\ Say(r, "standby")
    /\ Goto(r, "standby")
    /\ UNCHANGED <<leaseTTL, held, aborted, due, rv, target, buffer, inflight, dedup, cluster, bounds>>

\* SET NX fails, whether or not Valkey ran it: watch without the lease.
Fallback(r) ==
    /\ pc[r] = "acquire"
    /\ ValkeyFails
    /\ \/ leaseTTL = 0 /\ leaseOwner' = Nobody /\ leaseTTL' = LeaseTTL
       \/ leaseOwner' = (IF leaseOwner = r THEN Nobody ELSE leaseOwner) /\ UNCHANGED leaseTTL
    /\ wasOwner' = [wasOwner EXCEPT ![r] = FALSE]
    /\ Say(r, "local-fallback")
    /\ Enter(r, rv[r])
    /\ origin' = IF origin[r] = 0 THEN [origin EXCEPT ![r] = rv[r]] ELSE origin
    /\ UNCHANGED <<held, resync, target, buffer, inflight, dedup, cluster>>

Wake(r) ==
    /\ pc[r] = "standby"
    /\ Goto(r, "acquire")
    /\ UNCHANGED <<lease, held, aborted, due, ownerState, wasOwner, cursor, dedup, cluster, bounds>>

\* The renew timer runs from the acquisition to the finally block.
Renewing(r) == held[r] /\ pc[r] \in {"list", "resync", "watch", "read", "backoff"}

\* RENEW_SCRIPT extends the lease only if it still holds this token.
Renew(r) ==
    /\ Renewing(r) /\ due[r] > 0
    /\ due' = [due EXCEPT ![r] = 0]
    /\ \/ /\ leaseTTL > 0 /\ leaseOwner = r
          /\ leaseTTL' = LeaseTTL
          /\ UNCHANGED <<aborted, ownerState>>
       \/ /\ leaseTTL = 0 \/ leaseOwner # r
          /\ aborted' = [aborted EXCEPT ![r] = TRUE]
          /\ Say(r, "standby")
          /\ UNCHANGED leaseTTL
    /\ UNCHANGED <<leaseOwner, held, pc, wasOwner, cursor, dedup, cluster, bounds>>

\* The renewal fails, whether or not Valkey ran it: give the watch up.
RenewFails(r) ==
    /\ Renewing(r) /\ due[r] > 0
    /\ ValkeyFails
    /\ due' = [due EXCEPT ![r] = 0]
    /\ \/ UNCHANGED leaseTTL
       \/ leaseTTL > 0 /\ leaseOwner = r /\ leaseTTL' = LeaseTTL
    /\ aborted' = [aborted EXCEPT ![r] = TRUE]
    /\ Say(r, "local-fallback")
    /\ UNCHANGED <<leaseOwner, held, pc, wasOwner, cursor, dedup, cluster>>

\* One LEASE_RENEW_MS passes; timers that are due do not wait longer than RenewDelay.
Tick ==
    /\ \A r \in Replicas : Renewing(r) => due[r] < RenewDelay
    /\ leaseTTL' = IF leaseTTL = 0 THEN 0 ELSE leaseTTL - 1
    /\ due' = [r \in Replicas |-> IF Renewing(r) THEN due[r] + 1 ELSE 0]
    /\ UNCHANGED <<leaseOwner, held, aborted, pc, ownerState, wasOwner, cursor, dedup, cluster, bounds>>

Done(r) ==
    /\ held' = [held EXCEPT ![r] = FALSE]
    /\ aborted' = [aborted EXCEPT ![r] = FALSE]
    /\ due' = [due EXCEPT ![r] = 0]
    /\ Goto(r, IF pc[r] = "leave" THEN "stopped" ELSE "acquire")
    /\ IF pc[r] = "leave" THEN Say(r, "stopped") ELSE UNCHANGED ownerState

\* Mutant: the release deletes the key whoever holds it.
ReleaseAnyToken(r) ==
    /\ pc[r] \in {"release", "leave"}
    /\ leaseTTL' = IF held[r] THEN 0 ELSE leaseTTL
    /\ Done(r)
    /\ UNCHANGED <<leaseOwner, wasOwner, cursor, dedup, cluster, bounds>>

\* The finally block: RELEASE_SCRIPT deletes the lease if it still holds this token.
Release(r) ==
    /\ pc[r] \in {"release", "leave"}
    /\ leaseTTL' = IF held[r] /\ leaseOwner = r THEN 0 ELSE leaseTTL
    /\ Done(r)
    /\ UNCHANGED <<leaseOwner, wasOwner, cursor, dedup, cluster, bounds>>

\* It fails: the key is left to expire, unless Valkey ran the script after all.
ReleaseFails(r) ==
    /\ pc[r] \in {"release", "leave"} /\ held[r]
    /\ ValkeyFails
    /\ \/ UNCHANGED leaseTTL
       \/ leaseOwner = r /\ leaseTTL' = 0
    /\ Done(r)
    /\ UNCHANGED <<leaseOwner, wasOwner, cursor, dedup, cluster>>

---------------------------------------------------------------------------
(* Listing and watching.                                                    *)

\* getLatestResourceVersion: start from now.
List(r) ==
    /\ pc[r] = "list" /\ ~resync[r] /\ ~aborted[r]
    /\ rv' = [rv EXCEPT ![r] = created]
    /\ origin' = IF origin[r] = 0 THEN [origin EXCEPT ![r] = created] ELSE origin
    /\ Goto(r, "watch")
    /\ UNCHANGED <<lease, held, aborted, due, ownerState, wasOwner, resync, target, buffer,
                   inflight, dedup, cluster, bounds>>

\* resyncAfterGone: the whole snapshot is read before any of it is ingested.
Snapshot(r) ==
    /\ pc[r] = "list" /\ resync[r] /\ ~aborted[r]
    /\ target' = [target EXCEPT ![r] = created]
    /\ buffer' = [buffer EXCEPT ![r] = [i \in 1 .. created |-> i]]
    /\ Goto(r, "resync")
    /\ UNCHANGED <<lease, held, aborted, due, ownerState, wasOwner, rv, resync, inflight, origin,
                   dedup, cluster, bounds>>

\* Mutant: resyncDueTo410 is consumed before the relist has succeeded.
RequestFailsForgets(r) ==
    /\ pc[r] \in {"list", "watch", "read"} /\ buffer[r] = <<>> /\ inflight[r] = 0 /\ ~aborted[r]
    /\ ApiFails
    /\ resync' = [resync EXCEPT ![r] = FALSE]
    /\ Goto(r, "backoff")
    /\ UNCHANGED <<lease, held, aborted, due, ownerState, wasOwner, rv, target, buffer, inflight,
                   origin, dedup, cluster>>

\* A list, a page of the snapshot, the watch request or the open stream fails.
RequestFails(r) ==
    /\ pc[r] \in {"list", "watch", "read"} /\ buffer[r] = <<>> /\ inflight[r] = 0 /\ ~aborted[r]
    /\ ApiFails
    /\ Goto(r, "backoff")
    /\ UNCHANGED <<lease, held, aborted, due, ownerState, wasOwner, cursor, dedup, cluster>>

\* An aborted request rejects, an aborted stream ends: both go on to the next iteration.
RequestAborted(r) ==
    /\ pc[r] \in {"list", "watch", "read"} /\ buffer[r] = <<>> /\ inflight[r] = 0 /\ aborted[r]
    /\ Goto(r, "release")
    /\ UNCHANGED <<lease, held, aborted, due, ownerState, wasOwner, cursor, dedup, cluster, bounds>>

Sleep(r) ==
    /\ pc[r] = "backoff"
    /\ Goto(r, "release")
    /\ UNCHANGED <<lease, held, aborted, due, ownerState, wasOwner, cursor, dedup, cluster, bounds>>

WatchOpens(r) ==
    /\ pc[r] = "watch" /\ ~aborted[r]
    /\ rv[r] >= horizon
    /\ Goto(r, "read")
    /\ UNCHANGED <<lease, held, aborted, due, ownerState, wasOwner, cursor, dedup, cluster, bounds>>

\* Mutant: a plain relist follows the 410, as in a cold start.
WatchGoneColdStart(r) ==
    /\ pc[r] = "watch" /\ ~aborted[r]
    /\ "status" \in Expiry /\ rv[r] < horizon
    /\ rv' = [rv EXCEPT ![r] = 0]
    /\ Goto(r, "release")
    /\ UNCHANGED <<lease, held, aborted, due, ownerState, wasOwner, resync, target, buffer,
                   inflight, origin, dedup, cluster, bounds>>

\* The cursor has expired and the API server answers 410.
WatchGone(r) ==
    /\ pc[r] = "watch" /\ ~aborted[r]
    /\ "status" \in Expiry /\ rv[r] < horizon
    /\ rv' = [rv EXCEPT ![r] = 0]
    /\ resync' = [resync EXCEPT ![r] = TRUE]
    /\ Goto(r, "release")
    /\ UNCHANGED <<lease, held, aborted, due, ownerState, wasOwner, target, buffer, inflight,
                   origin, dedup, cluster, bounds>>

\* It answers 200 and one ERROR line, which watchOnce skips before the stream ends.
WatchErrorEvent(r) ==
    /\ pc[r] = "watch" /\ ~aborted[r]
    /\ "event" \in Expiry /\ rv[r] < horizon
    /\ Goto(r, "release")
    /\ UNCHANGED <<lease, held, aborted, due, ownerState, wasOwner, cursor, dedup, cluster, bounds>>

\* A chunk with one or more new events arrives.
Read(r) ==
    /\ pc[r] = "read" /\ buffer[r] = <<>> /\ inflight[r] = 0 /\ ~aborted[r]
    /\ \E last \in rv[r] + 1 .. created :
          buffer' = [buffer EXCEPT ![r] = [i \in 1 .. last - rv[r] |-> rv[r] + i]]
    /\ UNCHANGED <<lease, loop, rv, resync, target, inflight, origin, dedup, cluster, bounds>>

\* The API server closes the watch (timeoutSeconds).
ReadEnds(r) ==
    /\ pc[r] = "read" /\ buffer[r] = <<>> /\ inflight[r] = 0 /\ ~aborted[r]
    /\ Goto(r, "release")
    /\ UNCHANGED <<lease, held, aborted, due, ownerState, wasOwner, cursor, dedup, cluster, bounds>>

---------------------------------------------------------------------------
(* ingestK8sEvent, for a watch line or an item of a snapshot.  Lines that    *)
(* were read are all ingested, whatever happens to the lease meanwhile.      *)

\* Take the next event; a watch line moves the cursor before it is ingested.
Take(r) ==
    /\ pc[r] \in {"read", "resync"} /\ buffer[r] # <<>> /\ inflight[r] = 0
    /\ buffer' = [buffer EXCEPT ![r] = Tail(@)]
    /\ rv' = IF pc[r] = "read" THEN [rv EXCEPT ![r] = Head(buffer[r])] ELSE rv

\* Mutant: the claim's answer is ignored.
ClaimIgnored(r) ==
    /\ Take(r)
    /\ claimed' = claimed \cup {Head(buffer[r])}
    /\ inflight' = [inflight EXCEPT ![r] = Head(buffer[r])]
    /\ local' = [local EXCEPT ![r] = @ \cup {Head(buffer[r])}]
    /\ UNCHANGED <<lease, loop, resync, target, origin, pushes, dropped, cluster, bounds>>

\* claimIdempotencyKey through Valkey.
Claim(r) ==
    /\ Take(r)
    /\ LET e == Head(buffer[r])
           won == e \notin claimed /\ e \notin local[r]
       IN  /\ claimed' = IF won THEN claimed \cup {e} ELSE claimed
           /\ local' = IF won THEN [local EXCEPT ![r] = @ \cup {e}] ELSE local
           /\ inflight' = IF won THEN [inflight EXCEPT ![r] = e] ELSE inflight
    /\ UNCHANGED <<lease, loop, resync, target, origin, pushes, dropped, cluster, bounds>>

\* Valkey fails, and the replica's own store decides.
ClaimFallback(r) ==
    /\ Take(r)
    /\ ValkeyFails
    /\ LET e == Head(buffer[r])
       IN  /\ claimed' \in {claimed, claimed \cup {e}}
           /\ local' = [local EXCEPT ![r] = @ \cup {e}]
           /\ inflight' = IF e \in local[r] THEN inflight ELSE [inflight EXCEPT ![r] = e]
    /\ UNCHANGED <<lease, loop, resync, target, origin, pushes, dropped, cluster>>

\* pushEvent resolves.
Push(r) ==
    /\ inflight[r] # 0
    /\ pushes' = [pushes EXCEPT ![inflight[r]] = @ + 1]
    /\ inflight' = [inflight EXCEPT ![r] = 0]
    /\ UNCHANGED <<lease, loop, rv, resync, target, buffer, origin, local, claimed, dropped,
                   cluster, bounds>>

\* The snapshot is ingested and the watch resumes from it, unless it was aborted
\* meanwhile: then the loop is left.
Resynced(r) ==
    /\ pc[r] = "resync" /\ buffer[r] = <<>> /\ inflight[r] = 0
    /\ rv' = [rv EXCEPT ![r] = target[r]]
    /\ resync' = [resync EXCEPT ![r] = FALSE]
    /\ Goto(r, IF aborted[r] THEN "leave" ELSE "watch")
    /\ UNCHANGED <<lease, held, aborted, due, ownerState, wasOwner, target, buffer, inflight,
                   origin, dedup, cluster, bounds>>

---------------------------------------------------------------------------
(* The environment.                                                         *)

CreateEvent ==
    /\ created < MaxEvents
    /\ created' = created + 1
    /\ UNCHANGED <<lease, loop, cursor, dedup, horizon, bounds>>

\* The API server's watch history is compacted.
Compact ==
    /\ horizon' \in horizon + 1 .. created
    /\ UNCHANGED <<lease, loop, cursor, dedup, created, bounds>>

\* The process dies; its lease is left to expire.
Crash(r) ==
    /\ pc[r] # "off" /\ crashes < MaxCrashes
    /\ crashes' = crashes + 1
    /\ leaseOwner' = IF leaseOwner = r THEN Nobody ELSE leaseOwner
    /\ held' = [held EXCEPT ![r] = FALSE] /\ aborted' = [aborted EXCEPT ![r] = FALSE]
    /\ due' = [due EXCEPT ![r] = 0]
    /\ Goto(r, "off") /\ Say(r, "stopped")
    /\ wasOwner' = [wasOwner EXCEPT ![r] = FALSE]
    /\ rv' = [rv EXCEPT ![r] = 0] /\ resync' = [resync EXCEPT ![r] = FALSE]
    /\ target' = [target EXCEPT ![r] = 0] /\ buffer' = [buffer EXCEPT ![r] = <<>>]
    /\ inflight' = [inflight EXCEPT ![r] = 0] /\ origin' = [origin EXCEPT ![r] = 0]
    /\ local' = [local EXCEPT ![r] = {}]
    /\ dropped' = dropped \cup ({inflight[r]} \ {0})
    /\ UNCHANGED <<leaseTTL, claimed, pushes, cluster, faults, outages>>

\* What a running informer's loop does of itself.
Loop(r) ==
    \/ Start(r) \/ Acquire(r) \/ Standby(r) \/ Wake(r) \/ Release(r)
    \/ List(r) \/ Snapshot(r) \/ RequestAborted(r) \/ Sleep(r)
    \/ WatchOpens(r) \/ WatchGone(r) \/ WatchErrorEvent(r) \/ Read(r)
    \/ Claim(r) \/ Push(r) \/ Resynced(r)

Next ==
    \/ \E r \in Replicas : Loop(r)
    \/ \E r \in Replicas : Renew(r)
    \/ \E r \in Replicas : Fallback(r)
    \/ \E r \in Replicas : RenewFails(r)
    \/ \E r \in Replicas : ReleaseFails(r)
    \/ \E r \in Replicas : RequestFails(r)
    \/ \E r \in Replicas : ReadEnds(r)
    \/ \E r \in Replicas : ClaimFallback(r)
    \/ \E r \in Replicas : Crash(r)
    \/ Tick
    \/ CreateEvent
    \/ Compact

Spec == Init /\ [][Next]_vars

\* Time passes, each replica's loop and timer run, and a watch that is opened again
\* and again delivers what there is; nothing has to fail or be created.
FairSpec ==
    /\ Spec
    /\ WF_vars(Tick)
    /\ \A r \in Replicas : WF_vars(Loop(r)) /\ WF_vars(Renew(r)) /\ SF_vars(Read(r))

---------------------------------------------------------------------------
(* Properties.                                                              *)

Watching(r) == Renewing(r) /\ ~aborted[r]

\* Two replicas never watch under the lease at the same time, although leases
\* expire, replicas crash, and renewals and releases fail or run late.
LeaseExclusive == \A r, s \in Replicas : Watching(r) /\ Watching(s) => r = s

\* The cursor never passes an event that was not ingested: every event since the
\* replica's coverage began was pushed, is about to be, or died with its claimant.
CursorCovered == \A r \in Replicas : origin[r] > 0 =>
    \A e \in origin[r] + 1 .. rv[r] :
        pushes[e] > 0 \/ e \in dropped \/ (\E s \in Replicas : inflight[s] = e)

\* While Valkey answers, no event is pushed twice, although owners overlap, the
\* snapshot repeats the watch and replicas restart.
PushedOnce == outages = 0 => \A e \in Events : pushes[e] <= 1

\* A replica's loop only ends with its process.
NeverStops == \A r \in Replicas : pc[r] # "stopped"

\* Some replica keeps getting back to an open watch, whatever crashed before.
AlwaysWatched == []<>(\E r \in Replicas : pc[r] = "read")

\* An event created while a replica's coverage lasts is eventually pushed, through
\* failed requests and expired cursors, unless a claimant died with it or the
\* coverage starts anew (failover).
EventsPushed == \A r \in Replicas : \A e \in Events :
    (origin[r] > 0 /\ origin[r] < e /\ e <= created)
        ~> (pushes[e] > 0 \/ e \in dropped \/ origin[r] = 0 \/ origin[r] >= e)
===============================================================================
