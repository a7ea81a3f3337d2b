------------------------------ MODULE TuningApply ------------------------------
(***************************************************************************)
(* Applying node tunings through one-shot approvals: the approval and apply *)
(* routes (portal/src/app/api/nodes/[name]/tuning), the approval check      *)
(* (lib/tuning-approval.ts), the privileged host job (lib/k8s-job-runner.ts)*)
(* and the lifecycle events around it (lib/operation-context.ts), composed  *)
(* with the dedup store that makes an approval one-shot.                    *)
(*                                                                          *)
(* The calls of Idempotency are the apply requests, its keys are approvals, *)
(* and a request's claim() is the claim that consumes its approval.         *)
(***************************************************************************)
EXTENDS Idempotency, Sequences

CONSTANTS
    ApprovalTTL,   \* how long an approval is valid (APPROVAL_TTL_MS)
    MaxRestarts    \* bound on restarts

\* An approval's replay claim (APPROVAL_REPLAY_TTL_SECONDS) outlives every claim()
\* that begins while the approval is valid.
ASSUME ApprovalTTLAssumption ==
    /\ ApprovalTTL \in Nat \ {0}
    /\ \A k \in Keys : TTL[k] >= ApprovalTTL + CallTicks
ASSUME ApprovalsNotFulfilled == FulfillKeys = {}
ASSUME MaxRestartsAssumption == MaxRestarts \in Nat

VARIABLES
    expires,    \* per approval, its expiresAt; 0 before it is issued
    intact,     \* per request, whether it carries the approved target and items
    step,       \* per request, where the route is
    seen,       \* per request, what runHostJob learned of its job
    verified,   \* per request, whether every item's marker was found in the logs
    job,        \* per request, its Job at the Kubernetes API server
    stray,      \* requests that gave up on a POST the API server may still run
    succeeded,  \* requests whose job completed on the host
    undeleted,  \* requests whose DELETE failed
    events,     \* per request, the lifecycle events it emitted
    restarts    \* how many restarts there were

store == vars
request == <<step, seen, verified, events>>
cluster == <<job, stray, succeeded, undeleted, restarts>>
tuning == <<expires, intact, step, seen, verified, job, stray, succeeded, undeleted, events,
            restarts>>
tvars == <<vars, tuning>>

Running == {"create", "created", "poll", "pods", "delete", "finish"}
Steps == Running \cup {"none", "rejected", "done", "dead"}

\* Every variable holds a value of its kind; a request emits operation.started, then
\* at most one of operation.completed and operation.failed.
TuningTypeOK ==
    /\ TypeOK
    /\ expires \in [Keys -> Nat]
    /\ intact \in [Calls -> BOOLEAN]
    /\ step \in [Calls -> Steps]
    /\ seen \in [Calls -> {"nothing", "succeeded", "failed", "timeout", "error", "unconfirmed"}]
    /\ verified \in [Calls -> BOOLEAN]
    /\ job \in [Calls -> {"none", "active", "succeeded", "failed", "deleted"}]
    /\ stray \subseteq Calls
    /\ succeeded \subseteq Calls
    /\ undeleted \subseteq Calls
    /\ events \in [Calls -> {<<>>, <<"started">>, <<"started", "completed">>,
                             <<"started", "failed">>}]
    /\ restarts \in Nat

TInit ==
    /\ Init
    /\ expires = [k \in Keys |-> 0]
    /\ intact \in [Calls -> BOOLEAN]
    /\ step = [c \in Calls |-> "none"]
    /\ seen = [c \in Calls |-> "nothing"]
    /\ verified = [c \in Calls |-> FALSE]
    /\ job = [c \in Calls |-> "none"]
    /\ stray = {}
    /\ succeeded = {}
    /\ undeleted = {}
    /\ events = [c \in Calls |-> <<>>]
    /\ restarts = 0

---------------------------------------------------------------------------
(* Approving, and consuming the approval.                                   *)

\* The approval route; its early returns (role, node, control plane, items)
\* leave no state behind.
IssueTuningApproval(k) ==
    /\ expires[k] = 0
    /\ expires' = [expires EXCEPT ![k] = now + ApprovalTTL]
    /\ UNCHANGED <<store, intact, request, cluster>>

\* Mutant: an approval never goes stale.
RevalidateUnexpired(c) == intact[c]

\* revalidateApprovedInvocation, on the envelope as it was issued: still valid, and the digest recomputed from the
\* request's target and items is the approved one.
Revalidate(c) == now < expires[key[c]] /\ intact[c]

\* The apply route up to the claim of its approval ...
ConsumeApproval(c) ==
    /\ expires[key[c]] # 0 /\ step[c] = "none"
    /\ Revalidate(c)
    /\ Claim(c)
    /\ UNCHANGED tuning

\* ... or up to its 409.
RejectApproval(c) ==
    /\ expires[key[c]] # 0 /\ step[c] = "none" /\ pc[c] = "idle"
    /\ ~Revalidate(c)
    /\ step' = [step EXCEPT ![c] = "rejected"]
    /\ UNCHANGED <<store, expires, intact, seen, verified, events, cluster>>

\* The claim's own steps, and what happens to Valkey meanwhile.
StoreStep ==
    /\ \/ \E c \in Calls : ServerSetNX(c)
       \/ \E c \in Calls : ClaimGranted(c)
       \/ \E c \in Calls : ServerGet(c)
       \/ \E c \in Calls : ClaimError(c)
       \/ \E m \in late : ServerLate(m)
       \/ ValkeyDown
       \/ ValkeyUp
       \/ Tick
    /\ UNCHANGED tuning

---------------------------------------------------------------------------
(* The operation: events, the job, and its clean-up.                        *)

\* beginOperation: operation.started.  pushEvent waits for Valkey, or records
\* the event locally.
BeginOperation(c) ==
    /\ pc[c] = "won" /\ step[c] = "none"
    /\ events' = [events EXCEPT ![c] = Append(@, "started")]
    /\ step' = [step EXCEPT ![c] = "create"]
    /\ UNCHANGED <<store, expires, intact, seen, verified, cluster>>

\* The API server runs the POST of the Job.
CreateJob(c) ==
    /\ step[c] = "create"
    /\ job' = [job EXCEPT ![c] = "active"]
    /\ step' = [step EXCEPT ![c] = "created"]
    /\ UNCHANGED <<store, expires, intact, seen, verified, events, stray, succeeded, undeleted, restarts>>

CreateReply(c) ==
    /\ step[c] = "created"
    /\ step' = [step EXCEPT ![c] = "poll"]
    /\ UNCHANGED <<store, expires, intact, seen, verified, events, cluster>>

\* The POST is refused, fails or times out: runHostJob throws before its try
\* block.  The API server may have run it, or may still do so.
CreateFails(c) ==
    /\ step[c] \in {"create", "created"}
    /\ step' = [step EXCEPT ![c] = "finish"]
    /\ seen' = [seen EXCEPT ![c] = "unconfirmed"]
    /\ \/ stray' = stray
       \/ step[c] = "create" /\ stray' = stray \cup {c}
    /\ UNCHANGED <<store, expires, intact, verified, events, job, succeeded, undeleted, restarts>>

LateCreate(c) ==
    /\ c \in stray
    /\ stray' = stray \ {c}
    /\ job' = [job EXCEPT ![c] = "active"]
    /\ UNCHANGED <<store, expires, intact, request, succeeded, undeleted, restarts>>

\* The job ends (activeDeadlineSeconds included).  Its removal by the cluster a
\* minute later (ttlSecondsAfterFinished) is a poll or pod list that fails.
JobFinishes(c) ==
    /\ job[c] = "active"
    /\ \/ job' = [job EXCEPT ![c] = "succeeded"] /\ succeeded' = succeeded \cup {c}
       \/ job' = [job EXCEPT ![c] = "failed"] /\ UNCHANGED succeeded
    /\ UNCHANGED <<store, expires, intact, request, stray, undeleted, restarts>>

\* A poll that finds the job finished leaves the loop.
PollFinished(c) ==
    /\ step[c] = "poll"
    /\ job[c] \in {"succeeded", "failed"}
    /\ seen' = [seen EXCEPT ![c] = job[c]]
    /\ step' = [step EXCEPT ![c] = "pods"]
    /\ UNCHANGED <<store, expires, intact, verified, events, cluster>>

PollDeadline(c) ==
    /\ step[c] = "poll"
    /\ seen' = [seen EXCEPT ![c] = "timeout"]
    /\ step' = [step EXCEPT ![c] = "pods"]
    /\ UNCHANGED <<store, expires, intact, verified, events, cluster>>

\* Mutant: an error skips the clean-up.
RequestThrowsPastDelete(c) ==
    /\ step[c] \in {"poll", "pods"}
    /\ seen' = [seen EXCEPT ![c] = "error"]
    /\ step' = [step EXCEPT ![c] = "finish"]
    /\ UNCHANGED <<store, expires, intact, verified, events, cluster>>

\* A poll or the pod list fails or finds nothing: the finally block runs.
RequestThrows(c) ==
    /\ step[c] \in {"poll", "pods"}
    /\ seen' = [seen EXCEPT ![c] = "error"]
    /\ step' = [step EXCEPT ![c] = "delete"]
    /\ UNCHANGED <<store, expires, intact, verified, events, cluster>>

\* The pod's log, or a note that there is none; parseVerification reads it.
ReadLogs(c) ==
    /\ step[c] = "pods"
    /\ \E found \in BOOLEAN : verified' = [verified EXCEPT ![c] = found]
    /\ step' = [step EXCEPT ![c] = "delete"]
    /\ UNCHANGED <<store, expires, intact, seen, events, cluster>>

\* deleteJob swallows its errors.
DeleteJob(c) ==
    /\ step[c] = "delete"
    /\ \/ job' = [job EXCEPT ![c] = "deleted"] /\ UNCHANGED undeleted
       \/ undeleted' = undeleted \cup {c} /\ UNCHANGED job
    /\ step' = [step EXCEPT ![c] = "finish"]
    /\ UNCHANGED <<store, expires, intact, seen, verified, events, stray, succeeded, restarts>>

\* Mutant: the verification markers are taken for success.
VerifiedOkByLogs(c) == verified[c]

VerifiedOk(c) == seen[c] = "succeeded" /\ verified[c]

\* operation.completed (after a best-effort invalidation of cached node views, which
\* are no state of this module) or operation.failed, then the response.
FinishOperation(c) ==
    /\ step[c] = "finish"
    /\ events' = [events EXCEPT ![c] = Append(@, IF VerifiedOk(c) THEN "completed" ELSE "failed")]
    /\ step' = [step EXCEPT ![c] = "done"]
    /\ UNCHANGED <<store, expires, intact, seen, verified, cluster>>

\* A replica restarts in the middle of its requests.
Restart(r) ==
    /\ restarts < MaxRestarts
    /\ restarts' = restarts + 1
    /\ Crash(r)
    /\ step' = [c \in Calls |->
                  IF at[c] = r /\ (step[c] \in Running \/ (step[c] = "none" /\ pc[c] # "idle"))
                  THEN "dead" ELSE step[c]]
    /\ \E lost \in SUBSET {c \in Calls : at[c] = r /\ step[c] = "create"} : stray' = stray \cup lost
    /\ UNCHANGED <<expires, intact, seen, verified, events, job, succeeded, undeleted>>

---------------------------------------------------------------------------
TNext ==
    \/ \E k \in Keys : IssueTuningApproval(k)
    \/ \E c \in Calls : ConsumeApproval(c)
    \/ \E c \in Calls : RejectApproval(c)
    \/ StoreStep
    \/ \E c \in Calls : BeginOperation(c)
    \/ \E c \in Calls : CreateJob(c)
    \/ \E c \in Calls : CreateReply(c)
    \/ \E c \in Calls : CreateFails(c)
    \/ \E c \in Calls : LateCreate(c)
    \/ \E c \in Calls : JobFinishes(c)
    \/ \E c \in Calls : PollFinished(c)
    \/ \E c \in Calls : PollDeadline(c)
    \/ \E c \in Calls : RequestThrows(c)
    \/ \E c \in Calls : ReadLogs(c)
    \/ \E c \in Calls : DeleteJob(c)
    \/ \E c \in Calls : FinishOperation(c)
    \/ \E r \in Replicas : Restart(r)

TSpec == TInit /\ [][TNext]_tvars

---------------------------------------------------------------------------
(* Properties.                                                              *)

\* Valkey grants an approval to one request only, on whatever replicas its requests
\* run and although the claim expires: it outlives the approval, and an expired
\* approval is not claimed (APPROVAL_TTL_MS and APPROVAL_REPLAY_TTL_SECONDS).
GrantedOnce ==
    \A c, d \in Calls :
        c # d /\ Won(c) /\ Won(d) /\ key[c] = key[d] =>
            ~(via[c] = "valkey" /\ via[d] = "valkey")

\* A request that began after another consumed the approval is refused by the same
\* process, through outages and recoveries of Valkey (consumeTuningApproval).
ReplayRejected ==
    \A c, d \in Calls :
        c # d /\ Won(c) /\ Won(d) /\ key[c] = key[d] =>
            ~(c \in prior[d] /\ at[c] = at[d] /\ c \notin forgotten)

\* operation.completed is emitted only for a job that completed on the host.
CompletedMeansSucceeded ==
    \A c \in Calls : events[c] = <<"started", "completed">> => c \in succeeded

\* When the route has answered, its privileged job is not running any more, unless
\* its creation was never confirmed or the DELETE failed: every way out of
\* runHostJob's try block deletes the job.
NoJobLeftRunning ==
    \A c \in Calls :
        step[c] = "done" /\ job[c] = "active" =>
            c \in undeleted \/ seen[c] = "unconfirmed"
===============================================================================
