------------------------------- MODULE Steps -------------------------------
(***************************************************************************)
(* The vocabulary the portal's handlers and library reads are written in.  *)
(* A program is a sequence of steps, each ending at an await of the code,  *)
(* and the fate of a throw inside it: "error" (the route answers 5xx),     *)
(* "throw" (its caller sees it), "empty" (an unmarked default is returned) *)
(* or "told" (a default that is marked as incomplete is returned).         *)
(***************************************************************************)
Op(o, a) == [op |-> o, arg |-> a]

(* Admission.                                                              *)
Session == Op("Session", "")        \* no session: 401
Role(r) == Op("Role", r)            \* requireRole: 401 or 403
Check == Op("Check", "")            \* input, configuration or verdict: 4xx or 503
Found == Op("Found", "")            \* the object does not exist: 404

(* Visibility.                                                             *)
Scope == Op("Scope", "getNamespaces")  \* getEffectiveScope
Gate == Op("Gate", "")              \* the named object is outside the scope: 403 or 404
Filter == Op("Filter", "")          \* project the value to the scope
Hush == Op("Hush", "")              \* the mark is kept only for callers who see everything

(* Cache.                                                                  *)
Hit(k) == Op("Hit", k)              \* cacheGet: a hit is the result
Nothing(k) == Op("Nothing", k)      \* an empty scope: an empty answer is stored and returned
Put(k) == Op("Put", k)              \* cacheSet
PutWhole(k) == Op("PutWhole", k)    \* cacheSet unless marked incomplete
PutIfSome(k) == Op("PutIfSome", k)  \* cacheSet unless there is no data
Del(k) == Op("Del", k)              \* cacheDel
Purge(k) == Op("Purge", k)          \* deletePattern
Fire(e) == Op("Fire", e)            \* invalidateFor

(* Reads, told apart by what a throw and a mark of incompleteness become.  *)
Need(s) == Op("Need", s)            \* a throw propagates
Must(s) == Op("Must", s)            \* so does a result that is marked
Bare(s) == Op("Bare", s)            \* a throw propagates, the mark is dropped
Try(s) == Op("Try", s)              \* a throw is survived and marked
Mute(s) == Op("Mute", s)            \* a throw is survived, unmarked
Drop(s) == Op("Drop", s)            \* as Mute, and the mark is dropped
Spare(s) == Op("Spare", s)          \* a throw is survived, marked if data is already missing
Each(s) == Op("Each", s)            \* Drop, for the items already in the value

(* Mutations.                                                              *)
Claim(m) == Op("Claim", m)          \* claimIdempotencyKey; m says what a pending claim gets
Open == Op("Open", "")              \* beginOperation
Write(e) == Op("Write", e)          \* change the upstream object
Attempt(s) == Op("Attempt", s)      \* a throw is recorded by failOperation, and propagates
Verify(s) == Op("Verify", s)        \* as Attempt, and the answer may report a failure
Partly(s) == Op("Partly", s)        \* as Attempt, and the claim is fulfilled with the outcome
Done == Op("Done", "")              \* completeOperation
Fulfill == Op("Fulfill", "")        \* fulfillIdempotencyKey

Lib(fail, steps) == [steps |-> steps, fail |-> fail]
Route(steps) == Lib("error", steps)

Recorded == {"Attempt", "Verify", "Partly"}
Propagating == {"Need", "Must", "Bare", "Scope", "Fire"} \cup Recorded
Surviving == {"Try", "Mute", "Drop", "Spare", "Each"}
Reads == Propagating \cup Surviving
=============================================================================
