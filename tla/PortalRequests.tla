--------------------------- MODULE PortalRequests ---------------------------
(***************************************************************************)
(* How the portal serves a request.  A route handler and the library reads *)
(* it awaits are short programs (PortalRoutes and PortalReads hold the     *)
(* portal's own); this module is the machine that runs them: the shared    *)
(* Valkey cache in front of every read, upstream services that may fail or *)
(* answer with a cut list, the caller's visibility scope, the purge of     *)
(* cached projections a mutation asks for, its Idempotency-Key and its     *)
(* audit record.                                                           *)
(*                                                                         *)
(* Every await of a handler is a point where other requests run, so one    *)
(* step of a program is one action.                                        *)
(***************************************************************************)
EXTENDS Integers, Sequences, FiniteSets, EffectFlow

CONSTANTS
  Dims,         \* cache namespace -> the dimensions of its key
  Areas,        \* what a caller may see or not: namespaces and projects
  Callers,
  RoleOf,       \* caller -> role
  Allowed,      \* argument of requireRole -> the roles it lets in
  Mapped,       \* caller -> areas granted by the role mapping alone
  Owned,        \* caller -> areas granted through the namespace list
  Everything,   \* callers who see all areas
  Unmapped,     \* callers whose groups map to nothing
  Slots,        \* requests in flight
  Honest,       \* routes whose answers admit what they miss
  Deciding,     \* programs that may answer the request themselves
  Scenarios     \* what runs side by side: [req, writer, touched, purged, faults]

None == "none"

Fates == {"error", "throw", "empty", "told"}

Puts == {"Put", "PutWhole", "PutIfSome", "Nothing"}

ASSUME ProgAssumption == Prog \in [DOMAIN Prog -> [steps: Seq([op: STRING, arg: STRING]), fail: Fates]]
ASSUME DimsAssumption == Dims \in [DOMAIN Dims -> SUBSET STRING]
ASSUME PutsAssumption ==
  \A p \in DOMAIN Prog : \A i \in DOMAIN Prog[p].steps :
    Prog[p].steps[i].op \in Puts => Prog[p].steps[i].arg \in DOMAIN Dims
ASSUME ReadsAssumption == ObjectReads \cap PlainReads = {} /\ None \notin Areas
ASSUME CallersAssumption ==
  Callers \subseteq STRING /\ Areas \subseteq STRING /\ RoleOf \in [Callers -> STRING] /\ Mapped \in [Callers -> SUBSET Areas] /\ Owned \in [Callers -> SUBSET Areas]
ASSUME ScenarioAssumption ==
  Scenarios \subseteq
    [req: [Slots -> [prog: DOMAIN Prog, caller: Callers, area: Areas, runs: Nat, keyed: BOOLEAN, body: STRING]],
     writer: Slots \cup {None}, touched: SUBSET STRING, purged: SUBSET DOMAIN Dims, faults: Nat]

\* From Open to Done a route only awaits what it records or survives, and fires
\* what cannot fail. Of what it reads there nothing answers in its place.
Denying == {"Session", "Check", "Found", "Role", "Gate", "Claim"}
Harmless(c) == \A i \in DOMAIN c.steps : c.steps[i].op \in {"Del", "Purge"}
Covers(s) ==
  \/ s.op \in Recorded \cup Surviving /\ s.arg \notin Deciding
  \/ s.op = "Fire" /\ s.arg \in DOMAIN Prog /\ s.arg \notin Deciding /\ Harmless(Prog[s.arg])
  \/ s.op \in {"Open", "Filter", "Hush", "Put", "PutWhole", "PutIfSome", "Del", "Purge", "Fulfill"}
CoveredFrom(c, n) ==
  \E k \in DOMAIN c.steps :
    n <= k /\ c.steps[k].op = "Done" /\ \A i \in DOMAIN c.steps : n <= i /\ i < k => Covers(c.steps[i])
Defers(c) ==
  /\ c.fail # "error"
  /\ \A i \in DOMAIN c.steps :
       c.steps[i].op \notin Denying /\ (c.steps[i].op \in Reads => c.steps[i].arg \notin Deciding)
Opens(c) == \E i \in DOMAIN c.steps : c.steps[i].op = "Open"
ASSUME CoverAssumption ==
  \A p \in DOMAIN Prog :
    /\ p \notin Deciding => Defers(Prog[p])
    /\ \A i \in DOMAIN Prog[p].steps :
         /\ Prog[p].steps[i].op = "Open" => CoveredFrom(Prog[p], i + 1)
         /\ Prog[p].steps[i].op \in Reads /\ Prog[p].steps[i].arg \in DOMAIN Prog => ~Opens(Prog[Prog[p].steps[i].arg])

\* What a result or an entry may be missing is closed under the rules of LossFlow.
ASSUME FrankAssumption == Honest \subseteq Frank /\ \A p \in DOMAIN Prog : p \in Frank => FrankProgram(Prog[p])
ASSUME WholeAssumption == \A p \in DOMAIN Prog : p \in Whole => WholeProgram(Prog[p])
ASSUME StoredAssumption ==
  \A p \in DOMAIN Prog : \A i \in DOMAIN Prog[p].steps :
    /\ Prog[p].steps[i].arg \in Marked => StoresMarked(Prog[p], i)
    /\ Prog[p].steps[i].arg \in Guarded => StoresWhole(Prog[p], i)


Has(p, op) == \E i \in DOMAIN Prog[p].steps : Prog[p].steps[i].op = op
Uses(p, op) ==
  \/ Has(p, op)
  \/ \E i \in DOMAIN Prog[p].steps :
       LET s == Prog[p].steps[i] IN s.op \in Reads /\ s.arg \in DOMAIN Prog /\ Has(s.arg, op)
Strict(p) == \E i \in DOMAIN Prog[p].steps : Prog[p].steps[i] \in {Claim("conflict"), Claim("exact")}

\* What a result or an entry may show is closed under the rules of ScopeFlow. A route
\* that resolves the scope stays inside it, and shows all of it when it filters.
ASSUME ShownAssumption ==
  \A p \in DOMAIN Prog :
    /\ p \notin Rescoping => \A i \in DOMAIN Prog[p].steps : ~Rescopes(Prog[p].steps[i])
    /\ p \in Own => OwnProgram(Prog[p])
    /\ p \in Seen => SeenProgram(Prog[p])
    /\ p \in Full => FullProgram(Prog[p])
    /\ p \in Covering => CoveringProgram(Prog[p])
    /\ Has(p, "Scope") => p \in Seen /\ (Uses(p, "Filter") => p \in Covering)
\* Whoever stores under a scoped namespace has the scope in the key and projects
\* the value to it before.
ASSUME ScopedAssumption ==
  \A p \in DOMAIN Prog : \A i \in DOMAIN Prog[p].steps :
    LET s == Prog[p].steps[i] IN
    s.op \in Puts /\ s.arg \in Scoped =>
      "scope" \in Dims[s.arg] /\ (s.op # "Nothing" => SeenBefore(Prog[p], i))
Localised == {k \in DOMAIN Dims : {"namespace", "query"} \cap Dims[k] # {}}
ASSUME KeptAssumption ==
  /\ \A k \in CoveringKeys : k \in DOMAIN Dims => "scope" \in Dims[k]
  /\ \A p \in DOMAIN Prog : \A i \in DOMAIN Prog[p].steps :
       LET c == Prog[p]
           s == c.steps[i] IN
       s.op \in Puts =>
         /\ s.arg \in FullKeys => s.op # "Nothing" /\ FullBefore(c, i)
         /\ s.arg \in CoveringKeys => s.op = "Nothing" \/ CoveringBefore(c, i)
         /\ s.arg \in OwnKeys => s.op = "Nothing" \/ EmptyBefore(c, i) \/ (s.arg \in Localised /\ OwnBefore(c, i))

\* What a program has changed and purged is closed under the rules of EffectFlow.
ASSUME EffectAssumption ==
  \A p \in DOMAIN Prog :
    LET c == Prog[p] IN
    /\ \A i \in DOMAIN c.steps :
         /\ c.steps[i].op = "Write" => c.steps[i].arg \in Touching[p]
         /\ Calls(c.steps[i]) => Touching[c.steps[i].arg] \subseteq Touching[p]
    /\ \A t \in Landing[p] : LandingProgram(c, t)
    /\ \A k \in Clearing[p] : ClearingProgram(c, k)
    /\ \A t \in Tracked, k \in DOMAIN Dims : <<t, k>> \in Renewing[p] => RenewingProgram(c, t, k)

\* A key belongs to one route (each puts its own prefix before it), which claims it
\* before it changes anything, makes one change to what the key protects, and
\* records the outcome once that change is acknowledged.
Targets == {sc.touched : sc \in Scenarios}
ASSUME KeyAssumption ==
  /\ \A p \in DOMAIN Prog : \A i \in DOMAIN Prog[p].steps :
       LET s == Prog[p].steps[i] IN
       /\ Calls(s) => \A op \in {"Claim", "Fulfill", "Partly"} : ~Has(s.arg, op)
       /\ s \in {Claim("conflict"), Claim("exact")} =>
            \A T \in Targets : \A j \in DOMAIN Prog[p].steps : j < i => ~MayChange(Prog[p].steps[j], T)
  /\ \A p \in DOMAIN Prog, T \in Targets : OneChange(Prog[p], T)
  /\ \A sc \in Scenarios : \A r, q \in Slots :
       sc.req[r].keyed =>
         /\ sc.req[q].keyed => sc.req[q].prog = sc.req[r].prog
         /\ Has(sc.req[r].prog, "Fulfill") =>
              LET c == Prog[sc.req[r].prog] IN
              \A i \in DOMAIN c.steps :
                /\ c.steps[i] # Claim("taken")
                /\ c.steps[i].op \in {"Fulfill", "Partly"} => ChangedBefore(c, i, sc.touched)

\* The writer of a scenario purges what it changed after the change is acknowledged.
\* Whoever stores under a purged namespace has read it from the upstream itself.
ASSUME FreshAssumption ==
  /\ \A p \in DOMAIN Prog :
       /\ p \in Steady => SteadyProgram(Prog[p])
       /\ p \in Direct => DirectProgram(Prog[p]) /\ Touching[p] = {}
       /\ \A i \in DOMAIN Prog[p].steps :
            LET s == Prog[p].steps[i] IN
            s.op \in Puts \ {"Nothing"} /\ s.arg \in SteadyKeys => SteadyBefore(Prog[p], i)
  /\ \A sc \in Scenarios :
       /\ sc.touched \subseteq Tracked
       /\ \A p \in DOMAIN Prog : \A i \in DOMAIN Prog[p].steps :
            Prog[p].steps[i].op \in Puts \ {"Nothing"} /\ Prog[p].steps[i].arg \in sc.purged =>
              DirectBefore(Prog[p], i) /\ Untouching(Prog[p], sc.touched)
       /\ sc.writer \in Slots =>
            LET c == Prog[sc.req[sc.writer].prog] IN
            Straight(c) /\ \A k \in sc.purged : RenewedBefore(c, Len(c.steps) + 1, sc.touched, k)

-----------------------------------------------------------------------------
VARIABLES
  scenario,  \* the requests of this behaviour; never changed
  cache,     \* entries of Valkey: [key, dim, val]
  online,    \* isValkeyConnected
  written,   \* has the mutation of the scenario changed the upstream object?
  claim,     \* the Idempotency-Key's record: [st, body]
  effects,   \* how many requests with that key changed the upstream object
  slot,      \* request -> its handler's state
  faults,    \* failures left
  calm       \* no read that began before the change is unfinished, and
             \* every purge reached Valkey (ghost)

vars == <<scenario, cache, online, written, claim, effects, slot, faults, calm>>

NoClaim == [st |-> "absent", body |-> None]

(* A value: is data missing from it, does it say so, which areas it shows, *)
(* and whether it holds the upstream object as it was before the mutation. *)
Val == [lost: BOOLEAN, told: BOOLEAN, shows: SUBSET Areas, old: BOOLEAN]
Blank == [lost |-> FALSE, told |-> FALSE, shows |-> {}, old |-> FALSE]

(* The dimensions of a cache key, an entry, an activation of a program and *)
(* a request's handler.                                                    *)
KeyDim == [who: Callers \cup {RoleOf[c] : c \in Callers} \cup {None}, seen: SUBSET Areas, area: Areas \cup {None}]
Entry == [key: DOMAIN Dims, dim: KeyDim, val: Val]
Code == [steps: Seq([op: STRING, arg: STRING]), fail: Fates]
Activation == [code: Code, pc: Nat \ {0}, val: Val]
Handler ==
  [st: {"idle", "run", "raise"}, frames: Seq(Activation), scope: SUBSET Areas,
   oper: {None, "open", "completed", "failed"}, kind: {None, "ok", "dup", "denied", "error", "lost"},
   val: Val, runs: Nat]

Frame(p) == [code |-> Prog[p], pc |-> 1, val |-> Blank]
Fresh(st, frames, n) == [st |-> st, frames |-> frames, scope |-> {}, oper |-> None,
                         kind |-> None, val |-> Blank, runs |-> n]

Top(s) == s.frames[1]
Ended(f) == f.pc > Len(f.code.steps)
Awaits(s) == Top(s).code.steps[Top(s).pc]
Current(r) == Awaits(slot[r])
Working(r) == slot[r].st # "idle"

\* Slot r runs, and its next step is one of ops.
At(r, ops) ==
  /\ slot[r].st = "run"
  /\ ~Ended(Top(slot[r]))
  /\ Current(r).op \in ops

Caller(r) == scenario.req[r].caller
Area(r) == scenario.req[r].area

-----------------------------------------------------------------------------
\* Mutant: the scope's part of a key holds the caller's claims only.
KeyOfClaims(r, k) ==
  [who |-> IF {"user", "scope"} \cap Dims[k] # {} THEN Caller(r)
           ELSE IF "role" \in Dims[k] THEN RoleOf[Caller(r)] ELSE None,
   seen |-> IF "scope" \in Dims[k] THEN Mapped[Caller(r)] ELSE {},
   area |-> IF {"namespace", "query"} \cap Dims[k] # {} THEN Area(r) ELSE None]

(* Cache keys: the dimensions the registry declares for a namespace.  The  *)
(* scope fingerprint holds the caller's claims and the resolved areas.     *)
KeyOf(r, k) ==
  [who |-> IF {"user", "scope"} \cap Dims[k] # {} THEN Caller(r)
           ELSE IF "role" \in Dims[k] THEN RoleOf[Caller(r)] ELSE None,
   seen |-> IF "scope" \in Dims[k] THEN slot[r].scope ELSE {},
   area |-> IF {"namespace", "query"} \cap Dims[k] # {} THEN Area(r) ELSE None]

Entries(k, d) == {e \in cache : e.key = k /\ e.dim = d}

\* cacheSet: nothing is stored without a connection.
StoredIn(r, k, v) ==
  IF online
  THEN (cache \ Entries(k, KeyOf(r, k))) \cup {[key |-> k, dim |-> KeyOf(r, k), val |-> v]}
  ELSE cache

-----------------------------------------------------------------------------
(* Moving a handler on.                                                    *)
Moved(f, v) == [code |-> f.code, pc |-> f.pc + 1, val |-> v]
Advance(s, v) == [s EXCEPT !.frames[1] = Moved(@, v)]
Onward(s) == Advance(s, Top(s).val)
Answer(s, kind, v) == [s EXCEPT !.st = "idle", !.frames = <<>>, !.kind = kind, !.val = v]
Deny(s) == Answer(s, "denied", Blank)
Raise(s) == [s EXCEPT !.st = "raise"]

\* What the awaiting frame's value becomes when a read it made returns v.
Merge(w, v, op) ==
  [lost |-> w.lost \/ v.lost,
   told |-> w.told \/ (v.told /\ op \notin {"Bare", "Drop", "Each"}),
   shows |-> IF op = "Each" THEN w.shows ELSE w.shows \cup v.shows,
   old |-> w.old \/ v.old]

\* getEffectiveScope: mapped areas, and those the namespace list confirms.
Resolved(r, v) ==
  IF Caller(r) \in Everything THEN Areas
  ELSE Mapped[Caller(r)] \cup (Owned[Caller(r)] \cap v.shows)

\* The read that the top frame awaits returned v.
Deliver(r, s, v) ==
  LET op == Awaits(s).op IN
  CASE op = "Scope" -> [Onward(s) EXCEPT !.scope = Resolved(r, v)]
    [] op = "Must" /\ v.told -> Raise(s)
    [] op = "Fire" -> Onward(s)
    [] OTHER -> Advance(s, Merge(Top(s).val, v, op))

\* The top frame is done with value v: answer, or hand it to the frame below.
Leave(r, s, v) ==
  IF Len(s.frames) = 1 THEN Answer(s, "ok", v)
  ELSE Deliver(r, [s EXCEPT !.frames = Tail(@)], v)

\* Mutant: the catch clause forgets to mark what is missing.
SurviveUnmarked(s) ==
  Advance([s EXCEPT !.st = "run"], [Top(s).val EXCEPT !.lost = TRUE])

\* A catch clause around the awaited read that goes on without its answer.
Survive(s) ==
  LET op == Awaits(s).op IN
  Advance([s EXCEPT !.st = "run"], [Top(s).val EXCEPT !.lost = TRUE,
            !.told = @ \/ op = "Try" \/ (op = "Spare" /\ Top(s).val.lost)])

\* Mutant: failOperation is left out of the catch clause.
GiveUpUnrecorded(s) == Raise(s)

\* A catch clause that ends the handler, or none: failOperation where it is called.
GiveUp(s) == Raise([s EXCEPT !.oper = IF Awaits(s).op \in Recorded THEN "failed" ELSE @])

\* The read that the top frame awaits threw.
Thrown(s) == IF Awaits(s).op \in Surviving THEN Survive(s) ELSE GiveUp(s)

\* fulfillIdempotencyKey overwrites the pending claim with the outcome.
Settled(r) == IF scenario.req[r].keyed THEN [st |-> "done", body |-> scenario.req[r].body] ELSE claim

Become(r, s) == slot' = [slot EXCEPT ![r] = s]
Spend == faults > 0 /\ faults' = faults - 1

-----------------------------------------------------------------------------
(* A request, its admission and its visibility.                            *)
Init ==
  /\ scenario \in Scenarios
  /\ cache = {} /\ online = TRUE /\ written = FALSE /\ calm = TRUE
  /\ claim = NoClaim /\ effects = 0
  /\ faults = scenario.faults
  /\ slot = [r \in Slots |-> Fresh("idle", <<>>, scenario.req[r].runs)]

Begin(r) ==
  /\ ~Working(r) /\ slot[r].runs > 0
  /\ Become(r, Fresh("run", <<Frame(scenario.req[r].prog)>>, slot[r].runs - 1))
  /\ UNCHANGED <<scenario, cache, online, written, claim, effects, faults, calm>>

\* An early return of the handler, or the check holds.
Admit(r) ==
  /\ At(r, {"Session", "Check", "Found"})
  /\ Become(r, Onward(slot[r])) \/ Become(r, Deny(slot[r]))
  /\ UNCHANGED <<scenario, cache, online, written, claim, effects, faults, calm>>

requireRole(r) ==
  /\ At(r, {"Role"})
  /\ Become(r, IF RoleOf[Caller(r)] \in Allowed[Current(r).arg] THEN Onward(slot[r]) ELSE Deny(slot[r]))
  /\ UNCHANGED <<scenario, cache, online, written, claim, effects, faults, calm>>

\* getEffectiveScope asks for no namespace list when nothing is mapped.
ScopeOfNobody(r) ==
  /\ At(r, {"Scope"}) /\ Caller(r) \in Unmapped
  /\ Become(r, [Onward(slot[r]) EXCEPT !.scope = {}])
  /\ UNCHANGED <<scenario, cache, online, written, claim, effects, faults, calm>>

namespaceVisible(r) ==
  /\ At(r, {"Gate"})
  /\ Become(r, IF Area(r) \in slot[r].scope THEN Onward(slot[r]) ELSE Deny(slot[r]))
  /\ UNCHANGED <<scenario, cache, online, written, claim, effects, faults, calm>>

\* Mutant: an empty scope is taken for no restriction.
ProjectUnlessEmpty(r) ==
  /\ At(r, {"Filter", "Hush"})
  /\ LET v == Top(slot[r]).val IN
     Become(r, Advance(slot[r],
       IF Current(r).op = "Filter" THEN [v EXCEPT !.shows = IF slot[r].scope = {} THEN @ ELSE @ \cap slot[r].scope]
       ELSE [v EXCEPT !.told = @ /\ Caller(r) \in Everything]))
  /\ UNCHANGED <<scenario, cache, online, written, claim, effects, faults, calm>>

Project(r) ==
  /\ At(r, {"Filter", "Hush"})
  /\ LET v == Top(slot[r]).val IN
     Become(r, Advance(slot[r],
       IF Current(r).op = "Filter" THEN [v EXCEPT !.shows = @ \cap slot[r].scope]
       ELSE [v EXCEPT !.told = @ /\ Caller(r) \in Everything]))
  /\ UNCHANGED <<scenario, cache, online, written, claim, effects, faults, calm>>

-----------------------------------------------------------------------------
(* Cache steps.  Without a connection cacheGet misses, and cacheSet and    *)
(* cacheDel do nothing.                                                    *)
cacheGet(r) ==
  /\ At(r, {"Hit"})
  /\ LET k == Current(r).arg
         found == IF online THEN Entries(k, KeyOf(r, k)) ELSE {} IN
     \/ found = {} /\ Become(r, Onward(slot[r]))
     \/ \E e \in found : Become(r, Leave(r, slot[r], e.val))
  /\ UNCHANGED <<scenario, cache, online, written, claim, effects, faults, calm>>

\* Mutant: an answer is stored although it is marked incomplete.
cacheSetAlways(r) ==
  /\ At(r, {"Put", "PutWhole", "PutIfSome"})
  /\ cache' = StoredIn(r, Current(r).arg, Top(slot[r]).val)
  /\ Become(r, Onward(slot[r]))
  /\ UNCHANGED <<scenario, online, written, claim, effects, faults, calm>>

cacheSet(r) ==
  /\ At(r, {"Put", "PutWhole", "PutIfSome"})
  /\ LET op == Current(r).op
         v == Top(slot[r]).val IN
     /\ \/ /\ op = "PutWhole" => ~v.told
           /\ cache' = StoredIn(r, Current(r).arg, v)
        \/ /\ op = "PutIfSome" \/ (op = "PutWhole" /\ v.told)
           /\ UNCHANGED cache
     /\ Become(r, Onward(slot[r]))
  /\ UNCHANGED <<scenario, online, written, claim, effects, faults, calm>>

\* A caller without visible areas: the empty answer is stored and returned.
AnswerNothing(r) ==
  /\ At(r, {"Nothing"})
  /\ \/ /\ slot[r].scope = {}
        /\ cache' = StoredIn(r, Current(r).arg, Blank)
        /\ Become(r, Leave(r, slot[r], Blank))
     \/ slot[r].scope # {} /\ Become(r, Onward(slot[r])) /\ UNCHANGED cache
  /\ UNCHANGED <<scenario, online, written, claim, effects, faults, calm>>

\* Mutant: the freshness record goes, the entry stays.
cacheDelRecord(r) ==
  /\ At(r, {"Del"})
  /\ calm' = (calm /\ online)
  /\ Become(r, Onward(slot[r]))
  /\ UNCHANGED <<scenario, cache, online, written, claim, effects, faults>>

cacheDel(r) ==
  /\ At(r, {"Del"})
  /\ cache' = IF online THEN {e \in cache : e.key # Current(r).arg} ELSE cache
  /\ calm' = (calm /\ online)
  /\ Become(r, Onward(slot[r]))
  /\ UNCHANGED <<scenario, online, written, claim, effects, faults>>

\* deletePattern runs whatever the connection flag says; a failure is logged.
deletePattern(r) ==
  /\ At(r, {"Purge"})
  /\ \/ cache' = {e \in cache : e.key # Current(r).arg} /\ UNCHANGED <<faults, calm>>
     \/ Spend /\ calm' = FALSE /\ UNCHANGED cache
  /\ Become(r, Onward(slot[r]))
  /\ UNCHANGED <<scenario, online, written, claim, effects>>

-----------------------------------------------------------------------------
(* Reads and throws.                                                       *)
Call(r) ==
  /\ At(r, Reads)
  /\ Current(r).op = "Scope" => Caller(r) \notin Unmapped
  /\ Current(r).arg \in DOMAIN Prog
  /\ Become(r, [slot[r] EXCEPT !.frames = <<Frame(Current(r).arg)>> \o @])
  /\ UNCHANGED <<scenario, cache, online, written, claim, effects, faults, calm>>

Return(r) ==
  /\ slot[r].st = "run" /\ Ended(Top(slot[r]))
  /\ Become(r, Leave(r, slot[r], Top(slot[r]).val))
  /\ UNCHANGED <<scenario, cache, online, written, claim, effects, faults, calm>>

\* A list may be cut at the page cap; the client then marks it truncated.
Upstream(r, e) ==
  LET whole == [lost |-> FALSE, told |-> FALSE, old |-> e \in scenario.touched /\ ~written,
                shows |-> CASE e \in ObjectReads -> {Area(r)} [] e \in PlainReads -> {} [] OTHER -> Areas] IN
  {whole} \cup
  (IF e \in Paged /\ faults > 0
   THEN {[whole EXCEPT !.lost = TRUE, !.told = TRUE, !.shows = @ \ {a}] : a \in Areas} ELSE {})

Fetch(r) ==
  /\ At(r, Reads) /\ Current(r).arg \notin DOMAIN Prog
  /\ \E v \in Upstream(r, Current(r).arg) :
        /\ Become(r, Deliver(r, slot[r], v))
        /\ faults' = IF v.lost THEN faults - 1 ELSE faults
  /\ UNCHANGED <<scenario, cache, online, written, claim, effects, calm>>

FetchFails(r) ==
  /\ At(r, Reads) /\ Current(r).arg \notin DOMAIN Prog
  /\ Spend
  /\ Become(r, Thrown(slot[r]))
  /\ UNCHANGED <<scenario, cache, online, written, claim, effects, calm>>

\* The read-back succeeds and reports that the change did not work out.
VerdictFails(r) ==
  /\ At(r, {"Verify"})
  /\ Spend
  /\ Become(r, Raise([slot[r] EXCEPT !.oper = "failed"]))
  /\ UNCHANGED <<scenario, cache, online, written, claim, effects, calm>>

\* The catch clause of the frame that threw.
Catch(r) ==
  /\ slot[r].st = "raise"
  /\ LET s == slot[r]
         fail == Top(s).code.fail
         outer == [s EXCEPT !.frames = Tail(@)] IN
     /\ Become(r, CASE fail \in {"empty", "told"} ->
                         Leave(r, [s EXCEPT !.st = "run"], [Blank EXCEPT !.lost = TRUE, !.told = (fail = "told")])
                    [] fail = "throw" /\ Len(s.frames) > 1 -> Thrown(outer)
                    [] OTHER -> Answer(s, "error", Blank))
     /\ claim' = IF fail = "throw" /\ Len(s.frames) > 1 /\ Awaits(outer).op = "Partly"
                 THEN Settled(r) ELSE claim
  /\ UNCHANGED <<scenario, cache, online, written, effects, faults, calm>>

-----------------------------------------------------------------------------
(* Mutations.                                                              *)

\* The change takes effect, is refused, or takes effect unacknowledged.
Change(r) ==
  /\ At(r, {"Write"})
  /\ LET hits == Current(r).arg \in scenario.touched IN
     \/ /\ written' = (written \/ hits)
        /\ effects' = IF hits THEN effects + 1 ELSE effects
        /\ calm' = (calm /\ \A q \in Slots \ {r} : ~Working(q))
        /\ \/ Become(r, Onward(slot[r])) /\ UNCHANGED faults
           \/ Spend /\ Become(r, Raise(slot[r]))
     \/ Spend /\ Become(r, Raise(slot[r])) /\ UNCHANGED <<written, effects, calm>>
  /\ UNCHANGED <<scenario, cache, online, claim>>

\* Mutant: a pending claim of the same body stops nobody.
claimOrProceed(r) ==
  /\ At(r, {"Claim"})
  /\ LET q == scenario.req[r]
         on == Current(r).arg IN
     \/ ~q.keyed /\ Become(r, Onward(slot[r])) /\ UNCHANGED claim
     \/ /\ q.keyed /\ claim.st = "absent"
        /\ claim' = [st |-> IF on = "taken" THEN "done" ELSE "pending", body |-> q.body]
        /\ Become(r, Onward(slot[r]))
     \/ /\ q.keyed /\ claim.st = "pending"
        /\ Become(r, IF claim.body = q.body THEN Onward(slot[r]) ELSE Deny(slot[r]))
        /\ UNCHANGED claim
     \/ /\ q.keyed /\ claim.st = "done"
        /\ Become(r, IF on = "exact" /\ claim.body # q.body THEN Deny(slot[r]) ELSE Answer(slot[r], "dup", Blank))
        /\ UNCHANGED claim
  /\ UNCHANGED <<scenario, cache, online, written, effects, faults, calm>>

\* Mutant: the claim is stored as if the outcome were known.
claimAsDone(r) ==
  /\ At(r, {"Claim"})
  /\ LET q == scenario.req[r]
         on == Current(r).arg IN
     \/ ~q.keyed /\ Become(r, Onward(slot[r])) /\ UNCHANGED claim
     \/ /\ q.keyed /\ claim.st = "absent"
        /\ claim' = [st |-> "done", body |-> q.body]
        /\ Become(r, Onward(slot[r]))
     \/ /\ q.keyed /\ claim.st = "pending"
        /\ Become(r, IF claim.body = q.body /\ on = "proceed" THEN Onward(slot[r]) ELSE Deny(slot[r]))
        /\ UNCHANGED claim
     \/ /\ q.keyed /\ claim.st = "done"
        /\ Become(r, IF on = "exact" /\ claim.body # q.body THEN Deny(slot[r]) ELSE Answer(slot[r], "dup", Blank))
        /\ UNCHANGED claim
  /\ UNCHANGED <<scenario, cache, online, written, effects, faults, calm>>

claimIdempotencyKey(r) ==
  /\ At(r, {"Claim"})
  /\ LET q == scenario.req[r]
         on == Current(r).arg IN
     \/ ~q.keyed /\ Become(r, Onward(slot[r])) /\ UNCHANGED claim
     \/ /\ q.keyed /\ claim.st = "absent"
        /\ claim' = [st |-> IF on = "taken" THEN "done" ELSE "pending", body |-> q.body]
        /\ Become(r, Onward(slot[r]))
     \/ /\ q.keyed /\ claim.st = "pending"
        /\ Become(r, IF claim.body = q.body /\ on = "proceed" THEN Onward(slot[r]) ELSE Deny(slot[r]))
        /\ UNCHANGED claim
     \/ /\ q.keyed /\ claim.st = "done"
        /\ Become(r, IF on = "exact" /\ claim.body # q.body THEN Deny(slot[r]) ELSE Answer(slot[r], "dup", Blank))
        /\ UNCHANGED claim
  /\ UNCHANGED <<scenario, cache, online, written, effects, faults, calm>>

fulfillIdempotencyKey(r) ==
  /\ At(r, {"Fulfill"})
  /\ claim' = Settled(r)
  /\ Become(r, Onward(slot[r]))
  /\ UNCHANGED <<scenario, cache, online, written, effects, faults, calm>>

\* beginOperation and completeOperation emit a lifecycle event, best effort.
Lifecycle(r) ==
  /\ At(r, {"Open", "Done"})
  /\ Become(r, [Onward(slot[r]) EXCEPT !.oper = IF Current(r).op = "Open" THEN "open" ELSE "completed"])
  /\ UNCHANGED <<scenario, cache, online, written, claim, effects, faults, calm>>

-----------------------------------------------------------------------------
(* The environment.                                                        *)

\* An entry reaches its TTL.
Expire ==
  /\ Spend
  /\ \E e \in cache : cache' = cache \ {e}
  /\ UNCHANGED <<scenario, online, written, claim, effects, slot, calm>>

\* A command that errors clears the flag; only a connect event sets it again.
CommandFails ==
  /\ online /\ Spend
  /\ online' = FALSE
  /\ UNCHANGED <<scenario, cache, written, claim, effects, slot, calm>>

Connect ==
  /\ ~online /\ online' = TRUE
  /\ UNCHANGED <<scenario, cache, written, claim, effects, slot, faults, calm>>

\* The process restarts: every request in flight is gone.
Crash ==
  /\ Spend
  /\ \E r \in Slots : Working(r)
  /\ slot' = [r \in Slots |-> IF Working(r) THEN Answer(slot[r], "lost", Blank) ELSE slot[r]]
  /\ online' = TRUE
  /\ UNCHANGED <<scenario, cache, written, claim, effects, calm>>

Step(r) ==
  \/ Begin(r) \/ Admit(r) \/ requireRole(r) \/ ScopeOfNobody(r) \/ namespaceVisible(r) \/ Project(r)
  \/ cacheGet(r) \/ cacheSet(r) \/ AnswerNothing(r) \/ cacheDel(r) \/ deletePattern(r)
  \/ Call(r) \/ Return(r) \/ Fetch(r) \/ FetchFails(r) \/ VerdictFails(r) \/ Catch(r)
  \/ Change(r) \/ claimIdempotencyKey(r) \/ fulfillIdempotencyKey(r) \/ Lifecycle(r)

Next == (\E r \in Slots : Step(r)) \/ Expire \/ CommandFails \/ Connect \/ Crash

Spec == Init /\ [][Next]_vars
-----------------------------------------------------------------------------
(* Properties.                                                             *)

Answered(r) == slot[r].kind = "ok"
Program(r) == scenario.req[r].prog

\* Every variable keeps its type, and a handler that runs has a program to run.
TypeOK ==
  /\ scenario \in Scenarios
  /\ cache \subseteq Entry
  /\ online \in BOOLEAN /\ written \in BOOLEAN /\ calm \in BOOLEAN
  /\ claim \in [st: {"absent", "pending", "done"}, body: STRING \cup {None}]
  /\ effects \in Nat /\ faults \in Nat
  /\ slot \in [Slots -> Handler]
  /\ \A r \in Slots : Working(r) => slot[r].frames # <<>>

\* A route that resolves the caller's scope answers, from the upstream or from
\* the shared cache, with nothing outside the scope of this very request, and
\* one that filters shows all of that scope unless data is missing.
ServedExactly ==
  \A r \in Slots : Answered(r) /\ Has(Program(r), "Scope") =>
    /\ slot[r].val.shows \subseteq slot[r].scope
    /\ Uses(Program(r), "Filter") /\ ~slot[r].val.lost => slot[r].val.shows = slot[r].scope

\* An entry of a scoped namespace shows nothing outside the scope in its own key:
\* whoever's request finds the key may see all of it.
ScopedEntries == \A e \in cache : e.key \in Scoped => e.val.shows \subseteq e.dim.seen

\* Once a mutation has answered, no entry of a namespace it purges holds the
\* object as it was before, unless a read was in flight across the change, the
\* purge did not reach Valkey, or the namespace is built from another cached one.
FreshUnlessRaced ==
  scenario.writer \in Slots /\ Answered(scenario.writer) /\ written /\ calm =>
    \A e \in cache : e.key \in scenario.purged => ~e.val.old

\* A route of Honest that leaves data out of an answer says so in the answer.
LossDisclosed ==
  \A r \in Slots : Answered(r) /\ Program(r) \in Honest /\ slot[r].val.lost => slot[r].val.told

\* A namespace of Guarded never holds an answer with data missing.
WholeEntries == \A e \in cache : e.key \in Guarded => ~e.val.lost

\* Requests with one Idempotency-Key whose route answers 409 while the claim is
\* pending change the upstream object at most once, crashes included.
KeyedOnce ==
  (\A r \in Slots : scenario.req[r].runs > 0 => scenario.req[r].keyed /\ Strict(Program(r))) => effects <= 1

\* "duplicate: true" is only said of a request that took effect.
DuplicateTookEffect ==
  \A r \in Slots : slot[r].kind = "dup" /\ Has(Program(r), "Fulfill") => effects > 0

\* An operation without a terminal event belongs to a process that died.
ClosedUnlessCrashed == \A r \in Slots : ~Working(r) /\ slot[r].oper = "open" => slot[r].kind = "lost"
=============================================================================
