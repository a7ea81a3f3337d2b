---------------------------- MODULE PortalViews ----------------------------
(***************************************************************************)
(* The browser side of the portal: views that show what their queries hold *)
(* in one query cache, poll it, refresh it after a mutation, and share an  *)
(* entry when they name the same key.  The query cache is react-query's,   *)
(* modelled from how components/ uses it (providers.tsx sets its           *)
(* defaults): a fetch belongs to the view that began it, is attempted      *)
(* again after a failure, keeps the data it could not replace, and a view  *)
(* that throws while it renders takes the page to its error boundary,      *)
(* where nothing is polled.                                                *)
(***************************************************************************)
EXTENDS Integers, FiniteSets, ViewQueries

CONSTANTS
  Pages,      \* the sets of queries whose views may be open together
  Selections, \* what a user may choose in a view that has a choice
  Retry,      \* attempts after the first one
  MaxOutages, \* bound: how often the server leaves its healthy state
  MaxMoves,   \* bound: how often the user opens, closes or chooses
  Frank,      \* queries whose views never pass a failure off as an answer
  Fragile     \* queries whose views throw on an error body

Names == DOMAIN Queries

ASSUME PagesAssumption == Pages \subseteq SUBSET Names
ASSUME BoundsAssumption ==
  /\ Retry \in Nat /\ MaxOutages \in Nat /\ MaxMoves \in Nat
  /\ Selections \subseteq STRING /\ Selections # {}
ASSUME SetsAssumption == Frank \subseteq Names /\ Fragile \subseteq Names

(* How the rows of the table sort the views.  A view is fragile if an error body  *)
(* makes it throw and one of the queries with its key lets such a body through.    *)
(* A frank view has an error state or a mark for every failure, and no query with *)
(* its key turns an error into data that it would show.                           *)
Content == {"rows", "empty", "blank"}
Sharers(P, q) == {p \in P : Queries[p].key = Queries[q].key}
LetsThrough(p) == Queries[p].fetch \notin {"checked", "coerced"}

ASSUME LoneAssumption == \A q \in Names : Queries[q].lone \notin {"rows", "crash"}
ASSUME FragileAssumption ==
  \A P \in Pages : \A q \in P :
    Queries[q].body = "crash" /\ (\E p \in Sharers(P, q) : LetsThrough(p)) => q \in Fragile
ASSUME FrankAssumption ==
  \A P \in Pages : \A q \in P \cap Frank :
    /\ Queries[q].lone \notin Content /\ Queries[q].over \in {"failure", "stale"}
    /\ \A p \in Sharers(P, q) :
         /\ Queries[p].fetch # "coerced"
         /\ LetsThrough(p) => Queries[q].body \notin Content
    /\ \A p \in P : Queries[p].how = "patch" => Queries[q].key \notin Queries[p].writes

VARIABLES
  page,     \* the queries of this behaviour; never changed
  open,     \* those whose view the user has open
  fallen,   \* a view threw: the error boundary stands in for all of them
  chosen,   \* the user's selection
  entry,    \* key -> what the query cache holds
  flight,   \* key -> the fetch in progress
  server,   \* how the portal's API answers: ok, refuses (an error as JSON), down
  written,  \* has the mutation taken effect?
  write,    \* the mutation: [by, st]
  missed,   \* keys whose refresh after the mutation could not begin (ghost)
  outages, moves

vars == <<page, open, fallen, chosen, entry, flight, server, written, write, missed, outages, moves>>

-----------------------------------------------------------------------------
\* Mutant: the selection is not part of the key.
KeyOfName(q, s) == <<Queries[q].key, "">>

Part(q, s) == IF Queries[q].part = "chosen" THEN s ELSE Queries[q].part
KeyOf(q, s) == <<Queries[q].key, Part(q, s)>>
Key(q) == KeyOf(q, chosen)
KeysOf(P) == {KeyOf(q, s) : q \in P, s \in Selections}

(* A value in the cache: rows of an ok answer, the body of an error, or    *)
(* the empty list that stands in for one; the selection it was asked for;  *)
(* and whether it shows the mutation's effect.                             *)
NoData == [kind |-> "none", asked |-> "", new |-> FALSE]
Absent == [data |-> NoData, err |-> FALSE, invalid |-> FALSE]
Idle == [by |-> "none", asked |-> "", tries |-> 0, res |-> NoData]
Ask(q, s) == [by |-> q, asked |-> Part(q, s), tries |-> 0, res |-> NoData]

ASSUME KeysAssumption == \A P \in Pages : Cardinality(KeysOf(P)) <= 2

Mounted == IF fallen THEN {} ELSE open
Watched(k, qs) == \E q \in qs : Key(q) = k

-----------------------------------------------------------------------------
(* What a view shows of an entry.                                          *)
Shows(q, e) ==
  LET d == e.data.kind IN
  IF d = "none" THEN IF e.err THEN Queries[q].lone ELSE "loading"
  ELSE IF d = "refusal" /\ Queries[q].body = "crash" THEN "crash"
  ELSE IF e.err /\ Queries[q].over \in {"failure", "blank"} THEN Queries[q].over
  ELSE CASE d = "rows" -> "rows" [] d = "refusal" -> Queries[q].body [] OTHER -> "empty"
Marked(q, e) == e.err /\ Queries[q].over = "stale"
Screen(q) == Shows(q, entry[Key(q)])

\* The views qs are rendered at selection s.
Render(qs, s) ==
  /\ open' = qs /\ chosen' = s /\ UNCHANGED entry
  /\ fallen' = \E q \in qs : Shows(q, entry[KeyOf(q, s)]) = "crash"

\* The entries become e, and the mounted views render them.
Update(e) ==
  /\ entry' = e /\ UNCHANGED <<open, chosen>>
  /\ fallen' = (fallen \/ \E q \in open : Shows(q, e[Key(q)]) = "crash")

-----------------------------------------------------------------------------
DefaultSelection == CHOOSE s \in Selections : TRUE

Init ==
  /\ page \in Pages
  /\ open = {} /\ fallen = FALSE /\ chosen = DefaultSelection
  /\ entry = [k \in KeysOf(page) |-> Absent]
  /\ flight = [k \in KeysOf(page) |-> Idle]
  /\ server = "ok" /\ written = FALSE
  /\ write = [by |-> "none", st |-> "idle"] /\ missed = {}
  /\ outages = 0 /\ moves = 0

(* The user.                                                               *)
Move == moves < MaxMoves /\ moves' = moves + 1

Open ==
  /\ Move /\ ~fallen
  /\ \E q \in page \ open : Render(open \cup {q}, chosen)
  /\ UNCHANGED <<page, flight, server, written, write, missed, outages>>

Close ==
  /\ Move
  /\ \E q \in open : Render(open \ {q}, chosen)
  /\ UNCHANGED <<page, flight, server, written, write, missed, outages>>

Choose ==
  /\ Move /\ ~fallen
  /\ \E q \in page : Queries[q].part = "chosen"
  /\ \E s \in Selections \ {chosen} : Render(open, s)
  /\ UNCHANGED <<page, flight, server, written, write, missed, outages>>

\* The boundary's button renders the views again, from the same entries.
RetryPage ==
  /\ fallen
  /\ Render(open, chosen)
  /\ UNCHANGED <<page, flight, server, written, write, missed, outages, moves>>

-----------------------------------------------------------------------------
(* Fetches.                                                                *)

\* Mutant: no refetchInterval: a query is fetched when it has nothing yet.
FetchOnce(q) ==
  /\ q \in Mounted /\ flight[Key(q)] = Idle
  /\ entry[Key(q)] = Absent
  /\ flight' = [flight EXCEPT ![Key(q)] = Ask(q, chosen)]
  /\ UNCHANGED <<page, open, fallen, chosen, entry, server, written, write, missed, outages, moves>>

\* A mounted view fetches: on mount, at its interval, or by its retry button.
\* Without data the query is pending again.
Fetch(q) ==
  /\ q \in Mounted /\ flight[Key(q)] = Idle
  /\ flight' = [flight EXCEPT ![Key(q)] = Ask(q, chosen)]
  /\ Update([entry EXCEPT ![Key(q)].err = @ /\ entry[Key(q)].data # NoData])
  /\ UNCHANGED <<page, server, written, write, missed, outages, moves>>

\* The server answers the request under way.
Answer(k) ==
  /\ flight[k] # Idle /\ flight[k].res = NoData
  /\ flight' = [flight EXCEPT ![k].res =
       [kind |-> CASE server = "ok" -> "rows" [] server = "refuses" -> "refusal" [] OTHER -> "broken",
        asked |-> flight[k].asked, new |-> written]]
  /\ UNCHANGED <<page, open, fallen, chosen, entry, server, written, write, missed, outages, moves>>

\* Mutant: what is not an array is returned as it is.
ParsedUncoerced(f) ==
  IF f.res.kind = "refusal" /\ Queries[f.by].fetch = "checked" THEN [f.res EXCEPT !.kind = "broken"]
  ELSE f.res

\* Mutant: a non-ok answer becomes [] instead of an error.
ParsedUnchecked(f) ==
  IF f.res.kind = "refusal" /\ Queries[f.by].fetch # "raw" THEN [f.res EXCEPT !.kind = "hollow"]
  ELSE f.res

\* What the queryFn of the view that asked makes of an answer.
Parsed(f) ==
  LET mode == Queries[f.by].fetch IN
  CASE f.res.kind = "refusal" /\ mode = "checked" -> [f.res EXCEPT !.kind = "broken"]
    [] f.res.kind = "refusal" /\ mode = "coerced" -> [f.res EXCEPT !.kind = "hollow"]
    [] OTHER -> f.res

Land(k) ==
  /\ flight[k].res # NoData
  /\ LET v == Parsed(flight[k]) IN
     /\ v.kind # "broken"
     /\ Update([entry EXCEPT ![k] = [data |-> v, err |-> FALSE, invalid |-> FALSE]])
  /\ flight' = [flight EXCEPT ![k] = Idle]
  /\ UNCHANGED <<page, server, written, write, missed, outages, moves>>

LandFails(k) ==
  /\ flight[k].res # NoData /\ Parsed(flight[k]).kind = "broken"
  /\ IF flight[k].tries < Retry
     THEN /\ flight' = [flight EXCEPT ![k].tries = @ + 1, ![k].res = NoData]
          /\ UNCHANGED <<open, fallen, chosen, entry>>
     ELSE /\ flight' = [flight EXCEPT ![k] = Idle]
          /\ Update([entry EXCEPT ![k].err = TRUE])
  /\ UNCHANGED <<page, server, written, write, missed, outages, moves>>

\* An entry nobody watches is dropped after a while.
Collect(k) ==
  /\ ~Watched(k, Mounted) /\ flight[k] = Idle
  /\ entry' = [entry EXCEPT ![k] = Absent]
  /\ UNCHANGED <<page, open, fallen, chosen, flight, server, written, write, missed, outages, moves>>

-----------------------------------------------------------------------------
(* Mutations.                                                              *)
Mutate(q) ==
  /\ q \in Mounted /\ Queries[q].writes # {}
  /\ write.st = "idle" /\ Screen(q) = "rows"
  /\ write' = [by |-> q, st |-> "sent"]
  /\ UNCHANGED <<page, open, fallen, chosen, entry, flight, server, written, missed, outages, moves>>

\* The server makes the change or refuses it; a lost answer hides which.
Apply ==
  /\ write.st = "sent"
  /\ \/ server = "ok" /\ written' = TRUE /\ write' = [write EXCEPT !.st = "took"]
     \/ server = "refuses" /\ write' = [write EXCEPT !.st = "refused"] /\ UNCHANGED written
     \/ server = "down" /\ written' \in {written, TRUE} /\ write' = [write EXCEPT !.st = "failed"]
  /\ UNCHANGED <<page, open, fallen, chosen, entry, flight, server, missed, outages, moves>>

Succeeded == write.st = "took" \/ (write.st = "refused" /\ Queries[write.by].how # "checked")

\* invalidateQueries: entries are marked, and those being watched are fetched
\* anew; a fetch under way is replaced only if there is data.
Stale(ks) == {k \in DOMAIN entry : k[1] \in ks}
Refreshed(ks) == {k \in Stale(ks) : Watched(k, Mounted) /\ (flight[k] = Idle \/ entry[k].data # NoData)}
invalidateQueries(ks) ==
  /\ entry' = [k \in DOMAIN entry |-> IF k \in Stale(ks) THEN [entry[k] EXCEPT !.invalid = TRUE] ELSE entry[k]]
  /\ \E by \in [Refreshed(ks) -> Mounted] :
       /\ \A k \in Refreshed(ks) : Key(by[k]) = k
       /\ flight' = [k \in DOMAIN flight |-> IF k \in Refreshed(ks) THEN Ask(by[k], chosen) ELSE flight[k]]
  /\ missed' = {k \in Stale(ks) \ Refreshed(ks) : flight[k] # Idle}

\* setQueryData: the cached rows show the change, whatever the server said.
setQueryData(ks) ==
  /\ entry' = [k \in DOMAIN entry |->
       IF k \in Stale(ks) /\ entry[k].data.kind = "rows" THEN [entry[k] EXCEPT !.data.new = TRUE] ELSE entry[k]]
  /\ UNCHANGED <<flight, missed>>

\* Mutant: onSuccess refreshes nothing.
ConcludeSilently ==
  /\ write.st \in {"took", "refused", "failed"}
  /\ write' = [write EXCEPT !.st = IF Succeeded THEN "done" ELSE "idle"]
  /\ UNCHANGED <<page, open, fallen, chosen, entry, flight, missed, server, written, outages, moves>>

Conclude ==
  /\ write.st \in {"took", "refused", "failed"}
  /\ LET w == Queries[write.by] IN
     IF ~Succeeded THEN UNCHANGED <<entry, flight, missed>>
     ELSE IF w.how = "patch" THEN setQueryData(w.writes) ELSE invalidateQueries(w.writes)
  /\ write' = [write EXCEPT !.st = IF Succeeded THEN "done" ELSE "idle"]
  /\ UNCHANGED <<page, open, fallen, chosen, server, written, outages, moves>>

-----------------------------------------------------------------------------
(* The server.                                                             *)
Disrupt ==
  /\ server = "ok" /\ outages < MaxOutages
  /\ server' \in {"refuses", "down"} /\ outages' = outages + 1
  /\ UNCHANGED <<page, open, fallen, chosen, entry, flight, written, write, missed, moves>>

Mend ==
  /\ server # "ok" /\ server' = "ok"
  /\ UNCHANGED <<page, open, fallen, chosen, entry, flight, written, write, missed, outages, moves>>

Next ==
  \/ Open \/ Close \/ Choose \/ RetryPage
  \/ \E q \in page : Fetch(q) \/ Mutate(q)
  \/ \E k \in DOMAIN entry : Answer(k) \/ Land(k) \/ LandFails(k) \/ Collect(k)
  \/ Apply \/ Conclude \/ Disrupt \/ Mend

(* Every view polls by a timer of its own, every request gets an answer,   *)
(* entries nobody watches are collected, and the user who faces the error  *)
(* boundary keeps pressing its button.  The server owes nothing.  A page   *)
(* has two keys at most, and each gets its fair share.                     *)
FirstKey == CHOOSE k \in KeysOf(page) : TRUE
Fairness ==
  /\ \A first \in BOOLEAN :
       /\ WF_vars(\E q \in page : (Key(q) = FirstKey) = first /\ Fetch(q))
       /\ WF_vars(\E k \in DOMAIN entry : (k = FirstKey) = first /\ (Answer(k) \/ Land(k) \/ LandFails(k)))
  /\ WF_vars(\E k \in DOMAIN entry : Collect(k))
  /\ WF_vars(RetryPage)

Spec == Init /\ [][Next]_vars /\ Fairness
-----------------------------------------------------------------------------
(* Properties.                                                             *)

\* The data a view shows was asked for with the selection it has now, however
\* late an answer comes.
OwnSelection ==
  \A q \in Mounted : Screen(q) = "rows" => entry[Key(q)].data.asked = Part(q, chosen)

\* What a view of Frank shows as its content is an ok answer of the server, with
\* a mark on it if the last refresh failed: a failure, its own or that of a view
\* with the same key, never looks like an empty, blank or changed answer.
Truthful ==
  \A q \in Mounted \cap Frank : Screen(q) \in {"rows", "empty", "blank"} =>
    LET e == entry[Key(q)] IN
    e.data.kind = "rows" /\ (e.err => Marked(q, e)) /\ (e.data.new => written)

\* Only a view of Fragile takes the page down: no error body reaches another one,
\* not even through an entry that a view with the same key has filled.
StaysUp == fallen => open \cap Fragile # {}

\* After the mutation no refreshed entry shows the state from before it: a fetch
\* that began earlier is replaced, unless it could not be.
SeesOwnWrite ==
  write.st = "done" /\ written /\ Queries[write.by].how # "patch" =>
    \A k \in Stale(Queries[write.by].writes) \ missed :
      entry[k].data.kind = "rows" /\ ~entry[k].invalid => entry[k].data.new

\* Once the server stays up, every open view comes to show its data and keeps it.
Recovers ==
  <>[](server = "ok") => <>[](~fallen /\ \A q \in open : Screen(q) = "rows")
=============================================================================
