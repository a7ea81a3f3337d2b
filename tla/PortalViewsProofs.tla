-------------------------- MODULE PortalViewsProofs --------------------------
(***************************************************************************)
(* Machine-checked proofs about the portal's views, module PortalViews: for *)
(* any pages, selections, numbers of retries and of outages, and however    *)
(* the user moves, what a view shows follows from the rows of the table of  *)
(* queries alone.                                                           *)
(***************************************************************************)
EXTENDS PortalViews, TLAPS

-----------------------------------------------------------------------------
(* The inductive invariant.                                                *)

DataKinds == {"none", "rows", "refusal", "hollow", "broken"}
Data == [kind : DataKinds, asked : STRING, new : BOOLEAN]

\* The page never changes; everything is kept by the keys of its queries.
ShapeOK ==
  /\ page \in Pages /\ open \subseteq page /\ chosen \in Selections /\ fallen \in BOOLEAN
  /\ DOMAIN entry = KeysOf(page) /\ DOMAIN flight = KeysOf(page)
  /\ written \in BOOLEAN
  /\ write = [by |-> write.by, st |-> write.st] /\ (write.st # "idle" => write.by \in page)

\* Some query of the page with this key lets error bodies through, coerces them, or
\* its mutation patches the entry.
Leaky(k) == \E p \in page : Queries[p].key = k[1] /\ LetsThrough(p)
Coercing(k) == \E p \in page : Queries[p].key = k[1] /\ Queries[p].fetch = "coerced"
Patched(k) == \E p \in page : Queries[p].how = "patch" /\ k[1] \in Queries[p].writes

\* A value under a key was asked for with the key's selection; and where it is from.
ValueOK(k, d) ==
  /\ d = [kind |-> d.kind, asked |-> d.asked, new |-> d.new] /\ d.new \in BOOLEAN
  /\ d = NoData \/ (d.kind # "none" /\ d.asked = k[2])
EntryOK(k) ==
  LET e == entry[k] IN
  /\ e = [data |-> e.data, err |-> e.err, invalid |-> e.invalid]
  /\ e.err \in BOOLEAN /\ e.invalid \in BOOLEAN
  /\ ValueOK(k, e.data)
  /\ e.data.kind \in {"none", "rows", "refusal", "hollow"}
  /\ e.data.kind = "refusal" => Leaky(k)
  /\ e.data.kind = "hollow" => Coercing(k)
  /\ e.data.new => written \/ Patched(k)

FlightOK(k) ==
  LET f == flight[k] IN
  /\ f = [by |-> f.by, asked |-> f.asked, tries |-> f.tries, res |-> f.res]
  /\ f.res \in {NoData} \/ f # Idle
  /\ f # Idle => f.by \in page /\ Queries[f.by].key = k[1] /\ f.asked = k[2]
  /\ ValueOK(k, f.res) /\ f.res.kind \in {"none", "rows", "refusal", "broken"}
  /\ f.res.new => written

\* A refreshed key, once the mutation is done.
RefreshedOK(k) ==
  /\ flight[k].res # NoData => flight[k].res.new
  /\ entry[k].data.kind = "rows" /\ ~entry[k].invalid => entry[k].data.new
WriteOK ==
  write.st = "done" /\ written /\ Queries[write.by].how # "patch" =>
    \A k \in Stale(Queries[write.by].writes) \ missed : RefreshedOK(k)

VInv ==
  /\ ShapeOK /\ WriteOK /\ StaysUp
  /\ \A k \in KeysOf(page) : EntryOK(k) /\ FlightOK(k)

-----------------------------------------------------------------------------
LEMMA KeyParts ==
  ASSUME NEW q, NEW s
  PROVE  KeyOf(q, s)[1] = Queries[q].key /\ KeyOf(q, s)[2] = Part(q, s)
BY DEF KeyOf

LEMMA KeyThere ==
  ASSUME NEW P, NEW q \in P, NEW s \in Selections
  PROVE  KeyOf(q, s) \in KeysOf(P)
BY DEF KeysOf

\* Nothing is held, and nothing is asked for.
LEMMA IdleRecord ==
  Idle = [by |-> Idle.by, asked |-> Idle.asked, tries |-> Idle.tries, res |-> Idle.res]
<1>1. /\ Idle.by = "none" /\ Idle.asked = "" /\ Idle.tries = 0 /\ Idle.res = NoData
      /\ Idle = [by |-> "none", asked |-> "", tries |-> 0, res |-> NoData]
  BY DEF Idle
<1> QED BY <1>1, Zenon

LEMMA AbsentRecord ==
  /\ Absent = [data |-> Absent.data, err |-> Absent.err, invalid |-> Absent.invalid]
  /\ Absent.data = NoData /\ Absent.err = FALSE /\ Absent.invalid = FALSE
BY DEF Absent

LEMMA NothingOK ==
  ASSUME NEW k
  PROVE  ValueOK(k, NoData) /\ NoData.kind = "none" /\ NoData.new = FALSE /\ Idle.res = NoData
BY DEF ValueOK, NoData, Idle

LEMMA ViewsInit == Init => VInv
<1> SUFFICES ASSUME Init PROVE VInv
  OBVIOUS
<1>1. chosen \in Selections
  BY BoundsAssumption DEF Init, DefaultSelection
<1>2. ShapeOK
  BY <1>1 DEF Init, ShapeOK
<1>3. \A k \in KeysOf(page) : entry[k] = Absent /\ flight[k] = Idle
  BY DEF Init
<1>4. ASSUME NEW k \in KeysOf(page) PROVE EntryOK(k) /\ FlightOK(k)
  <2>1. entry[k] = Absent /\ flight[k] = Idle
    BY <1>3
  <2>3. EntryOK(k)
    BY <2>1, AbsentRecord, NothingOK DEF EntryOK
  <2>4. FlightOK(k)
    BY <2>1, IdleRecord, NothingOK DEF FlightOK
  <2> QED BY <2>3, <2>4
<1>5. WriteOK /\ StaysUp
  BY DEF Init, WriteOK, StaysUp
<1> QED BY <1>2, <1>4, <1>5 DEF VInv

\* A key that a step leaves alone.
LEMMA KeyKept ==
  ASSUME NEW k, EntryOK(k), FlightOK(k), entry'[k] = entry[k], flight'[k] = flight[k],
         page' = page, written => written'
  PROVE  EntryOK(k)' /\ FlightOK(k)'
<1>1. (Leaky(k) <=> Leaky(k)') /\ (Coercing(k) <=> Coercing(k)') /\ (Patched(k) <=> Patched(k)')
  BY DEF Leaky, Coercing, Patched
<1>2. EntryOK(k)'
  BY <1>1 DEF EntryOK, ValueOK
<1>3. FlightOK(k)'
  BY DEF FlightOK, ValueOK
<1> QED BY <1>2, <1>3

\* The views that are open are rendered from the entries.
LEMMA Rendered ==
  ASSUME page' \in Pages, open' \subseteq page', chosen' \in Selections,
         \A k \in KeysOf(page') : EntryOK(k)',
         fallen' => (fallen /\ StaysUp /\ open' = open)
                    \/ \E q \in open' : Shows(q, entry'[KeyOf(q, chosen')]) = "crash"
  PROVE  StaysUp'
<1> SUFFICES ASSUME fallen' PROVE open' \cap Fragile # {}
  BY DEF StaysUp
<1>1. CASE fallen /\ StaysUp /\ open' = open
  BY <1>1 DEF StaysUp
<1>2. ASSUME NEW q \in open', Shows(q, entry'[KeyOf(q, chosen')]) = "crash"
      PROVE  q \in Fragile
  <2>1. PICK P : P = page'
    OBVIOUS
  <2>2. PICK s \in Selections : s = chosen'
    OBVIOUS
  <2>3. PICK k \in KeysOf(P) : k = KeyOf(q, s)
    BY <1>2, <2>1, KeyThere
  <2>4. EntryOK(k)'
    BY <2>1, <2>3
  <2>5. PICK e : e = entry'[k]
    OBVIOUS
  <2>6. Shows(q, e) = "crash"
    BY <1>2, <2>2, <2>3, <2>5
  <2>7. Queries[q].lone # "crash"
    BY <1>2, <2>1, PagesAssumption, LoneAssumption
  <2>8. e.data.kind = "refusal" /\ Queries[q].body = "crash"
    BY <2>6, <2>7 DEF Shows
  <2>9. PICK p \in P : Queries[p].key = k[1] /\ LetsThrough(p)
    BY <2>1, <2>4, <2>5, <2>8 DEF EntryOK, Leaky
  <2>10. p \in Sharers(P, q)
    BY <2>3, <2>9, KeyParts DEF Sharers
  <2> QED BY <1>2, <2>1, <2>8, <2>9, <2>10, FragileAssumption
<1> QED BY <1>1, <1>2

\* A step of the user: the views are rendered anew, from the same entries.
LEMMA RenderInv ==
  ASSUME VInv, NEW qs \in SUBSET page, NEW s \in Selections, Render(qs, s),
         UNCHANGED <<page, flight, written, write, missed>>
  PROVE  VInv'
<1>1. ShapeOK' /\ WriteOK'
  <2>1. ShapeOK'
    BY DEF VInv, ShapeOK, Render
  <2> QED BY <2>1 DEF VInv, WriteOK, RefreshedOK, Stale, Render
<1>2. ASSUME NEW k \in KeysOf(page) PROVE EntryOK(k)' /\ FlightOK(k)'
  BY KeyKept DEF VInv, Render
<1>3. StaysUp'
  BY <1>1, <1>2, Rendered DEF ShapeOK, Render
<1> QED BY <1>1, <1>2, <1>3 DEF VInv

\* A step on one key.
LEMMA OneKey ==
  ASSUME VInv, UNCHANGED <<page, open, chosen, written, write, missed>>,
         NEW k \in KeysOf(page),
         DOMAIN entry' = DOMAIN entry, DOMAIN flight' = DOMAIN flight,
         \A j \in KeysOf(page) : j # k => entry'[j] = entry[j] /\ flight'[j] = flight[j],
         EntryOK(k)', FlightOK(k)',
         written /\ RefreshedOK(k) => RefreshedOK(k)',
         \/ fallen' = fallen
         \/ fallen' = (fallen \/ \E q \in open : Shows(q, entry'[Key(q)]) = "crash")
  PROVE  VInv'
<1>0. ShapeOK /\ WriteOK /\ StaysUp /\ \A j \in KeysOf(page) : EntryOK(j) /\ FlightOK(j)
  BY DEF VInv
<1>1. ShapeOK'
  BY <1>0 DEF ShapeOK
<1>2. ASSUME NEW j \in KeysOf(page) PROVE EntryOK(j)' /\ FlightOK(j)'
  BY <1>0, KeyKept
<1>3. StaysUp'
  BY <1>0, <1>1, <1>2, Rendered DEF ShapeOK, Key
<1>4. WriteOK'
  <2> SUFFICES ASSUME write.st = "done", written, Queries[write.by].how # "patch",
                      NEW j \in Stale(Queries[write.by].writes) \ missed
               PROVE  RefreshedOK(j)'
    BY DEF WriteOK, Stale
  <2>1. RefreshedOK(j) /\ j \in KeysOf(page)
    BY <1>0 DEF WriteOK, Stale, ShapeOK
  <2> QED BY <2>1 DEF RefreshedOK
<1> QED BY <1>1, <1>2, <1>3, <1>4 DEF VInv

\* A view asks for its key.
LEMMA AskOK ==
  ASSUME ShapeOK, NEW q \in page, NEW f, f = Ask(q, chosen)
  PROVE  /\ f = [by |-> f.by, asked |-> f.asked, tries |-> f.tries, res |-> f.res]
         /\ f.by = q /\ Queries[f.by].key = Key(q)[1] /\ f.asked = Key(q)[2] /\ f.res = NoData
         /\ Key(q) \in KeysOf(page)
<1>1. f.by = q /\ f.asked = Part(q, chosen) /\ f.tries = 0 /\ f.res = NoData
  BY DEF Ask
<1>2. f = [by |-> q, asked |-> Part(q, chosen), tries |-> 0, res |-> NoData]
  BY DEF Ask
<1>3. f = [by |-> f.by, asked |-> f.asked, tries |-> f.tries, res |-> f.res]
  BY <1>1, <1>2, Zenon
<1> QED BY <1>1, <1>3, KeyParts, KeyThere DEF Key, ShapeOK

LEMMA FetchInv ==
  ASSUME VInv, NEW q \in page, Fetch(q)
  PROVE  VInv'
<1>0. ShapeOK /\ \A j \in KeysOf(page) : EntryOK(j) /\ FlightOK(j)
  BY DEF VInv
<1>1. PICK f : f = Ask(q, chosen)
  OBVIOUS
<1>2. PICK k \in KeysOf(page) : k = Key(q)
  BY <1>0, <1>1, AskOK
<1>3. PICK b \in BOOLEAN : b = (entry[k].err /\ entry[k].data # NoData)
  OBVIOUS
<1>4. /\ flight' = [flight EXCEPT ![k] = f]
      /\ entry' = [entry EXCEPT ![k].err = b]
      /\ UNCHANGED <<page, open, chosen, written, write, missed>>
      /\ fallen' = (fallen \/ \E p \in open : Shows(p, entry'[Key(p)]) = "crash")
  BY <1>1, <1>2, <1>3 DEF Fetch, Update
<1>5. /\ f = [by |-> f.by, asked |-> f.asked, tries |-> f.tries, res |-> f.res]
      /\ f.by = q /\ Queries[f.by].key = k[1] /\ f.asked = k[2] /\ f.res = NoData
  BY <1>0, <1>1, <1>2, AskOK
<1>6. /\ DOMAIN entry = KeysOf(page) /\ DOMAIN flight = KeysOf(page)
      /\ flight'[k] = f /\ entry'[k] = [entry[k] EXCEPT !.err = b]
      /\ \A j \in KeysOf(page) : j # k => entry'[j] = entry[j] /\ flight'[j] = flight[j]
      /\ DOMAIN entry' = DOMAIN entry /\ DOMAIN flight' = DOMAIN flight
  BY <1>0, <1>4 DEF ShapeOK
<1>7. entry[k] = [data |-> entry[k].data, err |-> entry[k].err, invalid |-> entry[k].invalid]
  BY <1>0 DEF EntryOK
<1>8. /\ entry'[k].data = entry[k].data /\ entry'[k].invalid = entry[k].invalid /\ entry'[k].err = b
      /\ entry'[k] = [data |-> entry'[k].data, err |-> entry'[k].err, invalid |-> entry'[k].invalid]
  BY <1>6, <1>7
<1>9. EntryOK(k)'
  <2>1. (Leaky(k) <=> Leaky(k)') /\ (Coercing(k) <=> Coercing(k)') /\ (Patched(k) <=> Patched(k)')
    BY <1>4 DEF Leaky, Coercing, Patched
  <2> QED BY <1>0, <1>4, <1>8, <2>1 DEF EntryOK, ValueOK
<1>10. FlightOK(k)'
  BY <1>4, <1>5, <1>6, NothingOK DEF FlightOK
<1>11. RefreshedOK(k) => RefreshedOK(k)'
  BY <1>5, <1>6, <1>8 DEF RefreshedOK
<1> QED BY <1>4, <1>6, <1>9, <1>10, <1>11, OneKey

LEMMA AnswerInv ==
  ASSUME VInv, NEW k \in KeysOf(page), Answer(k)
  PROVE  VInv'
<1>0. ShapeOK /\ EntryOK(k) /\ FlightOK(k)
  BY DEF VInv
<1>1. PICK d : d = [kind |-> CASE server = "ok" -> "rows" [] server = "refuses" -> "refusal"
                               [] OTHER -> "broken",
                    asked |-> flight[k].asked, new |-> written]
  OBVIOUS
<1>2. /\ flight[k] # Idle /\ flight' = [flight EXCEPT ![k].res = d]
      /\ UNCHANGED <<page, open, fallen, chosen, entry, written, write, missed>>
  BY <1>1 DEF Answer
<1>3. /\ d.kind \in {"rows", "refusal", "broken"} /\ d.asked = flight[k].asked /\ d.new = written
      /\ d = [kind |-> d.kind, asked |-> d.asked, new |-> d.new]
  BY <1>1
<1>4. /\ DOMAIN flight = KeysOf(page) /\ flight'[k] = [flight[k] EXCEPT !.res = d]
      /\ \A j \in KeysOf(page) : j # k => flight'[j] = flight[j]
      /\ DOMAIN flight' = DOMAIN flight
  BY <1>0, <1>2 DEF ShapeOK
<1>5. /\ flight'[k].by = flight[k].by /\ flight'[k].asked = flight[k].asked /\ flight'[k].res = d
      /\ flight'[k] = [by |-> flight'[k].by, asked |-> flight'[k].asked,
                       tries |-> flight'[k].tries, res |-> flight'[k].res]
  <2>1. flight[k] = [by |-> flight[k].by, asked |-> flight[k].asked, tries |-> flight[k].tries,
                     res |-> flight[k].res]
    BY <1>0 DEF FlightOK
  <2> QED BY <1>4, <2>1
<1>6. ValueOK(k, d)
  BY <1>0, <1>2, <1>3 DEF ValueOK, FlightOK, ShapeOK
<1>7. d # NoData
  BY <1>3, NothingOK
<1>8. FlightOK(k)'
  <2>1. flight'[k] # Idle
    BY <1>5, <1>7, NothingOK
  <2> QED BY <1>0, <1>2, <1>3, <1>5, <1>6, <2>1 DEF FlightOK
<1>9. EntryOK(k)'
  <2>1. (Leaky(k) <=> Leaky(k)') /\ (Coercing(k) <=> Coercing(k)') /\ (Patched(k) <=> Patched(k)')
    BY <1>2 DEF Leaky, Coercing, Patched
  <2> QED BY <1>0, <1>2, <2>1 DEF EntryOK, ValueOK
<1>10. written /\ RefreshedOK(k) => RefreshedOK(k)'
  BY <1>2, <1>3, <1>5 DEF RefreshedOK
<1> QED BY <1>2, <1>4, <1>8, <1>9, <1>10, OneKey

\* What a queryFn makes of an answer: an error body gets through only a query that
\* lets it, and only a coercing one makes it an empty list.
LEMMA ParsedOK ==
  ASSUME VInv, NEW k \in KeysOf(page), flight[k].res # NoData, NEW v, v = Parsed(flight[k])
  PROVE  /\ ValueOK(k, v) /\ v.kind \in {"rows", "refusal", "hollow", "broken"}
         /\ v.kind = "refusal" => Leaky(k)
         /\ v.kind = "hollow" => Coercing(k)
         /\ v.new = flight[k].res.new
<1>0. FlightOK(k)
  BY DEF VInv
<1>1. PICK r : r = flight[k].res
  OBVIOUS
<1>2. /\ r = [kind |-> r.kind, asked |-> r.asked, new |-> r.new] /\ r.new \in BOOLEAN
      /\ r.kind # "none" /\ r.asked = k[2]
      /\ r.kind \in {"rows", "refusal", "broken"}
  BY <1>0, <1>1 DEF FlightOK, ValueOK
<1>3. flight[k].by \in page /\ Queries[flight[k].by].key = k[1]
  BY <1>0, NothingOK DEF FlightOK
<1>4. PICK mode : mode = Queries[flight[k].by].fetch
  OBVIOUS
<1>5. CASE r.kind = "refusal" /\ mode = "checked"
  <2>1. v = [r EXCEPT !.kind = "broken"]
    BY <1>1, <1>4, <1>5 DEF Parsed
  <2>2. v = [kind |-> "broken", asked |-> r.asked, new |-> r.new]
    BY <1>2, <2>1
  <2> QED BY <1>1, <1>2, <2>2 DEF ValueOK
<1>6. CASE r.kind = "refusal" /\ mode = "coerced"
  <2>1. v = [r EXCEPT !.kind = "hollow"]
    BY <1>1, <1>4, <1>6 DEF Parsed
  <2>2. v = [kind |-> "hollow", asked |-> r.asked, new |-> r.new]
    BY <1>2, <2>1
  <2>3. Coercing(k)
    BY <1>3, <1>4, <1>6 DEF Coercing
  <2> QED BY <1>1, <1>2, <2>2, <2>3 DEF ValueOK
<1>7. CASE r.kind # "refusal" \/ mode \notin {"checked", "coerced"}
  <2>1. v = r
    BY <1>1, <1>4, <1>7 DEF Parsed
  <2>2. r.kind = "refusal" => Leaky(k)
    BY <1>3, <1>4, <1>7 DEF Leaky, LetsThrough
  <2> QED BY <1>1, <1>2, <2>1, <2>2 DEF ValueOK
<1> QED BY <1>5, <1>6, <1>7

LEMMA LandInv ==
  ASSUME VInv, NEW k \in KeysOf(page), Land(k)
  PROVE  VInv'
<1>0. ShapeOK /\ EntryOK(k) /\ FlightOK(k)
  BY DEF VInv
<1>1. PICK v : v = Parsed(flight[k])
  OBVIOUS
<1>2. PICK e : e = [data |-> v, err |-> FALSE, invalid |-> FALSE]
  OBVIOUS
<1>3. /\ flight[k].res # NoData /\ v.kind # "broken"
      /\ entry' = [entry EXCEPT ![k] = e] /\ flight' = [flight EXCEPT ![k] = Idle]
      /\ UNCHANGED <<page, open, chosen, written, write, missed>>
      /\ fallen' = (fallen \/ \E p \in open : Shows(p, entry'[Key(p)]) = "crash")
  BY <1>1, <1>2 DEF Land, Update
<1>4. /\ entry'[k] = e /\ flight'[k] = Idle
      /\ \A j \in KeysOf(page) : j # k => entry'[j] = entry[j] /\ flight'[j] = flight[j]
      /\ DOMAIN entry' = DOMAIN entry /\ DOMAIN flight' = DOMAIN flight
  BY <1>0, <1>3 DEF ShapeOK
<1>5. /\ ValueOK(k, v) /\ v.kind \in {"rows", "refusal", "hollow", "broken"}
      /\ v.kind = "refusal" => Leaky(k)
      /\ v.kind = "hollow" => Coercing(k)
      /\ v.new = flight[k].res.new
  BY <1>1, <1>3, ParsedOK
<1>6. e.data = v /\ e.err = FALSE /\ e.invalid = FALSE
  BY <1>2
<1>7. e = [data |-> e.data, err |-> e.err, invalid |-> e.invalid]
  BY <1>2, <1>6, Zenon
<1>8. v.new => written
  BY <1>0, <1>5 DEF FlightOK
<1>9. EntryOK(k)'
  <2>1. (Leaky(k) <=> Leaky(k)') /\ (Coercing(k) <=> Coercing(k)')
    BY <1>3 DEF Leaky, Coercing
  <2>2. entry'[k].err \in BOOLEAN /\ entry'[k].invalid \in BOOLEAN /\ entry'[k].data = v
    BY <1>4, <1>6
  <2>3. entry'[k] = [data |-> entry'[k].data, err |-> entry'[k].err, invalid |-> entry'[k].invalid]
    BY <1>4, <1>7
  <2> QED BY <1>3, <1>5, <1>8, <2>1, <2>2, <2>3 DEF EntryOK
<1>10. FlightOK(k)'
  BY <1>4, NothingOK, IdleRecord DEF FlightOK
<1>11. RefreshedOK(k) => RefreshedOK(k)'
  BY <1>3, <1>4, <1>5, <1>6, NothingOK DEF RefreshedOK
<1> QED BY <1>3, <1>4, <1>9, <1>10, <1>11, OneKey

LEMMA LandFailsInv ==
  ASSUME VInv, NEW k \in KeysOf(page), LandFails(k)
  PROVE  VInv'
<1>0. ShapeOK /\ EntryOK(k) /\ FlightOK(k)
  BY DEF VInv
<1>1. flight[k].res # NoData /\ UNCHANGED <<page, written, write, missed>>
  BY DEF LandFails
<1>2. (Leaky(k) <=> Leaky(k)') /\ (Coercing(k) <=> Coercing(k)') /\ (Patched(k) <=> Patched(k)')
  BY <1>1 DEF Leaky, Coercing, Patched
<1>3. CASE flight[k].tries < Retry
  <2>1. /\ flight' = [flight EXCEPT ![k].tries = @ + 1, ![k].res = NoData]
        /\ UNCHANGED <<open, fallen, chosen, entry>>
    BY <1>3 DEF LandFails
  <2>2. /\ flight'[k] = [flight[k] EXCEPT !.tries = @ + 1, !.res = NoData]
        /\ \A j \in KeysOf(page) : j # k => flight'[j] = flight[j]
        /\ DOMAIN flight' = DOMAIN flight
    BY <1>0, <2>1 DEF ShapeOK
  <2>3. flight[k] = [by |-> flight[k].by, asked |-> flight[k].asked, tries |-> flight[k].tries,
                     res |-> flight[k].res] /\ flight[k] # Idle
    BY <1>0, <1>1, NothingOK DEF FlightOK
  <2>4. /\ flight'[k].by = flight[k].by /\ flight'[k].asked = flight[k].asked
        /\ flight'[k].res = NoData
        /\ flight'[k] = [by |-> flight'[k].by, asked |-> flight'[k].asked,
                         tries |-> flight'[k].tries, res |-> flight'[k].res]
    BY <2>2, <2>3
  <2>5. FlightOK(k)'
    BY <1>0, <1>1, <2>3, <2>4, NothingOK DEF FlightOK
  <2>6. EntryOK(k)'
    BY <1>0, <1>1, <1>2, <2>1 DEF EntryOK, ValueOK
  <2>7. RefreshedOK(k) => RefreshedOK(k)'
    BY <2>1, <2>4 DEF RefreshedOK
  <2> QED BY <1>1, <2>1, <2>2, <2>5, <2>6, <2>7, OneKey
<1>4. CASE ~(flight[k].tries < Retry)
  <2>1. /\ entry' = [entry EXCEPT ![k].err = TRUE] /\ flight' = [flight EXCEPT ![k] = Idle]
        /\ UNCHANGED <<open, chosen>>
        /\ fallen' = (fallen \/ \E p \in open : Shows(p, entry'[Key(p)]) = "crash")
    BY <1>4 DEF LandFails, Update
  <2>2. /\ entry'[k] = [entry[k] EXCEPT !.err = TRUE] /\ flight'[k] = Idle
        /\ \A j \in KeysOf(page) : j # k => entry'[j] = entry[j] /\ flight'[j] = flight[j]
        /\ DOMAIN entry' = DOMAIN entry /\ DOMAIN flight' = DOMAIN flight
    BY <1>0, <2>1 DEF ShapeOK
  <2>3. entry[k] = [data |-> entry[k].data, err |-> entry[k].err, invalid |-> entry[k].invalid]
    BY <1>0 DEF EntryOK
  <2>4. /\ entry'[k].data = entry[k].data /\ entry'[k].invalid = entry[k].invalid
        /\ entry'[k].err = TRUE
        /\ entry'[k] = [data |-> entry'[k].data, err |-> entry'[k].err, invalid |-> entry'[k].invalid]
    BY <2>2, <2>3
  <2>5. EntryOK(k)'
    BY <1>0, <1>1, <1>2, <2>4 DEF EntryOK, ValueOK
  <2>6. FlightOK(k)'
    BY <2>2, NothingOK, IdleRecord DEF FlightOK
  <2>7. RefreshedOK(k) => RefreshedOK(k)'
    BY <2>2, <2>4, NothingOK DEF RefreshedOK
  <2> QED BY <1>1, <2>1, <2>2, <2>5, <2>6, <2>7, OneKey
<1> QED BY <1>3, <1>4

LEMMA CollectInv ==
  ASSUME VInv, NEW k \in KeysOf(page), Collect(k)
  PROVE  VInv'
<1>0. ShapeOK /\ EntryOK(k) /\ FlightOK(k)
  BY DEF VInv
<1>1. /\ entry' = [entry EXCEPT ![k] = Absent]
      /\ UNCHANGED <<page, open, fallen, chosen, flight, written, write, missed>>
  BY DEF Collect
<1>2. /\ entry'[k] = Absent /\ \A j \in KeysOf(page) : j # k => entry'[j] = entry[j]
      /\ DOMAIN entry' = DOMAIN entry
  BY <1>0, <1>1 DEF ShapeOK
<1>3. EntryOK(k)'
  BY <1>2, AbsentRecord, NothingOK DEF EntryOK
<1>4. FlightOK(k)'
  BY <1>0, <1>1 DEF FlightOK, ValueOK
<1>5. RefreshedOK(k) => RefreshedOK(k)'
  BY <1>1, <1>2, AbsentRecord, NothingOK DEF RefreshedOK
<1> QED BY <1>1, <1>2, <1>3, <1>4, <1>5, OneKey

-----------------------------------------------------------------------------
(* Mutations.                                                              *)

LEMMA MutateInv ==
  ASSUME VInv, NEW q \in page, Mutate(q)
  PROVE  VInv'
<1>0. ShapeOK /\ StaysUp /\ \A j \in KeysOf(page) : EntryOK(j) /\ FlightOK(j)
  BY DEF VInv
<1>1. /\ write' = [by |-> q, st |-> "sent"]
      /\ UNCHANGED <<page, open, fallen, chosen, entry, flight, written, missed>>
  BY DEF Mutate
<1>2. ShapeOK'
  BY <1>0, <1>1 DEF ShapeOK
<1>3. WriteOK' /\ StaysUp'
  BY <1>0, <1>1 DEF WriteOK, StaysUp
<1>4. \A k \in KeysOf(page) : EntryOK(k)' /\ FlightOK(k)'
  BY <1>0, <1>1, KeyKept
<1> QED BY <1>1, <1>2, <1>3, <1>4 DEF VInv

LEMMA ApplyInv ==
  ASSUME VInv, Apply
  PROVE  VInv'
<1>0. ShapeOK /\ StaysUp /\ \A j \in KeysOf(page) : EntryOK(j) /\ FlightOK(j)
  BY DEF VInv
<1>1. /\ write.st = "sent" /\ \E t \in {"took", "refused", "failed"} : write' = [write EXCEPT !.st = t]
      /\ written' \in {written, TRUE}
      /\ UNCHANGED <<page, open, fallen, chosen, entry, flight, missed>>
  BY DEF Apply
<1>2. /\ write' = [by |-> write.by, st |-> write'.st] /\ write'.by = write.by
      /\ write'.st \in {"took", "refused", "failed"} /\ write.by \in page
  BY <1>0, <1>1 DEF ShapeOK
<1>3. ShapeOK'
  BY <1>0, <1>1, <1>2 DEF ShapeOK
<1>4. WriteOK' /\ StaysUp'
  BY <1>0, <1>1, <1>2 DEF WriteOK, StaysUp
<1>5. \A k \in KeysOf(page) : EntryOK(k)' /\ FlightOK(k)'
  <2>1. written => written'
    BY <1>1
  <2> QED BY <1>0, <1>1, <2>1, KeyKept
<1> QED BY <1>1, <1>3, <1>4, <1>5 DEF VInv

\* The end of a mutation, apart from what it does to the entries and the fetches.
LEMMA ConcludeShape ==
  ASSUME ShapeOK, Conclude, DOMAIN entry' = DOMAIN entry, DOMAIN flight' = DOMAIN flight
  PROVE  /\ ShapeOK' /\ write.by \in page /\ write'.by = write.by
         /\ write'.st = IF Succeeded THEN "done" ELSE "idle"
         /\ UNCHANGED <<page, open, fallen, chosen, written>>
<1>1. /\ write.st \in {"took", "refused", "failed"}
      /\ write' = [write EXCEPT !.st = IF Succeeded THEN "done" ELSE "idle"]
      /\ UNCHANGED <<page, open, fallen, chosen, written>>
  BY DEF Conclude
<1>2. /\ write'.by = write.by /\ write'.st = IF Succeeded THEN "done" ELSE "idle"
      /\ write' = [by |-> write'.by, st |-> write'.st] /\ write.by \in page
  BY <1>1 DEF ShapeOK
<1> QED BY <1>1, <1>2 DEF ShapeOK

LEMMA ConcludeInv ==
  ASSUME VInv, Conclude
  PROVE  VInv'
<1>0. ShapeOK /\ WriteOK /\ StaysUp /\ \A j \in KeysOf(page) : EntryOK(j) /\ FlightOK(j)
  BY DEF VInv
<1>d. DOMAIN entry = KeysOf(page) /\ DOMAIN flight = KeysOf(page)
  BY <1>0 DEF ShapeOK
<1>p. UNCHANGED <<page, open, fallen, chosen, written>>
  BY DEF Conclude
<1>l. ASSUME NEW k
      PROVE  /\ Leaky(k) <=> Leaky(k)'
             /\ Coercing(k) <=> Coercing(k)'
             /\ Patched(k) <=> Patched(k)'
  BY <1>p DEF Leaky, Coercing, Patched
<1>1. CASE ~Succeeded
  <2>1. UNCHANGED <<entry, flight, missed>>
    BY <1>1 DEF Conclude
  <2>2. ShapeOK' /\ write'.st = "idle"
    BY <1>0, <1>1, <2>1, ConcludeShape
  <2>3. WriteOK' /\ StaysUp'
    BY <1>0, <1>p, <2>2 DEF WriteOK, StaysUp
  <2>4. \A k \in KeysOf(page) : EntryOK(k)' /\ FlightOK(k)'
    BY <1>0, <1>p, <2>1, KeyKept
  <2> QED BY <1>p, <2>2, <2>3, <2>4 DEF VInv
<1>2. CASE Succeeded /\ Queries[write.by].how = "patch"
  <2>1. setQueryData(Queries[write.by].writes)
    BY <1>2 DEF Conclude
  <2>2. /\ DOMAIN entry' = DOMAIN entry /\ UNCHANGED <<flight, missed>>
        /\ \A k \in KeysOf(page) :
             IF k \in Stale(Queries[write.by].writes) /\ entry[k].data.kind = "rows"
             THEN entry'[k] = [entry[k] EXCEPT !.data.new = TRUE] ELSE entry'[k] = entry[k]
    BY <1>d, <2>1 DEF setQueryData
  <2>3. ShapeOK' /\ write.by \in page /\ write'.by = write.by
    BY <1>0, <2>2, ConcludeShape
  <2>4. WriteOK' /\ StaysUp'
    BY <1>0, <1>2, <1>p, <2>3 DEF WriteOK, StaysUp
  <2>5. ASSUME NEW k \in KeysOf(page) PROVE EntryOK(k)' /\ FlightOK(k)'
    <3>1. CASE entry'[k] = entry[k]
      BY <1>0, <1>p, <2>2, <3>1, KeyKept
    <3>2. CASE entry'[k] = [entry[k] EXCEPT !.data.new = TRUE] /\ k[1] \in Queries[write.by].writes
               /\ entry[k].data.kind = "rows"
      <4>1. Patched(k)
        BY <1>2, <2>3, <3>2 DEF Patched
      <4>2. /\ entry[k] = [data |-> entry[k].data, err |-> entry[k].err, invalid |-> entry[k].invalid]
            /\ entry[k].data = [kind |-> entry[k].data.kind, asked |-> entry[k].data.asked,
                                new |-> entry[k].data.new]
            /\ entry[k].data.asked = k[2]
        BY <1>0, <3>2, NothingOK DEF EntryOK, ValueOK
      <4>3. entry'[k] = [data |-> [entry[k].data EXCEPT !.new = TRUE], err |-> entry[k].err,
                         invalid |-> entry[k].invalid]
        BY <3>2, <4>2
      <4>4. entry'[k].data = [kind |-> "rows", asked |-> entry[k].data.asked, new |-> TRUE]
        BY <3>2, <4>2, <4>3
      <4>5. /\ entry'[k].data.kind = "rows" /\ entry'[k].data.asked = k[2] /\ entry'[k].data.new = TRUE
            /\ entry'[k].err = entry[k].err /\ entry'[k].invalid = entry[k].invalid
        BY <4>2, <4>3, <4>4
      <4>6. /\ entry'[k] = [data |-> entry'[k].data, err |-> entry'[k].err,
                            invalid |-> entry'[k].invalid]
            /\ entry'[k].data = [kind |-> entry'[k].data.kind, asked |-> entry'[k].data.asked,
                                 new |-> entry'[k].data.new]
        BY <4>3, <4>4
      <4>7. EntryOK(k)'
        BY <1>0, <1>l, <4>1, <4>5, <4>6 DEF EntryOK, ValueOK
      <4>8. FlightOK(k)'
        BY <1>0, <1>p, <2>2 DEF FlightOK, ValueOK
      <4> QED BY <4>7, <4>8
    <3> QED BY <2>2, <3>1, <3>2 DEF Stale
  <2> QED BY <1>p, <2>3, <2>4, <2>5 DEF VInv
<1>3. CASE Succeeded /\ Queries[write.by].how # "patch"
  <2> DEFINE ks == Queries[write.by].writes
  <2>1. invalidateQueries(ks)
    BY <1>3 DEF Conclude
  <2>2. /\ DOMAIN entry' = DOMAIN entry /\ DOMAIN flight' = DOMAIN flight
        /\ missed' = {k \in Stale(ks) \ Refreshed(ks) : flight[k] # Idle}
    BY <2>1 DEF invalidateQueries
  <2>3. ASSUME NEW k \in KeysOf(page)
        PROVE  entry'[k] = IF k \in Stale(ks) THEN [entry[k] EXCEPT !.invalid = TRUE] ELSE entry[k]
    BY <1>d, <2>1 DEF invalidateQueries
  <2>4. ASSUME NEW k \in KeysOf(page)
        PROVE  IF k \in Refreshed(ks)
               THEN \E q \in page : Key(q) = k /\ flight'[k] = Ask(q, chosen)
               ELSE flight'[k] = flight[k]
    <3>1. Mounted \subseteq page
      BY <1>0 DEF Mounted, ShapeOK
    <3> QED BY <1>d, <2>1, <3>1 DEF invalidateQueries
  <2>5. ShapeOK' /\ write'.by = write.by
    BY <1>0, <2>2, ConcludeShape
  <2>6. ASSUME NEW k \in KeysOf(page) PROVE EntryOK(k)'
    <3>1. CASE entry'[k] = entry[k]
      BY <1>0, <1>l, <1>p, <3>1 DEF EntryOK, ValueOK
    <3>2. CASE entry'[k] = [entry[k] EXCEPT !.invalid = TRUE]
      <4>1. entry[k] = [data |-> entry[k].data, err |-> entry[k].err, invalid |-> entry[k].invalid]
        BY <1>0 DEF EntryOK
      <4>2. /\ entry'[k].data = entry[k].data /\ entry'[k].err = entry[k].err
            /\ entry'[k].invalid = TRUE
            /\ entry'[k] = [data |-> entry'[k].data, err |-> entry'[k].err,
                            invalid |-> entry'[k].invalid]
        BY <3>2, <4>1
      <4> QED BY <1>0, <1>l, <1>p, <4>2 DEF EntryOK, ValueOK
    <3> QED BY <2>3, <3>1, <3>2
  <2>7. ASSUME NEW k \in KeysOf(page) PROVE FlightOK(k)'
    <3>1. CASE flight'[k] = flight[k]
      BY <1>0, <1>p, <3>1 DEF FlightOK, ValueOK
    <3>2. ASSUME NEW q \in page, Key(q) = k, flight'[k] = Ask(q, chosen) PROVE FlightOK(k)'
      <4>1. PICK f : f = Ask(q, chosen)
        OBVIOUS
      <4>2. /\ f = [by |-> f.by, asked |-> f.asked, tries |-> f.tries, res |-> f.res]
            /\ f.by = q /\ Queries[f.by].key = k[1] /\ f.asked = k[2] /\ f.res = NoData
        BY <1>0, <3>2, <4>1, AskOK
      <4> QED BY <1>p, <3>2, <4>1, <4>2, NothingOK DEF FlightOK
    <3> QED BY <2>4, <3>1, <3>2
  <2>8. WriteOK'
    <3> SUFFICES ASSUME NEW k \in Stale(ks), k \notin missed' PROVE RefreshedOK(k)'
      BY <2>2, <2>5 DEF WriteOK, Stale
    <3>1. k \in KeysOf(page)
      BY <1>d DEF Stale
    <3>2. entry'[k].invalid = TRUE
      <4>1. entry[k] = [data |-> entry[k].data, err |-> entry[k].err, invalid |-> entry[k].invalid]
        BY <1>0, <3>1 DEF EntryOK
      <4>2. entry'[k] = [entry[k] EXCEPT !.invalid = TRUE]
        BY <2>3, <3>1
      <4> QED BY <4>1, <4>2
    <3>3. flight'[k].res = NoData
      <4>1. CASE k \in Refreshed(ks)
        <5>1. PICK q \in page : Key(q) = k /\ flight'[k] = Ask(q, chosen)
          BY <2>4, <3>1, <4>1
        <5> QED BY <5>1 DEF Ask
      <4>2. CASE k \notin Refreshed(ks)
        <5>1. flight'[k] = Idle
          BY <2>2, <2>4, <3>1, <4>2
        <5> QED BY <5>1, NothingOK
      <4> QED BY <4>1, <4>2
    <3> QED BY <3>2, <3>3 DEF RefreshedOK
  <2>9. StaysUp'
    BY <1>0, <1>p DEF StaysUp
  <2> QED BY <1>p, <2>5, <2>6, <2>7, <2>8, <2>9 DEF VInv
<1> QED BY <1>1, <1>2, <1>3

\* The server's health is nobody's state.
LEMMA ServerInv ==
  ASSUME VInv, Disrupt \/ Mend \/ UNCHANGED vars
  PROVE  VInv'
<1>1. UNCHANGED <<page, open, fallen, chosen, entry, flight, written, write, missed>>
  BY DEF Disrupt, Mend, vars
<1>2. ShapeOK /\ WriteOK /\ StaysUp /\ \A j \in KeysOf(page) : EntryOK(j) /\ FlightOK(j)
  BY DEF VInv
<1>3. ShapeOK' /\ StaysUp'
  BY <1>1, <1>2 DEF ShapeOK, StaysUp
<1>4. WriteOK'
  BY <1>1, <1>2 DEF WriteOK, RefreshedOK, Stale
<1>5. \A k \in KeysOf(page) : EntryOK(k)' /\ FlightOK(k)'
  BY <1>1, <1>2, KeyKept
<1> QED BY <1>1, <1>3, <1>4, <1>5 DEF VInv

LEMMA ViewsStep ==
  ASSUME VInv, [Next]_vars
  PROVE  VInv'
<1>0. open \subseteq page /\ chosen \in Selections /\ DOMAIN entry = KeysOf(page)
  BY DEF VInv, ShapeOK
<1>1. CASE Open
  <2>1. PICK q \in page \ open : Render(open \cup {q}, chosen)
    BY <1>1 DEF Open
  <2>2. open \cup {q} \in SUBSET page
    BY <1>0, <2>1
  <2> QED BY <1>0, <1>1, <2>1, <2>2, RenderInv DEF Open
<1>2. CASE Close
  <2>1. PICK q \in open : Render(open \ {q}, chosen)
    BY <1>2 DEF Close
  <2>2. open \ {q} \in SUBSET page
    BY <1>0
  <2> QED BY <1>0, <1>2, <2>1, <2>2, RenderInv DEF Close
<1>3. CASE Choose
  <2>1. PICK s \in Selections : Render(open, s)
    BY <1>3 DEF Choose
  <2>2. open \in SUBSET page
    BY <1>0
  <2> QED BY <1>3, <2>1, <2>2, RenderInv DEF Choose
<1>4. CASE RetryPage
  <2>1. open \in SUBSET page
    BY <1>0
  <2> QED BY <1>0, <1>4, <2>1, RenderInv DEF RetryPage
<1>5. CASE \E q \in page : Fetch(q) \/ Mutate(q)
  BY <1>5, FetchInv, MutateInv
<1>6. CASE \E k \in DOMAIN entry : Answer(k) \/ Land(k) \/ LandFails(k) \/ Collect(k)
  BY <1>0, <1>6, AnswerInv, LandInv, LandFailsInv, CollectInv
<1> QED BY <1>1, <1>2, <1>3, <1>4, <1>5, <1>6, ApplyInv, ConcludeInv, ServerInv DEF Next

\* The invariant of the views holds in every reachable state.
LEMMA ViewsInvariant == Spec => []VInv
<1>1. VInv /\ [Next]_vars => VInv'
  BY ViewsStep
<1> QED BY <1>1, ViewsInit, PTL DEF Spec

-----------------------------------------------------------------------------
(* What the user sees.                                                     *)

\* However late an answer comes, and whatever the user chose meanwhile, a view shows
\* only rows that were asked for with its present selection (the selection is part of
\* the queryKey).
THEOREM ShowsOwnSelection == Spec => []OwnSelection
<1>1. VInv => OwnSelection
  <2> SUFFICES ASSUME VInv, NEW q \in Mounted, Screen(q) = "rows"
               PROVE  entry[Key(q)].data.asked = Part(q, chosen)
    BY DEF OwnSelection
  <2>1. q \in page /\ chosen \in Selections /\ page \in Pages
    BY DEF VInv, ShapeOK, Mounted
  <2>2. Key(q) \in KeysOf(page)
    BY <2>1, KeyThere DEF Key
  <2>3. EntryOK(Key(q))
    BY <2>2 DEF VInv
  <2>4. entry[Key(q)].data # NoData
    <3>1. Queries[q].lone # "rows"
      BY <2>1, PagesAssumption, LoneAssumption
    <3>2. entry[Key(q)].data.kind # "none"
      BY <3>1 DEF Screen, Shows
    <3> QED BY <3>2, NothingOK
  <2> QED BY <2>3, <2>4, KeyParts DEF EntryOK, ValueOK, Key
<1> QED BY <1>1, ViewsInvariant, PTL

\* Only a view that the table calls fragile takes a page down: an error body reaches a
\* view that throws on it only through a query with the same key that does not test
\* r.ok (the queryFns of components/), whatever the retries, outages and moves.
THEOREM OnlyFragileFall == Spec => []StaysUp
<1>1. VInv => StaysUp
  BY DEF VInv
<1> QED BY <1>1, ViewsInvariant, PTL

\* A view that the table calls frank shows as its content only rows of an ok answer,
\* marked when the last refresh failed, and a change only if it was made.
THEOREM FrankViewsTruthful == Spec => []Truthful
<1>1. VInv => Truthful
  <2> SUFFICES ASSUME VInv, NEW q \in Mounted \cap Frank, NEW e, e = entry[Key(q)],
                      Shows(q, e) \in {"rows", "empty", "blank"}
               PROVE  e.data.kind = "rows" /\ (e.err => Marked(q, e)) /\ (e.data.new => written)
    BY DEF Truthful, Screen
  <2>1. q \in page \cap Frank /\ chosen \in Selections /\ page \in Pages
    BY DEF VInv, ShapeOK, Mounted
  <2>2. PICK k \in KeysOf(page) : k = Key(q)
    BY <2>1, KeyThere DEF Key
  <2>3. k[1] = Queries[q].key
    BY <2>2, KeyParts DEF Key
  <2>4. EntryOK(k) /\ e = entry[k]
    BY <2>2 DEF VInv
  <2>5. Queries[q].lone \notin Content /\ Queries[q].over \in {"failure", "stale"}
    BY <2>1, FrankAssumption
  <2>6. ~Coercing(k) /\ ~Patched(k) /\ (Leaky(k) => Queries[q].body \notin Content)
    BY <2>1, <2>3, FrankAssumption DEF Coercing, Patched, Leaky, Sharers
  <2>7. e.data.kind \in {"none", "rows", "refusal"} /\ (e.data.new => written)
        /\ (e.data.kind = "refusal" => Queries[q].body \notin Content)
    BY <2>4, <2>6 DEF EntryOK
  <2>8. e.data.kind = "rows"
    BY <2>5, <2>7 DEF Shows, Content
  <2>9. e.err => Queries[q].over = "stale"
    <3> SUFFICES ASSUME e.err, Queries[q].over # "stale" PROVE FALSE
      OBVIOUS
    <3>1. Shows(q, e) = "failure"
      BY <2>5, <2>8 DEF Shows
    <3> QED BY <3>1
  <2> QED BY <2>7, <2>8, <2>9 DEF Marked
<1> QED BY <1>1, ViewsInvariant, PTL

\* Once a mutation is done, no entry it invalidated shows rows from before it, except
\* one whose fetch could not be replaced (invalidateQueries in onSuccess).
THEOREM OwnWriteSeen == Spec => []SeesOwnWrite
<1>1. VInv => SeesOwnWrite
  BY DEF VInv, WriteOK, RefreshedOK, SeesOwnWrite
<1> QED BY <1>1, ViewsInvariant, PTL
=============================================================================
