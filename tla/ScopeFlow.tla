----------------------------- MODULE ScopeFlow -----------------------------
(***************************************************************************)
(* What an answer shows, read off the text of the portal's programs.  A    *)
(* value is bounded from above by the one area the request names, or by    *)
(* the caller's scope once it was filtered, and from below by everything   *)
(* or, once it was filtered, by that scope: unless data is missing from    *)
(* it.  A bound by the scope ends where the scope is resolved again.       *)
(***************************************************************************)
EXTENDS LossFlow

CONSTANTS
  ObjectReads,  \* upstream reads of the one object a request names
  PlainReads,   \* upstream reads of configuration, which show no area
  Rescoping,    \* programs that may resolve the caller's scope
  Own,          \* programs whose result shows no area but the request's own
  OwnKeys,      \* cache namespaces whose entries show no area but the one in the key
  Seen,         \* programs whose result shows nothing outside the scope
  Scoped,       \* cache namespaces that hold what one scope may see
  Full,         \* programs whose result shows every area, unless data is missing
  FullKeys,     \* cache namespaces whose entries do
  Covering,     \* programs whose result shows all of the scope, unless data is missing
  CoveringKeys  \* cache namespaces whose entries show all of the scope in the key

Calls(s) == s.op \in Reads /\ s.arg \in DOMAIN Prog
Rescopes(s) == s.op = "Scope" \/ (Calls(s) /\ s.arg \in Rescoping)

\* What the step reads becomes part of what the value shows.
Brings(s) == s.op \in Reads \ {"Scope", "Fire", "Each"}

EmptyStep(s) == Brings(s) => s.arg \notin DOMAIN Prog /\ s.arg \in PlainReads
OwnStep(s) == Brings(s) => IF s.arg \in DOMAIN Prog THEN s.arg \in Own ELSE s.arg \in ObjectReads \cup PlainReads
SeenStep(s) == ~Rescopes(s) /\ (Brings(s) => IF s.arg \in DOMAIN Prog THEN s.arg \in Seen ELSE s.arg \in PlainReads)
BringsAll(s) ==
  Brings(s) /\ IF s.arg \in DOMAIN Prog THEN s.arg \in Full ELSE s.arg \notin ObjectReads \cup PlainReads
BringsScope(s) == Brings(s) /\ s.arg \in DOMAIN Prog /\ s.arg \in Covering

\* What holds of the value, or of the scope, when the steps before the n-th are done.
EmptyBefore(c, n) == \A i \in DOMAIN c.steps : i < n => EmptyStep(c.steps[i])
OwnBefore(c, n) == \A i \in DOMAIN c.steps : i < n => OwnStep(c.steps[i])
GatedBefore(c, n) ==
  \E j \in DOMAIN c.steps :
    j < n /\ c.steps[j].op = "Gate" /\ \A i \in DOMAIN c.steps : j < i /\ i < n => ~Rescopes(c.steps[i])
SeenBefore(c, n) ==
  \/ EmptyBefore(c, n)
  \/ \E j \in DOMAIN c.steps :
       /\ j < n /\ (c.steps[j].op = "Filter" \/ EmptyBefore(c, j + 1))
       /\ \A i \in DOMAIN c.steps : j < i /\ i < n => SeenStep(c.steps[i])
FullBefore(c, n) ==
  \E j \in DOMAIN c.steps :
    j < n /\ BringsAll(c.steps[j]) /\ \A i \in DOMAIN c.steps : j < i /\ i < n => c.steps[i].op # "Filter"
CoveringBefore(c, n) ==
  \/ FullBefore(c, n)
  \/ \E j \in DOMAIN c.steps :
       /\ j < n /\ ((c.steps[j].op = "Filter" /\ FullBefore(c, j)) \/ BringsScope(c.steps[j]))
       /\ \A i \in DOMAIN c.steps : j < i /\ i < n => ~Rescopes(c.steps[i])

\* A program returns at its end, from a cache hit, or with an empty answer.
HitsIn(c, K) == \A i \in DOMAIN c.steps : c.steps[i].op = "Hit" => c.steps[i].arg \in K
OwnProgram(c) == OwnBefore(c, Len(c.steps) + 1) /\ HitsIn(c, OwnKeys)
SeenProgram(c) ==
  LET n == Len(c.steps) + 1 IN
  /\ SeenBefore(c, n) \/ (OwnBefore(c, n) /\ GatedBefore(c, n))
  /\ \A i \in DOMAIN c.steps :
       c.steps[i].op = "Hit" =>
         c.steps[i].arg \in Scoped \/ (c.steps[i].arg \in OwnKeys /\ GatedBefore(c, i))
FullProgram(c) ==
  /\ FullBefore(c, Len(c.steps) + 1) /\ HitsIn(c, FullKeys)
  /\ \A i \in DOMAIN c.steps : c.steps[i].op # "Nothing"
CoveringProgram(c) == CoveringBefore(c, Len(c.steps) + 1) /\ HitsIn(c, CoveringKeys)
=============================================================================
