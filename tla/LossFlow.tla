------------------------------ MODULE LossFlow ------------------------------
(***************************************************************************)
(* How far missing data travels through the portal's programs, read off    *)
(* their text.  A read that fails, is cut at the page cap or is answered   *)
(* by a default leaves data out of a value; whether the value says so      *)
(* depends on how each step on the way awaits the one before it.           *)
(*                                                                         *)
(* A step is frank when a value that admits what it misses still does      *)
(* after it, and whole when one that misses nothing still misses nothing.  *)
(***************************************************************************)
EXTENDS Integers, Sequences, Steps

CONSTANTS
  Prog,     \* program name -> [steps, fail]
  Paged,    \* upstream lists that are read page by page up to a cap
  Frank,    \* programs whose result admits what it misses
  Whole,    \* programs whose result misses nothing
  Marked,   \* cache namespaces whose entries admit what they miss
  Guarded   \* cache namespaces that hold whole answers only

FrankRead(a) == a \in DOMAIN Prog => a \in Frank
WholeRead(a) == IF a \in DOMAIN Prog THEN a \in Whole ELSE a \notin Paged

FrankStep(s) ==
  /\ s.op # "Hush"
  /\ s.op = "Hit" => s.arg \in Marked
  /\ s.op \in Reads =>
       \/ s.op \in {"Scope", "Fire"}
       \/ s.op \in Recorded \cup {"Need", "Must", "Try"} /\ FrankRead(s.arg)
       \/ s.op = "Bare" /\ WholeRead(s.arg)

WholeStep(s) ==
  /\ s.op = "Hit" => s.arg \in Guarded
  /\ s.op \in Reads =>
       \/ s.op \in {"Scope", "Fire"}
       \/ s.op \in Recorded \cup {"Need", "Must", "Bare"} /\ WholeRead(s.arg)
       \/ s.op = "Must" /\ FrankRead(s.arg)

FrankBefore(c, n) == \A i \in DOMAIN c.steps : i < n => FrankStep(c.steps[i])
WholeBefore(c, n) == \A i \in DOMAIN c.steps : i < n => WholeStep(c.steps[i])

FrankProgram(c) == c.fail # "empty" /\ FrankBefore(c, Len(c.steps) + 1)
WholeProgram(c) == c.fail \in {"throw", "error"} /\ WholeBefore(c, Len(c.steps) + 1)

\* What the n-th step of c may store under a marked or a guarded namespace.
\* PutWhole stores only what bears no mark.
StoresMarked(c, n) ==
  c.steps[n].op \in {"Put", "PutIfSome", "PutWhole"} => FrankBefore(c, n)
StoresWhole(c, n) ==
  /\ c.steps[n].op \in {"Put", "PutIfSome"} => WholeBefore(c, n)
  /\ c.steps[n].op = "PutWhole" => FrankBefore(c, n)
=============================================================================
