----------------------------- MODULE EffectFlow -----------------------------
(***************************************************************************)
(* What a program of the portal has done upstream and in the cache by the  *)
(* time it goes on, and whether what it holds can be stale, read off its   *)
(* text.                                                                   *)
(***************************************************************************)
EXTENDS ScopeFlow

CONSTANTS
  Touching,    \* program -> the upstream objects it may change
  Landing,     \* program -> those it has changed when it returns
  Clearing,    \* program -> the cache namespaces it has purged when it returns
  Renewing,    \* program -> <<object, namespace>>: it purged the namespace after changing the object
  Tracked,     \* upstream objects whose changes are followed
  Steady,      \* programs whose result holds no tracked object
  SteadyKeys,  \* cache namespaces whose entries hold none
  Direct       \* programs whose result, but for steady parts, is read upstream during the call

\* The step is passed only when the program it calls has returned.
Waits(s) == Calls(s) /\ s.op \in Propagating \ {"Scope"}

\* The program returns at its end only; a throw reaches its caller.
Straight(c) == c.fail \in {"throw", "error"} /\ \A i \in DOMAIN c.steps : c.steps[i].op \notin {"Hit", "Nothing"}

MayChange(s, T) == (s.op = "Write" /\ s.arg \in T) \/ (Calls(s) /\ Touching[s.arg] \cap T # {})
HasChanged(s, T) == (s.op = "Write" /\ s.arg \in T) \/ (Waits(s) /\ Landing[s.arg] \cap T # {})
HasPurged(s, k) == (s.op \in {"Del", "Purge"} /\ s.arg = k) \/ (Waits(s) /\ k \in Clearing[s.arg])

Untouching(c, T) == \A i \in DOMAIN c.steps : ~MayChange(c.steps[i], T)
OneChange(c, T) ==
  \A i, j \in DOMAIN c.steps : MayChange(c.steps[i], T) /\ MayChange(c.steps[j], T) => i = j

ChangedBefore(c, n, T) == \E i \in DOMAIN c.steps : i < n /\ HasChanged(c.steps[i], T)
PurgedBefore(c, n, k) == \E i \in DOMAIN c.steps : i < n /\ HasPurged(c.steps[i], k)
RenewedBefore(c, n, T, k) ==
  \E j \in DOMAIN c.steps :
    /\ j < n
    /\ \/ HasPurged(c.steps[j], k) /\ ChangedBefore(c, j, T)
       \/ Waits(c.steps[j]) /\ \E t \in T : <<t, k>> \in Renewing[c.steps[j].arg]

\* What the step reads becomes part of the value.
Adds(s) == s.op \in Reads \ {"Scope", "Fire"}
SteadyStep(s) ==
  /\ s.op = "Hit" => s.arg \in SteadyKeys
  /\ Adds(s) => IF s.arg \in DOMAIN Prog THEN s.arg \in Steady ELSE s.arg \notin Tracked
DirectStep(s) == Adds(s) /\ s.arg \in DOMAIN Prog => s.arg \in Steady \cup Direct

SteadyBefore(c, n) == \A i \in DOMAIN c.steps : i < n => SteadyStep(c.steps[i])
DirectBefore(c, n) == \A i \in DOMAIN c.steps : i < n => DirectStep(c.steps[i])

LandingProgram(c, t) == Straight(c) /\ ChangedBefore(c, Len(c.steps) + 1, {t})
ClearingProgram(c, k) == Straight(c) /\ PurgedBefore(c, Len(c.steps) + 1, k)
RenewingProgram(c, t, k) == Straight(c) /\ RenewedBefore(c, Len(c.steps) + 1, {t}, k)
SteadyProgram(c) == SteadyBefore(c, Len(c.steps) + 1)
DirectProgram(c) ==
  DirectBefore(c, Len(c.steps) + 1) /\ \A i \in DOMAIN c.steps : c.steps[i].op # "Hit"
=============================================================================
