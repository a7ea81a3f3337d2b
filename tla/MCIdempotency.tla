---------------------------- MODULE MCIdempotency ----------------------------
(* Instances of the dedup store for TLC: every key lives two clock ticks. *)
EXTENDS Idempotency, TLC

MCTTL == [k \in Keys |-> 2]

Symmetry == Permutations(Calls) \cup Permutations(Keys) \cup Permutations(Replicas)
===============================================================================
