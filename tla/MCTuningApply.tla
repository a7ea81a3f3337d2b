----------------------------- MODULE MCTuningApply -----------------------------
\* Model values for TuningApply.
EXTENDS TuningApply, TLC

MCTTL == [k \in Keys |-> 2]
Symmetry == Permutations(Calls)
===============================================================================
