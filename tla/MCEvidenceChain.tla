--------------------------- MODULE MCEvidenceChain ---------------------------
\* Model values for EvidenceChain.
EXTENDS EvidenceChain, TLC

Symmetry == Permutations(Writers) \cup Permutations(Grants)
=============================================================================
