------------------------ MODULE MCEvidenceCheckpoints ------------------------
\* Model values for EvidenceCheckpoints.
EXTENDS EvidenceCheckpoints, TLC

Symmetry == Permutations(Signers) \cup Permutations(Grants)
=============================================================================
