\* One writer, two countersigners and a verifier.
CONSTANTS
  Writers = {w1}
  Signers = {s1, s2}
  Grants = {g1}
  Epochs = {0}
  MaxEntries = 3
  MaxRollbacks = 1
SPECIFICATION CpSpec
SYMMETRY Symmetry
INVARIANTS OneHistory
PROPERTIES PassMeansIntact 
