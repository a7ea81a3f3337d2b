\* Two writers, crashes, power losses, failing writes, one restored older chain.
CONSTANTS
  Writers = {w1, w2}
  Grants = {g1, g2}
  Epochs = {0, 1}
  MaxEntries = 3
  MaxRollbacks = 1
SPECIFICATION Spec
SYMMETRY Symmetry
INVARIANTS SpendOnce AckedKept WriterSpendsOnce
