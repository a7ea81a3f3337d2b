\* Two writers opened with different epochs.
CONSTANTS
  Writers = {w1, w2}
  Grants = {g1, g2}
  Epochs = {0, 1}
  MaxEntries = 2
  MaxRollbacks = 0
SPECIFICATION Spec
SYMMETRY Symmetry
INVARIANT EpochMonotone
