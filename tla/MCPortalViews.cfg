SPECIFICATION Spec
CONSTANTS
  Pages <- MCPages
  Selections = {"a", "b"}
  Retry = 2
  MaxOutages = 1
  MaxMoves = 3
  Frank <- MCFrank
  Fragile <- MCFragile
INVARIANTS OwnSelection  StaysUp 
PROPERTY Recovers
CHECK_DEADLOCK FALSE
