\* One replica that restarts and whose Valkey commands may fail; rings of two
\* events rotate.
CONSTANTS
  Replicas = {r1}
  Clients = {c1}
  Retention = 2
  Snapshot = 2
  MayFail = TRUE
  MayRestart = TRUE
  MaxPush = 3
  MaxConnect = 2
SPECIFICATION Spec
INVARIANTS
  RetainedCursorReplayed
  LostOnlyInWindow
  
  GaugeExact
