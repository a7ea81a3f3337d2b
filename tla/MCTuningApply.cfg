\* Two requests with one approval on one replica.
CONSTANTS
  Replicas = {r1}
  Keys = {k1}
  Calls = {c1, c2}
  TTL <- MCTTL
  MaxEntries = 1
  CallTicks = 1
  FulfillKeys = {}
  MayCrash = TRUE
  MaxClock = 2
  MaxRestarts = 1
  ApprovalTTL = 1
SPECIFICATION TSpec
SYMMETRY Symmetry
INVARIANTS   CompletedMeansSucceeded NoJobLeftRunning
CHECK_DEADLOCK FALSE
