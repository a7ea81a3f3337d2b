\* Callers of two replicas that share Valkey; each map evicts at one entry.
CONSTANTS
  Replicas = {r1, r2}
  Keys = {k1, k2}
  Calls = {c1, c2}
  TTL <- MCTTL
  MaxEntries = 1
  CallTicks = 1
  FulfillKeys = {k1, k2}
  MayCrash = TRUE
  MaxClock = 2
SPECIFICATION Spec
SYMMETRY Symmetry
INVARIANTS NoSecondWinner ValkeyGrantsApart 
