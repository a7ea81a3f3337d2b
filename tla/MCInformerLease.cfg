\* Two replicas, crashes and Valkey failures around the lease.
CONSTANTS
  Replicas = {r1, r2}
  Nobody = nobody
  LeaseTTL = 3
  RenewDelay = 2
  Expiry = {"status", "event"}
  MaxEvents = 2
  MaxFaults = 1
  MaxOutages = 1
  MaxCrashes = 1
SPECIFICATION Spec
SYMMETRY Symmetry
INVARIANTS
  LeaseExclusive
  
  
