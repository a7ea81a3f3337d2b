\* One replica whose lease renewal fails.
CONSTANTS
  Replicas = {r1}
  Nobody = nobody
  LeaseTTL = 3
  RenewDelay = 2
  Expiry = {"status"}
  MaxEvents = 2
  MaxFaults = 0
  MaxOutages = 1
  MaxCrashes = 0
SPECIFICATION Spec
INVARIANTS
  NeverStops
