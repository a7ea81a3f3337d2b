\* Two replicas that crash, failing API requests and expired cursors.
CONSTANTS
  Replicas = {r1, r2}
  Nobody = nobody
  LeaseTTL = 3
  RenewDelay = 2
  Expiry = {"status"}
  MaxEvents = 2
  MaxFaults = 1
  MaxOutages = 0
  MaxCrashes = 1
SPECIFICATION FairSpec
PROPERTIES
  AlwaysWatched
  
