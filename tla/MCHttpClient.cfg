\* Three attempts; the clock covers every timeout and backoff.
CONSTANTS
  MaxAttempts = 3
  Timeout = 2
  BaseDelay = 1
  MaxDelay = 3
  MaxBytes = 2
  ChunkSizes = {0, 1, 2}
  MaxClock = 15
SPECIFICATION FairSpec
INVARIANTS BodiesReleased HeadersInTime BodyInTime
PROPERTIES ImplementsPromise Settles
CHECK_DEADLOCK FALSE
