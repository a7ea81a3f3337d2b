SPECIFICATION Spec
CONSTANTS
  Prog <- MCProg
  Dims <- KeyDims
  Paged <- MCPaged
  ObjectReads <- MCObjectReads
  PlainReads <- MCPlainReads
  Areas <- MCAreas
  Callers <- MCCallers
  RoleOf <- MCRoleOf
  Allowed <- MCAllowed
  Mapped <- MCMapped
  Owned <- MCOwned
  Everything = {"adm"}
  Unmapped = {"guest"}
  Slots = {"s1", "s2"}
  Honest <- MCHonest
  Guarded <- MCGuarded
  Scoped <- MCScoped
  Deciding <- MCDeciding
  Frank <- MCFrank
  Whole <- MCWhole
  Marked <- MCMarked
  Rescoping <- MCRescoping
  Own <- MCOwn
  OwnKeys <- MCOwnKeys
  Seen <- MCSeen
  Full <- MCFull
  FullKeys <- MCFullKeys
  Covering <- MCCovering
  CoveringKeys <- MCCoveringKeys
  Touching <- MCTouching
  Landing <- MCLanding
  Clearing <- MCClearing
  Renewing <- MCRenewing
  Tracked <- MCTracked
  Steady <- MCSteady
  SteadyKeys <- MCSteadyKeys
  Direct <- MCDirect
  Scenarios <- All
INVARIANTS  ScopedEntries LossDisclosed WholeEntries FreshUnlessRaced  DuplicateTookEffect ClosedUnlessCrashed
CHECK_DEADLOCK FALSE
