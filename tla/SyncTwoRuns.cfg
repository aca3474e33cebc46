\* Two runs of one repository, two workers and a user. Connections: two projects
\* and two requests.
SPECIFICATION ConnectedSyncSpec
CONSTANTS
  w1 = w1
  w2 = w2
  Repos = {"r1"}
  Workers = {w1, w2}
  Users = {"u1"}
  MaxRuns = 2
  MaxTime = 2
  MaxFaults = 0
  MaxAttempts = 2
  LeaseDuration = 1
  RetryBase = 1
  Cadence = 1
  BatchSize = 1
  ManualInterval = 1
  Overlap = 1
  Lookback = 3
  ProviderDelays = {2}
  LastTickIsForever = FALSE
  Slots = {w1, w2}
  Owners = {"u1", "u2"}
  OwnerOf <- ProjectOwners
  Repositories = {"r1", "r2"}
  MaxStateTokens = 2
  MaxConnections = 2
  Lifetime = 1
  MaxInstant = 1
SYMMETRY WorkerSymmetry
INVARIANTS
  NoHoleBeforeBoundary
  ActiveIsNewest
  BoundaryOfNewestSuccess
PROPERTIES
  RetryOnlyPostponed
  TerminalFailureBlocksSchedule
  ConnectionsAreExclusive
