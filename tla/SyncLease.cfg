\* One run, two workers: leases, retries, a fault, and fairness.
SPECIFICATION FairSpec
CONSTANTS
  Repos = {"r1"}
  Workers = {"w1", "w2"}
  Users = {}
  MaxRuns = 1
  MaxTime = 3
  MaxFaults = 1
  MaxAttempts = 2
  LeaseDuration = 2
  RetryBase = 1
  Cadence = 3
  BatchSize = 1
  ManualInterval = 1
  Overlap = 3
  Lookback = 3
  ProviderDelays = {}
  LastTickIsForever = TRUE
INVARIANTS
  TypeOK
  RowConstraints
PROPERTIES
  OutcomeIsFinal
  LateWorkerKeepsStatus
  ImplementsLeasedQueue
  RunsSettle
  UnavailableWorkEnds
