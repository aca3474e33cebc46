\* Expected to be violated: a retry is queued before its backoff.
SPECIFICATION Spec
CONSTANTS
  Repos = {"r1"}
  Workers = {"w1"}
  Users = {}
  MaxRuns = 1
  MaxTime = 3
  MaxFaults = 1
  MaxAttempts = 2
  LeaseDuration = 2
  RetryBase = 1
  Cadence = 2
  BatchSize = 1
  ManualInterval = 1
  Overlap = 2
  Lookback = 3
  ProviderDelays = {2}
  LastTickIsForever = FALSE
PROPERTIES
  RetryAfterBackoff
