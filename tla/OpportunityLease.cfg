\* One run, two workers of one version: leases, retries, a fault.
SPECIFICATION Spec
CONSTANTS
  w1 = w1
  w2 = w2
  Projects = {1}
  Workers = {w1, w2}
  Versions = {1}
  VersionOf <- OneVersion
  Candidates = {"c1"}
  BatchLimit = 1
  MaxSources = 1
  MaxRuns = 1
  MaxFacts = 0
  MaxDay = 1
  MaxTime = 3
  MaxFaults = 1
  MaxAttempts = 2
  LeaseDuration = 2
  RetryBase = 1
  ProviderDelays = {2}
  LastTickIsForever = FALSE
SYMMETRY WorkerSymmetry
INVARIANTS
  TypeOK
PROPERTIES
  LateWorkerWritesNothing
  ImplementsLeasedQueue
