\* One run, two workers of one version: leases, retries, faults.
SPECIFICATION Spec
CONSTANTS
  w1 = w1
  w2 = w2
  Projects = {"p1"}
  Workers = {w1, w2}
  Versions = {1}
  VersionOf <- OneVersion
  Groups = {"g1", "g2"}
  MaxSyncs = 1
  MaxTime = 3
  MaxFaults = 1
  MaxAttempts = 2
  LeaseDuration = 2
  RetryBase = 1
  ProviderDelays = {2}
  LastTickIsForever = FALSE
SYMMETRY WorkerSymmetry
INVARIANTS
  TypeOK
  SucceededIsProjected
PROPERTIES
  OutcomeIsFinal
  LateWorkerWritesNothing
  ImplementsLeasedQueue
