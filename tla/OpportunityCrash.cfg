\* Expected to be violated: a crash after persisting ends the run.
SPECIFICATION Spec
CONSTANTS
  w1 = w1
  w2 = w2
  Projects = {1}
  Workers = {w1}
  Versions = {1}
  VersionOf <- OneVersion
  Candidates = {"c1"}
  BatchLimit = 1
  MaxSources = 2
  MaxRuns = 2
  MaxFacts = 0
  MaxDay = 2
  MaxTime = 1
  MaxFaults = 1
  MaxAttempts = 2
  LeaseDuration = 1
  RetryBase = 1
  ProviderDelays = {}
  LastTickIsForever = FALSE
PROPERTIES
  PersistedRunsConverge
