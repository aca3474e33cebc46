\* Two versions and two sources: late attempts persist beside later ones.
SPECIFICATION Spec
CONSTANTS
  w1 = w1
  w2 = w2
  Projects = {1}
  Workers = {w1, w2}
  Versions = {1, 2}
  VersionOf <- TwoVersions
  Candidates = {"c1", "c2"}
  BatchLimit = 1
  MaxSources = 2
  MaxRuns = 2
  MaxFacts = 0
  MaxDay = 1
  MaxTime = 1
  MaxFaults = 0
  MaxAttempts = 2
  LeaseDuration = 1
  RetryBase = 1
  ProviderDelays = {}
  LastTickIsForever = FALSE
INVARIANTS
  SucceededIsPersisted
PROPERTIES
  OpportunitiesImplementRecords
