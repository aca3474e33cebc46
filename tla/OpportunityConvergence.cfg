\* Two sources on two days, changing facts, a fault, fairness: runs change inputs.
SPECIFICATION FairSpec
CONSTANTS
  w1 = w1
  w2 = w2
  Projects = {1}
  Workers = {w1}
  Versions = {1}
  VersionOf <- OneVersion
  Candidates = {"c1"}
  BatchLimit = 1
  MaxSources = 2
  MaxRuns = 6
  MaxFacts = 1
  MaxDay = 2
  MaxTime = 0
  MaxFaults = 1
  MaxAttempts = 2
  LeaseDuration = 1
  RetryBase = 1
  ProviderDelays = {}
  LastTickIsForever = TRUE
INVARIANTS
  RerunsAreBounded
PROPERTIES
  RunsSettle
  LatestInputIsProcessed
