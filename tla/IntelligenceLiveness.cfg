\* Two versions side by side.
SPECIFICATION FairSpec
CONSTANTS
  w1 = w1
  w2 = w2
  Projects = {"p1"}
  Workers = {w1, w2}
  Versions = {1, 2}
  VersionOf <- TwoVersions
  Groups = {"g1"}
  MaxSyncs = 1
  MaxTime = 1
  MaxFaults = 1
  MaxAttempts = 2
  LeaseDuration = 2
  RetryBase = 1
  ProviderDelays = {}
  LastTickIsForever = TRUE
PROPERTIES
  RunsSettle
