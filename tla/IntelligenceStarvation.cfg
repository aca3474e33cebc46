\* Runs: two projects and one process. Memory: two processes that project.
SPECIFICATION MemoryRunsSpec
CONSTANTS
  w1 = w1
  w2 = w2
  Projects = {"p1", "p2"}
  Workers = {w1}
  Versions = {1}
  VersionOf <- OneVersion
  Groups = {"g1"}
  MaxSyncs = 2
  MaxTime = 2
  MaxFaults = 1
  MaxAttempts = 2
  LeaseDuration = 2
  RetryBase = 1
  ProviderDelays = {}
  LastTickIsForever = TRUE
  Projectors = {w1, w2}
  MaxEvent = 4
  TypeOf <- FourTypes
  FeaturesOf <- OneFeature
  OccurredAt <- Dates
  CommitsOf <- SharedCommits
  MergedPulls = {4}
  MilestoneWindow = 1
  MilestoneLimit = 1
  MaxChanges = 4
  MaxFailures = 1
PROPERTIES
  MemoryImplementsRecords
  LatestSyncIsProcessed
  StateFollowsEvents
