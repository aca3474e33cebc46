\* Seven components, each on its own.
SPECIFICATION ComponentsSpec
CONSTANTS
  one = one
  two = two
  Foci = {"executions", "feedback", "summary", "client", "ingestion",
          "grouping", "day"}
  Workers = {one, two}
  Inputs <- GroupsAndDetection
  StageOf <- Stages
  ProjectOf <- ProjectsOfInputs
  EvidenceOf <- Evidence
  UserOf <- UsersOfProjects
  OffsetOf <- Offsets
  DayLength = 2
  DailyLimit = 2
  MaxTime = 1
  MaxFaults = 1
  Requests = {one, two}
  Keys = {"k1", "k2"}
  Opportunities = {"o1", "o2"}
  Clicks <- ThreeClicks
  ProjectLock <- TwoProjects
  MaxTransactions = 2
  MaxLost = 1
  Readers = {one, two}
  DayFacts = {"f1", "f2", "f3"}
  MaxTurns = 3
  Items = {1, 2, 3}
  FirstItems <- TwoItems
  PageSize = 1
  MaxItems = 2
  MaxRequests = 2
  MaximumAttempts = 2
  MaximumBackoff = 1
  MaximumInlineDelay = 1
  MaximumRetryAfter = 2
  HeaderDelays <- Headers
  Ingesters = {one, two}
  Shas = {1, 2, 3}
  CommittedAt <- CommitDates
  WindowEnds <- TwoWindows
  WindowOverlap = 1
  FirstStart = 1
  MaxTokens = 2
  MaxPushes = 2
  MaxBreaks = 1
  Histories <- TwoHistories
  Adjacency = 1
  MaxRecords = 4
  MaxArrivals = 6
  DayUnits = 6
  Zones <- Clocks
  MaxNow = 14
SYMMETRY Symmetry
INVARIANTS
  ComponentsTypeOK
  BudgetIsKept
  ExecutionsAreSound
  ListingsAreSound
  EvidenceFollowsBranch
  DaysAreWhole
PROPERTIES
  ExecutionsImplementRecords
  FeedbackImplementsRecords
  SummariesImplementRecords
  GroupsAreSound
CHECK_DEADLOCK FALSE
