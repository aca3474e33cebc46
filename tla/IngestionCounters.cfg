\* Two attempts, a failure between them and pushes that rewrite the branch.
SPECIFICATION IngestionSpec
CONSTANTS
  a1 = a1
  a2 = a2
  Ingesters = {a1, a2}
  Shas = {1, 2, 3}
  CommittedAt <- CommitDates
  WindowEnds <- TwoWindows
  WindowOverlap = 1
  FirstStart = 1
  MaxTokens = 2
  MaxPushes = 3
  MaxBreaks = 1
SYMMETRY IngesterSymmetry
INVARIANTS
  InsertedWithinDiscovered
CHECK_DEADLOCK FALSE
