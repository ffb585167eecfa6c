SPECIFICATION Spec
CONSTANTS
  MaxConcurrency = 1
  Kinds = {"git_bisect"}
  GridSizes <- Sizes
  BatchItems <- Items
  RunnerTypes <- OneType
  TaskCount <- Tasks
  Runbook <- MCRunbook
  LastCommit = 4
  FirstBad = 2
  MayFail = {}
INVARIANT
  BisectIterates
