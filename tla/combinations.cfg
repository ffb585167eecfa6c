SPECIFICATION Spec
CONSTANTS
  MaxConcurrency = 2
  Kinds = {"none", "grid", "batch", "git_bisect"}
  GridSizes <- Sizes
  BatchItems <- Items
  RunnerTypes <- Types
  TaskCount <- Tasks
  Runbook <- MCRunbook
  LastCommit = 4
  FirstBad = 2
  MayFail = {"task", "transformer", "runner", "close", "notify"}
INVARIANTS
  WorkerIsIdle
  ClosedOnce
  CombinationsInOrder
  CleanupAfterRunners
  DependenciesFirst
  EverythingRan
  BisectKeepsCulprit
  SortIsRight
PROPERTIES
  Terminates
