SPECIFICATION FairSpec
CONSTANTS
  c1 = c1  main = main  p1 = p1  k1 = k1  k2 = k2  k3 = k3
  Callers = {c1}
  Main = main
  Pool = {p1}
  Tasks = {k1, k2, k3}
  Owner <- Owners
  MayFail = {k1}
  FlushEarly = FALSE
  NoOne = NoOne
INVARIANTS
  TypeOK
  WorkersBounded
  ProcessedInOrder
  ReapedOnce
  FlushMissesOnlyLast
PROPERTIES
  EveryTaskRuns
