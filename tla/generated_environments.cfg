SPECIFICATION FairSpec
CONSTANTS
  e1 = e1  e2 = e2  r1 = r1  r2 = r2  r3 = r3  w1 = w1  w2 = w2
  Envs = {e1, e2}
  Results = {r1, r2}
  Workers = {w1, w2}
  None = None
  Source <- Generated
  Fits <- AnyFits
  Unsupported = {}
  UseNew = {}
  NeedsDeployed = {r2}
  OsMismatch = {}
  DirtiesNode = {r1}
  IgnoreFailure = {}
  CaseRetry <- NoRetry
  EnvRetry = 0
  MaxAwaits = 0
  KeepEnvironment = "no"
  ExitOnFirstFailure = FALSE
  GuestEnabled = FALSE
  ReuseDirtyEnv = FALSE
  Failures = {"deploy", "test", "connection", "free"}
INVARIANTS
  EndsComplete
PROPERTIES
  DirtyEnvironmentNotReused
  Terminates
