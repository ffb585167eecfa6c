SPECIFICATION FairSpec
CONSTANTS
  e1 = e1  e2 = e2  r1 = r1  r2 = r2  r3 = r3  w1 = w1  w2 = w2
  Envs = {e1}
  Results = {r1, r2}
  Workers = {w1, w2}
  None = None
  Source <- Predefined
  Fits <- AnyFits
  Unsupported = {}
  UseNew = {r1, r2}
  NeedsDeployed = {}
  OsMismatch = {}
  DirtiesNode = {r2}
  IgnoreFailure = {r1}
  CaseRetry <- RetryOnce
  EnvRetry = 1
  MaxAwaits = 1
  KeepEnvironment = "failed"
  ExitOnFirstFailure = FALSE
  GuestEnabled = FALSE
  ReuseDirtyEnv = FALSE
  Failures = {"prepare", "deploy", "init", "test", "connection", "free", "close"}
INVARIANTS
  NoDoubleDeployment
PROPERTIES
  FailedEnvironmentKept
  KeepsPromise
  Terminates
