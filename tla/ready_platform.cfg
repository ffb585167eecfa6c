SPECIFICATION FairSpec
CONSTANTS
  e1 = e1  e2 = e2  r1 = r1  r2 = r2  r3 = r3  w1 = w1  w2 = w2
  Envs = {e1}
  Results = {r1, r2, r3}
  Workers = {w1, w2}
  None = None
  Source <- Predefined
  Fits <- AnyFits
  Unsupported = {}
  UseNew = {}
  NeedsDeployed = {r1}
  OsMismatch = {r3}
  DirtiesNode = {}
  IgnoreFailure = {r2}
  CaseRetry <- NoRetry
  EnvRetry = 0
  MaxAwaits = 0
  KeepEnvironment = "no"
  ExitOnFirstFailure = TRUE
  GuestEnabled = FALSE
  ReuseDirtyEnv = TRUE
  Failures = {"prepare", "deploy", "init", "test", "connection"}
PROPERTIES
  Terminates
