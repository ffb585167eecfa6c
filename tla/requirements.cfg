SPECIFICATION Spec
CONSTANTS
  MaxSize = 5
  TestRequirements <- Tests
  PlatformRequirements <- Runbooks
  Capabilities <- Hosts
  DataPathPriority <- PathPriority
  DiskTypePriority <- TypePriority
INVARIANTS
  CheckIsOverlap
  ChosenIsBest
  EnvironmentServesItsTest
  ChoiceMeetsPlatform
  SkippedOnlyIfUnmet
