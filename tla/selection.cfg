SPECIFICATION Spec
CONSTANTS
  Cases = {"smoke", "perf", "stress"}
  Metadata <- MCMetadata
  Filters <- MCFilters
  MaxFilters = 4
INVARIANTS
  TypeOK
  ForcedStays
  SelectionIsDeclared
  FailsOnlyOnConflict
  SettingsAreDeclared
