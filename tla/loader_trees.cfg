SPECIFICATION Spec
CONSTANTS
  GroupIds <- MCGroups
  OptionIds <- MCOptions
  Tags <- MCTags
  Catalogs <- NoCatalogs
  Files <- MCFiles
  ExampleIds <- MCExamples
  MaxFiles = 3
  None = None
INVARIANTS TypeOK MergedIsDeclared AcceptedIsLawful
PROPERTIES ShapeLocked NothingVanishes
CHECK_DEADLOCK FALSE
