SPECIFICATION Spec
CONSTANTS
  GroupIds <- PickGroups
  OptionIds <- PickOptions
  Tags <- PickTags
  Catalogs <- PickCatalogs
  Ages <- FewAges
  Texts <- TwoTexts
  WordLists <- MCLists
  Mode <- MCMode
  UnlockedAt <- MCUnlockedAt
  Never = Never
  Hits <- MCHits
  NearHits <- MCNearHits
  Shape <- MCShape
  NoText = NoText
  NoDraft = NoDraft
  MaxVersions = 2
INVARIANTS TypeOK NeverStranded RequiredSettable RecordReloads StoredTextsPass ClearNamePasses
PROPERTIES CommitIsWhole ImplementsHistory
