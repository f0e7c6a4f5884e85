SPECIFICATION Spec
CONSTANTS
  GroupIds <- TextGroups
  OptionIds <- TextOptions
  Tags <- PickTags
  Catalogs <- TextCatalogs
  Ages <- OneAge
  Texts <- FewTexts
  WordLists <- MCLists
  Mode <- MCMode
  UnlockedAt <- MCUnlockedAt
  Never = Never
  Hits <- MCHits
  NearHits <- MCNearHits
  Shape <- MCShape
  NoText = NoText
  NoDraft = NoDraft
  MaxVersions = 2
PROPERTIES ParagraphDroppedOnIdentityChange
