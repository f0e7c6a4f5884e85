SPECIFICATION Spec
CONSTANTS
  GroupIds <- ViewGroups
  OptionIds <- ViewOptions
  Tags <- PickTags
  Catalogs <- ViewCatalogs
  Ages <- OneAge
  Texts <- NoTexts
  WordLists <- MCLists
  Mode <- MCMode
  UnlockedAt <- MCUnlockedAt
  Never = Never
  Hits <- MCHits
  NearHits <- MCNearHits
  Shape <- MCShape
  NoText = NoText
  NoDraft = NoDraft
  MaxVersions = 2
INVARIANTS OffersAccepted NothingWithheld BlockersServed RatingCovered
PROPERTIES RetiredNeverNew OrphansInert
