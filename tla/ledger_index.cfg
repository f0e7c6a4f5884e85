SPECIFICATION Spec
CONSTANTS
  ann = ann
  bob = bob
  species = species
  callname = callname
  Characters = {ann, bob}
  Paths = {1, 2}
  Directories = {1, 2}
  DirectoryOf <- TwoDirectories
  IdentityGroups = {species}
  PersonaGroups = {callname}
  Values = {cat}
  Unset = Unset
  NoFile = NoFile
  Malformed = Malformed
  NoRow = NoRow
  Unknown = Unknown
  Idle = Idle
  Renders <- Renderings
  Passed <- AnnOnly
  MaxVersions <- TwoFinalizations
INVARIANT TypeOK
INVARIANT SettledMarkersTrue
INVARIANT RebuiltIsDerived
INVARIANT GradeIsDerived
