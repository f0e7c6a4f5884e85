SPECIFICATION FairSpec
CONSTANTS
  a = a
  b = b
  none = none
  Characters <- MCCharacters
  NoCharacter = none
  Surfaces <- MCSurfaces
  StrictMode = TRUE
  MaxRev = 2
  MaxClicks = 4
INVARIANTS TypeOK ReadYourWrites NothingAwaitedInVain
PROPERTIES ShownNeverGoesBack BusyResolves LoadingResolves
