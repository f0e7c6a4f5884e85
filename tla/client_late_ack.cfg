SPECIFICATION Spec
CONSTANTS
  a = a
  b = b
  none = none
  Characters <- MCCharacters
  NoCharacter = none
  Surfaces <- MCSurfaces
  StrictMode = TRUE
  MaxRev = 2
  MaxClicks = 3
INVARIANTS AcknowledgedShown
