SPECIFICATION Spec
CONSTANTS
  MaxFlashes = 2
  MaxInstalls = 1
  MaxLangs = 0
  MaxActivations = 0
  MaxWindows = 1
  MaxDialogs = 1
INVARIANT
  NoOrphanWriter
