SPECIFICATION Spec
CONSTANTS
  MaxFlashes = 1
  MaxInstalls = 0
  MaxLangs = 1
  MaxActivations = 0
  MaxWindows = 2
  MaxDialogs = 1
INVARIANT
  NoOrphanWriter
