SPECIFICATION Spec
CONSTANTS
  MaxFlashes = 1
  MaxInstalls = 1
  MaxLangs = 1
  MaxActivations = 1
  MaxWindows = 2
  MaxDialogs = 1
INVARIANTS
  JobsCounted
PROPERTIES
  ClosedIsDone
