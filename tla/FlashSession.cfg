SPECIFICATION LiveSpec
CONSTANTS
  MaxFlashes = 2
  MaxInstalls = 0
  MaxLangs = 0
  MaxActivations = 0
  MaxWindows = 1
  MaxDialogs = 3
INVARIANTS
  NoOrphanWriter
  TypeOK
  WriterInv
  EndingInv
  WizardMeansIdle
  OneWriter
  NeverStuck
  SuccessIsFinal
PROPERTIES
  StopEnds
  EndingShown
