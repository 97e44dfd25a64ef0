SPECIFICATION LiveSpec
CONSTANTS
  DriveSizes = {3, 5, 6, 7, 9}
  ImageSizes = {1, 4, 5}
  CHUNK = 2
  TAIL = 2
  MaxFaults = 1
  Schemes = {"gpt", "mbr"}
  Images = {"none", "small", "big", "solid"}
  HasImage = {TRUE, FALSE}
  MaxAutomounts = 2
INVARIANTS
  TypeOK
  RawMeansIdle
  VerifiedIsRight
  BetweenLeftAlone
  StopWithinChunk
  BootsSomething
  CacheEmptied
  BootAfterWindows
PROPERTIES
  Implements
  Ends
