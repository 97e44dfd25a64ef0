SPECIFICATION Spec
CONSTANTS
  Sizes = {4, 7, 9, 10}
  Names <- MCNames
  ISO_CHUNK = 3
  ISO_SCAN = 8
  CARRY = 3
  CoreLengths = {1, 4, 5, 8, 12, 13, 16, 17}
  SECTOR = 4
  Slots = 6
  MAX_CORE_SECTORS = 3
  CORE_SEGMENT = 9
  HBIN_HEADER_SIZE = 32
  PAGE = 64
  KeyNames = {1, 2, 3}
  NameLen <- MCNameLen
  DataSizes = {4, 9}
  MaxKeys = 3
  MaxValues = 2
  Nowhere = Nowhere
  Distros = {"arch", "debian", "fedora", "unknown"}
  Ids <- MCIds
  Strings <- MCStrings
  MaxEntries = 2
  Themes = {0, 2}
  Langs = {"", "ru", "en"}
  Bad = Bad
\* functions return
CHECK_DEADLOCK FALSE
INVARIANTS
  KindIsRight
  CoreLoadsWhole
  HiveIsSound
  ToolsBeforeWipe
  CatalogueIsRight
PROPERTIES
  SettingsSurvive
