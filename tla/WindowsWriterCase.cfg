SPECIFICATION Spec
CONSTANTS
  Schemes = {"gpt", "mbr"}
  Images = {"small", "oddcase"}
  MaxAutomounts = 0
INVARIANTS
  NothingMissing
