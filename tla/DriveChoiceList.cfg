SPECIFICATION Spec
CONSTANTS
  Names = {1, 2}
  stick1 = stick1
  stick2 = stick2
  stick3 = stick3
  Disks <- MCDisks
  NoDisk = NoDisk
  Models = {"8 GB", "16 GB"}
  NoModel = "none"
  Model <- MCModel
  HotplugWaits = TRUE
  MaxInstalls = 0
INVARIANT
  WrittenIsShown
