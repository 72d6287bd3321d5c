SPECIFICATION Spec
CONSTANTS
  None = None
  MaxDrives = 2
  Letters = {"C", "N", "P", "S"}
  DefaultLetter = "N"
  DefaultSettings = "S"
  LegacyLetter = "C"
  Networks = {"n0", "n1"}
  Clocks = {"r0", "r1"}
  DefaultSystem <- MCDefaultSystem
  LegacySystem <- MCLegacySystem
  DriveImages <- MCDriveImages
  SystemImages <- MCSystemImages
  Indices = {0, 1, 2, 5}
  IndexModulus = 5
  Edits <- MCEdits
  MaxEvents = 4
CHECK_DEADLOCK FALSE
INVARIANTS
  TypeOK
  TablesAreSaved
PROPERTIES
  StoresKeepPromise
