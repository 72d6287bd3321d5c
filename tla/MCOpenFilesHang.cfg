SPECIFICATION Spec
CONSTANTS
  FirstFd = 4
  NoFd = 65535
  Settings = settings
  SdDrives = {sd}
  TnfsDrives = {nas, lan}
  Handles = {1, 2}
  Attempts = 2
  MaxOpen = 3
  MaxResets = 2
CHECK_DEADLOCK FALSE
INVARIANT CleanupNeverHangs
