SPECIFICATION FairSpec
CONSTANTS
  nas = nas
  lan = lan
  pc = pc
  Local = Local
  None = None
  LastDrive = 1
  Configs <- MCConfigs
  Tables <- MCTables
  Names <- MCNames
  Addresses <- MCAddresses
  AddressOf <- MCAddressOf
  Sources <- MCSources
  MemoryRunsOut = TRUE
  MaxTicks = 1
  MaxPolls = 1
  MaxReinits = 1
  MaxBrowses = 2
CHECK_DEADLOCK FALSE
INVARIANTS
  TypeOK
  SlotsHaveOwnServers
PROPERTIES
  MountingReturns
