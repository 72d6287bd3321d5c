CONSTANTS
    Nothing = Nothing
    Hosts <- MCHosts
    Numbers <- MCNumbers
    Listing <- MCListing
    Disks <- MCDisks
    MaxDepth = 1
    MaxEvents = 3
    MaxFaults = 1
    PageEntries = 2
    Batch = 2
    SkipRounds = 3
    DirRetries = 1
    Starts <- MCStarts
    MaxPage = 1
    Favourites = 4
    Offsets <- MCOffsets
    Chunks <- MCChunks
    Tables <- MCTables
    Paths <- MCPaths
    NotABoot <- MCNotABoot
    SafeReboot = FALSE

SPECIFICATION FloppySpec
CHECK_DEADLOCK FALSE
INVARIANTS
  FloppyTypeOK
  PagesAreExact
  NothingStaysOpen
  AtariSeesTheDrive
