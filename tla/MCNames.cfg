CONSTANTS
  BaseLen     <- MCBaseLen
  ExtLen      <- MCExtLen
  UpperOf     <- MCUpperOf
  Illegal     <- MCIllegal
  Unlisted    <- MCUnlisted
  MaxParts    <- MCMaxParts
  Paths       <- MCPaths
  Specs       <- MCSpecs
  Entries     <- MCEntries
  CardEntries <- MCCardEntries
  Times       <- MCTimes
  Offsets     <- MCOffsets
  MaxCalls    <- MCMaxCalls
SPECIFICATION Spec
INVARIANTS
  TypeOK
  ListedExactly
  
CHECK_DEADLOCK FALSE
