CONSTANTS
    Dtas = {d1, d2, d3}
    Drives = {n, o}
    Paths <- MCPaths
    Dir <- MCDir
    Patterns <- MCPatterns
    Matches <- MCMatches
    Exact = {"x"}
    Handles = {1, 2, 3}
    SearchSlots = 2
    Retries = 1
    MaxRounds = 2
    None = None
    Root = "/"
    LocalSlots = 1
    MaxEvents = 5
SYMMETRY Symmetry
SPECIFICATION Spec
CHECK_DEADLOCK FALSE
INVARIANTS
  TypeOK
  HandlesMatchSearches
  DeliversEveryMatch
PROPERTIES
  EndsItsOwnSearches
  EveryStepComesCloser
