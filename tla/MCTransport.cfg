SPECIFICATION Spec
CONSTANTS
    Header <- MCHeader
    Commands <- MCCommands
    Params <- MCParams
    None <- MCNone
    Limit = 10
    MaxWords = 4
    MaxSent = 3
    MaxFaults = 3
CHECK_DEADLOCK FALSE
INVARIANTS
    TypeOK
    AnswerIsOfTheCommand
PROPERTIES
    TransmissionsArrive
