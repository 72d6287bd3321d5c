SPECIFICATION FairBoot
CONSTANTS
    Installed <- InstalledValue
    Replies <- RepliesValue
    BufSize = 4
    MaxAsked = 2
    Attempts = 3
    MaxResets = 1
    MaxEvents = 3
INVARIANTS BootTypeOK PollsAreGuarded StatusTellsTheNetwork VerdictIsOfWholeAnswer
PROPERTY WaitsEnd
\* The program stops when the driver does not start, and the model at its bounds.
CHECK_DEADLOCK FALSE
