CONSTANTS
    MaxOps = 3
    Slots <- MCSlots
    Server <- MCServer
    Servers <- MCServers
    Sids <- MCSids
    Cmds <- MCCmds
    SeqMod = 3
    Retries = 1
    MaxPolls = 2
    Lifetime = 3
SPECIFICATION FairSpec
INVARIANTS
    TypeOK
    AcceptsOwnAnswer
PROPERTIES
    AtLeastOncePromise
    EveryOperationReturns
CHECK_DEADLOCK FALSE
