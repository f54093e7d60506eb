SPECIFICATION FairSpec
CONSTANTS
    MaxInstances = 2
    MaxWorkers = 2
    MaxCommands = 3
INVARIANTS TypeOK CleanSessions
PROPERTIES ShutdownsReturn
CHECK_DEADLOCK FALSE
