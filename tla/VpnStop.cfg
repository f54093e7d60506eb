SPECIFICATION Spec
CONSTANTS
    MaxInstances = 2
    MaxWorkers = 2
    MaxCommands = 3
INVARIANTS StopTakesEffect
CHECK_DEADLOCK FALSE
