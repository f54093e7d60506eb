SPECIFICATION Spec
CONSTANTS
    Clients <- MCClients
    Name <- MCName
    Addrs = {a1, a2}
    MaxRuns = 2
    MaxAnswers = 2
    MaxKeys = 2
    MaxFaults = 3
INVARIANTS TypeOK OneKeyPerName PinsAreSaved KeysAgree
CHECK_DEADLOCK FALSE
