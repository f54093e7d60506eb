SPECIFICATION Spec
CONSTANTS
    Clients <- MCClients
    Name <- MCName
    Addrs = {a1}
    MaxRuns = 3
    MaxAnswers = 2
    MaxKeys = 1
    MaxFaults = 1
CONSTRAINT HandshakesOnly
INVARIANT KnownKeyIsKept
CHECK_DEADLOCK FALSE
