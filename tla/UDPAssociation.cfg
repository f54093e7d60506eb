SPECIFICATION FairSpec
CONSTANTS
    Configs <- MCConfigs
    Dests <- MCDests
    DNSDests <- MCDNSDests
    MaxConns = 2
    OutCap = 1
INVARIANTS TypeOK SocketsAccounted NoDirectLeak PreparedIsServed
PROPERTIES GoroutinesFinish
CHECK_DEADLOCK FALSE
