SPECIFICATION FairSpec
CONSTANTS
    Destinations = {dns, game, web, lan}
    Private = {lan}
    Limit = 2
    MaxSockets = 3
CHECK_DEADLOCK FALSE
INVARIANTS TypeOK SocketsHeld
PROPERTY EndReleasesAll
