SPECIFICATION FairSpec
CONSTANTS
    MaxUp = 2
    MaxDown = 1
    Window = 2
    Requests <- MCRequests
CHECK_DEADLOCK FALSE
INVARIANTS TypeOK SuccessIsEarned
PROPERTIES StreamSpec PathEnds
