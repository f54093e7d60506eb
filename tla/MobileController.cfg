SPECIFICATION FairSpec
CONSTANTS
    Callers = {c1, c2}
    Owners = {vpn, legacy}
    Legacy = legacy
    Blank = Blank
    MaxGen = 2
INVARIANTS TypeOK RecordIsRuntime
PROPERTIES OnlyOwnerCancels StoppedIsGone OwnershipSpec StopsComplete
