SPECIFICATION ConnectionSpec
CONSTANTS
    Attempts = {direct, tls, relay}
    Staggered = {tls, relay}
    Direct = direct
    MaxReplies = 2
    MaxWrites = 2
CHECK_DEADLOCK FALSE
INVARIANTS TypeOK ConnectionsAccounted FailuresAreHonest LearningTypeOK
PROPERTIES RaceEnds OnlyJudgedInTheRead SwallowedRequestEnds
