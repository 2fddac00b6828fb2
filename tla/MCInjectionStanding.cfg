\* One memory that is given and then changes its standing.
SPECIFICATION FairSpec
CONSTANTS
    Memories = 1
    Base = 1
    RecallCap = 2
    Budget = 1
    Limit = 2
    Ttl = 1
    MaxEvents = 2
PROPERTIES
    NewStandingIsGiven
CHECK_DEADLOCK FALSE
