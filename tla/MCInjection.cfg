\* Two memories for packets of one, so that the second waits until the first is
\* left out; the tracker holds fewer keys than the session can get.
SPECIFICATION FairSpec
CONSTANTS
    Memories = 2
    Base = 1
    RecallCap = 2
    Budget = 1
    Limit = 1
    Ttl = 1
    MaxEvents = 5
INVARIANTS
    OncePerWindow
PROPERTIES
    NothingWithheld
    EventuallyInjected
CHECK_DEADLOCK FALSE
