\* Six memories in any state, recalled by one call or by a preflight.  The
\* limits are 1 for the capsule (12 in the code), 2 for the sweep (50) and for
\* other calls, and the candidates for an entry 1 and 2 times (3, 5 and 4).
SPECIFICATION PreflightSpec
CONSTANTS
    Memory <- mcMemory
    Kind <- mcKind
    Agent <- mcAgent
    Me = "me"
    Private = {5}
    Tags <- mcTags
    Certain <- mcCertain
    Coarse <- mcCoarse
    Reliable <- mcReliable
    Overlap <- mcOverlap
    Start <- mcStart
    Query <- mcQuery
    Request <- mcRequest
    Fault <- mcFault
    Pool = 1
    WidePool = 1
    Retry = 2
    MaxChanges = 1
    Trust <- mcTrust
    Recent = {3}
    Elsewhere = {2}
    Cost <- mcCost
    Budget = 4
    CapsuleRequest <- mcCapsuleRequest
    SweepRequest <- mcSweepRequest
    SweepTake = 1
    Signals <- mcSignals
    FailedHere = 7
    FailedOther = 8
    Contradiction = 9
INVARIANTS
    PreflightTypeOK
    RuleIsSeen
PROPERTIES
    NothingHidden
    FullAnswer
    KeywordFirst
CHECK_DEADLOCK FALSE
