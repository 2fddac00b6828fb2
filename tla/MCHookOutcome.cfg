\* Three deliveries of one result, any of which may be killed.
SPECIFICATION FairSpec
CONSTANTS
    Hook = {h1, h2, h3}
    Lease = 2
    MaxNow = 4
    Nobody = Nobody
INVARIANTS
    OneRecorder
PROPERTIES
    LedgerSpec
    LastDeliveryRecords
    ReplayLearns
CHECK_DEADLOCK FALSE
