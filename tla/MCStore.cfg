\* A provider change under an old process, a reembed command and another new
\* process, any of which may end at any step.
SPECIFICATION FairSpec
CONSTANTS
    Row = {1}
    Old = {o1}
    New = {n1, n2}
    Cli = {n2}
    None = None
    Gone = Gone
    StartMark = 1
    MaxKills = 2
INVARIANTS
    NothingSkipped
    IndexFitsTable
PROPERTIES
    EventuallySearchable
CHECK_DEADLOCK FALSE
