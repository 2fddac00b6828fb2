\* The same processes, two memories and no kill: two openings that overlap.
SPECIFICATION Spec
CONSTANTS
    Row = {1, 2}
    Old = {o1}
    New = {n1, n2}
    Cli = {n2}
    None = None
    Gone = Gone
    StartMark = 1
    MaxKills = 0
INVARIANTS
    UnindexedIsAboveMark
CHECK_DEADLOCK FALSE
