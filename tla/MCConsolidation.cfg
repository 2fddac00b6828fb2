\* Overlapping runs, validations with verdicts, and rollbacks: in the process
\* of the runs, in one step, and by a second process that reads before it acts.
SPECIFICATION Spec
CONSTANTS
    Episode = {e1, e2}
    Memory = {m1}
    Run = {r1, r2}
    Undoer = {u1}
    MinCluster = 1
    Similar = {e1, e2}
    HasModel = TRUE
    None = None
    Forgotten = Forgotten
SYMMETRY Interchangeable
INVARIANTS
    ConsumedOnce
    SupportMatchesEvidence
CHECK_DEADLOCK FALSE
