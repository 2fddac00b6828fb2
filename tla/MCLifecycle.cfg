\* A call that encodes two episodes one way or another, a closeAsync and two
\* signals.
SPECIFICATION FairSpec
CONSTANTS
    Call = {{e1, e2}}
    Closer = {k1}
    Signal = {s1, s2}
    None = None
INVARIANTS
    DrainedIsWorked
    WaitedIsWorked
PROPERTIES
    ClosesAnyway
    EveryTaskEnds
CHECK_DEADLOCK FALSE
