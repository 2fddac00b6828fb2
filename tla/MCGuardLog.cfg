\* Two processes and two actions; the failure window is shorter than the run,
\* so that rows age out of it, and retention may remove rows still inside it.
\* Three rows are a failure, a receipt and a report, in any order.
SPECIFICATION Spec
CONSTANTS
    Proc = {p1, p2}
    Action = {deploy, test}
    Advice = {"caution", "block"}
    Window = 1
    Retain = 0
    MaxNow = 2
    MaxRows = 3
SYMMETRY Interchangeable
INVARIANTS
    NoSuccessOverExactBlock
    RecoveryIsAcknowledged
PROPERTIES
    OnlyFailureBlocks
CHECK_DEADLOCK FALSE
