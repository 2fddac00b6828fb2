\* Two parallel uses of one tool with one prompt; retention may remove rows.
SPECIFICATION HookSpec
CONSTANTS
    Proc = {u1, u2}
    Action = {deploy}
    Advice = {"caution"}
    Window = 0
    Retain = 0
    MaxNow = 1
    MaxRows = 3
    MaxPrompts = 1
SYMMETRY Interchangeable
INVARIANTS
    NoBlindRetry
CHECK_DEADLOCK FALSE
