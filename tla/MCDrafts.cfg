SPECIFICATION Spec
CONSTANTS
    Runs = {r1, r2}
    None = None
    MaxRestarts = 1
    MaxSessions = 1
    MaxEdits = 2
    MaxEpoch = 2
    MaxTools = 3
    MaxPlans = 1
SYMMETRY RunSymmetry
INVARIANTS
    DurableIsComplete
    ReadyWasSeen
    ApprovalOnce
CHECK_DEADLOCK FALSE
