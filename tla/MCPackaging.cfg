SPECIFICATION FairSpec
CONSTANTS
    Inputs <- MCInputs
    Keys = {"k1", "k2"}
    KeyOf <- MCKeyOf
    MaxFaults = 2
    MaxCrashes = 1
INVARIANTS
    ValidatedIsProven
    AckedKept
    ReferencedKept
PROPERTIES
    Settles
CHECK_DEADLOCK FALSE
