SPECIFICATION FairSpec
CONSTANTS
    read = read
    shell = shell
    complete = complete
    drive = drive
    Calls = {read, shell, complete, drive}
    ReadOnly = {read}
    Asks = {shell}
    Shell = {shell}
    Completes = {complete}
    Interruptible = {read}
    Driver = {drive}
    MaxTurns = 2
    MaxBatch = 2
    MaxCrashes = 1
    MaxRequests = 1
INVARIANTS
    EffectsAllowed
    EveryCallAnswered
    AnnouncedTruly
PROPERTIES
    RunningEnds
CHECK_DEADLOCK FALSE
