SPECIFICATION FairSpec
CONSTANTS
  Versions = {v1, v2}
  Runs = {r1, r2}
  Workflow = Workflow
  None = None
  MaxCrashes = 2
  MaxFaults = 1
  v1 = v1
  v2 = v2
  r1 = r1
  r2 = r2
INVARIANTS PromotedIsKept ReplacesWhatItSaw AnnouncedOnce
PROPERTIES RestartSettles
CHECK_DEADLOCK FALSE
