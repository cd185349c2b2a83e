SPECIFICATION SuccessionSpec
CONSTANTS
  Api = {a1, a2}
  Sandboxes = {s1, s2}
  Offered = {s1}
  MaxRuns = 3
  MaxCrashes = 1
INVARIANTS OneWorker ContinuedOnce
SYMMETRY Callers
CHECK_DEADLOCK FALSE
