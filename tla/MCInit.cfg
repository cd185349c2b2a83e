SPECIFICATION Spec
CONSTANTS
  Templates = {t1, t2}
  None = None
  Torn = Torn
  Shared = Shared
  Kept = Kept
  MaxFaults = 3
  MaxEdits = 2
INVARIANTS WholeProject StoreAgrees
SYMMETRY TemplateSymmetry
