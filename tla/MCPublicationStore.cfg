SPECIFICATION Spec
CONSTANTS
  None = None
  Projects = {p1}
  Releases = {r1, r2}
  Keys = {k1, k2}
  Hosts = {h1, h2}
  DepIds = {d1}
  SvcIds = {s1}
  IngIds = {i1}
  BackoffCap = 1
INVARIANTS
  GenerationOwned
  AckedNeverLost
  DesiredNeverForgotten
  CompletedIsObserved
PROPERTIES
  SupersededFrozen
SYMMETRY Symmetry
