SPECIFICATION Spec
CONSTANTS
  None = None
  Projects = {p1, p2}
  Releases = {r1}
  Keys = {k1}
  Hosts = {h1, h2, h3}
  DepIds = {d1}
  SvcIds = {s1}
  IngIds = {}
  BackoffCap = 1
INVARIANTS
  HostsUnique
SYMMETRY Symmetry
