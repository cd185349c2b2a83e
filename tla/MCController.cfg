SPECIFICATION FairSpec
CONSTANTS
  None = None
  Projects = {p1}
  Releases = {r1, r2}
  Keys = {k1, k2, k3}
  Hosts = {h1, h2}
  DepIds = {u1, u2}
  SvcIds <- MCSvcIds
  IngIds = {u1, u2}
  BackoffCap = 1
  Uids = {u1, u2}
  Versions = {0, 1, 2}
  Kinds = {"Publish", "Update", "Rollback", "Unpublish"}
  Situations <- MCSituations
  MaxFaults = 1
INVARIANTS VisitorsAreServed StatusIsTrue
PROPERTIES IntentObserved DriftNoticed
CHECK_DEADLOCK FALSE
