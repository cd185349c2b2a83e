SPECIFICATION WorkflowSpec
CONSTANTS
  None = None
  Projects = {"p"}
  Releases = {"r1", "r2"}
  Keys = {"publish", "rollback", "client"}
  Hosts = {h1, h2}
  DepIds = {"d1"}
  SvcIds = {"s1"}
  IngIds = {"i1"}
  BackoffCap = 1
  Workflows = {"w"}
  ProjectOf <- MCProjectOf
  ReleaseOf <- MCReleaseOf
  PublishKey <- MCPublishKey
  RollbackKey <- MCRollbackKey
  MaxCrashes = 1
  MaxUnsaved = 1
INVARIANTS
  OutcomeIsTrue
  NoLostUpdate
PROPERTIES
  OutcomeStands
SYMMETRY HostSymmetry
CHECK_DEADLOCK FALSE
