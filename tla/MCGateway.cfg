SPECIFICATION FairSpec
CONSTANTS
  None = None
  Pods = {p1, p2}
  Keys = {k1, k2}
  Bodies = {"same", "other"}
  Resources = {m1, m2}
  Switchable = {"provider_unavailable", "provider_timeout", "gateway_overloaded"}
  MaxSwitches = 1
  MaxAttempts = 2
  Bulkhead = 1
  MaxConcurrent = 1
  DailyTokens = 2
  Actual = {2}
  Threshold = 1
  Revisions = {0, 1, 2}
  Scenarios <- MCScenarios
  MaxFaults = 1
  Operations = {w1, w2, w3}
  MaxLoads = 2
  Table <- MCTable
  p1 = p1
  p2 = p2
  k1 = k1
  k2 = k2
  m1 = m1
  m2 = m2
  w1 = w1
  w2 = w2
  w3 = w3
INVARIANTS ExecutedOnce AnswersAgree NothingLeaks ConcurrencyBounded
PROPERTIES EveryRequestEnds ConfigurationFollows
CHECK_DEADLOCK FALSE
