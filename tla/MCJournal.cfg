SPECIFICATION JournalSpec
CONSTANTS
  MaxAttempts = 4
  Scenarios <- MCScenarios
  Absent = Absent
INVARIANTS AckedKept
PROPERTY Durable
CHECK_DEADLOCK FALSE
