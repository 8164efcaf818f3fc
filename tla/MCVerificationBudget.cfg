SPECIFICATION Spec
CONSTANTS
  JobCount = 1
  Workers = {w1}
  MaxAttempts = 3
  MaxCrashes = 1
INVARIANTS
  AttemptBudget
CHECK_DEADLOCK FALSE
