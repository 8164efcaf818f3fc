SPECIFICATION Spec
CONSTANTS
  JobCount = 2
  Workers = {w1, w2}
  MaxAttempts = 2
  MaxCrashes = 1
SYMMETRY MCSymmetry
INVARIANTS
  BudgetSurvivesRestart
  EndedSessionSettled
  AttemptsAccounted
\* A session is started once; after it has ended nothing happens.
CHECK_DEADLOCK FALSE
