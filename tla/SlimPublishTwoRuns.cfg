CHECK_DEADLOCK FALSE
SPECIFICATION Spec
CONSTANTS
  Processes = {shell1, shell2}
  MaxRuns = 2
  MaxFiles = 3
INVARIANT
  TheSessionSurvives
