\* Every run ends and no more are started.
CHECK_DEADLOCK FALSE
SPECIFICATION Spec
CONSTANTS
  Processes = {shell}
  MaxRuns = 4
  MaxFiles = 5
INVARIANTS
  OutIsVerified
  TheSessionSurvives
  TheExitCodeIsTrue
