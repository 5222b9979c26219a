\* Every run ends and no more are started.
CHECK_DEADLOCK FALSE
SPECIFICATION Spec
CONSTANTS
  Repos = {main, fork}
  Ports = {P8090, P8085}
  DefaultPort = P8090
  NoRepo = NoRepo
  Wrong = Wrong
  Listed = Listed
  Processes = {shell1, shell2}
  MaxRuns = 3
  MaxEdits = 2
  MaxUpgrades = 1
SYMMETRY MCSymmetry
INVARIANTS
  TheTableIsTheCheckouts
  ADefaultIsNoName
