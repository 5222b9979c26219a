\* The capture ends at MaxHops.
CHECK_DEADLOCK FALSE
SPECIFICATION Spec
CONSTANTS
  Coincidence = 1
  Paths <- MCPaths
  Afield = {8}
  MinWaypoints = 3
  MinRepeats = 2
  MinRepeatShare = 25
  MaxCombat = 50
  MinOrder = 65
  MinHops = 6
  MaxHops = 9
  MaxOdd = 2
INVARIANTS
  NoChaseCountsAsCalm
  RepeatsAreHeld
  ConfidentRoutesAreThePath
