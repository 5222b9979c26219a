\* The capture ends at MaxTime.
CHECK_DEADLOCK FALSE
SPECIFICATION Spec
CONSTANTS
  Coincidence = 1
  Spawns = {s1, s2}
  Window = 1
  MinRespawn = 1
  MaxTime = 4
  MaxPackets = 4
  MaxTimeOfTwo = 2
  MaxPacketsOfTwo = 3
SYMMETRY SpawnSymmetry
CONSTRAINT Bounded
INVARIANTS
  InitialDelaysAreTrue
  RepeatsAreOneTimer
  LinesAreCreditedRight
  SoundsAreTheirOwn
