\* The capture ends at MaxTime.
CHECK_DEADLOCK FALSE
SPECIFICATION Spec
CONSTANTS
  Coincidence = 1
  MinRespawn = 3
  LateSlack = 1
  MaxTime = 6
  MaxDeaths = 2
  MaxSightings = 3
INVARIANTS
  TheRecordIsReal
  NoWitnessedDeathIsMissed
  GapsAreNeverShort
  LateIsLate
  LivesAreToldApart
  MapIsWhereItStood
