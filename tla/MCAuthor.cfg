SPECIFICATION Spec
CONSTANTS
  Entry = 7
  Schema <- MCSchema
  KeyName <- MCKeyName
  MaxSlots = 2
  Second = 10
  Display = 100
  Info = 200
  NotObserved <- MCNotObserved
  Coincidence = 1
  Spawns = {1, 2}
  LateSlack = 1
  FloatColumns <- MCFloatColumns
  Tolerance = 1
  DefaultScale = 10
  Subjects <- MCSubjects
  Budget <- MCBudget
  SpellIds = {11, 12, 13}
  Items <- MCItems
  Templates <- MCTemplates
  Drift <- MCDrift
  Worlds <- MCWorlds
CHECK_DEADLOCK FALSE
INVARIANTS
  NoRowIsDroppedQuietly
  NothingHangsOffAHeldRow
  NoSilentDefault
  SlotsAreTheCreaturesOwn
  TheItemIsTheOneHeld
  EverySpawnIsAccountedFor
  TheSameDatabaseIsLeftAlone
