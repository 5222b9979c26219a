\* Each stage comes to its end.
CHECK_DEADLOCK FALSE
SPECIFICATION Spec
CONSTANTS
  Stages = {"key", "walk", "merge", "run"}
  None = None
  ByteModulus = 4
  Xor <- MCXor
  Ceiling = 2
  WalkKeys <- MCWalkKeys
  Bodies <- MCBodies
  Losses <- MCLosses
  WalkMessages = 4
  SessionKeys <- MCSessionKeys
  ClientMessages <- MCClientMessages
  ServerMessages <- MCServerMessages
  Checked = 3
  MaxClient = 6
  MaxServer = 3
  MaxOdd = 1
  MaxExpansionDepth = 2
  Shapes <- MCShapes
  Times = {1, 2}
  MaxMerged = 2
  Handlers <- MCHandlers
  Only = {"spawn", "aura"}
  Analyzers <- MCAnalyzers
  Sinks <- MCSinks
  Facts <- MCFacts
  Filters <- MCFilters
  MaxRead = 2
  MaxYields = 1
INVARIANTS
  SilentMeansRight
  GapsCostOnlyTheirMessages
  CleanChunksReadTheKey
  TheRightKeyIsNeverRefused
  EverythingOnceInOrder
  EveryoneIsGivenTheSame
  NoPartOfABadPacket
PROPERTY
  EverySinkIsClosed
