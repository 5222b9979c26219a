\* The program ends once the stream is reassembled: "done" has no successor.
CHECK_DEADLOCK FALSE
SPECIFICATION Spec
CONSTANTS
  StreamLen = 4
  SeqModulus = 8
  InitialSeqs <- MCInitialSeqs
  MaxSegments = 4
INVARIANTS
  TypeOK
  StreamIsWhatWasCaptured
  TimesAreTrue
  EveryByteIsAccountedFor
  ChunksAreTheSegments
PROPERTY
  IsAByteStream
