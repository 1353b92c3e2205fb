SPECIFICATION MCSpec
CONSTANTS
  Capacity = 4
  Operation = "copyGet"
  FileChunks = 8
INVARIANTS SegmentExclusive SleepersJustified NoStuckJoin InOrder CompleteOnSuccess
PROPERTIES Terminates RingIsQueue
