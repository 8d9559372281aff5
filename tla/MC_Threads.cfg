SPECIFICATION Spec
CONSTANTS
  AreaSize = 6
  MaxLen = 3
  MaxMsgs = 5
  Loggers = {l1, l2}
  MaxThreads = 2
  MaxContexts = 3
INVARIANTS LogChain CheckerSound
PROPERTIES IsFifo LogWritten ChecksEnd ThreadsEnd
CHECK_DEADLOCK FALSE
