SPECIFICATION StreamsSpec
CONSTANTS
  BufferBytes = 2
  Requests = {1, 3}
  MaxTyped = 2
  LineBound = 2
  StreamCallBound = 4
INVARIANT ExitFlushes
CHECK_DEADLOCK FALSE
