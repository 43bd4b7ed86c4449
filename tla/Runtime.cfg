SPECIFICATION RuntimeSpec
CONSTANTS
  HeapBytes = 14
  Alignment = 2
  HeaderBytes = 2
  Base = 6
  SizeMax = 63
  Sizes = {0, 3, 5, 17}
  Aligns = {3, 8, 16}
  Counts = {2, 22}
  WildPointers = {5}
  Contents = {d1, d2, d3}
  Dsos = {a, b}
  NullDso = null
  Statics = {s}
  HandlerCapacity = 3
  RegBound = 3
  MaxDepth = 4
  BufferBytes = 2
  Requests = {1, 3}
  MaxTyped = 2
  LineBound = 2
  StreamCallBound = 4
  Elements <- MCElements
  Chars = {1, 2}
  MaxCount = 5
INVARIANTS WellFormed EachRunsOnce InputFaithful OutputShown LibraryMeans
PROPERTIES LatestFirst ExitEnds
CHECK_DEADLOCK FALSE
