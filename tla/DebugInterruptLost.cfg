SPECIFICATION PartsSpec
CONSTANTS
  Parts = {"session"}
  Points = {1, 2}
  Entry = 1
  Coalesce = TRUE
  CommandBound = 2
  TimeoutBound = 0
  Sources = {1, 2}
  SetBound = 0
  LateBound = 0
  ControlBound = 0
  LateRequests = 0
PROPERTY InterruptStops
CHECK_DEADLOCK FALSE
