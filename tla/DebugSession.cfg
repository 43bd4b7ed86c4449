SPECIFICATION PartsSpec
CONSTANTS
  Parts = {"session", "adapter", "terminal"}
  Points = {1, 2}
  Entry = 1
  Coalesce = TRUE
  CommandBound = 3
  TimeoutBound = 1
  Sources = {1, 2}
  SetBound = 3
  LateBound = 1
  ControlBound = 3
  LateRequests = 1
INVARIANTS InAgreement StartsAsConfigured PromptTruthful
PROPERTIES StepsExpected EveryoneHears ProgramStarts
CHECK_DEADLOCK FALSE
