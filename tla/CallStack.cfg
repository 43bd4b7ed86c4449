SPECIFICATION Spec
CONSTANTS
  Functions <- MCFunctions
  Main = 16
  ByVal = {32}
  Variadic = {48}
  Data = {1, 2}
  Pointers = {24}
  MemTop = 14
  MaxCells = 1
INVARIANTS StackDisciplined
PROPERTIES ImplementsCalls
CHECK_DEADLOCK FALSE
