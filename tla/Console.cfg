\* One visible line of two columns, of a history of two: what is printed and typed.
SPECIFICATION Spec
CONSTANTS
  Columns = 2
  Rows = 1
  History = 2
  Letters = {"k"}
  Events = {"k","enter","delete","up"}
  Printed = {"a","wide","bs"}
  Prompts = {"a"}
  MaxBytes = 9
  CallBound = 4
  HatBound = 2
INVARIANTS LineWhole
PROPERTIES FlushShows BatchIsolated EnterEndsRead
CHECK_DEADLOCK FALSE
