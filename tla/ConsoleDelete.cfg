\* One visible line of two columns, of a history of two: only typed and deleted.
SPECIFICATION Spec
CONSTANTS
  Columns = 2
  Rows = 1
  History = 2
  Letters = {"k"}
  Events = {"k", "delete"}
  Printed = {"a"}
  Prompts = {"a"}
  MaxBytes = 9
  CallBound = 2
  HatBound = 4
PROPERTY DeletionShows
CHECK_DEADLOCK FALSE
