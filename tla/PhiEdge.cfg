SPECIFICATION Spec
CONSTANTS
  Pool <- MCPool
  PcBytes = 1
  Outgoing = 10
  Align = 2
  Capacity = 12
  Value <- MCValue
  Memories <- MCMemories
  Targets = {20}
  Plans <- MCPlans
INVARIANTS Simultaneous Untouched Reserved BrokenFrugally
PROPERTIES Terminates
CHECK_DEADLOCK FALSE
