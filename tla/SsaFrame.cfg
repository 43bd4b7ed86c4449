SPECIFICATION FrameSpec
CONSTANTS
  Bodies <- MCBodies
  Bit = {0, 1}
  Constant = 1
  Pool = 1
  PcBytes = 1
  Memories = {}
  Targets = {}
  Plans = {}
  Outgoing = 14
  Align = 2
  Capacity = 18
  Value <- MCValue
INVARIANTS PlansLegal
PROPERTIES ImplementsSsa
CHECK_DEADLOCK FALSE
