SPECIFICATION CompilerSpec
CONSTANTS
  ByteBits = 2
  PointerBytes = 3
  AddressBytes = 2
  FixedSizes = {1, 2, 4}
  DataStart = 2
  MemorySize = 15
  ExpBits = 4
  FracBits = 3
  GuardBits = 3
  Memories <- MCMemories
  Instructions <- MCInstructions
  Functions = {"main", "f", "g", "h", "rt", "norm"}
  Globals = {"data", "ctors"}
  Aliases = {"alias"}
  Runtime = {"rt", "norm"}
  Main = "main"
  Programs <- MCPrograms
  CharBits = 4
  DoubleBytes = 3
  FractionBits = 7
  MinExponent <- MCMinExponent
  DoubleBias = 7
  PointBits = 13
  Reported <- MCResults
  PlusInfinity = PlusInfinity
  MinusInfinity = MinusInfinity
  MinusZero = MinusZero
  NotANumber = NotANumber
  Text = Text
  Unset = Unset
  MaxNesting = 2
  Templates <- MCTemplates
  NoBlock = NoBlock
  Expressions <- MCExpressions
  Projects <- MCProjects
INVARIANTS ComputesMeaning MovesWhole RunsWhole PrunesOnce NoStaleOutput BridgesMean ReadsBack
CHECK_DEADLOCK FALSE
