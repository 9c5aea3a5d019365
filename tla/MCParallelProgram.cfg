CONSTANTS
  CIRCLES = 11
  NumCircles = 50
  DrawTicks <- MCDrawTicks
  InstrCycles = 6
  LoopInstrs = 62
  ReturnInstrs = 15
  StampCycles = 262
  FloatCycles = 303
  SumInstrs = 15
SPECIFICATION Spec
INVARIANTS Inv NoneLost ChecksumOfAll
CHECK_DEADLOCK FALSE
