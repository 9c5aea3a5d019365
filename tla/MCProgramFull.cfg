CONSTANTS
  CIRCLES = 12
  NumCircles = 50
  Ratio = 2
  BusyTicks <- MCBusyTicks
  StackAddrs <- MCStackAddrs
  InstrCycles = 6
  Nops = 876
SPECIFICATION ProgramSpec
INVARIANT DelayCoversDrawing
