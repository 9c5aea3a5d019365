CONSTANTS
  CIRCLES = 2
  NumCircles = 4
  Ratio = 2
  BusyTicks <- MCBusyTicks
  StackAddrs <- MCStackAddrs
  InstrCycles = 6
  Nops = 10
SPECIFICATION ProgramSpec
INVARIANTS ProgramInv ChecksumsAgree DelayCoversDrawing
PROPERTY ProgramEnds
