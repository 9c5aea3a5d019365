CONSTANTS
  ScreenSize = 16
  Operands <- MCOperands
  Pixels <- MCPixels
SPECIFICATION Spec
INVARIANTS Inv EighthsOfPlotted
