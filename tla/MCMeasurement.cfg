CONSTANTS
  Half = 6
  Reset = 9
  Depth = 2
  Line1 = 3
  Line2 = 2
SPECIFICATION Spec
INVARIANTS Inv MeasuredTime TextArrives
PROPERTY MainEnds
