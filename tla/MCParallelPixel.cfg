CONSTANTS
  ScreenSize = 8
  Circles <- MCCircles
  BusPixels <- MCBusPixels
  PowerUp <- MCPowerUp
SPECIFICATION FairSpec
INVARIANTS Inv OnePointMore OnlyExceptionsDiffer TicksPerCircle ReadsNeverMiss
PROPERTY DrawingEnds
