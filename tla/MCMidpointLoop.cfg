CONSTANTS
  ScreenSize = 512
  Circles <- MCCircles
  BusAddrs <- MCBusAddrs
  BusBytes <- MCBusBytes
  PowerUp <- MCPowerUp
SPECIFICATION Spec
CONSTRAINT OneCircle
INVARIANTS LoopInv NearestPoint
PROPERTY NextPointShows
CHECK_DEADLOCK FALSE
