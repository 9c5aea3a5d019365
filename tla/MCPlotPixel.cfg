CONSTANTS
  ScreenSize = 16
  Circles <- MCCircles
  BusAddrs <- MCBusAddrs
  BusBytes <- MCBusBytes
  PowerUp <- MCPowerUp
SPECIFICATION FairSpec
INVARIANTS Inv StoreIsFresh PortsAgree TicksPerCircle
PROPERTIES ImplementsLoop DrawingEnds
