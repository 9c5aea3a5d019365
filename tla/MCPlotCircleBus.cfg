CONSTANTS
  CIRCLES = 2
  NumCircles = 3
  Ratio = 2
  BusyTicks <- MCBusyTicks
  StackAddrs <- MCStackAddrs
SPECIFICATION BusSpec
INVARIANTS BusInv WriteIsTaken NoneUnaccounted
PROPERTIES ImplementsLossyPool DrawnOrLost
