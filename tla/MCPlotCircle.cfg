CONSTANTS
  CIRCLES = 2
  NumCircles = 4
  Ratio = 2
  BusyTicks <- MCBusyTicks
  StackAddrs <- MCStackAddrs
SPECIFICATION FairSpec
INVARIANTS Inv DispatcherWritesReady TripleIntact DrawnExactlyOnce
PROPERTIES ImplementsPool AllDrawn
