CONSTANTS
  ScreenSize = 16
  Circles <- MCRadius4
  BusPixels <- MCBusPixels
  PowerUp <- MCBlank
SPECIFICATION FairSpec
INVARIANT DrawnLikeSoftware
CONSTRAINT LeftAlone
