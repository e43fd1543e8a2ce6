SPECIFICATION RoundSpec
CONSTANTS
  SecondFrames = 60
  Bits = 3
  Tap = 1
  AfterReset = 3
  Every = 2
  Columns = 4
  Lines = 4
PROPERTY ImplementsMatch
PROPERTY NoDoubleEnter
PROPERTY DeathIsShown
PROPERTY PrizesInTime
