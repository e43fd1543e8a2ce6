SPECIFICATION PictureSpec
CONSTANTS
  HPixels = 799
  VLines = 524
  HVisible = 640
  VVisible = 480
  HSyncFirst = 656
  HSyncLast = 752
  VSync = 490
  Ball_Size = 2
  Word = 32
  Ball_X_Max = 17
  Ball_Y_Max = 15
  Ball_X_Center = 4
  Ball_Y_Center = 5
  TopWidth = 4
  Obstacles <- Walls
  VenomS = 2
  VenomStep = 2
  VenomWord = 12
  Meets = {TRUE, FALSE}
  Stops <- Fences
  Heads <- Places
PROPERTIES
  WholePicture
  NoBlindStep
  NoTunnel
