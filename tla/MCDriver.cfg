SPECIFICATION Spec
CONSTANTS
  Word = 64
  Hz = 3
  SettleTime = 2
  USB_XFER_TIMEOUT = 5
  BufSize = 3
  MaxDescr = 4
  Sizes = {0, 2, 3}
  TmpValues = 3
  OscStarts = TRUE
  Keys = {26, 101}
  Displacements = {0, 100, 129}
  Presses = {{}, {0, 2}}
INVARIANTS
  OwnBytes
  RunsAsItIs
  OwnAnswer
  PanelShows
PROPERTIES
  NotEarly
  Ends
  ProbesEnd
  KeysFollow
