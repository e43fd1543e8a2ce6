SPECIFICATION Spec
CONSTANTS
  Word = 64
  Hz = 3
  SettleTime = 2
  USB_XFER_TIMEOUT = 5
PROPERTIES
  SettleEnds
