SPECIFICATION LiveSpec
CONSTANTS
  BUF_LEN = 3
  HwDepth = 2
  Threshold = 1
  DefaultTimeout = 2
  INT_MAX = 5
  Requested = {3}
  Counts = {1, 3}
  Calls = {"write", "close", "read"}
  HostTypes = TRUE
  Char = {a}
PROPERTY CallsEnd
