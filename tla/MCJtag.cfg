SPECIFICATION SafeSpec
CONSTANTS
  BUF_LEN = 3
  HwDepth = 2
  Threshold = 1
  DefaultTimeout = 2
  INT_MAX = 4
  Requested = {}
  Counts = {1, 3}
  Calls = {"write", "close", "read"}
  HostTypes = TRUE
  Char = {a, b}
INVARIANT NoLostWakeup
PROPERTY ImplementsOut
PROPERTY ImplementsIn
