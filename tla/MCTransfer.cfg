SPECIFICATION Spec
CONSTANTS
  USB_NAK_LIMIT = 2
  USB_RETRY_LIMIT = 2
  MaxPktSize = 2
  Asked = {4}
  LateChip = FALSE
INVARIANTS
  ResultIsOwn
  EveryPacketOnce
PROPERTIES
  SuccessIsComplete
  RequestEnds
