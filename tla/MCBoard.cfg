SPECIFICATION BoardSpec
CONSTANTS
  Alarm = {a1, a2, a3}
  alt_alarm_list = alt_alarm_list
  Word = 5
  Delays = {0, 3}
  Periods = {0, 1, 4}
  StopsOthers = FALSE
  ALT_MAX_FD = 6
  Device = {"null", "uart", "other"}
  Null = "null"
  Uart = "uart"
  NoDev = NoDev
  Irq = {0, 1, 2}
  TIMER_IRQ = 0
  JTAG_UART_IRQ = 1
  Paced = {0}
INVARIANTS
  Linked
  NoLeak
  HandlerThere
  SectionsWhole
PROPERTIES
  OnTime
  LockHolds
  Served
