------------------------------ MODULE JtagUart ------------------------------
(***************************************************************************)
(* The interrupt-driven JTAG UART driver that stdout and stdin go through: *)
(* altera_avalon_jtag_uart_write, _read, _close and _ioctl in the main     *)
(* program, its interrupt handler, and the routine an alarm calls every    *)
(* second to see whether a host is there.                                  *)
(*                                                                         *)
(* The main program copies to and from the circular buffers without a      *)
(* lock: the handler may run between any two of its steps, and the host    *)
(* between any two of the handler's.  Handlers do not nest.                *)
(***************************************************************************)
EXTENDS Integers, Sequences, SequencesExt

CONSTANTS
  BUF_LEN,      \* ALTERA_AVALON_JTAG_UART_BUF_LEN
  HwDepth,      \* of the FIFOs in the hardware
  Threshold,    \* the write interrupt is raised at this many characters or fewer
  DefaultTimeout, INT_MAX,
  Requested,    \* the arguments of TIOCSTIMEOUT
  Counts,       \* the lengths of reads and writes
  Calls,        \* what the program calls: write, read, close
  HostTypes,    \* TRUE: the host sends characters
  Char

ASSUME JtagUartAssumption ==
  /\ BUF_LEN \in Nat /\ BUF_LEN >= 2
  /\ HwDepth \in Nat \ {0} /\ Threshold \in 0 .. HwDepth - 1
  /\ INT_MAX \in Nat /\ DefaultTimeout \in 2 .. INT_MAX - 1
  /\ Requested \subseteq Nat
  /\ Counts \subseteq Nat \ {0}
  /\ Calls \subseteq {"write", "read", "close"} /\ HostTypes \in BOOLEAN
  /\ Char # {}

VARIABLES
  pc,               \* where the main program is
  flags,            \* O_NONBLOCK is set
  count, n, seenIn, seenOut, moved, result,   \* locals of the call (moved: ptr # start)
  tx_in, tx_out, tx_buf, rx_in, rx_out, rx_buf,
  RE, WE,           \* irq_enable, here and in the control register
  host_inactive, timeout,
  isr,              \* where the handler is, "out" when it is not running
  WI, space, ravail,                      \* locals of the handler
  txfifo, rxfifo, AC                          \* the hardware

call == <<flags, count, n, seenIn, seenOut, moved, result>>
tx == <<tx_in, tx_out, tx_buf>>
rx == <<rx_in, rx_out, rx_buf>>
handler == <<isr, WI, space, ravail>>
hardware == <<txfifo, rxfifo, AC>>
vars == <<pc, call, tx, rx, RE, WE, host_inactive, timeout, handler, hardware>>

Index == 0 .. BUF_LEN - 1
Smaller(a, b) == IF a <= b THEN a ELSE b
Advance(i, k) == (i + k) % BUF_LEN

Init ==
  /\ pc = "idle" /\ flags = FALSE /\ count = 0 /\ n = 0 /\ seenIn = 0 /\ seenOut = 0
  /\ moved = FALSE /\ result = "none"
  /\ tx_in = 0 /\ tx_out = 0 /\ rx_in = 0 /\ rx_out = 0
  /\ \E c \in Char : tx_buf = [i \in Index |-> c] /\ rx_buf = [i \in Index |-> c]
  /\ RE = TRUE /\ WE = FALSE
  /\ host_inactive = 0 /\ timeout = DefaultTimeout
  /\ isr = "out" /\ WI = FALSE /\ space = 0 /\ ravail = FALSE
  /\ txfifo = <<>> /\ rxfifo = <<>> /\ AC = FALSE

-----------------------------------------------------------------------------
(* altera_avalon_jtag_uart_write.                                           *)
Return == IF moved THEN "moved" ELSE IF flags THEN "EWOULDBLOCK" ELSE "EIO"

(* The call is over; its locals are gone. *)
Leave(r) ==
  /\ pc' = "idle" /\ result' = r
  /\ flags' = FALSE /\ count' = 0 /\ n' = 0 /\ seenIn' = 0 /\ seenOut' = 0 /\ moved' = FALSE

Call(where) ==
  /\ pc = "idle" /\ pc' = where
  /\ flags' \in BOOLEAN /\ count' \in Counts
  /\ moved' = FALSE /\ result' = "none"
  /\ UNCHANGED <<n, seenIn, seenOut, tx, rx, RE, WE, host_inactive, timeout, handler, hardware>>

(* Seeded fault: the slot that keeps full and empty apart is used as well. *)
RoomToTheEnd(in, out) == IF in < out THEN out - 1 - in ELSE BUF_LEN - in
Room(in, out) == IF in < out THEN out - 1 - in
                 ELSE IF out > 0 THEN BUF_LEN - in ELSE BUF_LEN - 1 - in

WriteLook ==
  /\ pc = "write"
  /\ seenIn' = tx_in /\ seenOut' = tx_out
  /\ n' = Smaller(Room(tx_in, tx_out), count)
  /\ pc' = IF Room(tx_in, tx_out) = 0 THEN "kick" ELSE "write_copy"
  /\ UNCHANGED <<flags, count, moved, result, tx, rx, RE, WE, host_inactive, timeout, handler, hardware>>

WriteCopy ==
  /\ pc = "write_copy"
  /\ \E s \in [Index -> Char] :
       tx_buf' = [i \in Index |-> IF i \in seenIn .. seenIn + n - 1 THEN s[i] ELSE tx_buf[i]]
  /\ tx_in' = Advance(seenIn, n)
  /\ count' = count - n /\ moved' = TRUE
  /\ pc' = IF count = n THEN "kick" ELSE "write"
  /\ UNCHANGED <<flags, n, seenIn, seenOut, result, tx_out, rx, RE, WE, host_inactive, timeout, handler, hardware>>

(* Seeded fault: the interrupt is only enabled when the copy filled the buffer. *)
KicksWhenFull == count > 0 \/ WE
Kicks == TRUE

Kick ==
  /\ pc = "kick"
  /\ WE' = Kicks
  /\ IF count = 0 \/ flags THEN Leave(Return) ELSE pc' = "write_spin" /\ UNCHANGED call
  /\ UNCHANGED <<tx, rx, RE, host_inactive, timeout, handler, hardware>>

(* Seeded fault: the wait does not look at the host. *)
HostGoneNever == FALSE
HostGone == host_inactive >= timeout

WriteSpin ==
  /\ pc = "write_spin" /\ pc' = "write_after"
  /\ seenOut # tx_out \/ HostGone
  /\ UNCHANGED <<call, tx, rx, RE, WE, host_inactive, timeout, handler, hardware>>

WriteAfter ==
  /\ pc = "write_after"
  /\ IF host_inactive # 0 THEN Leave(Return) ELSE pc' = "write" /\ UNCHANGED call
  /\ UNCHANGED <<tx, rx, RE, WE, host_inactive, timeout, handler, hardware>>

-----------------------------------------------------------------------------
(* altera_avalon_jtag_uart_read; count is its space.                        *)
Held(in, out) == IF in >= out THEN in - out ELSE BUF_LEN - out

ReadLook ==
  LET none == Held(rx_in, rx_out) = 0 IN
  /\ pc = "read"
  /\ seenIn' = rx_in /\ seenOut' = rx_out
  /\ n' = Smaller(Held(rx_in, rx_out), count)
  /\ pc' = IF ~none THEN "read_copy" ELSE IF moved \/ flags THEN "read_end" ELSE "read_spin"
  /\ UNCHANGED <<flags, count, moved, result, tx, rx, RE, WE, host_inactive, timeout, handler, hardware>>

ReadCopy ==
  /\ pc = "read_copy"
  /\ rx_out' = Advance(seenOut, n)
  /\ count' = count - n /\ moved' = TRUE
  /\ pc' = IF count = n THEN "read_end" ELSE "read"
  /\ UNCHANGED <<flags, n, seenIn, seenOut, result, tx, rx_in, rx_buf, RE, WE, host_inactive, timeout, handler, hardware>>

ReadSpin ==
  /\ pc = "read_spin" /\ pc' = "read_after"
  /\ seenIn # rx_in \/ HostGone
  /\ UNCHANGED <<call, tx, rx, RE, WE, host_inactive, timeout, handler, hardware>>

ReadAfter ==
  /\ pc = "read_after"
  /\ pc' = IF seenIn = rx_in THEN "read_end" ELSE "read"
  /\ UNCHANGED <<call, tx, rx, RE, WE, host_inactive, timeout, handler, hardware>>

Reopens == RE \/ moved

ReadEnd ==
  /\ pc = "read_end"
  /\ RE' = Reopens
  /\ Leave(Return)
  /\ UNCHANGED <<tx, rx, WE, host_inactive, timeout, handler, hardware>>

-----------------------------------------------------------------------------
(* altera_avalon_jtag_uart_close and _ioctl.                                *)
Close ==
  /\ pc = "close"
  /\ \/ (tx_in = tx_out \/ HostGone) /\ Leave("closed")
     \/ tx_in # tx_out /\ ~HostGone /\ flags /\ Leave("EWOULDBLOCK")
  /\ UNCHANGED <<tx, rx, RE, WE, host_inactive, timeout, handler, hardware>>

Ioctl ==
  /\ pc = "idle" /\ timeout # INT_MAX
  /\ \E t \in Requested : timeout' = IF t >= 2 /\ t < INT_MAX THEN t ELSE INT_MAX - 1
  /\ UNCHANGED <<pc, call, tx, rx, RE, WE, host_inactive, handler, hardware>>

Caller == \/ \E where \in Calls : Call(where)
          \/ Ioctl

MainStep == \/ WriteLook \/ WriteCopy \/ Kick \/ WriteSpin \/ WriteAfter
            \/ ReadLook \/ ReadCopy \/ ReadSpin \/ ReadAfter \/ ReadEnd \/ Close

-----------------------------------------------------------------------------
(* altera_avalon_jtag_uart_irq.                                             *)
ReadPending == RE /\ rxfifo # <<>>
WritePending == WE /\ Len(txfifo) <= Threshold

(* The handler is entered, or comes round, and reads the control register.  *)
IrqControl ==
  /\ \/ isr = "out" /\ (ReadPending \/ WritePending)
     \/ isr = "control"
  /\ WI' = WritePending
  /\ space' = HwDepth - Len(txfifo) /\ ravail' = TRUE
  /\ isr' = IF ReadPending THEN "read" ELSE IF WritePending THEN "write" ELSE "out"
  /\ UNCHANGED <<pc, call, tx, rx, RE, WE, host_inactive, timeout, hardware>>

(* Seeded fault: a full buffer is written all the same. *)
RxFullNever == FALSE
RxFull == Advance(rx_in, 1) = rx_out

IrqRead ==
  /\ isr = "read" /\ ~RxFull
  /\ IF rxfifo = <<>>
     THEN isr' = "read_end" /\ ravail' = FALSE /\ UNCHANGED <<rx_in, rx_buf, rxfifo>>
     ELSE /\ rx_buf' = [rx_buf EXCEPT ![rx_in] = Head(rxfifo)]
          /\ rx_in' = Advance(rx_in, 1)
          /\ rxfifo' = Tail(rxfifo)
          /\ ravail' = (Len(rxfifo) > 1)
          /\ UNCHANGED isr
  /\ UNCHANGED <<pc, call, tx, rx_out, RE, WE, host_inactive, timeout, WI, space, txfifo, AC>>

StaysOpen == ~ravail

IrqReadEnd ==
  /\ isr = "read_end" \/ (isr = "read" /\ RxFull)
  /\ RE' = (RE /\ StaysOpen)
  /\ isr' = IF WI THEN "write" ELSE "control"
  /\ UNCHANGED <<pc, call, tx, rx, WE, host_inactive, timeout, WI, space, ravail, hardware>>

(* A character written to a full FIFO is lost.                              *)
IrqWrite ==
  /\ isr = "write" /\ space > 0 /\ tx_out # tx_in
  /\ txfifo' = IF Len(txfifo) < HwDepth THEN Append(txfifo, tx_buf[tx_out]) ELSE txfifo
  /\ tx_out' = Advance(tx_out, 1)
  /\ space' = space - 1
  /\ UNCHANGED <<pc, call, tx_in, tx_buf, rx, RE, WE, host_inactive, timeout, isr, WI, ravail, rxfifo, AC>>

(* Whether the write interrupt stays enabled. *)
StaysOn == space = 0

IrqWriteEnd ==
  /\ isr = "write" /\ ~(space > 0 /\ tx_out # tx_in)
  /\ WE' = (WE /\ StaysOn)
  /\ isr' = "control"
  /\ UNCHANGED <<pc, call, tx, rx, RE, host_inactive, timeout, WI, space, ravail, hardware>>

Irq == IrqControl \/ IrqRead \/ IrqReadEnd \/ IrqWrite \/ IrqWriteEnd

(* altera_avalon_jtag_uart_timeout, called by alt_tick every second.        *)
Second ==
  /\ isr = "out"
  /\ AC' = FALSE
  /\ host_inactive' = IF AC THEN 0
                      ELSE IF host_inactive < INT_MAX - 2 THEN host_inactive + 1 ELSE host_inactive
  /\ UNCHANGED <<pc, call, tx, rx, RE, WE, timeout, handler, txfifo, rxfifo>>

-----------------------------------------------------------------------------
(* The host (external): it takes a character if there is one, or sends one. *)
HostPoll ==
  /\ AC' = TRUE
  /\ txfifo' = IF txfifo = <<>> THEN <<>> ELSE Tail(txfifo)
  /\ UNCHANGED <<pc, call, tx, rx, RE, WE, host_inactive, timeout, handler, rxfifo>>

HostSend ==
  /\ HostTypes /\ Len(rxfifo) < HwDepth
  /\ AC' = TRUE
  /\ \E c \in Char : rxfifo' = Append(rxfifo, c)
  /\ UNCHANGED <<pc, call, tx, rx, RE, WE, host_inactive, timeout, handler, txfifo>>

Next == \/ isr = "out" /\ (Caller \/ MainStep)
        \/ Irq \/ Second
        \/ HostPoll \/ HostSend

(* The program and its handlers run; the host need not.  The handler ends   *)
(* (HandlerEnds), so the main program and the timer have their turn.        *)
Fairness ==
  /\ WF_vars(Irq)
  /\ SF_vars(isr = "out" /\ MainStep)
  /\ SF_vars(Second)

Spec == Init /\ [][Next]_vars /\ Fairness

-----------------------------------------------------------------------------
Places == {"idle", "write", "write_copy", "kick", "write_spin", "write_after",
           "read", "read_copy", "read_spin", "read_after", "read_end", "close"}

(* Every variable has its type. *)
TypeOK ==
  /\ pc \in Places /\ flags \in BOOLEAN
  /\ count \in Nat /\ n \in Nat /\ moved \in BOOLEAN
  /\ seenIn \in Index /\ seenOut \in Index
  /\ result \in {"none", "moved", "closed", "EWOULDBLOCK", "EIO"}
  /\ tx_in \in Index /\ tx_out \in Index /\ tx_buf \in [Index -> Char]
  /\ rx_in \in Index /\ rx_out \in Index /\ rx_buf \in [Index -> Char]
  /\ RE \in BOOLEAN /\ WE \in BOOLEAN
  /\ host_inactive \in 0 .. INT_MAX /\ timeout \in 2 .. INT_MAX - 1
  /\ isr \in {"out", "control", "read", "read_end", "write"}
  /\ WI \in BOOLEAN /\ space \in 0 .. HwDepth /\ ravail \in BOOLEAN
  /\ txfifo \in Seq(Char) /\ rxfifo \in Seq(Char) /\ AC \in BOOLEAN

(* No lost wake-up on the way out: characters left in the buffer by a call  *)
(* that is over or waits have the write interrupt enabled.                  *)
OutputWakes == tx_in # tx_out /\ pc \notin {"write", "write_copy", "kick"} => WE

(* None on the way in: the read interrupt is only off while the buffer is   *)
(* not empty or a reader that has emptied it is on its way to enable it.    *)
InputWakes == ~RE => \/ rx_in # rx_out
                     \/ pc \in {"read", "read_end"} /\ moved

(* No character waits in a buffer with nobody told to take it. *)
NoLostWakeup == OutputWakes /\ InputWakes

(* The contents of a circular buffer. *)
Contents(buf, in, out) ==
  [i \in 1 .. (in - out + BUF_LEN) % BUF_LEN |-> buf[Advance(out, i - 1)]]

(* Each direction is a channel: the two circular buffers and the FIFOs keep *)
(* every character and their order, whoever runs when.                      *)
Out == INSTANCE Channel WITH Capacity <- BUF_LEN - 1 + HwDepth,
                             q <- txfifo \o Contents(tx_buf, tx_in, tx_out)
In == INSTANCE Channel WITH Capacity <- BUF_LEN - 1 + HwDepth,
                            q <- Contents(rx_buf, rx_in, rx_out) \o rxfifo
ImplementsOut == Out!Spec
ImplementsIn == In!Spec

(* A call ends: the host takes the characters, or after some seconds        *)
(* without it the driver gives up.  The game does not hang in a printf.     *)
CallEnds == pc # "idle" ~> pc = "idle"

(* A character that the host sends ends the read that waits for one.        *)
InputArrives == (pc # "idle" /\ rxfifo # <<>>) ~> pc = "idle"

(* The handler does not keep the processor, however fast the host types.    *)
HandlerEnds == isr # "out" ~> isr = "out"

(* altera_avalon_jtag_uart_write.c:214: EIO says that no host is connected, *)
(* which for the driver is what TIOCGCONNECTED answers.                     *)
EioMeansNoHost == [][(result' = "EIO" /\ result # "EIO") => HostGone]_vars
=============================================================================
