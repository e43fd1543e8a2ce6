----------------------------- MODULE JtagProofs -----------------------------
(***************************************************************************)
(* The wake-ups of the JTAG UART's driver, and the two ways as channels    *)
(* (Channel.tla), for buffers, FIFOs and time-limits of any size, with     *)
(* both ways in use at once.                                               *)
(***************************************************************************)
EXTENDS JtagUart, SequenceTheorems, TLAPS

Located ==
  /\ pc \in Places /\ isr \in {"out", "control", "read", "read_end", "write"}
  /\ moved \in BOOLEAN /\ RE \in BOOLEAN /\ WE \in BOOLEAN

Indexed ==
  /\ count \in Int /\ n \in Int /\ seenIn \in Index /\ seenOut \in Index
  /\ tx_in \in Index /\ tx_out \in Index /\ rx_in \in Index /\ rx_out \in Index

(* The handler does not believe in less than no room. *)
Filled ==
  /\ tx_buf \in [Index -> Char]
  /\ txfifo \in Seq(Char) /\ Len(txfifo) <= HwDepth /\ space \in Nat

(* The handler leaves its first loop with an empty FIFO or a full buffer.   *)
Emptied == isr = "read_end" => ~ravail

(* A reader that copies has found something to copy. *)
FoundSome == pc = "read_copy" => rx_in # rx_out

WakeInv == Located /\ Indexed /\ Filled /\ Emptied /\ FoundSome /\ NoLostWakeup
-----------------------------------------------------------------------------
LEMMA AdvanceType ==
  ASSUME JtagUartAssumption, NEW i \in Int, NEW k \in Int
  PROVE  Advance(i, k) \in Index
BY DEF JtagUartAssumption, Advance, Index

(* The slot after an index is another one. *)
LEMMA AdvanceMoves ==
  ASSUME JtagUartAssumption, NEW i \in Index
  PROVE  Advance(i, 1) # i
<1>1. CASE i = BUF_LEN - 1 BY <1>1, BUF_LEN % BUF_LEN = 0 DEF JtagUartAssumption,
    Advance, Index
<1>2. CASE i # BUF_LEN - 1
  <2>1. i + 1 \in 0 .. BUF_LEN - 1 BY <1>2 DEF JtagUartAssumption, Index
  <2>2. (i + 1) % BUF_LEN = i + 1 BY <2>1 DEF JtagUartAssumption
  <2> QED BY <2>2 DEF Advance, Index
<1> QED BY <1>1, <1>2

(* Every index is one of the buffer's, and 0 is one. *)
LEMMA ZeroIndex == ASSUME JtagUartAssumption PROVE 0 \in Index
BY DEF JtagUartAssumption, Index

(* Held tells an empty buffer from one that is not. *)
LEMMA HeldIsSome ==
  ASSUME NEW in \in Index, NEW out \in Index, Held(in, out) # 0
  PROVE  in # out
BY DEF Held, Index

(* What Next is made of, for the proofs by cases. *)
LEMMA Steps ==
  ASSUME Next
  PROVE  \/ isr = "out" /\ (Caller \/ MainStep)
         \/ IrqControl \/ IrqRead \/ IrqReadEnd \/ IrqWrite \/ IrqWriteEnd
         \/ Second \/ HostPoll \/ HostSend
BY DEF Next, Irq
-----------------------------------------------------------------------------
(* The program and the handler are somewhere. *)
LEMMA LocatedKept == ASSUME JtagUartAssumption, WakeInv, [Next]_vars PROVE Located'
<1> USE JtagUartAssumption DEF tx, rx, handler, hardware
<1>1. CASE WriteLook BY <1>1 DEF WriteLook, Located, Places, WakeInv
<1>2. CASE Kick BY <1>2 DEF Kick, Kicks, Leave, call, Located, Places, WakeInv
<1>3. CASE WriteAfter BY <1>3 DEF WriteAfter, Leave, call, Located, Places, WakeInv
<1>4. CASE ReadLook BY <1>4 DEF ReadLook, Located, Places, WakeInv
<1>5. CASE ReadEnd BY <1>5 DEF ReadEnd, Reopens, Leave, Located, Places, WakeInv
<1>6. CASE Close BY <1>6 DEF Close, Leave, Located, Places, WakeInv
<1>7. CASE IrqControl BY <1>7 DEF IrqControl, call, Located, WakeInv
<1>8. CASE IrqRead BY <1>8 DEF IrqRead, call, Located, WakeInv
<1>9. CASE IrqReadEnd BY <1>9 DEF IrqReadEnd, call, Located, WakeInv
<1>10. CASE IrqWriteEnd BY <1>10 DEF IrqWriteEnd, call, Located, WakeInv
<1>11. CASE WriteCopy \/ WriteSpin \/ ReadCopy \/ ReadSpin \/ ReadAfter
  BY <1>11 DEF WriteCopy, WriteSpin, ReadCopy, ReadSpin, ReadAfter, call, Located,
      Places, WakeInv
<1>12. CASE Ioctl \/ IrqWrite \/ Second \/ HostPoll \/ HostSend
  BY <1>12 DEF Ioctl, IrqWrite, Second, HostPoll, HostSend, call, Located, WakeInv
<1>13. ASSUME NEW where \in Calls, isr = "out", Call(where) PROVE Located'
  BY <1>13 DEF Call, Located, Places, WakeInv
<1>14. CASE UNCHANGED vars BY <1>14 DEF vars, call, Located, WakeInv
<1> QED BY Steps, <1>1, <1>2, <1>3, <1>4, <1>5, <1>6, <1>7, <1>8, <1>9, <1>10,
       <1>11, <1>12, <1>13, <1>14 DEF Caller, MainStep

(* Every index stays inside its buffer. *)
LEMMA IndexedKept == ASSUME JtagUartAssumption, WakeInv, [Next]_vars PROVE Indexed'
<1> USE JtagUartAssumption DEF tx, rx, handler, hardware
<1>1. CASE WriteLook BY <1>1 DEF WriteLook, Smaller, Room, Indexed, WakeInv
<1>2. CASE WriteCopy
  <2>1. seenIn \in Int /\ n \in Int /\ count \in Int BY DEF Indexed, Index, WakeInv
  <2>2. Advance(seenIn, n) \in Index /\ count - n \in Int BY <2>1, AdvanceType
  <2> QED BY <1>2, <2>2 DEF WriteCopy, Indexed, WakeInv
<1>3. CASE Kick BY <1>3, ZeroIndex DEF Kick, Leave, call, Indexed, WakeInv
<1>4. CASE WriteAfter BY <1>4, ZeroIndex DEF WriteAfter, Leave, call, Indexed, WakeInv
<1>5. CASE ReadLook BY <1>5 DEF ReadLook, Smaller, Held, Indexed, WakeInv
<1>6. CASE ReadCopy
  <2>1. seenOut \in Int /\ n \in Int /\ count \in Int BY DEF Indexed, Index, WakeInv
  <2>2. Advance(seenOut, n) \in Index /\ count - n \in Int BY <2>1, AdvanceType
  <2> QED BY <1>6, <2>2 DEF ReadCopy, Indexed, WakeInv
<1>7. CASE ReadEnd BY <1>7, ZeroIndex DEF ReadEnd, Leave, Indexed, WakeInv
<1>8. CASE Close BY <1>8, ZeroIndex DEF Close, Leave, Indexed, WakeInv
<1>9. CASE IrqRead
  <2>1. rx_in \in Int /\ 1 \in Int BY DEF Indexed, Index, WakeInv
  <2>2. Advance(rx_in, 1) \in Index BY <2>1, AdvanceType
  <2> QED BY <1>9, <2>2 DEF IrqRead, call, Indexed, WakeInv
<1>10. CASE IrqWrite
  <2>1. tx_out \in Int /\ 1 \in Int BY DEF Indexed, Index, WakeInv
  <2>2. Advance(tx_out, 1) \in Index BY <2>1, AdvanceType
  <2> QED BY <1>10, <2>2 DEF IrqWrite, call, Indexed, WakeInv
<1>11. CASE WriteSpin \/ ReadSpin \/ ReadAfter \/ Ioctl \/ IrqControl \/
             IrqReadEnd \/ IrqWriteEnd \/ Second \/ HostPoll \/ HostSend
  BY <1>11 DEF WriteSpin, ReadSpin, ReadAfter, Ioctl, IrqControl, IrqReadEnd,
      IrqWriteEnd, Second, HostPoll, HostSend, call, Indexed, WakeInv
<1>12. ASSUME NEW where \in Calls, isr = "out", Call(where) PROVE Indexed'
  BY <1>12 DEF Call, Indexed, WakeInv
<1>13. CASE UNCHANGED vars BY <1>13 DEF vars, call, Indexed, WakeInv
<1> QED BY Steps, <1>1, <1>2, <1>3, <1>4, <1>5, <1>6, <1>7, <1>8, <1>9, <1>10,
       <1>11, <1>12, <1>13 DEF Caller, MainStep

(* The FIFO stays within the hardware, the room counted in it too. *)
LEMMA FilledKept == ASSUME JtagUartAssumption, WakeInv, [Next]_vars PROVE Filled'
<1> USE JtagUartAssumption DEF tx, rx, handler, hardware
<1>1. CASE WriteCopy BY <1>1 DEF WriteCopy, Filled, WakeInv
<1>2. CASE IrqControl BY <1>2 DEF IrqControl, call, Filled, WakeInv
<1>3. CASE IrqWrite BY <1>3 DEF call, Filled, Index, WakeInv
<1>4. CASE HostPoll BY <1>4 DEF call, Filled, Index, WakeInv
<1>5. CASE WriteLook \/ Kick \/ WriteSpin \/ WriteAfter \/ ReadLook \/
             ReadCopy \/ ReadSpin \/ ReadAfter \/ ReadEnd \/ Close \/ Ioctl \/
             IrqRead \/ IrqReadEnd \/ IrqWriteEnd \/ Second \/ HostSend
  BY <1>5 DEF WriteAfter, WriteLook, Kick, WriteSpin, ReadLook, ReadCopy, ReadSpin,
      ReadAfter, ReadEnd, Close, Ioctl, IrqRead, IrqReadEnd, IrqWriteEnd, Second,
      HostSend, call, Filled, WakeInv
<1>6. ASSUME NEW where \in Calls, isr = "out", Call(where) PROVE Filled'
  BY <1>6 DEF WriteAfter, Call, Filled, WakeInv
<1>7. CASE UNCHANGED vars BY <1>7 DEF vars, call, Filled, WakeInv
<1> QED BY Steps, <1>1, <1>2, <1>3, <1>4, <1>5, <1>6, <1>7 DEF Caller, MainStep

(* The handler only ends its reading with nothing more to read. *)
LEMMA EmptiedKept == ASSUME JtagUartAssumption, WakeInv, [Next]_vars PROVE Emptied'
<1> USE JtagUartAssumption DEF tx, rx, handler, hardware
<1>1. CASE IrqControl BY <1>1 DEF IrqControl, call, Emptied, WakeInv
<1>2. CASE IrqRead BY <1>2 DEF IrqRead, call, Emptied, WakeInv
<1>3. CASE IrqReadEnd BY <1>3 DEF IrqReadEnd, call, Emptied, WakeInv
<1>4. CASE WriteLook \/ WriteCopy \/ Kick \/ WriteSpin \/ WriteAfter \/
             ReadLook \/ ReadCopy \/ ReadSpin \/ ReadAfter \/ ReadEnd \/ Close
             \/ Ioctl \/ IrqWrite \/ IrqWriteEnd \/ Second \/ HostPoll \/
             HostSend
  BY <1>4 DEF WriteLook, WriteCopy, Kick, WriteSpin, WriteAfter, ReadLook, ReadCopy,
      ReadSpin, ReadAfter, ReadEnd, Close, Ioctl, IrqWrite, IrqWriteEnd, Second,
      HostPoll, HostSend, call, Emptied, WakeInv
<1>5. ASSUME NEW where \in Calls, isr = "out", Call(where) PROVE Emptied'
  BY <1>5 DEF Call, Emptied, WakeInv
<1>6. CASE UNCHANGED vars BY <1>6 DEF vars, call, Emptied, WakeInv
<1> QED BY Steps, <1>1, <1>2, <1>3, <1>4, <1>5, <1>6 DEF Caller, MainStep

(* The handler only adds to what a reader has found. *)
LEMMA FoundSomeKept == ASSUME JtagUartAssumption, WakeInv, [Next]_vars PROVE FoundSome'
<1> USE JtagUartAssumption DEF tx, rx, handler, hardware
<1>1. CASE ReadLook
  <2>1. Held(rx_in, rx_out) # 0 => rx_in # rx_out BY HeldIsSome DEF Indexed, WakeInv
  <2> QED BY <1>1, <2>1 DEF ReadLook, FoundSome, WakeInv
<1>2. CASE IrqRead BY <1>2 DEF IrqRead, call, RxFull, FoundSome, WakeInv
<1>3. CASE WriteLook \/ WriteCopy \/ Kick \/ WriteSpin \/ WriteAfter \/
             ReadCopy \/ ReadSpin \/ ReadAfter \/ ReadEnd \/ Close \/ Ioctl \/
             IrqControl \/ IrqReadEnd \/ IrqWrite \/ IrqWriteEnd \/ Second \/
             HostPoll \/ HostSend
  BY <1>3 DEF WriteLook, WriteCopy, Kick, WriteSpin, WriteAfter, ReadCopy, ReadSpin,
      ReadAfter, ReadEnd, Close, Ioctl, IrqControl, IrqReadEnd, IrqWrite,
      IrqWriteEnd, Second, HostPoll, HostSend, Leave, call, FoundSome, WakeInv
<1>4. ASSUME NEW where \in Calls, isr = "out", Call(where) PROVE FoundSome'
  BY <1>4 DEF Call, FoundSome, WakeInv
<1>5. CASE UNCHANGED vars BY <1>5 DEF vars, call, FoundSome, WakeInv
<1> QED BY Steps, <1>1, <1>2, <1>3, <1>4, <1>5 DEF Caller, MainStep

(* No step leaves output behind with the write interrupt disabled. *)
LEMMA OutputWakesKept == ASSUME JtagUartAssumption, WakeInv, [Next]_vars PROVE OutputWakes'
<1> USE JtagUartAssumption DEF tx, rx, handler, hardware
<1>1. CASE WriteLook BY <1>1 DEF WriteLook, OutputWakes, WakeInv
<1>2. CASE WriteCopy BY <1>2 DEF WriteCopy, OutputWakes, WakeInv
<1>3. CASE Kick BY <1>3 DEF Kick, Kicks, call, OutputWakes, WakeInv
<1>4. CASE WriteAfter BY <1>4 DEF WriteAfter, call, OutputWakes, NoLostWakeup, WakeInv
<1>5. CASE ReadEnd BY <1>5 DEF ReadEnd, OutputWakes, NoLostWakeup, WakeInv
<1>6. CASE Close BY <1>6 DEF Close, OutputWakes, NoLostWakeup, WakeInv
<1>7. CASE IrqWrite BY <1>7 DEF IrqWrite, call, OutputWakes, NoLostWakeup, WakeInv
<1>8. CASE IrqWriteEnd
  <2>1. space = 0 \/ tx_in = tx_out BY <1>8 DEF IrqWriteEnd, Filled, WakeInv
  <2>2. WE' = (WE /\ space = 0) /\ UNCHANGED <<pc, tx_in, tx_out>> BY <1>8 DEF
      IrqWriteEnd, StaysOn, WakeInv
  <2> QED BY <2>1, <2>2 DEF NoLostWakeup, OutputWakes, WakeInv
<1>9. CASE WriteSpin \/ ReadLook \/ ReadCopy \/ ReadSpin \/ ReadAfter \/
             Ioctl \/ IrqControl \/ IrqRead \/ IrqReadEnd \/ Second \/ HostPoll
             \/ HostSend
  BY <1>9 DEF WriteSpin, ReadLook, ReadCopy, ReadSpin, ReadAfter, Ioctl, IrqControl,
      IrqRead, IrqReadEnd, Second, HostPoll, HostSend, call, OutputWakes,
      NoLostWakeup, WakeInv
<1>10. ASSUME NEW where \in Calls, isr = "out", Call(where) PROVE OutputWakes'
  BY <1>10 DEF Call, OutputWakes, NoLostWakeup, WakeInv
<1>11. CASE UNCHANGED vars BY <1>11 DEF vars, call, OutputWakes, NoLostWakeup, WakeInv
<1> QED BY Steps, <1>1, <1>2, <1>3, <1>4, <1>5, <1>6, <1>7, <1>8, <1>9, <1>10, <1>11
       DEF Caller, MainStep

(* No step leaves the read interrupt off for an empty buffer. *)
LEMMA InputWakesKept == ASSUME JtagUartAssumption, WakeInv, [Next]_vars PROVE InputWakes'
<1> USE JtagUartAssumption DEF tx, rx, handler, hardware
<1>1. CASE Kick BY <1>1 DEF Kick, call, InputWakes, NoLostWakeup, WakeInv
<1>2. CASE WriteAfter BY <1>2 DEF WriteAfter, call, InputWakes, NoLostWakeup, WakeInv
<1>3. CASE ReadLook
  <2>1. Held(rx_in, rx_out) # 0 => rx_in # rx_out BY HeldIsSome DEF Indexed, WakeInv
  <2> QED BY <1>3, <2>1 DEF ReadLook, InputWakes, NoLostWakeup, WakeInv
<1>4. CASE ReadCopy BY <1>4 DEF ReadCopy, InputWakes, WakeInv
<1>5. CASE ReadAfter BY <1>5 DEF ReadAfter, call, InputWakes, NoLostWakeup, WakeInv
<1>6. CASE ReadEnd BY <1>6 DEF ReadEnd, Reopens, InputWakes, NoLostWakeup, WakeInv
<1>7. CASE Close BY <1>7 DEF Close, InputWakes, NoLostWakeup, WakeInv
<1>8. CASE IrqRead BY <1>8 DEF IrqRead, call, RxFull, InputWakes, NoLostWakeup, WakeInv
<1>9. CASE IrqReadEnd BY <1>9, AdvanceMoves DEF IrqReadEnd, call, RxFull, StaysOpen,
    InputWakes, NoLostWakeup, Indexed, Emptied, WakeInv
<1>10. CASE WriteLook \/ WriteCopy \/ WriteSpin \/ ReadSpin \/ Ioctl \/
             IrqControl \/ IrqWrite \/ IrqWriteEnd \/ Second \/ HostPoll \/
             HostSend
  BY <1>10 DEF WriteLook, WriteCopy, WriteSpin, ReadSpin, Ioctl, IrqControl,
      IrqWrite, IrqWriteEnd, Second, HostPoll, HostSend, call, InputWakes,
      NoLostWakeup, WakeInv
<1>11. ASSUME NEW where \in Calls, isr = "out", Call(where) PROVE InputWakes'
  BY <1>11 DEF Call, InputWakes, NoLostWakeup, WakeInv
<1>12. CASE UNCHANGED vars BY <1>12 DEF vars, call, InputWakes, NoLostWakeup, WakeInv
<1> QED BY Steps, <1>1, <1>2, <1>3, <1>4, <1>5, <1>6, <1>7, <1>8, <1>9, <1>10,
       <1>11, <1>12 DEF Caller, MainStep

LEMMA InitWakes == ASSUME JtagUartAssumption, Init PROVE WakeInv
<1>1. Located BY DEF Init, Located, Places
<1>2. Indexed BY ZeroIndex DEF Init, Indexed
<1>3. Filled BY DEF Init, Filled
<1>4. Emptied /\ FoundSome /\ NoLostWakeup
  BY DEF Init, Emptied, FoundSome, NoLostWakeup, OutputWakes, InputWakes
<1> QED BY <1>1, <1>2, <1>3, <1>4 DEF WakeInv

(* Each step keeps all of it. *)
LEMMA WakeKept == ASSUME JtagUartAssumption, WakeInv, [Next]_vars PROVE WakeInv'
BY LocatedKept, IndexedKept, FilledKept, EmptiedKept, FoundSomeKept, OutputWakesKept, InputWakesKept
   DEF WakeInv, NoLostWakeup

(* No lost wake-up: characters that wait in the driver's buffers always    *)
(* have an interrupt enabled, or a caller on its way to enable it, that    *)
(* moves them on.                                                          *)
THEOREM Wakes == Spec => []NoLostWakeup
<1>1. Init => WakeInv BY InitWakes, JtagUartAssumption
<1>2. WakeInv /\ [Next]_vars => WakeInv' BY WakeKept, JtagUartAssumption
<1>3. WakeInv => NoLostWakeup BY DEF WakeInv
<1> QED BY <1>1, <1>2, <1>3, PTL DEF Spec
-----------------------------------------------------------------------------
(* Characters in a circular buffer. *)
Used(in, out) == (in - out + BUF_LEN) % BUF_LEN

(* Positions come round once at most.                                       *)
LEMMA Wraps ==
  ASSUME JtagUartAssumption, NEW v \in 0 .. 2 * BUF_LEN - 1
  PROVE  v % BUF_LEN = IF v < BUF_LEN THEN v ELSE v - BUF_LEN
<1>1. \A B \in Nat \ {0} : \A w \in 0 .. B - 1 : w % B = w OBVIOUS
<1>2. \A B \in Nat \ {0} : \A w \in B .. 2 * B - 1 : w % B = w - B OBVIOUS
<1> QED BY <1>1, <1>2 DEF JtagUartAssumption

LEMMA UsedIs ==
  ASSUME JtagUartAssumption, NEW in \in Index, NEW out \in Index
  PROVE  /\ Used(in, out) = IF in >= out THEN in - out ELSE in - out + BUF_LEN
         /\ Used(in, out) \in 0 .. BUF_LEN - 1
<1>1. in - out + BUF_LEN \in 0 .. 2 * BUF_LEN - 1 BY DEF Index, JtagUartAssumption
<1> DEFINE v == in - out + BUF_LEN
<1>2. v % BUF_LEN = IF v < BUF_LEN THEN v ELSE v - BUF_LEN BY <1>1, Wraps
<1> QED BY <1>2 DEF Used, Index, JtagUartAssumption

LEMMA AdvanceIs ==
  ASSUME JtagUartAssumption, NEW i \in Index, NEW k \in 0 .. BUF_LEN
  PROVE  Advance(i, k) = IF i + k < BUF_LEN THEN i + k ELSE i + k - BUF_LEN
<1> DEFINE v == i + k
<1>1. v \in 0 .. 2 * BUF_LEN - 1 /\ i \in Int /\ k \in Int /\ BUF_LEN \in Int
  BY DEF Index, JtagUartAssumption
<1>2. v = i + k /\ Advance(i, k) = v % BUF_LEN BY DEF Advance
<1> HIDE DEF v
<1>3. v % BUF_LEN = IF v < BUF_LEN THEN v ELSE v - BUF_LEN BY <1>1, Wraps
<1>4. Advance(i, k) = IF v < BUF_LEN THEN v ELSE v - BUF_LEN BY <1>2, <1>3, Zenon
<1> QED BY <1>1, <1>2, <1>4

LEMMA AdvanceIn ==
  ASSUME JtagUartAssumption, NEW i \in Index, NEW k \in Int
  PROVE  Advance(i, k) \in Index
<1>1. i \in Int BY DEF Index, JtagUartAssumption
<1> QED BY <1>1, AdvanceType

(* An index moved on behind the last character makes room for more, behind  *)
(* the first for fewer.                                                     *)
LEMMA UsedGrows ==
  ASSUME JtagUartAssumption, NEW in \in Index, NEW out \in Index, NEW k \in Nat,
         Used(in, out) + k <= BUF_LEN - 1
  PROVE  Used(Advance(in, k), out) = Used(in, out) + k
<1> DEFINE u == Used(in, out)
           v == Advance(in, k)
           w == Used(v, out)
<1>1. in \in Nat /\ in < BUF_LEN /\ out \in Nat /\ out < BUF_LEN /\ BUF_LEN \in Nat
  BY DEF Index, JtagUartAssumption
<1>2. u = (IF in >= out THEN in - out ELSE in - out + BUF_LEN) /\ u \in 0 .. BUF_LEN - 1 BY UsedIs
<1>3. u + k <= BUF_LEN - 1 OBVIOUS
<1> HIDE DEF u
<1>4. k \in 0 .. BUF_LEN BY <1>1, <1>2, <1>3
<1>5. v = IF in + k < BUF_LEN THEN in + k ELSE in + k - BUF_LEN BY <1>4, AdvanceIs
<1> HIDE DEF v
<1>6. v \in Nat /\ v < BUF_LEN /\ v \in Index BY <1>1, <1>4, <1>5 DEF Index
<1>7. w = IF v >= out THEN v - out ELSE v - out + BUF_LEN BY <1>6, UsedIs
<1> HIDE DEF w
<1>8. w = u + k BY <1>1, <1>2, <1>3, <1>4, <1>5, <1>6, <1>7
<1> QED BY <1>8 DEF u, v, w

LEMMA UsedShrinks ==
  ASSUME JtagUartAssumption, NEW in \in Index, NEW out \in Index, NEW k \in 0 .. Used(in, out)
  PROVE  Used(in, Advance(out, k)) = Used(in, out) - k
<1> DEFINE u == Used(in, out)
           v == Advance(out, k)
           w == Used(in, v)
<1>1. in \in Nat /\ in < BUF_LEN /\ out \in Nat /\ out < BUF_LEN /\ BUF_LEN \in Nat
  BY DEF Index, JtagUartAssumption
<1>2. u = (IF in >= out THEN in - out ELSE in - out + BUF_LEN) /\ u \in 0 .. BUF_LEN - 1 BY UsedIs
<1>3. k \in 0 .. u OBVIOUS
<1> HIDE DEF u
<1>4. k \in 0 .. BUF_LEN BY <1>1, <1>2, <1>3
<1>5. v = IF out + k < BUF_LEN THEN out + k ELSE out + k - BUF_LEN BY <1>4, AdvanceIs
<1> HIDE DEF v
<1>6. v \in Nat /\ v < BUF_LEN /\ v \in Index BY <1>1, <1>4, <1>5 DEF Index
<1>7. w = IF in >= v THEN in - v ELSE in - v + BUF_LEN BY <1>6, UsedIs
<1> HIDE DEF w
<1>8. w = u - k BY <1>1, <1>2, <1>3, <1>4, <1>5, <1>6, <1>7
<1> QED BY <1>8 DEF u, v, w

LEMMA AdvanceTwice ==
  ASSUME JtagUartAssumption, NEW i \in Index, NEW k \in Nat, NEW m \in Nat, k + m <= BUF_LEN
  PROVE  Advance(Advance(i, k), m) = Advance(i, k + m)
<1>1. Advance(i, k) \in Index BY AdvanceIn
<1>2. k \in 0 .. BUF_LEN /\ m \in 0 .. BUF_LEN /\ k + m \in 0 .. BUF_LEN BY DEF JtagUartAssumption
<1>3. Advance(i, k) = (IF i + k < BUF_LEN THEN i + k ELSE i + k - BUF_LEN)
      /\ Advance(i, k + m) = (IF i + (k + m) < BUF_LEN THEN i + (k + m) ELSE i + (k + m) - BUF_LEN)
  BY <1>2, AdvanceIs
<1> DEFINE a == Advance(i, k)
<1>4. Advance(a, m) = IF a + m < BUF_LEN THEN a + m ELSE a + m - BUF_LEN
  BY <1>1, <1>2, AdvanceIs
<1> HIDE DEF a
<1> QED BY <1>1, <1>2, <1>3, <1>4 DEF Index, JtagUartAssumption, a

LEMMA ContentsAre ==
  ASSUME JtagUartAssumption, NEW buf \in [Index -> Char], NEW in \in Index, NEW out \in Index
  PROVE  /\ Contents(buf, in, out) \in Seq(Char) /\ Len(Contents(buf, in, out)) = Used(in, out)
         /\ \A i \in 1 .. Used(in, out) : Contents(buf, in, out)[i] = buf[Advance(out, i - 1)]
<1> DEFINE u == Used(in, out)
           c == [i \in 1 .. u |-> buf[Advance(out, i - 1)]]
<1>1. u \in Nat BY UsedIs DEF JtagUartAssumption
<1>2. c = Contents(buf, in, out) BY DEF Contents, Used
<1> HIDE DEF u
<1>3. ASSUME NEW i \in 1 .. u PROVE buf[Advance(out, i - 1)] \in Char
  <2>1. Advance(out, i - 1) \in Index BY <1>1, AdvanceIn
  <2> QED BY <2>1
<1>4. c \in [1 .. u -> Char] BY <1>3
<1>5. c \in Seq(Char) BY <1>1, <1>4, SeqDef
<1>6. Len(c) = u BY <1>1, <1>4, <1>5, LenProperties
<1> QED BY <1>2, <1>5, <1>6 DEF u

(* When a sequence is one put behind another, and when it is one's rest. *)
LEMMA SameJoined ==
  ASSUME NEW c \in Seq(Char), NEW s \in Seq(Char), NEW d \in Seq(Char), Len(d) = Len(c) + Len(s),
         \A i \in 1 .. Len(c) : d[i] = c[i],
         \A j \in 1 .. Len(s) : d[Len(c) + j] = s[j]
  PROVE  d = c \o s
<1> DEFINE e == c \o s
           m == Len(c)
           k == Len(s)
<1>1. m \in Nat /\ k \in Nat BY LenProperties
<1>2. e \in Seq(Char) /\ Len(e) = m + k
      /\ \A i \in 1 .. m + k : e[i] = IF i <= m THEN c[i] ELSE s[i - m]
  BY ConcatProperties
<1>3. Len(d) = m + k /\ (\A i \in 1 .. m : d[i] = c[i]) /\ \A j \in 1 .. k : d[m + j] = s[j]
  OBVIOUS
<1> HIDE DEF e, m, k
<1>4. ASSUME NEW i \in 1 .. m + k PROVE d[i] = e[i]
  <2>1. CASE i <= m
    <3>1. i \in 1 .. m BY <1>1, <2>1
    <3> QED BY <1>2, <1>3, <2>1, <3>1
  <2>2. CASE ~(i <= m)
    <3>1. i - m \in 1 .. k /\ m + (i - m) = i BY <1>1, <2>2
    <3>2. d[m + (i - m)] = s[i - m] BY <1>3, <3>1
    <3>3. e[i] = s[i - m] BY <1>2, <2>2
    <3> QED BY <3>1, <3>2, <3>3
  <2> QED BY <2>1, <2>2
<1>5. d = e BY <1>2, <1>3, <1>4, SeqEqual
<1> QED BY <1>5 DEF e

LEMMA SameRest ==
  ASSUME NEW c \in Seq(Char), NEW d \in Seq(Char), NEW k \in 0 .. Len(c), Len(d) = Len(c) - k,
         \A i \in 1 .. Len(d) : d[i] = c[k + i]
  PROVE  d = SubSeq(c, k + 1, Len(c))
<1> DEFINE m == Len(c)
           a == k + 1
           e == SubSeq(c, a, m)
<1>1. m \in Nat /\ k \in Nat /\ k <= m /\ a = k + 1 BY LenProperties
<1>2. Len(d) = m - k /\ \A i \in 1 .. m - k : d[i] = c[k + i] OBVIOUS
<1>3. \A i \in 1 .. m : c[i] \in Char BY ElementOfSeq
<1> HIDE DEF m, a
<1>4. a \in Int /\ m \in Int /\ \A i \in a .. m : c[i] \in Char BY <1>1, <1>3
<1>5. e \in Seq(Char) /\ Len(e) = (IF a <= m THEN m - a + 1 ELSE 0)
      /\ \A i \in 1 .. m - a + 1 : e[i] = c[a + i - 1]
  BY <1>4, SubSeqProperties
<1> HIDE DEF e
<1>6. Len(e) = m - k BY <1>1, <1>5
<1>7. ASSUME NEW i \in 1 .. m - k PROVE d[i] = e[i]
  <2>1. i \in 1 .. m - a + 1 /\ a + i - 1 = k + i BY <1>1
  <2> QED BY <1>2, <1>5, <2>1
<1>8. d = e BY <1>2, <1>5, <1>6, <1>7, SeqEqual
<1> QED BY <1>8 DEF e, a, m

(* Writing behind the last character appends. *)
Written(buf, new, in, s, k) ==
  /\ Len(s) = k /\ \A j \in 1 .. k : s[j] = new[in + j - 1]
  /\ \A i \in Index \ (in .. in + k - 1) : new[i] = buf[i]

LEMMA ContentsGrow ==
  ASSUME JtagUartAssumption, NEW buf \in [Index -> Char], NEW new \in [Index -> Char],
         NEW in \in Index, NEW out \in Index, NEW k \in Nat \ {0}, NEW s \in Seq(Char),
         in + k <= BUF_LEN, Used(in, out) + k <= BUF_LEN - 1,
         Written(buf, new, in, s, k)
  PROVE  Contents(new, Advance(in, k), out) = Contents(buf, in, out) \o s
<1> DEFINE u == Used(in, out)
           v == Advance(in, k)
           c == Contents(buf, in, out)
           d == Contents(new, v, out)
<1>1. /\ in \in Nat /\ out \in Nat /\ BUF_LEN \in Nat /\ in < BUF_LEN /\ out < BUF_LEN
      /\ u = (IF in >= out THEN in - out ELSE in - out + BUF_LEN) /\ u \in 0 .. BUF_LEN - 1
      /\ u \in Nat /\ u + k <= BUF_LEN - 1 /\ in + k <= BUF_LEN
  <2>1. u = (IF in >= out THEN in - out ELSE in - out + BUF_LEN) /\ u \in 0 .. BUF_LEN - 1 BY UsedIs
  <2> HIDE DEF u
  <2>2. in \in Nat /\ out \in Nat /\ BUF_LEN \in Nat /\ in < BUF_LEN /\ out < BUF_LEN
    BY DEF JtagUartAssumption, Index
  <2> QED BY <2>1, <2>2 DEF u
<1>2. v \in Index BY AdvanceIn
<1>3. Used(v, out) = u + k BY UsedGrows
<1>4. c \in Seq(Char) /\ Len(c) = u /\ \A i \in 1 .. u : c[i] = buf[Advance(out, i - 1)]
  BY ContentsAre
<1> HIDE DEF v
<1>5. d \in Seq(Char) /\ Len(d) = Used(v, out)
      /\ \A i \in 1 .. Used(v, out) : d[i] = new[Advance(out, i - 1)]
  BY <1>2, ContentsAre
<1> HIDE DEF u, c, d
<1>6. \A i \in 1 .. u + k : Advance(out, i - 1)
         = IF out + (i - 1) < BUF_LEN THEN out + (i - 1) ELSE out + (i - 1) - BUF_LEN
  BY <1>1, AdvanceIs
<1>7. Len(s) = k /\ (\A j \in 1 .. k : s[j] = new[in + j - 1])
      /\ \A i \in Index \ (in .. in + k - 1) : new[i] = buf[i]
  BY DEF Written
<1>8. ASSUME NEW i \in 1 .. u PROVE d[i] = c[i]
  <2>1. i \in 1 .. u + k BY <1>1
  <2>2. Advance(out, i - 1) \in Index \ (in .. in + k - 1) BY <1>1, <1>6, <2>1 DEF Index
  <2>3. new[Advance(out, i - 1)] = buf[Advance(out, i - 1)] BY <1>7, <2>2
  <2>4. d[i] = new[Advance(out, i - 1)] BY <1>3, <1>5, <2>1
  <2>5. c[i] = buf[Advance(out, i - 1)] BY <1>4
  <2> QED BY <2>3, <2>4, <2>5, Zenon
<1>9. ASSUME NEW j \in 1 .. k PROVE d[u + j] = s[j]
  <2> DEFINE i == u + j
  <2>1. i \in 1 .. u + k BY <1>1
  <2>2. i = u + j OBVIOUS
  <2> HIDE DEF i
  <2>3. Advance(out, i - 1) = IF out + (i - 1) < BUF_LEN THEN out + (i - 1) ELSE out + (i - 1) - BUF_LEN
    BY <1>6, <2>1
  <2>4. Advance(out, i - 1) = in + j - 1 BY <1>1, <2>1, <2>2, <2>3
  <2>5. u + j \in 1 .. u + k /\ Advance(out, (u + j) - 1) = in + j - 1 BY <2>1, <2>4 DEF i
  <2>6. d[u + j] = new[Advance(out, (u + j) - 1)] BY <1>3, <1>5, <2>5
  <2>7. d[u + j] = new[in + j - 1] BY <2>5, <2>6, Zenon
  <2> QED BY <1>7, <2>7
<1>10. Len(d) = Len(c) + Len(s) BY <1>3, <1>4, <1>5, <1>7
<1>11. \A i \in 1 .. Len(c) : d[i] = c[i] BY <1>4, <1>8, Zenon
<1>12. \A j \in 1 .. Len(s) : d[Len(c) + j] = s[j] BY <1>4, <1>9, <1>7, Zenon
<1>13. d = c \o s BY <1>4, <1>5, <1>10, <1>11, <1>12, SameJoined
<1> QED BY <1>13 DEF c, d, v

(* Reading from the first on leaves the rest. *)
LEMMA ContentsShrink ==
  ASSUME JtagUartAssumption, NEW buf \in [Index -> Char],
         NEW in \in Index, NEW out \in Index, NEW k \in 0 .. Used(in, out)
  PROVE  Contents(buf, in, Advance(out, k)) = SubSeq(Contents(buf, in, out), k + 1, Used(in, out))
<1> DEFINE u == Used(in, out)
           v == Advance(out, k)
           c == Contents(buf, in, out)
           d == Contents(buf, in, v)
<1>1. u \in Nat /\ k \in Nat /\ k <= u /\ u < BUF_LEN /\ BUF_LEN \in Nat
  BY UsedIs DEF JtagUartAssumption
<1>2. v \in Index BY <1>1, AdvanceIn
<1>3. Used(in, v) = u - k BY UsedShrinks
<1>4. c \in Seq(Char) /\ Len(c) = u /\ \A i \in 1 .. u : c[i] = buf[Advance(out, i - 1)]
  BY ContentsAre
<1>5. ASSUME NEW i \in 1 .. u - k PROVE Advance(v, i - 1) = Advance(out, k + i - 1)
  <2>1. i - 1 \in Nat /\ k + (i - 1) <= BUF_LEN /\ k + (i - 1) = k + i - 1 BY <1>1
  <2> QED BY <1>1, <2>1, AdvanceTwice
<1> HIDE DEF v
<1>6. d \in Seq(Char) /\ Len(d) = Used(in, v)
      /\ \A i \in 1 .. Used(in, v) : d[i] = buf[Advance(v, i - 1)]
  BY <1>2, ContentsAre
<1> HIDE DEF u, c, d
<1>7. ASSUME NEW i \in 1 .. u - k PROVE d[i] = c[k + i]
  <2>1. k + i \in 1 .. u /\ k + i - 1 = (k + i) - 1 BY <1>1
  <2>2. c[k + i] = buf[Advance(out, (k + i) - 1)] BY <1>4, <2>1
  <2>3. d[i] = buf[Advance(v, i - 1)] BY <1>3, <1>6
  <2> QED BY <1>5, <2>1, <2>2, <2>3
<1>8. k \in 0 .. Len(c) /\ Len(d) = Len(c) - k BY <1>1, <1>3, <1>4, <1>6
<1>9. \A i \in 1 .. Len(d) : d[i] = c[k + i] BY <1>3, <1>6, <1>7, Zenon
<1>10. d = SubSeq(c, k + 1, Len(c)) BY <1>4, <1>6, <1>8, <1>9, SameRest
<1> QED BY <1>4, <1>10 DEF c, d, v, u

-----------------------------------------------------------------------------
(* What a copy still fits, and that the call has something left to copy.    *)
Copies ==
  /\ count \in Nat
  /\ pc \in {"write", "write_copy", "write_spin", "write_after", "read", "read_copy"} => count > 0
  /\ pc \in {"read_spin", "read_after"} => count > 0
  /\ pc = "write_copy" =>
       /\ seenIn = tx_in /\ n \in Nat \ {0} /\ n <= count
       /\ seenIn + n <= BUF_LEN /\ Used(tx_in, tx_out) + n <= BUF_LEN - 1
  /\ pc = "read_copy" =>
       /\ seenOut = rx_out /\ n \in Nat \ {0} /\ n <= count
       /\ n <= Used(rx_in, rx_out)

(* The handler never believes in more room than the FIFO has.               *)
Fits ==
  /\ rx_buf \in [Index -> Char] /\ rxfifo \in Seq(Char)
  /\ Len(rxfifo) <= HwDepth /\ Len(txfifo) + space <= HwDepth

ChannelInv == WakeInv /\ Copies /\ Fits

(* What the calls take for room and for held characters is there.           *)
LEMMA RoomLeft ==
  ASSUME JtagUartAssumption, NEW in \in Index, NEW out \in Index
  PROVE  /\ Room(in, out) \in Nat /\ in + Room(in, out) <= BUF_LEN
         /\ Used(in, out) + Room(in, out) <= BUF_LEN - 1
BY UsedIs DEF Room, Index, JtagUartAssumption

LEMMA HeldThere ==
  ASSUME JtagUartAssumption, NEW in \in Index, NEW out \in Index
  PROVE  Held(in, out) \in Nat /\ Held(in, out) <= Used(in, out)
BY UsedIs DEF Held, Index, JtagUartAssumption

(* Whoever is not on the copying side only makes its copy fit better.       *)
LEMMA TakesOne ==
  ASSUME JtagUartAssumption, NEW in \in Index, NEW out \in Index, out # in
  PROVE  Used(in, out) >= 1 /\ Used(in, Advance(out, 1)) = Used(in, out) - 1
<1>1. Used(in, out) >= 1
  <2> DEFINE u == Used(in, out)
  <2>1. u = (IF in >= out THEN in - out ELSE in - out + BUF_LEN) BY UsedIs
  <2> HIDE DEF u
  <2>2. u >= 1 BY <2>1 DEF Index, JtagUartAssumption
  <2> QED BY <2>2 DEF u
<1>2. 1 \in 0 .. Used(in, out) BY <1>1, UsedIs DEF JtagUartAssumption
<1> QED BY <1>1, <1>2, UsedShrinks

LEMMA AddsOne ==
  ASSUME JtagUartAssumption, NEW in \in Index, NEW out \in Index, Advance(in, 1) # out
  PROVE  Used(in, out) + 1 <= BUF_LEN - 1 /\ Used(Advance(in, 1), out) = Used(in, out) + 1
<1>1. 1 \in 0 .. BUF_LEN BY DEF JtagUartAssumption
<1>2. Advance(in, 1) = IF in + 1 < BUF_LEN THEN in + 1 ELSE in + 1 - BUF_LEN BY <1>1, AdvanceIs
<1>3. Used(in, out) + 1 <= BUF_LEN - 1
  <2> DEFINE u == Used(in, out)
  <2>1. u = (IF in >= out THEN in - out ELSE in - out + BUF_LEN) BY UsedIs
  <2> HIDE DEF u
  <2>2. u + 1 <= BUF_LEN - 1 BY <1>2, <2>1 DEF Index, JtagUartAssumption
  <2> QED BY <2>2 DEF u
<1> QED BY <1>3, UsedGrows

(* The handler only makes a copy fit better; main looks again for each.     *)
LEMMA CopiesKept == ASSUME JtagUartAssumption, ChannelInv, [Next]_vars PROVE Copies'
<1> USE JtagUartAssumption DEF tx, rx, handler, hardware
<1>0. Copies /\ Indexed BY DEF ChannelInv, WakeInv
<1>1. CASE WriteLook
  <2> DEFINE r == Room(tx_in, tx_out)
  <2>1. r \in Nat /\ tx_in + r <= BUF_LEN /\ Used(tx_in, tx_out) + r <= BUF_LEN - 1
    BY <1>0, RoomLeft DEF Indexed
  <2>2. seenIn' = tx_in /\ n' = (IF r <= count THEN r ELSE count) /\ pc = "write"
        /\ pc' = (IF r = 0 THEN "kick" ELSE "write_copy") /\ UNCHANGED <<tx_in, tx_out, count>>
    BY <1>1 DEF WriteLook, Smaller
  <2>3. Used(tx_in, tx_out) \in Nat /\ tx_in \in Nat /\ BUF_LEN \in Nat
    BY <1>0, UsedIs DEF Indexed, Index, JtagUartAssumption
  <2>4. Used(tx_in, tx_out)' = Used(tx_in, tx_out) BY <2>2 DEF Used
  <2> HIDE DEF r
  <2> QED BY <1>0, <2>1, <2>2, <2>3, <2>4 DEF Copies
<1>2. CASE ReadLook
  <2> DEFINE h == Held(rx_in, rx_out)
  <2>1. h \in Nat /\ h <= Used(rx_in, rx_out) BY <1>0, HeldThere DEF Indexed
  <2>2. seenOut' = rx_out /\ n' = (IF h <= count THEN h ELSE count) /\ pc = "read"
        /\ pc' = (IF h # 0 THEN "read_copy" ELSE IF moved \/ flags THEN "read_end" ELSE "read_spin")
        /\ UNCHANGED <<rx_in, rx_out, count>>
    BY <1>2 DEF ReadLook, Smaller
  <2>3. Used(rx_in, rx_out) \in Nat BY <1>0, UsedIs DEF Indexed, JtagUartAssumption
  <2>4. Used(rx_in, rx_out)' = Used(rx_in, rx_out) BY <2>2 DEF Used
  <2> HIDE DEF h
  <2> QED BY <1>0, <2>1, <2>2, <2>3, <2>4 DEF Copies
<1>3. CASE WriteCopy BY <1>0, <1>3 DEF WriteCopy, Copies
<1>4. CASE ReadCopy BY <1>0, <1>4 DEF ReadCopy, Copies
<1>5. CASE Kick BY <1>0, <1>5 DEF Kick, Leave, call, Copies
<1>6. CASE WriteAfter BY <1>0, <1>6 DEF WriteAfter, Leave, call, Copies
<1>7. CASE ReadEnd \/ Close BY <1>0, <1>7 DEF ReadEnd, Close, Leave, Copies
<1>8. CASE WriteSpin \/ ReadSpin \/ ReadAfter
  BY <1>0, <1>8 DEF WriteSpin, ReadSpin, ReadAfter, call, Copies
<1>9. CASE IrqRead
  <2>1. UNCHANGED <<pc, call, tx, rx_out>> BY <1>9 DEF IrqRead
  <2>2. UNCHANGED rx_in \/ (rx_in' = Advance(rx_in, 1) /\ Advance(rx_in, 1) # rx_out)
    BY <1>9 DEF IrqRead, RxFull
  <2>3. Used(tx_in, tx_out)' = Used(tx_in, tx_out) BY <2>1 DEF Used
  <2>4. Used(rx_in, rx_out) \in Nat BY <1>0, UsedIs DEF Indexed, JtagUartAssumption
  <2>5. Used(rx_in, rx_out)' = Used(rx_in, rx_out) \/ Used(rx_in, rx_out)' = Used(rx_in, rx_out) + 1
    <3>1. Used(rx_in, rx_out)' = Used(rx_in', rx_out') BY DEF Used
    <3> QED BY <1>0, <2>1, <2>2, <3>1, AddsOne DEF Indexed
  <2> QED BY <1>0, <2>1, <2>3, <2>4, <2>5 DEF Copies, call
<1>10. CASE IrqWrite
  <2>1. UNCHANGED <<pc, call, tx_in, rx>> /\ tx_out' = Advance(tx_out, 1) /\ tx_out # tx_in
    BY <1>10 DEF IrqWrite
  <2>2. Used(rx_in, rx_out)' = Used(rx_in, rx_out) BY <2>1 DEF Used
  <2>3. Used(tx_in, tx_out) \in Nat /\ Used(tx_in, tx_out)' = Used(tx_in, tx_out) - 1
    <3>1. Used(tx_in, tx_out)' = Used(tx_in', tx_out') BY DEF Used
    <3> QED BY <1>0, <2>1, <3>1, TakesOne, UsedIs DEF Indexed, JtagUartAssumption
  <2> QED BY <1>0, <2>1, <2>2, <2>3 DEF Copies, call, JtagUartAssumption
<1>11. CASE Ioctl \/ IrqControl \/ IrqReadEnd \/ IrqWriteEnd \/ Second \/ HostPoll \/ HostSend
            \/ UNCHANGED vars
  <2>1. UNCHANGED <<pc, call, tx, rx>>
    BY <1>11 DEF Ioctl, IrqControl, IrqReadEnd, IrqWriteEnd, Second, HostPoll, HostSend, vars
  <2> QED BY <1>0, <2>1 DEF Copies, call, Used
<1>12. ASSUME NEW where \in Calls, Call(where) PROVE Copies'
  <2>1. count' \in Nat \ {0} /\ pc' \in {"write", "read", "close"}
    BY <1>12 DEF Call, JtagUartAssumption
  <2> QED BY <2>1 DEF Copies
<1> QED BY Steps, <1>1, <1>2, <1>3, <1>4, <1>5, <1>6, <1>7, <1>8, <1>9, <1>10, <1>11, <1>12
        DEF Caller, MainStep

(* Only the handler fills the FIFO on the way out, and counts what it       *)
(* writes.                                                                  *)
LEMMA FitsKept == ASSUME JtagUartAssumption, ChannelInv, [Next]_vars PROVE Fits'
<1> USE JtagUartAssumption DEF tx, rx, handler, hardware
<1>0. Fits /\ Indexed /\ Filled BY DEF ChannelInv, WakeInv
<1>1. CASE IrqControl BY <1>0, <1>1 DEF IrqControl, Fits, Filled
<1>2. CASE IrqRead
  <2>1. CASE rxfifo = <<>> BY <1>0, <1>2, <2>1 DEF IrqRead, Fits
  <2>2. CASE rxfifo # <<>>
    <3>1. Head(rxfifo) \in Char /\ Tail(rxfifo) \in Seq(Char) /\ Len(Tail(rxfifo)) = Len(rxfifo) - 1
      BY <1>0, <2>2, HeadTailProperties DEF Fits
    <3>2. rx_buf' = [rx_buf EXCEPT ![rx_in] = Head(rxfifo)] /\ rxfifo' = Tail(rxfifo)
          /\ UNCHANGED <<txfifo, space>>
      BY <1>2, <2>2 DEF IrqRead
    <3>3. rx_buf' \in [Index -> Char] BY <1>0, <3>1, <3>2 DEF Fits
    <3>4. Len(rxfifo) \in Nat BY <1>0, LenProperties DEF Fits
    <3> QED BY <1>0, <3>1, <3>2, <3>3, <3>4 DEF Fits, JtagUartAssumption
  <2> QED BY <2>1, <2>2
<1>3. CASE IrqWrite
  <2>1. UNCHANGED <<rx_buf, rxfifo>> /\ space > 0 /\ space' = space - 1
        /\ txfifo' = (IF Len(txfifo) < HwDepth THEN Append(txfifo, tx_buf[tx_out]) ELSE txfifo)
    BY <1>3 DEF IrqWrite
  <2>2. tx_buf[tx_out] \in Char BY <1>0 DEF Filled, Indexed
  <2>3. Len(Append(txfifo, tx_buf[tx_out])) = Len(txfifo) + 1 /\ Len(txfifo) \in Nat
    BY <1>0, <2>2, AppendProperties, LenProperties DEF Filled
  <2>4. Len(txfifo') + space' <= HwDepth
    BY <1>0, <2>1, <2>3 DEF Fits, Filled, JtagUartAssumption
  <2> QED BY <1>0, <2>1, <2>4 DEF Fits
<1>4. CASE HostPoll
  <2>1. UNCHANGED <<rx_buf, rxfifo, space>>
        /\ txfifo' = IF txfifo = <<>> THEN <<>> ELSE Tail(txfifo)
    BY <1>4 DEF HostPoll
  <2>2. txfifo # <<>> => Len(Tail(txfifo)) = Len(txfifo) - 1
    BY <1>0, HeadTailProperties DEF Filled
  <2>3. Len(txfifo) \in Nat BY <1>0, LenProperties DEF Filled
  <2>4. Len(txfifo') + space' <= HwDepth BY <1>0, <2>1, <2>2, <2>3 DEF Fits, Filled, JtagUartAssumption
  <2> QED BY <1>0, <2>1, <2>4 DEF Fits
<1>5. CASE HostSend
  <2>1. UNCHANGED <<rx_buf, txfifo, space>> /\ Len(rxfifo) < HwDepth BY <1>5 DEF HostSend
  <2>2. PICK c \in Char : rxfifo' = Append(rxfifo, c) BY <1>5 DEF HostSend
  <2>3. rxfifo' \in Seq(Char) /\ Len(rxfifo') = Len(rxfifo) + 1 /\ Len(rxfifo) \in Nat
    BY <1>0, <2>2, AppendProperties, LenProperties DEF Fits
  <2> QED BY <1>0, <2>1, <2>3 DEF Fits, JtagUartAssumption
<1>6. CASE WriteLook \/ WriteCopy \/ Kick \/ WriteSpin \/ WriteAfter \/ ReadLook \/ ReadCopy \/ ReadSpin
           \/ ReadAfter \/ ReadEnd \/ Close \/ Ioctl \/ IrqReadEnd \/ IrqWriteEnd \/ Second \/ UNCHANGED vars
  <2>1. UNCHANGED <<rx_buf, rxfifo, txfifo, space>>
    BY <1>6 DEF WriteLook, WriteCopy, Kick, WriteSpin, WriteAfter, ReadLook, ReadCopy, ReadSpin,
      ReadAfter, ReadEnd, Close, Ioctl, IrqReadEnd, IrqWriteEnd, Second, vars
  <2> QED BY <1>0, <2>1 DEF Fits
<1>7. ASSUME NEW where \in Calls, Call(where) PROVE Fits'
  BY <1>0, <1>7 DEF Call, Fits
<1> QED BY Steps, <1>1, <1>2, <1>3, <1>4, <1>5, <1>6, <1>7 DEF Caller, MainStep

-----------------------------------------------------------------------------
(* The characters on the way out, and in.                                   *)
OutQ == txfifo \o Contents(tx_buf, tx_in, tx_out)
InQ == Contents(rx_buf, rx_in, rx_out) \o rxfifo
Capacity == BUF_LEN - 1 + HwDepth

(* Of what they are made, and how long they are.                            *)
LEMMA QueuesAre ==
  ASSUME JtagUartAssumption, ChannelInv
  PROVE  /\ Contents(tx_buf, tx_in, tx_out) \in Seq(Char)
         /\ Len(Contents(tx_buf, tx_in, tx_out)) = Used(tx_in, tx_out)
         /\ Contents(rx_buf, rx_in, rx_out) \in Seq(Char)
         /\ Len(Contents(rx_buf, rx_in, rx_out)) = Used(rx_in, rx_out)
         /\ txfifo \in Seq(Char) /\ rxfifo \in Seq(Char)
         /\ OutQ \in Seq(Char) /\ Len(OutQ) = Len(txfifo) + Used(tx_in, tx_out)
         /\ InQ \in Seq(Char) /\ Len(InQ) = Used(rx_in, rx_out) + Len(rxfifo)
         /\ Len(txfifo) \in 0 .. HwDepth /\ Len(rxfifo) \in 0 .. HwDepth
         /\ Used(tx_in, tx_out) \in 0 .. BUF_LEN - 1 /\ Used(rx_in, rx_out) \in 0 .. BUF_LEN - 1
<1>1. Indexed /\ Filled /\ Fits BY DEF ChannelInv, WakeInv
<1>2. Contents(tx_buf, tx_in, tx_out) \in Seq(Char)
      /\ Len(Contents(tx_buf, tx_in, tx_out)) = Used(tx_in, tx_out)
  BY <1>1, ContentsAre DEF Indexed, Filled
<1>3. Contents(rx_buf, rx_in, rx_out) \in Seq(Char)
      /\ Len(Contents(rx_buf, rx_in, rx_out)) = Used(rx_in, rx_out)
  BY <1>1, ContentsAre DEF Indexed, Fits
<1>4. txfifo \in Seq(Char) /\ rxfifo \in Seq(Char) BY <1>1 DEF Filled, Fits
<1>5. Len(txfifo) \in 0 .. HwDepth /\ Len(rxfifo) \in 0 .. HwDepth
  BY <1>1, <1>4, LenProperties DEF Filled, Fits, JtagUartAssumption
<1>6. Used(tx_in, tx_out) \in 0 .. BUF_LEN - 1 /\ Used(rx_in, rx_out) \in 0 .. BUF_LEN - 1
  BY <1>1, UsedIs DEF Indexed
<1>7. OutQ \in Seq(Char) /\ Len(OutQ) = Len(txfifo) + Used(tx_in, tx_out)
  BY <1>2, <1>4, ConcatProperties DEF OutQ
<1>8. InQ \in Seq(Char) /\ Len(InQ) = Used(rx_in, rx_out) + Len(rxfifo)
  BY <1>3, <1>4, ConcatProperties DEF InQ
<1> QED BY <1>2, <1>3, <1>4, <1>5, <1>6, <1>7, <1>8

(* One character from the head of one sequence to the end of the other.     *)
LEMMA Moved ==
  ASSUME NEW f \in Seq(Char), NEW c \in Seq(Char), c # <<>>
  PROVE  Append(f, c[1]) \o SubSeq(c, 2, Len(c)) = f \o c
<1>1. Len(c) \in Nat \ {0} BY EmptySeq
<1>2. c[1] \in Char BY <1>1, ElementOfSeq
<1>3. Append(f, c[1]) = f \o <<c[1]>> BY <1>2, AppendIsConcat
<1>4. SubSeq(c, 1, Len(c)) = <<c[1]>> \o SubSeq(c, 1 + 1, Len(c))
  <2>1. 1 \in 1 .. Len(c) /\ Len(c) \in 1 .. Len(c) BY <1>1
  <2> QED BY <2>1, SubSeqRecursiveFirst
<1>5. SubSeq(c, 1, Len(c)) = c BY SubSeqFull
<1>6. 1 + 1 = 2 OBVIOUS
<1>7. c = <<c[1]>> \o SubSeq(c, 2, Len(c)) BY <1>4, <1>5, <1>6
<1>8. <<c[1]>> \in Seq(Char) BY <1>2
<1>9. SubSeq(c, 2, Len(c)) \in Seq(Char)
  <2>1. \A i \in 2 .. Len(c) : c[i] \in Char BY <1>1, ElementOfSeq
  <2>2. 2 \in Int /\ Len(c) \in Int BY <1>1
  <2> QED BY <2>1, <2>2, SubSeqProperties
<1> DEFINE r == SubSeq(c, 2, Len(c))
           h == <<c[1]>>
<1>10. r \in Seq(Char) /\ h \in Seq(Char) /\ c = h \o r /\ Append(f, c[1]) = f \o h
  BY <1>3, <1>7, <1>8, <1>9
<1> HIDE DEF r, h
<1>11. (f \o h) \o r = f \o (h \o r) BY <1>10, ConcatAssociative
<1>12. Append(f, c[1]) \o r = f \o c BY <1>10, <1>11
<1> QED BY <1>12 DEF r

LEMMA MovedBack ==
  ASSUME NEW c \in Seq(Char), NEW f \in Seq(Char), f # <<>>, NEW s \in Seq(Char),
         Len(s) = 1, s[1] = Head(f)
  PROVE  (c \o s) \o Tail(f) = c \o f
<1> DEFINE t == Tail(f)
<1>1. t \in Seq(Char) /\ Len(t) = Len(f) - 1 /\ Len(f) \in Nat \ {0}
      /\ \A i \in 1 .. Len(t) : t[i] = f[i + 1]
  BY HeadTailProperties, EmptySeq
<1>2. Head(f) = f[1] OBVIOUS
<1> HIDE DEF t
<1>3. Len(f) = Len(s) + Len(t) BY <1>1
<1>4. \A i \in 1 .. Len(s) : f[i] = s[i] BY <1>2
<1>5. \A j \in 1 .. Len(t) : f[Len(s) + j] = t[j]
  <2>1. \A j \in 1 .. Len(t) : 1 + j = j + 1 OBVIOUS
  <2> QED BY <1>1, <2>1
<1>6. f = s \o t BY <1>1, <1>3, <1>4, <1>5, SameJoined
<1>7. (c \o s) \o t = c \o (s \o t)
  <2>1. t \in Seq(Char) BY <1>1
  <2> QED BY <2>1, ConcatAssociative
<1> QED BY <1>6, <1>7 DEF t

(* What puts characters in, and what takes them.                            *)
LEMMA OutPut ==
  ASSUME JtagUartAssumption, ChannelInv, WriteCopy
  PROVE  \E k \in 1 .. Capacity - Len(OutQ) : \E s \in [1 .. k -> Char] : OutQ' = OutQ \o s
<1>1. PICK a \in [Index -> Char] :
        tx_buf' = [i \in Index |-> IF i \in seenIn .. seenIn + n - 1 THEN a[i] ELSE tx_buf[i]]
  BY DEF WriteCopy
<1>2. seenIn = tx_in /\ n \in Nat \ {0} /\ tx_in + n <= BUF_LEN
      /\ Used(tx_in, tx_out) + n <= BUF_LEN - 1 /\ tx_in' = Advance(tx_in, n)
      /\ UNCHANGED <<tx_out, txfifo>>
  BY DEF WriteCopy, ChannelInv, Copies, hardware
<1>3. tx_buf \in [Index -> Char] /\ tx_in \in Index /\ tx_out \in Index
  BY DEF ChannelInv, WakeInv, Filled, Indexed
<1> DEFINE s == [j \in 1 .. n |-> tx_buf'[tx_in + j - 1]]
<1>4. tx_buf' \in [Index -> Char] BY <1>1, <1>3
<1>5. s \in [1 .. n -> Char]
  <2>1. \A j \in 1 .. n : tx_in + j - 1 \in Index BY <1>2, <1>3 DEF Index, JtagUartAssumption
  <2> QED BY <1>4, <2>1
<1>6. s \in Seq(Char) /\ Len(s) = n /\ \A j \in 1 .. n : s[j] = tx_buf'[tx_in + j - 1]
  <2>1. s \in Seq(Char) BY <1>2, <1>5, SeqDef
  <2>2. Len(s) = n BY <1>2, <1>5, <2>1, LenProperties
  <2> QED BY <2>1, <2>2
<1>7. \A i \in Index \ (tx_in .. tx_in + n - 1) : tx_buf'[i] = tx_buf[i] BY <1>1, <1>2
<1> HIDE DEF s
<1> DEFINE b == tx_buf'
           k == n
<1>8. Contents(b, Advance(tx_in, k), tx_out) = Contents(tx_buf, tx_in, tx_out) \o s
  <2>1. b \in [Index -> Char] /\ k \in Nat \ {0} /\ tx_in + k <= BUF_LEN
        /\ Used(tx_in, tx_out) + k <= BUF_LEN - 1
        /\ s \in Seq(Char) /\ Written(tx_buf, b, tx_in, s, k)
    BY <1>2, <1>4, <1>6, <1>7 DEF Written
  <2> HIDE DEF b, k
  <2> QED BY <1>3, <2>1, ContentsGrow
<1>9. OutQ' = txfifo \o (Contents(tx_buf, tx_in, tx_out) \o s)
  <2>1. OutQ' = txfifo' \o Contents(tx_buf', tx_in', tx_out') BY DEF OutQ, Contents, Advance
  <2> QED BY <1>2, <1>8, <2>1
<1>10. OutQ' = OutQ \o s
  <2> DEFINE c == Contents(tx_buf, tx_in, tx_out)
  <2>1. txfifo \in Seq(Char) /\ c \in Seq(Char) /\ OutQ = txfifo \o c /\ OutQ' = txfifo \o (c \o s)
    BY <1>9, QueuesAre DEF OutQ
  <2> HIDE DEF c
  <2>2. (txfifo \o c) \o s = txfifo \o (c \o s) BY <1>6, <2>1, ConcatAssociative
  <2> QED BY <2>1, <2>2
<1>11. n \in 1 .. Capacity - Len(OutQ)
  <2> DEFINE u == Used(tx_in, tx_out)
             l == Len(txfifo)
             q == Len(OutQ)
  <2>1. u \in 0 .. BUF_LEN - 1 /\ l \in 0 .. HwDepth /\ q = l + u BY QueuesAre
  <2>2. n \in Nat \ {0} /\ u + n <= BUF_LEN - 1 BY <1>2
  <2> HIDE DEF u, l, q
  <2>3. n \in 1 .. (BUF_LEN - 1 + HwDepth) - q BY <2>1, <2>2 DEF JtagUartAssumption
  <2> QED BY <2>3 DEF q, Capacity
<1> QED BY <1>5, <1>10, <1>11

(* The handler only takes a character from the buffer to the FIFO.          *)
LEMMA OutMoves ==
  ASSUME JtagUartAssumption, ChannelInv, IrqWrite
  PROVE  OutQ' = OutQ
<1> DEFINE c == Contents(tx_buf, tx_in, tx_out)
           u == Used(tx_in, tx_out)
<1>1. tx_out # tx_in /\ tx_out' = Advance(tx_out, 1) /\ UNCHANGED <<tx_in, tx_buf>> /\ space > 0
      /\ txfifo' = (IF Len(txfifo) < HwDepth THEN Append(txfifo, tx_buf[tx_out]) ELSE txfifo)
  BY DEF IrqWrite
<1>2. tx_buf \in [Index -> Char] /\ tx_in \in Index /\ tx_out \in Index /\ space \in Nat
      /\ Len(txfifo) + space <= HwDepth
  BY DEF ChannelInv, WakeInv, Filled, Indexed, Fits
<1>3. c \in Seq(Char) /\ Len(c) = u /\ txfifo \in Seq(Char) /\ Len(txfifo) \in Nat BY QueuesAre
<1>4. u >= 1 /\ u \in Nat /\ BUF_LEN \in Nat /\ u <= BUF_LEN - 1
  BY <1>1, <1>2, TakesOne, UsedIs DEF JtagUartAssumption
<1>5. txfifo' = Append(txfifo, tx_buf[tx_out])
  BY <1>1, <1>2, <1>3 DEF JtagUartAssumption
<1>6. c[1] = tx_buf[tx_out]
  <2>1. 1 \in 1 .. u BY <1>4
  <2>2. c[1] = tx_buf[Advance(tx_out, 1 - 1)] BY <1>2, <2>1, ContentsAre
  <2>3. 1 - 1 \in 0 .. BUF_LEN /\ tx_out + (1 - 1) = tx_out /\ tx_out < BUF_LEN
    BY <1>2, <1>4 DEF Index
  <2>4. Advance(tx_out, 1 - 1) = tx_out BY <1>2, <2>3, AdvanceIs
  <2> QED BY <2>2, <2>4
<1>7. Contents(tx_buf, tx_in, Advance(tx_out, 1)) = SubSeq(c, 2, Len(c))
  <2>1. 1 \in 0 .. u /\ 1 + 1 = 2 BY <1>4
  <2>2. Contents(tx_buf, tx_in, Advance(tx_out, 1)) = SubSeq(c, 1 + 1, u)
    BY <1>2, <2>1, ContentsShrink
  <2> QED BY <1>3, <2>1, <2>2
<1>8. c # <<>> BY <1>3, <1>4, EmptySeq
<1>9. OutQ' = txfifo' \o Contents(tx_buf', tx_in', tx_out') BY DEF OutQ, Contents, Advance
<1>10. OutQ = txfifo \o c BY DEF OutQ
<1> HIDE DEF c
<1>11. OutQ' = Append(txfifo, c[1]) \o SubSeq(c, 2, Len(c)) BY <1>1, <1>5, <1>6, <1>7, <1>9
<1> QED BY <1>3, <1>8, <1>10, <1>11, Moved

(* The host takes the first one.                                            *)
LEMMA OutGet ==
  ASSUME JtagUartAssumption, ChannelInv, HostPoll, txfifo # <<>>
  PROVE  \E k \in 1 .. Len(OutQ) : OutQ' = SubSeq(OutQ, k + 1, Len(OutQ))
<1> DEFINE c == Contents(tx_buf, tx_in, tx_out)
           t == Tail(txfifo)
<1>1. OutQ' = t \o c
  <2>1. txfifo' = t /\ UNCHANGED <<tx_buf, tx_in, tx_out>> BY DEF HostPoll, tx
  <2>2. OutQ' = txfifo' \o Contents(tx_buf', tx_in', tx_out') BY DEF OutQ, Contents, Advance
  <2> QED BY <2>1, <2>2
<1>2. txfifo \in Seq(Char) /\ c \in Seq(Char) /\ OutQ \in Seq(Char) BY QueuesAre
<1>3. t \in Seq(Char) /\ Len(t) = Len(txfifo) - 1 /\ Len(txfifo) \in Nat \ {0}
      /\ \A i \in 1 .. Len(t) : t[i] = txfifo[i + 1]
  BY <1>2, HeadTailProperties, EmptySeq
<1>4. OutQ = txfifo \o c BY DEF OutQ
<1> DEFINE m == Len(txfifo)
           k == Len(c)
           d == t \o c
<1>5. k \in Nat BY <1>2, LenProperties
<1>6. Len(OutQ) = m + k
      /\ \A i \in 1 .. m + k : OutQ[i] = IF i <= m THEN txfifo[i] ELSE c[i - m]
  BY <1>2, <1>4, ConcatProperties
<1>7. d \in Seq(Char) /\ Len(d) = Len(t) + k
      /\ \A i \in 1 .. Len(t) + k : d[i] = IF i <= Len(t) THEN t[i] ELSE c[i - Len(t)]
  BY <1>2, <1>3, ConcatProperties
<1>8. Len(t) = m - 1 /\ m \in Nat \ {0} BY <1>3
<1> HIDE DEF m, k, d, t, c
<1>9. Len(d) = m + k - 1 BY <1>5, <1>7, <1>8
<1>10. ASSUME NEW i \in 1 .. Len(d) PROVE d[i] = OutQ[1 + i]
  <2>1. i \in 1 .. Len(t) + k /\ 1 + i \in 1 .. m + k /\ 1 + i = i + 1 BY <1>5, <1>7, <1>8, <1>9
  <2>2. CASE i <= Len(t)
    <3>1. i \in 1 .. Len(t) /\ 1 + i <= m BY <1>8, <2>1, <2>2
    <3>2. d[i] = t[i] /\ OutQ[1 + i] = txfifo[1 + i] BY <1>6, <1>7, <2>1, <2>2, <3>1
    <3> QED BY <1>3, <2>1, <3>1, <3>2
  <2>3. CASE ~(i <= Len(t))
    <3>1. ~(1 + i <= m) /\ i - Len(t) = (1 + i) - m BY <1>8, <2>1, <2>3
    <3>2. d[i] = c[i - Len(t)] /\ OutQ[1 + i] = c[(1 + i) - m] BY <1>6, <1>7, <2>1, <2>3, <3>1
    <3> QED BY <3>1, <3>2
  <2> QED BY <2>2, <2>3
<1>11. 1 \in 0 .. Len(OutQ) /\ 1 \in 1 .. Len(OutQ) /\ Len(d) = Len(OutQ) - 1
  BY <1>5, <1>6, <1>8, <1>9
<1>12. d = SubSeq(OutQ, 1 + 1, Len(OutQ)) BY <1>2, <1>7, <1>10, <1>11, SameRest
<1> QED BY <1>1, <1>11, <1>12 DEF d

(* The handler only takes a character from the FIFO to the buffer.          *)
LEMMA InMoves ==
  ASSUME JtagUartAssumption, ChannelInv, IrqRead
  PROVE  InQ' = InQ
<1> DEFINE c == Contents(rx_buf, rx_in, rx_out)
<1>1. UNCHANGED rx_out /\ Advance(rx_in, 1) # rx_out
      /\ IF rxfifo = <<>> THEN UNCHANGED <<rx_in, rx_buf, rxfifo>>
         ELSE /\ rx_buf' = [rx_buf EXCEPT ![rx_in] = Head(rxfifo)]
              /\ rx_in' = Advance(rx_in, 1) /\ rxfifo' = Tail(rxfifo)
  BY DEF IrqRead, RxFull
<1>2. rx_buf \in [Index -> Char] /\ rx_in \in Index /\ rx_out \in Index
  BY DEF ChannelInv, WakeInv, Indexed, Fits
<1>3. c \in Seq(Char) /\ rxfifo \in Seq(Char) BY QueuesAre
<1>4. InQ' = Contents(rx_buf', rx_in', rx_out') \o rxfifo' BY DEF InQ, Contents, Advance
<1>5. CASE rxfifo = <<>> BY <1>1, <1>4, <1>5 DEF InQ
<1>6. CASE rxfifo # <<>>
  <2> DEFINE h == Head(rxfifo)
             s == <<h>>
             b == [rx_buf EXCEPT ![rx_in] = h]
  <2>1. h \in Char BY <1>3, <1>6, HeadTailProperties
  <2>2. s \in Seq(Char) /\ Len(s) = 1 /\ s[1] = h BY <2>1
  <2>3. b \in [Index -> Char] /\ b[rx_in] = h /\ \A i \in Index : i # rx_in => b[i] = rx_buf[i]
    BY <1>2, <2>1
  <2> HIDE DEF s, b
  <2>4. rx_in \in Nat /\ rx_in + 1 <= BUF_LEN BY <1>2 DEF Index, JtagUartAssumption
  <2>5. Written(rx_buf, b, rx_in, s, 1)
    BY <2>2, <2>3, <2>4 DEF Written, Index, JtagUartAssumption
  <2>6. Used(rx_in, rx_out) + 1 <= BUF_LEN - 1 BY <1>1, <1>2, AddsOne
  <2>7. Contents(b, Advance(rx_in, 1), rx_out) = c \o s
    BY <1>2, <2>2, <2>3, <2>4, <2>5, <2>6, ContentsGrow
  <2>8. InQ' = (c \o s) \o Tail(rxfifo) BY <1>1, <1>4, <1>6, <2>7 DEF b
  <2> HIDE DEF c
  <2>9. (c \o s) \o Tail(rxfifo) = c \o rxfifo BY <1>3, <1>6, <2>2, MovedBack
  <2> QED BY <2>8, <2>9 DEF InQ, c
<1> QED BY <1>5, <1>6

(* A read takes the first ones, the host adds one at the end.               *)
LEMMA InGet ==
  ASSUME JtagUartAssumption, ChannelInv, ReadCopy
  PROVE  \E k \in 1 .. Len(InQ) : InQ' = SubSeq(InQ, k + 1, Len(InQ))
<1> DEFINE c == Contents(rx_buf, rx_in, rx_out)
           u == Used(rx_in, rx_out)
           k == n
           m == Len(rxfifo)
           d == Contents(rx_buf, rx_in, Advance(rx_out, k))
           e == d \o rxfifo
<1>1. k \in 1 .. u /\ rx_out' = Advance(rx_out, k) /\ UNCHANGED <<rx_in, rx_buf, rxfifo>> /\ k \in Nat
  BY UsedIs DEF ReadCopy, ChannelInv, Copies, WakeInv, Indexed, hardware, JtagUartAssumption
<1>2. rx_buf \in [Index -> Char] /\ rx_in \in Index /\ rx_out \in Index
  BY DEF ChannelInv, WakeInv, Indexed, Fits
<1>3. /\ c \in Seq(Char) /\ Len(c) = u /\ u \in Nat
      /\ rxfifo \in Seq(Char) /\ m \in Nat
      /\ InQ \in Seq(Char) /\ Len(InQ) = u + m /\ InQ = c \o rxfifo
  BY QueuesAre DEF InQ, JtagUartAssumption
<1>4. InQ' = e
  <2>1. InQ' = Contents(rx_buf', rx_in', rx_out') \o rxfifo' BY DEF InQ, Contents, Advance
  <2> QED BY <1>1, <2>1
<1>5. Advance(rx_out, k) \in Index /\ Used(rx_in, Advance(rx_out, k)) = u - k
  <2>1. k \in 0 .. u BY <1>1
  <2> HIDE DEF k
  <2> QED BY <1>1, <1>2, <2>1, AdvanceIn, UsedShrinks
<1>6. d \in Seq(Char) /\ Len(d) = u - k BY <1>2, <1>5, ContentsAre
<1>7. d = SubSeq(c, k + 1, u)
  <2>1. k \in 0 .. u BY <1>1
  <2> HIDE DEF k
  <2> QED BY <1>2, <2>1, ContentsShrink
<1>8. \A i \in 1 .. u - k : d[i] = c[k + i]
  <2>1. \A i \in k + 1 .. u : c[i] \in Char BY <1>1, <1>3, ElementOfSeq
  <2>2. \A i \in 1 .. u - (k + 1) + 1 : SubSeq(c, k + 1, u)[i] = c[(k + 1) + i - 1]
    <3> DEFINE a == k + 1
    <3>1. a \in Int /\ u \in Int /\ \A i \in a .. u : c[i] \in Char BY <1>1, <1>3, <2>1
    <3> HIDE DEF a, u, c
    <3>2. \A i \in 1 .. u - a + 1 : SubSeq(c, a, u)[i] = c[a + i - 1] BY <3>1, SubSeqProperties
    <3> QED BY <3>2 DEF a
  <2>3. \A i \in 1 .. u - k : i \in 1 .. u - (k + 1) + 1 /\ (k + 1) + i - 1 = k + i BY <1>1, <1>3
  <2> HIDE DEF c, d, u, k
  <2> QED BY <1>7, <2>2, <2>3
<1>9. e \in Seq(Char) /\ Len(e) = (u - k) + m
      /\ \A i \in 1 .. (u - k) + m : e[i] = IF i <= u - k THEN d[i] ELSE rxfifo[i - (u - k)]
  <2> DEFINE w == u - k
  <2>1. d \in Seq(Char) /\ Len(d) = w /\ Len(rxfifo) = m /\ rxfifo \in Seq(Char) BY <1>3, <1>6
  <2> HIDE DEF d, w, m
  <2>2. e \in Seq(Char) /\ Len(e) = w + m
        /\ \A i \in 1 .. w + m : e[i] = IF i <= w THEN d[i] ELSE rxfifo[i - w]
    <3>1. e \in Seq(Char) /\ Len(e) = Len(d) + Len(rxfifo)
          /\ \A i \in 1 .. Len(d) + Len(rxfifo) :
               e[i] = IF i <= Len(d) THEN d[i] ELSE rxfifo[i - Len(d)]
      BY <2>1, ConcatProperties
    <3> HIDE DEF e
    <3> QED BY <2>1, <3>1
  <2> HIDE DEF e
  <2> QED BY <2>2 DEF w
<1>10. \A i \in 1 .. u + m : InQ[i] = IF i <= u THEN c[i] ELSE rxfifo[i - u]
  <2> HIDE DEF c, u
  <2> QED BY <1>3, ConcatProperties
<1> HIDE DEF c, d, e, u, k, m
<1>11. ASSUME NEW i \in 1 .. Len(e) PROVE e[i] = InQ[k + i]
  <2>1. i \in 1 .. (u - k) + m /\ k + i \in 1 .. u + m BY <1>1, <1>3, <1>9
  <2>2. CASE i <= u - k
    <3>1. i \in 1 .. u - k /\ k + i <= u BY <1>1, <1>3, <2>1, <2>2
    <3>2. e[i] = d[i] /\ InQ[k + i] = c[k + i] BY <1>9, <1>10, <2>1, <2>2, <3>1
    <3> QED BY <1>8, <3>1, <3>2
  <2>3. CASE ~(i <= u - k)
    <3>1. ~(k + i <= u) /\ i - (u - k) = (k + i) - u BY <1>1, <1>3, <2>1, <2>3
    <3>2. e[i] = rxfifo[i - (u - k)] /\ InQ[k + i] = rxfifo[(k + i) - u]
      BY <1>9, <1>10, <2>1, <2>3, <3>1
    <3> QED BY <3>1, <3>2
  <2> QED BY <2>2, <2>3
<1>12. k \in 1 .. Len(InQ) /\ k \in 0 .. Len(InQ) /\ Len(e) = Len(InQ) - k BY <1>1, <1>3, <1>9
<1>13. e = SubSeq(InQ, k + 1, Len(InQ)) BY <1>3, <1>9, <1>11, <1>12, SameRest
<1> QED BY <1>4, <1>12, <1>13

LEMMA InPut ==
  ASSUME JtagUartAssumption, ChannelInv, HostSend
  PROVE  \E k \in 1 .. Capacity - Len(InQ) : \E s \in [1 .. k -> Char] : InQ' = InQ \o s
<1> DEFINE c == Contents(rx_buf, rx_in, rx_out)
<1>1. PICK x \in Char : rxfifo' = Append(rxfifo, x) BY DEF HostSend
<1>2. Len(rxfifo) < HwDepth /\ UNCHANGED <<rx_buf, rx_in, rx_out>> BY DEF HostSend, rx
<1>3. c \in Seq(Char) /\ rxfifo \in Seq(Char) /\ InQ = c \o rxfifo BY QueuesAre DEF InQ
<1>4. InQ' = c \o Append(rxfifo, x)
  <2>1. InQ' = Contents(rx_buf', rx_in', rx_out') \o rxfifo' BY DEF InQ, Contents, Advance
  <2> QED BY <1>1, <1>2, <2>1
<1> HIDE DEF c
<1>5. Append(rxfifo, x) = rxfifo \o <<x>> /\ <<x>> \in Seq(Char) BY <1>3, AppendIsConcat
<1>6. InQ' = InQ \o <<x>> BY <1>3, <1>4, <1>5, ConcatAssociative
<1>7. <<x>> \in [1 .. 1 -> Char] OBVIOUS
<1>8. 1 \in 1 .. Capacity - Len(InQ) BY <1>2, QueuesAre DEF Capacity, JtagUartAssumption
<1> QED BY <1>6, <1>7, <1>8

(* A step puts, gets or leaves the characters on their way alone.           *)
LEMMA OutSteps ==
  ASSUME JtagUartAssumption, ChannelInv, [Next]_vars
  PROVE  [Out!Next]_OutQ
<1> USE JtagUartAssumption DEF tx, rx, handler, hardware
<1>1. CASE WriteCopy
  <2>1. \E k \in 1 .. Capacity - Len(OutQ) : \E s \in [1 .. k -> Char] : OutQ' = OutQ \o s
    BY <1>1, OutPut
  <2> QED BY <2>1 DEF Out!Next, Out!Put, OutQ, Capacity
<1>2. CASE HostPoll
  <2>1. CASE txfifo = <<>>
    <3>1. UNCHANGED <<txfifo, tx_buf, tx_in, tx_out>> BY <1>2, <2>1 DEF HostPoll
    <3> QED BY <3>1 DEF OutQ, Contents, Advance
  <2>2. CASE txfifo # <<>>
    <3>1. \E k \in 1 .. Len(OutQ) : OutQ' = SubSeq(OutQ, k + 1, Len(OutQ)) BY <1>2, <2>2, OutGet
    <3> QED BY <3>1 DEF Out!Next, Out!Get, OutQ
  <2> QED BY <2>1, <2>2
<1>3. CASE IrqWrite BY <1>3, OutMoves
<1>4. CASE WriteLook \/ Kick \/ WriteSpin \/ WriteAfter \/ ReadLook \/ ReadCopy \/ ReadSpin \/ ReadAfter
           \/ ReadEnd \/ Close \/ Ioctl \/ IrqControl \/ IrqRead \/ IrqReadEnd \/ IrqWriteEnd
           \/ Second \/ HostSend \/ UNCHANGED vars
  <2>1. UNCHANGED <<txfifo, tx_buf, tx_in, tx_out>>
    BY <1>4 DEF WriteLook, Kick, WriteSpin, WriteAfter, ReadLook, ReadCopy, ReadSpin, ReadAfter,
      ReadEnd, Close, Ioctl, IrqControl, IrqRead, IrqReadEnd, IrqWriteEnd, Second, HostSend, vars
  <2> QED BY <2>1 DEF OutQ, Contents, Advance
<1>5. ASSUME NEW where \in Calls, Call(where) PROVE [Out!Next]_OutQ
  <2>1. UNCHANGED <<txfifo, tx_buf, tx_in, tx_out>> BY <1>5 DEF Call
  <2> QED BY <2>1 DEF OutQ, Contents, Advance
<1> QED BY Steps, <1>1, <1>2, <1>3, <1>4, <1>5 DEF Caller, MainStep

LEMMA InSteps ==
  ASSUME JtagUartAssumption, ChannelInv, [Next]_vars
  PROVE  [In!Next]_InQ
<1> USE JtagUartAssumption DEF tx, rx, handler, hardware
<1>1. CASE HostSend
  <2>1. \E k \in 1 .. Capacity - Len(InQ) : \E s \in [1 .. k -> Char] : InQ' = InQ \o s
    BY <1>1, InPut
  <2> QED BY <2>1 DEF In!Next, In!Put, InQ, Capacity
<1>2. CASE ReadCopy
  <2>1. \E k \in 1 .. Len(InQ) : InQ' = SubSeq(InQ, k + 1, Len(InQ)) BY <1>2, InGet
  <2> QED BY <2>1 DEF In!Next, In!Get, InQ
<1>3. CASE IrqRead BY <1>3, InMoves
<1>4. CASE WriteLook \/ WriteCopy \/ Kick \/ WriteSpin \/ WriteAfter \/ ReadLook \/ ReadSpin \/ ReadAfter
           \/ ReadEnd \/ Close \/ Ioctl \/ IrqControl \/ IrqReadEnd \/ IrqWrite \/ IrqWriteEnd
           \/ Second \/ HostPoll \/ UNCHANGED vars
  <2>1. UNCHANGED <<rxfifo, rx_buf, rx_in, rx_out>>
    BY <1>4 DEF WriteLook, WriteCopy, Kick, WriteSpin, WriteAfter, ReadLook, ReadSpin, ReadAfter,
      ReadEnd, Close, Ioctl, IrqControl, IrqReadEnd, IrqWrite, IrqWriteEnd, Second, HostPoll, vars
  <2> QED BY <2>1 DEF InQ, Contents, Advance
<1>5. ASSUME NEW where \in Calls, Call(where) PROVE [In!Next]_InQ
  <2>1. UNCHANGED <<rxfifo, rx_buf, rx_in, rx_out>> BY <1>5 DEF Call
  <2> QED BY <2>1 DEF InQ, Contents, Advance
<1> QED BY Steps, <1>1, <1>2, <1>3, <1>4, <1>5 DEF Caller, MainStep

LEMMA ChannelStarts == ASSUME JtagUartAssumption, Init PROVE ChannelInv /\ OutQ = <<>> /\ InQ = <<>>
<1>1. WakeInv BY InitWakes
<1>2. Fits
  <2>1. PICK x \in Char : rx_buf = [i \in Index |-> x] BY DEF Init
  <2>2. rx_buf \in [Index -> Char] BY <2>1
  <2>3. rxfifo = <<>> /\ txfifo = <<>> /\ space = 0 BY DEF Init
  <2> QED BY <2>2, <2>3, EmptySeq DEF Fits, JtagUartAssumption
<1>3. Copies BY DEF Init, Copies
<1>4. ChannelInv BY <1>1, <1>2, <1>3 DEF ChannelInv
<1>5. Used(tx_in, tx_out) = 0 /\ Used(rx_in, rx_out) = 0 /\ Len(txfifo) = 0 /\ Len(rxfifo) = 0
  <2>1. tx_in = tx_out /\ rx_in = rx_out /\ rxfifo = <<>> /\ txfifo = <<>> BY DEF Init
  <2>2. tx_in \in Index /\ rx_in \in Index BY <1>1 DEF WakeInv, Indexed
  <2>3. \A i \in Index : i >= i /\ i - i = 0 BY DEF Index, JtagUartAssumption
  <2> QED BY <2>1, <2>2, <2>3, UsedIs, EmptySeq
<1>6. OutQ \in Seq(Char) /\ Len(OutQ) = 0 /\ InQ \in Seq(Char) /\ Len(InQ) = 0
  BY <1>4, <1>5, QueuesAre
<1> QED BY <1>4, <1>6, EmptySeq

LEMMA ChannelInvariant == Spec => []ChannelInv
<1>1. Init => ChannelInv BY ChannelStarts, JtagUartAssumption
<1>2. ChannelInv /\ [Next]_vars => ChannelInv'
  <2> SUFFICES ASSUME ChannelInv, [Next]_vars PROVE ChannelInv' OBVIOUS
  <2>1. WakeInv' BY WakeKept, JtagUartAssumption DEF ChannelInv
  <2>2. Copies' BY CopiesKept, JtagUartAssumption
  <2>3. Fits' BY FitsKept, JtagUartAssumption
  <2> QED BY <2>1, <2>2, <2>3 DEF ChannelInv
<1> QED BY <1>1, <1>2, PTL DEF Spec

(* The way out is a channel: characters come to the host in the order in    *)
(* which the calls copied them, none twice, none missing, whatever the      *)
(* handler does between a call's look at the buffer and its copy.           *)
THEOREM OutIsAChannel == Spec => ImplementsOut
<1>1. Init => Out!Init BY ChannelStarts, JtagUartAssumption DEF Out!Init, OutQ
<1>2. ChannelInv /\ [Next]_vars => [Out!Next]_OutQ BY OutSteps, JtagUartAssumption
<1> QED BY <1>1, <1>2, ChannelInvariant, PTL DEF Spec, ImplementsOut, Out!Spec, OutQ

(* And the way in: what reads return is what the host has sent, in order,   *)
(* none twice, none missing.                                                *)
THEOREM InIsAChannel == Spec => ImplementsIn
<1>1. Init => In!Init BY ChannelStarts, JtagUartAssumption DEF In!Init, InQ
<1>2. ChannelInv /\ [Next]_vars => [In!Next]_InQ BY InSteps, JtagUartAssumption
<1> QED BY <1>1, <1>2, ChannelInvariant, PTL DEF Spec, ImplementsIn, In!Spec, InQ

-----------------------------------------------------------------------------
(* The work the handler can find: room for characters from the host,        *)
(* characters for it, and the interrupts that are enabled.                  *)
One(b) == IF b THEN 1 ELSE 0
HandlerWork ==
  (BUF_LEN - 1 - Used(rx_in, rx_out)) + Used(tx_in, tx_out) + One(RE) + One(WE)

(* Its places, from those that follow a character moved to those whose next *)
(* step moves one or disables an interrupt.                                 *)
HandlerPlace ==
  CASE isr = "read" /\ ~ravail    -> 5
    [] isr = "read_end"           -> 4
    [] isr = "write" /\ space = 0 -> 3
    [] isr = "control"            -> 2
    [] isr = "read" /\ ravail     -> 1
    [] isr = "write" /\ space # 0 -> 1
    [] OTHER                      -> 0

HandlerStep ==
  isr # "out" =>
    /\ HandlerWork \in Nat /\ HandlerPlace \in Nat
    /\ IF Irq THEN \/ HandlerWork' < HandlerWork
                   \/ HandlerWork' = HandlerWork /\ HandlerPlace' < HandlerPlace
              ELSE UNCHANGED <<isr, HandlerWork, HandlerPlace>>
HandlerProgress == [][HandlerStep]_vars

(* What the handler has read of the control register still holds: nothing   *)
(* but the handler disables an interrupt or takes from the FIFO meanwhile.  *)
HandlerKnows ==
  /\ isr = "read" => RE /\ (ravail => rxfifo # <<>>)
  /\ isr \in {"read", "read_end"} => (WI => WE)
  /\ isr = "write" => WE
  /\ rxfifo \in Seq(Char) /\ ravail \in BOOLEAN /\ WI \in BOOLEAN

(* Behind the first of several characters there is another one. *)
LEMMA MoreBehind ==
  ASSUME NEW q \in Seq(Char), q # <<>>, Len(q) > 1 PROVE Tail(q) # <<>>
<1> DEFINE len == Len(q)
           rest == Len(Tail(q))
<1>1. len \in Nat /\ rest = len - 1 BY HeadTailProperties, LenProperties
<1>2. len > 1 OBVIOUS
<1> HIDE DEF len, rest
<1>3. rest # 0 BY <1>1, <1>2
<1>4. Len(Tail(q)) # 0 BY <1>3 DEF rest
<1> QED BY <1>4, EmptySeq

LEMMA KnowsKept == ASSUME JtagUartAssumption, WakeInv, HandlerKnows, [Next]_vars PROVE HandlerKnows'
<1> USE DEF HandlerKnows
<1>1. CASE isr = "out" /\ (Caller \/ MainStep \/ Second)
  <2>1. UNCHANGED <<isr, WI, ravail, rxfifo>>
    BY <1>1 DEF Caller, Call, Ioctl, MainStep, WriteLook, WriteCopy, Kick, WriteSpin, WriteAfter,
      ReadLook, ReadCopy, ReadSpin, ReadAfter, ReadEnd, Close, Second, handler, hardware
  <2> QED BY <1>1, <2>1
<1>2. CASE IrqControl
  <2>1. /\ WI' = WritePending /\ ravail' = TRUE /\ UNCHANGED <<RE, WE, rxfifo>>
        /\ isr' = IF ReadPending THEN "read" ELSE IF WritePending THEN "write" ELSE "out"
    BY <1>2 DEF IrqControl, hardware
  <2>2. (ReadPending => RE /\ rxfifo # <<>>) /\ (WritePending => WE) /\ WritePending \in BOOLEAN
    BY DEF ReadPending, WritePending, WakeInv, Located
  <2> QED BY <2>1, <2>2
<1>3. CASE IrqRead
  <2>1. isr = "read" /\ UNCHANGED <<RE, WE, WI>> BY <1>3 DEF IrqRead
  <2>2. CASE rxfifo = <<>>
    <3>1. isr' = "read_end" /\ ravail' = FALSE /\ rxfifo' = rxfifo BY <1>3, <2>2 DEF IrqRead
    <3>2. ravail' \in BOOLEAN BY <3>1
    <3> QED BY <2>1, <3>1, <3>2
  <2>3. CASE rxfifo # <<>>
    <3>1. rxfifo' = Tail(rxfifo) /\ ravail' = (Len(rxfifo) > 1) /\ isr' = isr
      BY <1>3, <2>3 DEF IrqRead
    <3>2. Tail(rxfifo) \in Seq(Char) /\ Len(Tail(rxfifo)) = Len(rxfifo) - 1 /\ Len(rxfifo) \in Nat
      BY <2>3, HeadTailProperties, LenProperties
    <3>3. ravail' => rxfifo' # <<>>
      <4>1. ravail' => Len(rxfifo) > 1 BY <3>1
      <4> QED BY <2>3, <3>1, <4>1, MoreBehind
    <3>4. ravail' \in BOOLEAN BY <3>1
    <3> QED BY <2>1, <3>1, <3>2, <3>3, <3>4
  <2> QED BY <2>2, <2>3
<1>4. CASE IrqReadEnd
  <2>1. isr' = (IF WI THEN "write" ELSE "control") /\ isr \in {"read", "read_end"}
        /\ UNCHANGED <<WE, WI, ravail, rxfifo>>
    BY <1>4 DEF IrqReadEnd, hardware
  <2> QED BY <2>1
<1>5. CASE IrqWrite
  <2>1. isr = "write" /\ UNCHANGED <<isr, WE, WI, ravail, rxfifo>> BY <1>5 DEF IrqWrite
  <2> QED BY <2>1
<1>6. CASE IrqWriteEnd
  <2>1. isr' = "control" /\ UNCHANGED <<WI, ravail, rxfifo>> BY <1>6 DEF IrqWriteEnd, hardware
  <2> QED BY <2>1
<1>7. CASE HostPoll \/ UNCHANGED vars
  <2>1. UNCHANGED <<isr, RE, WE, WI, ravail, rxfifo>> BY <1>7 DEF HostPoll, vars, handler, hardware
  <2> QED BY <2>1
<1>8. CASE HostSend
  <2>1. UNCHANGED <<isr, RE, WE, WI, ravail>> BY <1>8 DEF HostSend, handler
  <2>2. PICK c \in Char : rxfifo' = Append(rxfifo, c) BY <1>8 DEF HostSend
  <2>3. rxfifo' \in Seq(Char) /\ Len(rxfifo') = Len(rxfifo) + 1 /\ Len(rxfifo) \in Nat
    BY <2>2, AppendProperties, LenProperties
  <2>4. rxfifo' # <<>> BY <2>3, EmptySeq
  <2> QED BY <2>1, <2>3, <2>4
<1>9. CASE Second BY <1>1, <1>9 DEF Second
<1> QED BY <1>1, <1>2, <1>3, <1>4, <1>5, <1>6, <1>7, <1>8, <1>9, Steps

LEMMA WorkType ==
  ASSUME JtagUartAssumption, WakeInv
  PROVE  /\ Used(rx_in, rx_out) \in 0 .. BUF_LEN - 1 /\ Used(tx_in, tx_out) \in 0 .. BUF_LEN - 1
         /\ One(RE) \in 0 .. 1 /\ One(WE) \in 0 .. 1
         /\ HandlerWork \in Nat /\ HandlerPlace \in Nat
<1>1. rx_in \in Index /\ rx_out \in Index /\ tx_in \in Index /\ tx_out \in Index
  BY DEF WakeInv, Indexed
<1>2. Used(rx_in, rx_out) \in 0 .. BUF_LEN - 1 /\ Used(tx_in, tx_out) \in 0 .. BUF_LEN - 1
  BY <1>1, UsedIs
<1>3. One(RE) \in 0 .. 1 /\ One(WE) \in 0 .. 1 BY DEF One
<1>4. HandlerWork \in Nat
  <2> DEFINE r == Used(rx_in, rx_out)
             t == Used(tx_in, tx_out)
             o == One(RE)
             p == One(WE)
  <2>1. HandlerWork = (BUF_LEN - 1 - r) + t + o + p BY DEF HandlerWork
  <2>2. BUF_LEN \in Nat /\ r \in 0 .. BUF_LEN - 1 /\ t \in 0 .. BUF_LEN - 1 /\ o \in 0 .. 1 /\ p \in 0 .. 1
    BY <1>2, <1>3 DEF JtagUartAssumption
  <2> HIDE DEF r, t, o, p
  <2> QED BY <2>1, <2>2
<1>5. HandlerPlace \in Nat BY DEF HandlerPlace
<1> QED BY <1>2, <1>3, <1>4, <1>5

(* The four numbers of HandlerWork: if one of them falls, so does the sum.  *)
LEMMA WorkFalls ==
  ASSUME JtagUartAssumption, WakeInv, WakeInv',
         Used(rx_in, rx_out)' >= Used(rx_in, rx_out), Used(tx_in, tx_out)' <= Used(tx_in, tx_out),
         One(RE)' <= One(RE), One(WE)' <= One(WE)
  PROVE  /\ HandlerWork' <= HandlerWork
         /\ (\/ Used(rx_in, rx_out)' # Used(rx_in, rx_out)
             \/ Used(tx_in, tx_out)' # Used(tx_in, tx_out)
             \/ One(RE)' # One(RE) \/ One(WE)' # One(WE)) => HandlerWork' < HandlerWork
<1> DEFINE r == Used(rx_in, rx_out)
           t == Used(tx_in, tx_out)
           o == One(RE)
           p == One(WE)
           rr == Used(rx_in, rx_out)'
           tt == Used(tx_in, tx_out)'
           oo == One(RE)'
           pp == One(WE)'
<1>1. HandlerWork = (BUF_LEN - 1 - r) + t + o + p /\ HandlerWork' = (BUF_LEN - 1 - rr) + tt + oo + pp
  BY DEF HandlerWork
<1>2. r \in 0 .. BUF_LEN - 1 /\ t \in 0 .. BUF_LEN - 1 /\ o \in 0 .. 1 /\ p \in 0 .. 1
  BY WorkType
<1>3. WakeInv' => /\ rr \in 0 .. BUF_LEN - 1 /\ tt \in 0 .. BUF_LEN - 1 /\ oo \in 0 .. 1 /\ pp \in 0 .. 1
  <2>1. WakeInv' => rx_in' \in Index /\ rx_out' \in Index /\ tx_in' \in Index /\ tx_out' \in Index
    BY DEF WakeInv, Indexed
  <2>2. WakeInv' => rr \in 0 .. BUF_LEN - 1 /\ tt \in 0 .. BUF_LEN - 1
    BY <2>1, UsedIs DEF Used
  <2>3. oo \in 0 .. 1 /\ pp \in 0 .. 1 BY DEF One
  <2> QED BY <2>2, <2>3
<1>4. rr >= r /\ tt <= t /\ oo <= o /\ pp <= p OBVIOUS
<1>5. BUF_LEN \in Nat BY DEF JtagUartAssumption
<1> HIDE DEF r, t, o, p, rr, tt, oo, pp
<1>6. /\ HandlerWork' <= HandlerWork
      /\ rr # r \/ tt # t \/ oo # o \/ pp # p => HandlerWork' < HandlerWork
  BY <1>1, <1>2, <1>3, <1>4, <1>5
<1> QED BY <1>6 DEF r, t, o, p, rr, tt, oo, pp

LEMMA HandlerCloser ==
  ASSUME JtagUartAssumption, WakeInv, WakeInv', HandlerKnows, isr # "out", Irq
  PROVE  \/ HandlerWork' < HandlerWork
         \/ HandlerWork' = HandlerWork /\ HandlerPlace' < HandlerPlace
<1>1. rx_in \in Index /\ rx_out \in Index /\ tx_in \in Index /\ tx_out \in Index
      /\ RE \in BOOLEAN /\ WE \in BOOLEAN /\ space \in Nat
  BY DEF WakeInv, Indexed, Located, Filled
<1>2. One(TRUE) = 1 /\ One(FALSE) = 0 BY DEF One
<1>3. Used(rx_in, rx_out) \in Int /\ Used(tx_in, tx_out) \in Int /\ One(RE) \in Int /\ One(WE) \in Int
  BY WorkType DEF JtagUartAssumption
<1>4. CASE IrqControl
  <2>1. UNCHANGED <<rx_in, rx_out, tx_in, tx_out, RE, WE>> BY <1>4 DEF IrqControl, rx, tx
  <2>2. HandlerWork' = HandlerWork BY <2>1 DEF HandlerWork, Used, One
  <2>3. HandlerPlace = 2 BY <1>4 DEF IrqControl, HandlerPlace
  <2>4. isr' = "write" => space' # 0
    BY <1>4 DEF IrqControl, WritePending, WakeInv, Filled, JtagUartAssumption
  <2>5. ravail' = TRUE /\ isr' \in {"read", "write", "out"} BY <1>4 DEF IrqControl
  <2>6. HandlerPlace' < 2 BY <2>4, <2>5 DEF HandlerPlace
  <2> QED BY <2>2, <2>3, <2>6
<1>5. CASE IrqRead
  <2>1. isr = "read" /\ UNCHANGED <<rx_out, tx_in, tx_out, RE, WE>> BY <1>5 DEF IrqRead, tx
  <2>2. CASE rxfifo = <<>>
    <3>1. ~ravail /\ isr' = "read_end" /\ UNCHANGED rx_in BY <1>5, <2>1, <2>2 DEF IrqRead, HandlerKnows
    <3>2. HandlerWork' = HandlerWork BY <2>1, <3>1 DEF HandlerWork, Used, One
    <3>3. HandlerPlace = 5 /\ HandlerPlace' = 4 BY <2>1, <3>1 DEF HandlerPlace
    <3> QED BY <3>2, <3>3
  <2>3. CASE rxfifo # <<>>
    <3>1. rx_in' = Advance(rx_in, 1) /\ Advance(rx_in, 1) # rx_out BY <1>5, <2>3 DEF IrqRead, RxFull
    <3>2. Used(Advance(rx_in, 1), rx_out) = Used(rx_in, rx_out) + 1 BY <1>1, <3>1, AddsOne
    <3>3. Used(rx_in, rx_out)' = Used(rx_in, rx_out) + 1 BY <2>1, <3>1, <3>2 DEF Used
    <3>4. Used(tx_in, tx_out)' = Used(tx_in, tx_out) /\ One(RE)' = One(RE) /\ One(WE)' = One(WE)
      BY <2>1 DEF Used, One
    <3> QED BY <1>3, <3>3, <3>4, WorkFalls
  <2> QED BY <2>2, <2>3
<1>6. CASE IrqReadEnd
  <2>1. /\ UNCHANGED <<rx_in, rx_out, tx_in, tx_out, WE>> /\ RE' = (RE /\ ~ravail)
        /\ isr' \in {"write", "control"} /\ isr \in {"read", "read_end"}
    BY <1>6 DEF IrqReadEnd, StaysOpen, rx, tx
  <2>2. UNCHANGED <<Used(rx_in, rx_out), Used(tx_in, tx_out), One(WE)>> BY <2>1 DEF Used, One
  <2>3. CASE ravail
    <3>1. isr = "read" BY <2>1, <2>3 DEF WakeInv, Emptied
    <3>2. RE = TRUE /\ RE' = FALSE BY <1>1, <2>1, <2>3, <3>1 DEF HandlerKnows
    <3>3. One(RE) = 1 /\ One(RE)' = 0 BY <3>2 DEF One
    <3> QED BY <1>3, <2>2, <3>3, WorkFalls
  <2>4. CASE ~ravail
    <3>1. RE' = RE BY <1>1, <2>1, <2>4
    <3>2. HandlerWork' = HandlerWork BY <2>1, <3>1 DEF HandlerWork, Used, One
    <3>3. HandlerPlace \in {4, 5} BY <2>1, <2>4 DEF HandlerPlace
    <3>4. HandlerPlace' \in {1, 2, 3} BY <2>1 DEF HandlerPlace
    <3> QED BY <3>2, <3>3, <3>4
  <2> QED BY <2>3, <2>4
<1>7. CASE IrqWrite
  <2>1. tx_out # tx_in /\ tx_out' = Advance(tx_out, 1) /\ UNCHANGED <<rx_in, rx_out, tx_in, RE, WE>>
    BY <1>7 DEF IrqWrite, rx
  <2>2. Used(tx_in, Advance(tx_out, 1)) = Used(tx_in, tx_out) - 1 BY <1>1, <2>1, TakesOne
  <2>3. Used(tx_in, tx_out)' = Used(tx_in, tx_out) - 1 BY <2>1, <2>2 DEF Used
  <2>4. Used(rx_in, rx_out)' = Used(rx_in, rx_out) /\ One(RE)' = One(RE) /\ One(WE)' = One(WE)
    BY <2>1 DEF Used, One
  <2> QED BY <1>3, <2>3, <2>4, WorkFalls
<1>8. CASE IrqWriteEnd
  <2>1. /\ UNCHANGED <<rx_in, rx_out, tx_in, tx_out, RE>> /\ WE' = (WE /\ space = 0)
        /\ isr' = "control" /\ isr = "write"
    BY <1>8 DEF IrqWriteEnd, StaysOn, rx, tx
  <2>2. WE = TRUE BY <1>1, <2>1 DEF HandlerKnows
  <2>3. CASE space = 0
    <3>1. WE' = WE BY <2>1, <2>2, <2>3
    <3>2. HandlerWork' = HandlerWork BY <2>1, <3>1 DEF HandlerWork, Used, One
    <3>3. HandlerPlace = 3 /\ HandlerPlace' = 2 BY <2>1, <2>3 DEF HandlerPlace
    <3> QED BY <3>2, <3>3
  <2>4. CASE space # 0
    <3>1. WE' = FALSE BY <2>1, <2>4
    <3>2. One(WE) = 1 /\ One(WE)' = 0 BY <2>2, <3>1 DEF One
    <3>3. UNCHANGED <<Used(rx_in, rx_out), Used(tx_in, tx_out), One(RE)>> BY <2>1 DEF Used, One
    <3> QED BY <1>3, <3>2, <3>3, WorkFalls
  <2> QED BY <2>3, <2>4
<1> QED BY <1>4, <1>5, <1>6, <1>7, <1>8 DEF Irq

(* Every step of the handler brings it closer to its end, in a well-founded *)
(* order, and the host takes nothing of that back however fast it types or  *)
(* reads: the safety part of HandlerEnds, on which the fairness rests.      *)
THEOREM HandlerComesCloser == Spec => HandlerProgress
<1>1. Init => WakeInv /\ HandlerKnows
  <2>1. Init => HandlerKnows BY EmptySeq DEF Init, HandlerKnows
  <2> QED BY <2>1, InitWakes, JtagUartAssumption
<1>2. WakeInv /\ HandlerKnows /\ [Next]_vars => WakeInv' /\ HandlerKnows'
  BY WakeKept, KnowsKept, JtagUartAssumption
<1>3. WakeInv /\ WakeInv' /\ HandlerKnows /\ [Next]_vars => [HandlerStep]_vars
  <2> SUFFICES ASSUME WakeInv, WakeInv', HandlerKnows, Next, isr # "out" PROVE HandlerStep
    BY DEF HandlerStep
  <2>1. HandlerWork \in Nat /\ HandlerPlace \in Nat BY WorkType, JtagUartAssumption
  <2>2. CASE Irq BY <2>1, <2>2, HandlerCloser, JtagUartAssumption DEF HandlerStep
  <2>3. CASE ~Irq
    <3>1. HostPoll \/ HostSend BY <2>3 DEF Next, Second
    <3>2. UNCHANGED <<rx_in, rx_out, tx_in, tx_out, RE, WE, isr, ravail, space>>
      BY <3>1 DEF HostPoll, HostSend, rx, tx, handler
    <3>3. UNCHANGED <<isr, HandlerWork, HandlerPlace>>
      BY <3>2 DEF HandlerWork, HandlerPlace, Used, One
    <3> QED BY <2>1, <2>3, <3>3 DEF HandlerStep
  <2> QED BY <2>2, <2>3
<1> QED BY <1>1, <1>2, <1>3, PTL DEF Spec, HandlerProgress
=============================================================================
