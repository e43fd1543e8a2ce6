------------------------------ MODULE UsbProofs ------------------------------
(***************************************************************************)
(* The safety properties of UsbHost, for a device table of any size.  One  *)
(* lemma for each part of the loop shows that its steps preserve IInv: the  *)
(* handler, USB_Task, the rest of main's loop, and the chip and the bus.    *)
(***************************************************************************)
EXTENDS UsbHost, TLAPS

USE NumDevicesAssumption
USE DEF DETACHED, INITIALIZE, WAIT_FOR_DEVICE, ILLEGAL, ATTACHED, SETTLE, RESET_DEVICE,
        WAIT_RESET_COMPLETE, WAIT_SOF, GET_DEVICE_DESCRIPTOR_SIZE, ADDRESSING, CONFIGURING,
        RUNNING, ERROR, UNINIT, HID_K, HID_M, NoDriver

(* The parts of IInv about the reset, about the table and about the driver.  *)
ResetPart == CopyHeld /\ NoOldEvent /\ Probed /\ NoTransferInReset
TablePart == InOrder /\ LastGiven
DriverPart == Identified /\ Forgotten /\ KeysFromKeyboard

LEMMA Parts == IInv => TypeOK /\ ResetPart /\ TablePart /\ DriverPart
BY DEF IInv, ResetPart, TablePart, DriverPart

(* The parts depend on few variables each. *)
LEMMA TableKept ==
  ASSUME TablePart, UNCHANGED <<table, tmp_addr>>,
         usb_task_state' \in {CONFIGURING, RUNNING} => usb_task_state \in {CONFIGURING, RUNNING}
  PROVE  TablePart'
BY DEF TablePart, InOrder, LastGiven, TakenUpTo, table

LEMMA TableCleared ==
  ASSUME ClearTable, usb_task_state' \notin {CONFIGURING, RUNNING}
  PROVE  TablePart'
<1>1. 0 \in 0 .. (NumDevices - 1) /\ TakenUpTo(0)'
  BY DEF ClearTable, TakenUpTo, Addresses
<1> QED
  BY <1>1 DEF TablePart, InOrder, LastGiven, TakenUpTo

LEMMA AddressType == \A a \in Addresses : a \in Nat /\ 1 <= a /\ a < NumDevices
BY DEF Addresses

(* With the table filled in order, the lowest free address is the next one. *)
LEMMA NextFree ==
  ASSUME NEW k \in 0 .. (NumDevices - 1), TakenUpTo(k), Free # {}
  PROVE  k + 1 \in Addresses /\ FreeAddress = k + 1
<1>1. k + 1 \in Addresses /\ k + 1 \in Free
  <2>1. PICK a \in Addresses : epinfo[a] = "NULL"
    BY DEF Free
  <2>2. ~(a <= k)
    BY <2>1 DEF TakenUpTo
  <2>3. k + 1 \in Addresses
    BY <2>2, AddressType DEF Addresses
  <2> QED
    BY <2>3 DEF TakenUpTo, Free
<1>2. \A b \in Free : k + 1 <= b
  BY AddressType DEF TakenUpTo, Free
<1>3. \A a \in Free : (\A b \in Free : a <= b) => a = k + 1
  BY <1>1, <1>2, AddressType DEF Free
<1> QED
  BY <1>1, <1>2, <1>3 DEF FreeAddress

LEMMA FreeIsNext ==
  ASSUME InOrder, Free # {}
  PROVE  FreeAddress \in Addresses /\ TakenUpTo(FreeAddress - 1)
<1>1. PICK k \in 0 .. (NumDevices - 1) : TakenUpTo(k)
  BY DEF InOrder
<1>2. FreeAddress = k + 1 /\ k + 1 \in Addresses /\ k + 1 - 1 = k
  BY <1>1, NextFree
<1> QED
  BY <1>1, <1>2

(* The class that GetDriverandReport finds is that of the address given last. *)
LEMMA LastTaken ==
  ASSUME NEW t \in Addresses, TakenUpTo(t)
  PROVE  Taken # {} /\ LastEntry = t
<1>1. t \in Taken /\ \A b \in Taken : b <= t
  BY AddressType DEF TakenUpTo, Taken
<1>2. \A a \in Taken : (\A b \in Taken : b <= a) => a = t
  BY <1>1, AddressType DEF Taken
<1> QED
  BY <1>1, <1>2 DEF LastEntry

-----------------------------------------------------------------------------
LEMMA InitIInv == Init => IInv
<1> SUFFICES ASSUME Init PROVE IInv
  OBVIOUS
<1>1. TypeOK
  BY DEF Init, TypeOK, Reached, Handled, Addresses, Devices, Interrupts
<1>2. 0 \in 0 .. (NumDevices - 1) /\ TakenUpTo(0)
  BY DEF Init, TakenUpTo, Addresses
<1>3. InOrder /\ LastGiven
  BY <1>2 DEF Init, InOrder, LastGiven
<1> QED
  BY <1>1, <1>3 DEF Init, IInv, CopyHeld, NoOldEvent, Probed, NoTransferInReset, Identified,
     Forgotten, KeysFromKeyboard

(* What busprobe leaves in usb_task_state. *)
LEMMA ProbeState ==
  ASSUME TypeOK, NEW before \in BOOLEAN, BusProbe(before)
  PROVE  /\ usb_task_state' \in AfterProbe
         /\ usb_task_state' = WAIT_RESET_COMPLETE => usb_task_state = WAIT_RESET_COMPLETE
         /\ usb_task_state = RUNNING => usb_task_state' \in {ATTACHED, INITIALIZE, ILLEGAL}
         /\ sof' \in BOOLEAN /\ unseen' \in BOOLEAN
<1>1. usb_task_state \in Reached /\ bus \in {"SE0", "SE1"} \cup Devices
  BY DEF TypeOK
<1>2. sof' \in BOOLEAN /\ unseen' \in BOOLEAN
  BY DEF BusProbe
<1>3. CASE bus = "SE0"
  <2>1. usb_task_state' = IF Masked(usb_task_state) = DETACHED THEN 3 ELSE 1
    BY <1>3 DEF BusProbe
  <2>2. usb_task_state = 64 => Masked(usb_task_state) # DETACHED
    BY DEF Masked
  <2> QED
    BY <1>2, <2>1, <2>2 DEF AfterProbe
<1>4. CASE bus = "SE1"
  <2>1. usb_task_state' = ILLEGAL
    BY <1>4 DEF BusProbe
  <2> QED
    BY <1>2, <2>1 DEF AfterProbe
<1>5. CASE bus \in Devices
  <2>1. usb_task_state' = IF usb_task_state # 19 THEN 16 ELSE usb_task_state
    BY <1>5 DEF BusProbe, ProbesAttachment, Devices
  <2> QED
    BY <1>2, <2>1 DEF AfterProbe
<1> QED
  BY <1>1, <1>3, <1>4, <1>5

LEMMA AfterProbeSafe ==
  AfterProbe \cap {WAIT_SOF, GET_DEVICE_DESCRIPTOR_SIZE, ADDRESSING, CONFIGURING, RUNNING} = {}
BY DEF AfterProbe

-----------------------------------------------------------------------------
LEMMA HandlerIInv ==
  ASSUME IInv, PollPin \/ HandlerProbes \/ HandlerAcks
  PROVE  IInv'
<1>p. TypeOK /\ ResetPart /\ TablePart /\ DriverPart
  BY Parts
<1>1. CASE PollPin
  <2>1. TypeOK'
    BY <1>p, <1>1 DEF PollPin, TypeOK, table, loop, chip, cable
  <2>2. ResetPart'
    BY <1>p, <1>1 DEF PollPin, ResetPart, CopyHeld, NoOldEvent, Probed, NoTransferInReset, chip
  <2>3. TablePart'
    BY <1>p, <1>1, TableKept DEF PollPin
  <2>4. DriverPart'
    BY <1>p, <1>1 DEF PollPin, DriverPart, Identified, Forgotten, KeysFromKeyboard, table, loop, cable
  <2> QED
    BY <2>1, <2>2, <2>3, <2>4 DEF IInv, ResetPart, TablePart, DriverPart
<1>2. CASE HandlerProbes
  <2>0. BusProbe(sof) /\ sof \in BOOLEAN
    BY <1>p, <1>2 DEF HandlerProbes, TypeOK
  <2>a. AfterProbe \subseteq Reached
    BY DEF AfterProbe, Reached, Handled
  <2>1. TypeOK'
    BY <1>p, <1>2, <2>0, <2>a, ProbeState DEF HandlerProbes, TypeOK, table, loop, cable
  <2>2. ResetPart'
    BY <1>p, <1>2, <2>0, ProbeState, AfterProbeSafe
       DEF HandlerProbes, ResetPart, CopyHeld, NoOldEvent, Probed, NoTransferInReset
  <2>3. TablePart'
    BY <1>p, <1>2, <2>0, ProbeState, AfterProbeSafe, TableKept DEF HandlerProbes
  <2>4. DriverPart'
    BY <1>p, <1>2, <2>0, ProbeState, AfterProbeSafe
       DEF HandlerProbes, DriverPart, Identified, Forgotten, KeysFromKeyboard, loop
  <2> QED
    BY <2>1, <2>2, <2>3, <2>4 DEF IInv, ResetPart, TablePart, DriverPart
<1>3. CASE HandlerAcks
  <2>1. /\ usb_task_state \in AfterProbe
        /\ usb_task_state' \in {usb_task_state, usb_task_state + 1}
        /\ usb_task_state' = usb_task_state + 1 => "BUSEVENT" \in HIRQ
    <3>1. usb_task_state \in AfterProbe
      BY <1>p, <1>3 DEF HandlerAcks, ResetPart, Probed
    <3>2. (usb_task_state + 1) % 256 = usb_task_state + 1
      BY <3>1 DEF AfterProbe
    <3> QED
      BY <1>3, <3>1, <3>2 DEF HandlerAcks, AfterProbe
  <2>2. TypeOK'
    <3>1. usb_task_state' \in Reached
      BY <2>1 DEF AfterProbe, Reached, Handled
    <3> QED
      BY <1>p, <1>3, <3>1 DEF HandlerAcks, TypeOK, table, loop, cable, Interrupts
  <2>3. ResetPart'
    BY <1>p, <1>3, <2>1
       DEF HandlerAcks, ResetPart, CopyHeld, NoOldEvent, Probed, NoTransferInReset, AfterProbe
  <2>4. TablePart'
    BY <1>p, <1>3, <2>1, TableKept DEF HandlerAcks, AfterProbe
  <2>5. DriverPart'
    BY <1>p, <1>3, <2>1
       DEF HandlerAcks, DriverPart, Identified, Forgotten, KeysFromKeyboard, loop, AfterProbe
  <2> QED
    BY <2>2, <2>3, <2>4, <2>5 DEF IInv, ResetPart, TablePart, DriverPart
<1> QED
  BY <1>1, <1>2, <1>3

-----------------------------------------------------------------------------
LEMMA TaskIInv ==
  ASSUME IInv, USB_Task
  PROVE  IInv'
<1>p. TypeOK /\ ResetPart /\ TablePart /\ DriverPart
  BY Parts
<1>1. CASE Initialize
  <2>1. TypeOK'
    <3>1. /\ epinfo' \in [Addresses -> {"NULL", "dev0ep", "hid_ep"}]
          /\ devclass' \in [Addresses -> {UNINIT, HID_K, HID_M}]
      BY <1>1 DEF Initialize, ClearTable
    <3> QED
      BY <1>p, <1>1, <3>1 DEF Initialize, InTask, TypeOK, Reached, Handled, chip, cable, loop
  <2>2. ResetPart'
    BY <1>p, <1>1 DEF Initialize, InTask, ResetPart, CopyHeld, NoOldEvent, Probed, NoTransferInReset, chip
  <2>3. TablePart'
    BY <1>p, <1>1, TableCleared DEF Initialize
  <2>4. DriverPart'
    BY <1>p, <1>1 DEF Initialize, InTask, DriverPart, Identified, Forgotten, KeysFromKeyboard, chip, cable, table, loop
  <2> QED
    BY <2>1, <2>2, <2>3, <2>4 DEF IInv, ResetPart, TablePart, DriverPart
<1>2. CASE Attached
  <2>1. TypeOK'
    <3>1. epinfo' = epinfo /\ devclass' = devclass
      BY <1>2 DEF Attached, table
    <3>2. /\ usb_task_state' \in Reached
          /\ pc' = "main" /\ settled' \in BOOLEAN
      BY <1>2 DEF Attached, InTask, Reached, Handled
    <3> QED
      BY <1>p, <1>2, <3>1, <3>2 DEF Attached, InTask, TypeOK, chip, cable, loop
  <2>2. ResetPart'
    BY <1>p, <1>2 DEF Attached, InTask, ResetPart, CopyHeld, NoOldEvent, Probed, NoTransferInReset, chip
  <2>3. TablePart'
    BY <1>p, <1>2, TableKept DEF Attached, InTask, table
  <2>4. DriverPart'
    BY <1>p, <1>2 DEF Attached, InTask, DriverPart, Identified, Forgotten, KeysFromKeyboard, chip, cable, table, loop
  <2> QED
    BY <2>1, <2>2, <2>3, <2>4 DEF IInv, ResetPart, TablePart, DriverPart
<1>3. CASE Settle
  <2>1. TypeOK'
    BY <1>p, <1>3 DEF Settle, InTask, TypeOK, Reached, Handled, chip, cable, table, loop
  <2>2. ResetPart'
    BY <1>p, <1>3 DEF Settle, InTask, ResetPart, CopyHeld, NoOldEvent, Probed, NoTransferInReset, chip
  <2>3. TablePart'
    BY <1>p, <1>3, TableKept DEF Settle, InTask, table
  <2>4. DriverPart'
    BY <1>p, <1>3 DEF Settle, InTask, DriverPart, Identified, Forgotten, KeysFromKeyboard, chip, cable, table, loop
  <2> QED
    BY <2>1, <2>2, <2>3, <2>4 DEF IInv, ResetPart, TablePart, DriverPart
<1>4. CASE ResetDevice
  <2>1. TypeOK'
    BY <1>p, <1>4 DEF ResetDevice, InTask, ClearedForReset, TypeOK, Reached, Handled, chip, cable, table, loop
  <2>2. ResetPart'
    BY <1>p, <1>4 DEF ResetDevice, InTask, ClearedForReset, ResetPart, CopyHeld, NoOldEvent, Probed, NoTransferInReset, chip
  <2>3. TablePart'
    BY <1>p, <1>4, TableKept DEF ResetDevice, InTask, ClearedForReset, table
  <2>4. DriverPart'
    BY <1>p, <1>4 DEF ResetDevice, InTask, ClearedForReset, DriverPart, Identified, Forgotten, KeysFromKeyboard, chip, cable, table, loop
  <2> QED
    BY <2>1, <2>2, <2>3, <2>4 DEF IInv, ResetPart, TablePart, DriverPart
<1>5. CASE WaitResetComplete
  <2>1. TypeOK'
    BY <1>p, <1>5 DEF WaitResetComplete, InTask, TypeOK, Reached, Handled, chip, cable, table, loop
  <2>2. ResetPart'
    BY <1>p, <1>5 DEF WaitResetComplete, InTask, ResetPart, CopyHeld, NoOldEvent, Probed, NoTransferInReset, chip
  <2>3. TablePart'
    BY <1>p, <1>5, TableKept DEF WaitResetComplete, InTask, table
  <2>4. DriverPart'
    BY <1>p, <1>5 DEF WaitResetComplete, InTask, DriverPart, Identified, Forgotten, KeysFromKeyboard, chip, cable, table, loop
  <2> QED
    BY <2>1, <2>2, <2>3, <2>4 DEF IInv, ResetPart, TablePart, DriverPart
<1>6. CASE WaitSof
  <2>1. TypeOK'
    BY <1>p, <1>6 DEF WaitSof, InTask, TypeOK, Reached, Handled, chip, cable, table, loop
  <2>2. ResetPart'
    BY <1>p, <1>6 DEF WaitSof, InTask, ResetPart, CopyHeld, NoOldEvent, Probed, NoTransferInReset, chip
  <2>3. TablePart'
    BY <1>p, <1>6, TableKept DEF WaitSof, InTask, table
  <2>4. DriverPart'
    BY <1>p, <1>6 DEF WaitSof, InTask, DriverPart, Identified, Forgotten, KeysFromKeyboard, chip, cable, table, loop
  <2> QED
    BY <2>1, <2>2, <2>3, <2>4 DEF IInv, ResetPart, TablePart, DriverPart
<1>7. CASE GetDescriptor
  <2>1. TypeOK'
    BY <1>p, <1>7 DEF GetDescriptor, InTask, TypeOK, Reached, Handled, chip, cable, table, loop
  <2>2. ResetPart'
    BY <1>p, <1>7 DEF GetDescriptor, InTask, ResetPart, CopyHeld, NoOldEvent, Probed, NoTransferInReset, chip
  <2>3. TablePart'
    BY <1>p, <1>7, TableKept DEF GetDescriptor, InTask, table
  <2>4. DriverPart'
    BY <1>p, <1>7 DEF GetDescriptor, InTask, DriverPart, Identified, Forgotten, KeysFromKeyboard, chip, cable, table, loop
  <2> QED
    BY <2>1, <2>2, <2>3, <2>4 DEF IInv, ResetPart, TablePart, DriverPart
<1>8. CASE Address
  <2>1. TypeOK'
    <3>1. FreeAddress \in Addresses
      BY <1>p, <1>8, FreeIsNext DEF Address, TablePart
    <3>2. epinfo' \in [Addresses -> {"NULL", "dev0ep", "hid_ep"}]
      BY <1>p, <1>8, <3>1 DEF Address, TypeOK
    <3>3. devAddr' \in {0} \cup Addresses /\ tmp_addr' \in {0} \cup Addresses
      BY <1>p, <1>8, <3>1 DEF Address, TypeOK
    <3> QED
      BY <1>p, <1>8, <3>2, <3>3 DEF Address, InTask, TypeOK, Reached, Handled, chip, cable, loop
  <2>2. ResetPart'
    BY <1>p, <1>8 DEF Address, InTask, ResetPart, CopyHeld, NoOldEvent, Probed, NoTransferInReset, chip
  <2>3. TablePart'
    <3>1. FreeAddress \in Addresses /\ TakenUpTo(FreeAddress - 1)
      BY <1>p, <1>8, FreeIsNext DEF Address, TablePart
    <3>2. PICK k \in Addresses : k = FreeAddress
      BY <3>1
    <3>3. epinfo' = [epinfo EXCEPT ![k] = "dev0ep"] /\ TakenUpTo(k - 1)
      BY <1>8, <3>1, <3>2 DEF Address
    <3>4. \A a \in Addresses : epinfo'[a] # "NULL" <=> a <= k
      BY <1>p, <3>3, AddressType DEF TakenUpTo, TypeOK
    <3>5. usb_task_state' \in {CONFIGURING, RUNNING} => tmp_addr' = k
      BY <1>8, <3>2 DEF Address
    <3>6. k \in 0 .. (NumDevices - 1)
      BY DEF Addresses
    <3> QED
      BY <3>4, <3>5, <3>6 DEF TablePart, InOrder, LastGiven, TakenUpTo
  <2>4. DriverPart'
    BY <1>p, <1>8 DEF Address, InTask, DriverPart, Identified, Forgotten, KeysFromKeyboard, chip, cable, table, loop
  <2> QED
    BY <2>1, <2>2, <2>3, <2>4 DEF IInv, ResetPart, TablePart, DriverPart
<1>9. CASE NoAddress
  <2>1. TypeOK'
    BY <1>p, <1>9 DEF NoAddress, InTask, TypeOK, Reached, Handled, chip, cable, table, loop
  <2>2. ResetPart'
    BY <1>p, <1>9 DEF NoAddress, InTask, ResetPart, CopyHeld, NoOldEvent, Probed, NoTransferInReset, chip
  <2>3. TablePart'
    BY <1>p, <1>9, TableKept DEF NoAddress, InTask, table
  <2>4. DriverPart'
    BY <1>p, <1>9 DEF NoAddress, InTask, DriverPart, Identified, Forgotten, KeysFromKeyboard, chip, cable, table, loop
  <2> QED
    BY <2>1, <2>2, <2>3, <2>4 DEF IInv, ResetPart, TablePart, DriverPart
<1>10. CASE Identify
  <2>1. TypeOK'
    <3>1. tmp_addr \in Addresses /\ ClassOf(bus) \in {HID_K, HID_M}
      BY <1>p, <1>10 DEF Identify, TablePart, LastGiven, ClassOf
    <3>2. /\ epinfo' \in [Addresses -> {"NULL", "dev0ep", "hid_ep"}]
          /\ devclass' \in [Addresses -> {UNINIT, HID_K, HID_M}]
      BY <1>p, <1>10, <3>1 DEF Identify, TypeOK
    <3> QED
      BY <1>p, <1>10, <3>1, <3>2 DEF Identify, InTask, TypeOK, Reached, Handled, chip, cable, loop
  <2>2. ResetPart'
    BY <1>p, <1>10 DEF Identify, InTask, ResetPart, CopyHeld, NoOldEvent, Probed, NoTransferInReset, chip
  <2>3. TablePart'
    BY <1>p, <1>10 DEF Identify, TablePart, InOrder, LastGiven, TakenUpTo, TypeOK
  <2>4. DriverPart'
    BY <1>p, <1>10 DEF Identify, InTask, Answers, ClassOf, DriverPart, Identified, Forgotten, KeysFromKeyboard, TablePart, LastGiven, TypeOK, loop, cable
  <2> QED
    BY <2>1, <2>2, <2>3, <2>4 DEF IInv, ResetPart, TablePart, DriverPart
<1>11. CASE NoClientDriver
  <2>1. TypeOK'
    BY <1>p, <1>11 DEF NoClientDriver, InTask, TypeOK, Reached, Handled, chip, cable, table, loop
  <2>2. ResetPart'
    BY <1>p, <1>11 DEF NoClientDriver, InTask, ResetPart, CopyHeld, NoOldEvent, Probed, NoTransferInReset, chip
  <2>3. TablePart'
    BY <1>p, <1>11, TableKept DEF NoClientDriver, InTask, table
  <2>4. DriverPart'
    BY <1>p, <1>11 DEF NoClientDriver, InTask, DriverPart, Identified, Forgotten, KeysFromKeyboard, chip, cable, table, loop
  <2> QED
    BY <2>1, <2>2, <2>3, <2>4 DEF IInv, ResetPart, TablePart, DriverPart
<1>12. CASE Idle
  <2>1. TypeOK'
    BY <1>p, <1>12 DEF Idle, InTask, Handled, TypeOK, Reached, Handled, chip, cable, table, loop
  <2>2. ResetPart'
    BY <1>p, <1>12 DEF Idle, InTask, Handled, ResetPart, CopyHeld, NoOldEvent, Probed, NoTransferInReset, chip
  <2>3. TablePart'
    BY <1>p, <1>12, TableKept DEF Idle, InTask, Handled, table
  <2>4. DriverPart'
    BY <1>p, <1>12 DEF Idle, InTask, Handled, DriverPart, Identified, Forgotten, KeysFromKeyboard, chip, cable, table, loop
  <2> QED
    BY <2>1, <2>2, <2>3, <2>4 DEF IInv, ResetPart, TablePart, DriverPart
<1> QED
  BY <1>1, <1>2, <1>3, <1>4, <1>5, <1>6, <1>7, <1>8, <1>9, <1>10, <1>11, <1>12 DEF USB_Task

-----------------------------------------------------------------------------
LEMMA MainIInv ==
  ASSUME IInv, GetDriver \/ PollKeyboard \/ PollMouse \/ Restart \/ NotRunning \/ Boot \/ Reinit \/ Sleep
  PROVE  IInv'
<1>p. TypeOK /\ ResetPart /\ TablePart /\ DriverPart
  BY Parts
<1>1. CASE GetDriver
  <2>1. TypeOK'
    <3>1. /\ tmp_addr \in Addresses /\ hidAddr = tmp_addr
          /\ device' = devclass[hidAddr]
      <4>1. hidAddr = tmp_addr /\ tmp_addr \in Addresses /\ TakenUpTo(tmp_addr)
        BY <1>p, <1>1 DEF GetDriver, TablePart, LastGiven, DriverPart, Identified
      <4>2. /\ Taken # {}
            /\ LastEntry = tmp_addr
        BY <4>1, LastTaken
      <4> QED
        BY <1>1, <4>1, <4>2 DEF GetDriver
    <3>2. device' \in {UNINIT, HID_K, HID_M, NoDriver}
      BY <1>p, <3>1 DEF TypeOK
    <3> QED
      BY <1>p, <1>1, <3>2 DEF GetDriver, InMain, TypeOK, chip, cable, table
  <2>2. ResetPart'
    BY <1>p, <1>1 DEF GetDriver, InMain, ResetPart, CopyHeld, NoOldEvent, Probed, NoTransferInReset, chip
  <2>3. TablePart'
    BY <1>p, <1>1, TableKept DEF GetDriver, InMain, table
  <2>4. DriverPart'
    <3>1. /\ tmp_addr \in Addresses /\ hidAddr = tmp_addr
          /\ device' = devclass[hidAddr]
      <4>1. hidAddr = tmp_addr /\ tmp_addr \in Addresses /\ TakenUpTo(tmp_addr)
        BY <1>p, <1>1 DEF GetDriver, TablePart, LastGiven, DriverPart, Identified
      <4>2. /\ Taken # {}
            /\ LastEntry = tmp_addr
        BY <4>1, LastTaken
      <4> QED
        BY <1>1, <4>1, <4>2 DEF GetDriver
    <3> QED
      BY <1>p, <1>1, <3>1 DEF GetDriver, InMain, DriverPart, Identified, Forgotten,
         KeysFromKeyboard, table, cable
  <2> QED
    BY <2>1, <2>2, <2>3, <2>4 DEF IInv, ResetPart, TablePart, DriverPart
<1>2. CASE PollKeyboard
  <2>1. TypeOK'
    BY <1>p, <1>2 DEF PollKeyboard, InMain, Answers, TypeOK, table, loop, chip, cable
  <2>2. ResetPart'
    BY <1>p, <1>2 DEF PollKeyboard, InMain, ResetPart, CopyHeld, NoOldEvent, Probed, NoTransferInReset, chip
  <2>3. TablePart'
    BY <1>p, <1>2, TableKept DEF PollKeyboard, InMain, table
  <2>4. DriverPart'
    BY <1>p, <1>2 DEF PollKeyboard, InMain, Answers, DriverPart, Identified, Forgotten, KeysFromKeyboard, TypeOK, table, loop, cable
  <2> QED
    BY <2>1, <2>2, <2>3, <2>4 DEF IInv, ResetPart, TablePart, DriverPart
<1>3. CASE PollMouse
  <2>1. TypeOK'
    BY <1>p, <1>3 DEF PollMouse, InMain, TypeOK, Reached, Handled, chip, cable, table, loop
  <2>2. ResetPart'
    BY <1>p, <1>3 DEF PollMouse, InMain, ResetPart, CopyHeld, NoOldEvent, Probed, NoTransferInReset, chip
  <2>3. TablePart'
    BY <1>p, <1>3, TableKept DEF PollMouse, InMain, table
  <2>4. DriverPart'
    BY <1>p, <1>3 DEF PollMouse, InMain, DriverPart, Identified, Forgotten, KeysFromKeyboard, chip, cable, table, loop
  <2> QED
    BY <2>1, <2>2, <2>3, <2>4 DEF IInv, ResetPart, TablePart, DriverPart
<1>4. CASE Restart
  <2>1. TypeOK'
    <3>1. BusProbe(FALSE) /\ AfterProbe \subseteq Reached
      BY <1>4 DEF Restart, AfterProbe, Reached, Handled
    <3>2. /\ usb_task_state' \in AfterProbe
          /\ sof' \in BOOLEAN /\ unseen' \in BOOLEAN
      BY <1>p, <3>1, ProbeState
    <3>3. /\ hirq' \in SUBSET Interrupts /\ usb_task_state' \in Reached
          /\ busrst' \in BOOLEAN /\ runningdebugflag' \in BOOLEAN
      <4>1. hirq' = {} /\ busrst' \in BOOLEAN
        BY <1>4 DEF Restart
      <4>2. runningdebugflag' \in BOOLEAN
        BY <1>p, <1>4 DEF Restart, TypeOK, loop
      <4> QED
        BY <3>1, <3>2, <4>1, <4>2
    <3>4. pc' = "clear" /\ device' = device /\ keysFrom' = keysFrom
      BY <1>4 DEF Restart, InMain, loop
    <3> QED
      BY <1>p, <1>4, <3>2, <3>3, <3>4 DEF Restart, InMain, TypeOK, table, cable
  <2>2. ResetPart'
    <3>1. BusProbe(FALSE) /\ AfterProbe \subseteq Reached
      BY <1>4 DEF Restart, AfterProbe, Reached, Handled
    <3> QED
      BY <1>p, <1>4, <3>1, ProbeState, AfterProbeSafe
         DEF Restart, InMain, ResetPart, CopyHeld, NoOldEvent, Probed, NoTransferInReset
  <2>3. TablePart'
    <3>1. BusProbe(FALSE) /\ AfterProbe \subseteq Reached
      BY <1>4 DEF Restart, AfterProbe, Reached, Handled
    <3>2. usb_task_state' \notin {CONFIGURING, RUNNING}
      BY <1>p, <3>1, ProbeState, AfterProbeSafe
    <3> QED
      BY <1>p, <1>4, <3>2, TableKept DEF Restart, InMain, table
  <2>4. DriverPart'
    <3>1. BusProbe(FALSE) /\ AfterProbe \subseteq Reached
      BY <1>4 DEF Restart, AfterProbe, Reached, Handled
    <3> QED
      BY <1>p, <1>4, <3>1, ProbeState, AfterProbeSafe
         DEF Restart, InMain, DriverPart, Identified, Forgotten, KeysFromKeyboard, loop
  <2> QED
    BY <2>1, <2>2, <2>3, <2>4 DEF IInv, ResetPart, TablePart, DriverPart
<1>5. CASE NotRunning
  <2>1. TypeOK'
    BY <1>p, <1>5 DEF NotRunning, InMain, TypeOK, Reached, Handled, chip, cable, table, loop
  <2>2. ResetPart'
    BY <1>p, <1>5 DEF NotRunning, InMain, ResetPart, CopyHeld, NoOldEvent, Probed, NoTransferInReset, chip
  <2>3. TablePart'
    BY <1>p, <1>5, TableKept DEF NotRunning, InMain, table
  <2>4. DriverPart'
    BY <1>p, <1>5 DEF NotRunning, InMain, DriverPart, Identified, Forgotten, KeysFromKeyboard, chip, cable, table, loop
  <2> QED
    BY <2>1, <2>2, <2>3, <2>4 DEF IInv, ResetPart, TablePart, DriverPart
<1>6. CASE Boot
  <2>1. TypeOK'
    <3>1. BusProbe(FALSE) /\ AfterProbe \subseteq Reached
      BY <1>6 DEF Boot, AfterProbe, Reached, Handled
    <3>2. /\ usb_task_state' \in AfterProbe
          /\ sof' \in BOOLEAN /\ unseen' \in BOOLEAN
      BY <1>p, <3>1, ProbeState
    <3>3. /\ hirq' \in SUBSET Interrupts /\ usb_task_state' \in Reached
          /\ busrst' \in BOOLEAN /\ runningdebugflag' \in BOOLEAN
      <4>1. hirq' = {} /\ busrst' \in BOOLEAN
        BY <1>6 DEF Boot
      <4>2. runningdebugflag' \in BOOLEAN
        BY <1>p, <1>6 DEF Boot, TypeOK, loop
      <4> QED
        BY <3>1, <3>2, <4>1, <4>2
    <3>4. pc' = "clear" /\ device' = device /\ keysFrom' = keysFrom
      BY <1>6 DEF Boot, loop
    <3> QED
      BY <1>p, <1>6, <3>2, <3>3, <3>4 DEF Boot, TypeOK, table, cable
  <2>2. ResetPart'
    <3>1. BusProbe(FALSE) /\ AfterProbe \subseteq Reached
      BY <1>6 DEF Boot, AfterProbe, Reached, Handled
    <3> QED
      BY <1>p, <1>6, <3>1, ProbeState, AfterProbeSafe
         DEF Boot, ResetPart, CopyHeld, NoOldEvent, Probed, NoTransferInReset
  <2>3. TablePart'
    <3>1. BusProbe(FALSE) /\ AfterProbe \subseteq Reached
      BY <1>6 DEF Boot, AfterProbe, Reached, Handled
    <3>2. usb_task_state' \notin {CONFIGURING, RUNNING}
      BY <1>p, <3>1, ProbeState, AfterProbeSafe
    <3> QED
      BY <1>p, <1>6, <3>2, TableKept DEF Boot, table
  <2>4. DriverPart'
    <3>1. BusProbe(FALSE) /\ AfterProbe \subseteq Reached
      BY <1>6 DEF Boot, AfterProbe, Reached, Handled
    <3> QED
      BY <1>p, <1>6, <3>1, ProbeState, AfterProbeSafe
         DEF Boot, DriverPart, Identified, Forgotten, KeysFromKeyboard, loop
  <2> QED
    BY <2>1, <2>2, <2>3, <2>4 DEF IInv, ResetPart, TablePart, DriverPart
<1>7. CASE Reinit
  <2>1. TypeOK'
    <3>1. /\ epinfo' \in [Addresses -> {"NULL", "dev0ep", "hid_ep"}]
          /\ devclass' \in [Addresses -> {UNINIT, HID_K, HID_M}]
      BY <1>7 DEF Reinit, ClearTable
    <3> QED
      BY <1>p, <1>7, <3>1 DEF Reinit, TypeOK, Reached, Handled, chip, cable, loop
  <2>2. ResetPart'
    BY <1>p, <1>7 DEF Reinit, ClearTable, ResetPart, CopyHeld, NoOldEvent, Probed, NoTransferInReset, chip
  <2>3. TablePart'
    BY <1>p, <1>7, TableCleared, AfterProbeSafe DEF Reinit, ResetPart, Probed
  <2>4. DriverPart'
    BY <1>p, <1>7, AfterProbeSafe DEF Reinit, ResetPart, Probed, DriverPart, Identified, Forgotten, KeysFromKeyboard, loop, cable
  <2> QED
    BY <2>1, <2>2, <2>3, <2>4 DEF IInv, ResetPart, TablePart, DriverPart
<1>8. CASE Sleep
  <2>1. TypeOK'
    BY <1>p, <1>8 DEF Sleep, chip, TypeOK, Reached, Handled, chip, cable, table, loop
  <2>2. ResetPart'
    BY <1>p, <1>8 DEF Sleep, chip, ResetPart, CopyHeld, NoOldEvent, Probed, NoTransferInReset, chip
  <2>3. TablePart'
    BY <1>p, <1>8, TableKept DEF Sleep, chip, table
  <2>4. DriverPart'
    BY <1>p, <1>8 DEF Sleep, chip, DriverPart, Identified, Forgotten, KeysFromKeyboard, chip, cable, table, loop
  <2> QED
    BY <2>1, <2>2, <2>3, <2>4 DEF IInv, ResetPart, TablePart, DriverPart
<1> QED
  BY <1>1, <1>2, <1>3, <1>4, <1>5, <1>6, <1>7, <1>8

-----------------------------------------------------------------------------
LEMMA BusIInv ==
  ASSUME IInv, BusChange \/ ResetDone \/ Frame \/ DelayPasses \/ LeaveAlone
  PROVE  IInv'
<1>p. TypeOK /\ ResetPart /\ TablePart /\ DriverPart
  BY Parts
<1>1. CASE BusChange
  <2>1. TypeOK'
    BY <1>p, <1>1 DEF BusChange, TypeOK, Interrupts, Devices, software, table, loop, chip, cable
  <2>2. ResetPart'
    BY <1>p, <1>1 DEF BusChange, software, ResetPart, CopyHeld, NoOldEvent, Probed, NoTransferInReset, chip
  <2>3. TablePart'
    BY <1>p, <1>1, TableKept DEF BusChange, software, table
  <2>4. DriverPart'
    <3>1. usb_task_state = RUNNING => hidAddr # 0
      BY <1>p, AddressType DEF TablePart, LastGiven, DriverPart, Identified
    <3> QED
      BY <1>p, <1>1, <3>1
         DEF BusChange, DriverPart, Identified, Forgotten, KeysFromKeyboard, software, table, loop, cable
  <2> QED
    BY <2>1, <2>2, <2>3, <2>4 DEF IInv, ResetPart, TablePart, DriverPart
<1>2. CASE ResetDone
  <2>1. TypeOK'
    <3>1. hirq' \in SUBSET Interrupts
      BY <1>p, <1>2 DEF ResetDone, TypeOK, Interrupts
    <3>2. UNCHANGED <<usb_task_state, epinfo, devclass, tmp_addr, hidAddr, runningdebugflag, device,
                      settled, pc, HIRQ, sof, bus, unseen, keysFrom, quiet>>
      BY <1>2 DEF ResetDone, software, table, loop, cable
    <3>3. busrst' \in BOOLEAN /\ devAddr' = 0
      BY <1>2 DEF ResetDone
    <3> QED
      BY <1>p, <1>2, <3>1, <3>2, <3>3 DEF TypeOK
  <2>2. ResetPart'
    BY <1>p, <1>2 DEF ResetDone, software, ResetPart, CopyHeld, NoOldEvent, Probed, NoTransferInReset, chip
  <2>3. TablePart'
    BY <1>p, <1>2, TableKept DEF ResetDone, software, table
  <2>4. DriverPart'
    <3>1. usb_task_state = RUNNING => hidAddr # 0
      BY <1>p, AddressType DEF TablePart, LastGiven, DriverPart, Identified
    <3> QED
      BY <1>p, <1>2, <3>1
         DEF ResetDone, DriverPart, Identified, Forgotten, KeysFromKeyboard, software, table, loop, cable
  <2> QED
    BY <2>1, <2>2, <2>3, <2>4 DEF IInv, ResetPart, TablePart, DriverPart
<1>3. CASE Frame
  <2>1. TypeOK'
    BY <1>p, <1>3 DEF Frame, TypeOK, Interrupts, Devices, software, table, loop, chip, cable
  <2>2. ResetPart'
    BY <1>p, <1>3 DEF Frame, software, ResetPart, CopyHeld, NoOldEvent, Probed, NoTransferInReset, chip
  <2>3. TablePart'
    BY <1>p, <1>3, TableKept DEF Frame, software, table
  <2>4. DriverPart'
    <3>1. usb_task_state = RUNNING => hidAddr # 0
      BY <1>p, AddressType DEF TablePart, LastGiven, DriverPart, Identified
    <3> QED
      BY <1>p, <1>3, <3>1
         DEF Frame, DriverPart, Identified, Forgotten, KeysFromKeyboard, software, table, loop, cable
  <2> QED
    BY <2>1, <2>2, <2>3, <2>4 DEF IInv, ResetPart, TablePart, DriverPart
<1>4. CASE DelayPasses
  <2>1. TypeOK'
    BY <1>p, <1>4 DEF DelayPasses, TypeOK, Interrupts, Devices, software, table, loop, chip, cable
  <2>2. ResetPart'
    BY <1>p, <1>4 DEF DelayPasses, software, ResetPart, CopyHeld, NoOldEvent, Probed, NoTransferInReset, chip
  <2>3. TablePart'
    BY <1>p, <1>4, TableKept DEF DelayPasses, software, table
  <2>4. DriverPart'
    <3>1. usb_task_state = RUNNING => hidAddr # 0
      BY <1>p, AddressType DEF TablePart, LastGiven, DriverPart, Identified
    <3> QED
      BY <1>p, <1>4, <3>1
         DEF DelayPasses, DriverPart, Identified, Forgotten, KeysFromKeyboard, software, table, loop, cable
  <2> QED
    BY <2>1, <2>2, <2>3, <2>4 DEF IInv, ResetPart, TablePart, DriverPart
<1>5. CASE LeaveAlone
  <2>1. TypeOK'
    BY <1>p, <1>5 DEF LeaveAlone, TypeOK, Interrupts, Devices, software, table, loop, chip, cable
  <2>2. ResetPart'
    BY <1>p, <1>5 DEF LeaveAlone, software, ResetPart, CopyHeld, NoOldEvent, Probed, NoTransferInReset, chip
  <2>3. TablePart'
    BY <1>p, <1>5, TableKept DEF LeaveAlone, software, table
  <2>4. DriverPart'
    <3>1. usb_task_state = RUNNING => hidAddr # 0
      BY <1>p, AddressType DEF TablePart, LastGiven, DriverPart, Identified
    <3> QED
      BY <1>p, <1>5, <3>1
         DEF LeaveAlone, DriverPart, Identified, Forgotten, KeysFromKeyboard, software, table, loop, cable
  <2> QED
    BY <2>1, <2>2, <2>3, <2>4 DEF IInv, ResetPart, TablePart, DriverPart
<1> QED
  BY <1>1, <1>2, <1>3, <1>4, <1>5

-----------------------------------------------------------------------------
LEMMA NextIInv == IInv /\ [Next]_vars => IInv'
<1> SUFFICES ASSUME IInv, [Next]_vars PROVE IInv'
  OBVIOUS
<1>1. CASE UNCHANGED vars
  <2>p. TypeOK /\ ResetPart /\ TablePart /\ DriverPart
    BY Parts
  <2>1. TypeOK'
    BY <1>1, <2>p DEF vars, TypeOK, table, loop, chip, cable
  <2>2. ResetPart'
    BY <1>1, <2>p DEF vars, ResetPart, CopyHeld, NoOldEvent, Probed, NoTransferInReset, chip
  <2>3. TablePart'
    BY <1>1, <2>p, TableKept DEF vars
  <2>4. DriverPart'
    BY <1>1, <2>p
       DEF vars, DriverPart, Identified, Forgotten, KeysFromKeyboard, table, loop, cable
  <2> QED
    BY <2>1, <2>2, <2>3, <2>4 DEF IInv, ResetPart, TablePart, DriverPart
<1>2. CASE Software
  BY <1>2, HandlerIInv, TaskIInv, MainIInv DEF Software
<1>3. CASE BusChange \/ ResetDone \/ Frame \/ DelayPasses \/ LeaveAlone
  BY <1>3, BusIInv
<1> QED
  BY <1>1, <1>2, <1>3 DEF Next

THEOREM Invariance == Spec => []IInv
BY InitIInv, NextIInv, PTL DEF Spec

-----------------------------------------------------------------------------
(* usb_task_state++ in the interrupt handler takes the byte to no values    *)
(* but 2 and 5 that USB.h does not name.                                    *)
THEOREM TypeCorrect == Spec => []TypeOK
<1>1. IInv => TypeOK
  BY DEF IInv
<1> QED
  BY <1>1, Invariance, PTL

(* Whatever is plugged in, swapped or pulled out, only the reports of a     *)
(* keyboard are read as keys.                                               *)
THEOREM OnlyKeyboardsTyped == Spec => []KeysFromKeyboard
<1>1. IInv => KeysFromKeyboard
  BY DEF IInv
<1> QED
  BY <1>1, Invariance, PTL

(* GetDriverandReport follows no null pointer. *)
THEOREM NoNullEntry == Spec => []HardWiredEntryThere
<1>1. IInv => HardWiredEntryThere
  <2> SUFFICES ASSUME IInv, usb_task_state = RUNNING PROVE epinfo[1] # "NULL"
    BY DEF HardWiredEntryThere
  <2>1. tmp_addr \in Addresses /\ TakenUpTo(tmp_addr)
    BY DEF IInv, LastGiven
  <2>2. 1 \in Addresses /\ 1 <= tmp_addr
    BY <2>1, AddressType DEF Addresses
  <2> QED
    BY <2>1, <2>2 DEF TakenUpTo
<1> QED
  BY <1>1, Invariance, PTL

(* The event that ends the wait for the bus reset is never an old one. *)
THEOREM ResetAwaited == Spec => []NoTransferInReset
<1>1. IInv => NoTransferInReset
  BY DEF IInv
<1> QED
  BY <1>1, Invariance, PTL
=============================================================================
