------------------------------- MODULE UsbHost -------------------------------
(***************************************************************************)
(* The software on the Nios II: the loop of main.c, the interrupt handler   *)
(* of MAX3421E.c and the enumeration machine USB_Task of transfer.c with    *)
(* the probes of HID.c, against a bus on which devices come and go.  A      *)
(* transfer either succeeds, which takes a device at the address, or fails. *)
(* The MAX3421E and the devices are external: what the chip does is taken   *)
(* from how the code uses it and from the comments on its bits.             *)
(***************************************************************************)
EXTENDS Naturals, FiniteSets

CONSTANT NumDevices     \* USB_NUMDEVICES: addresses are below it

ASSUME NumDevicesAssumption == NumDevices \in Nat /\ NumDevices >= 2

VARIABLES
  usb_task_state,     \* the byte, states in the high half and substates in the low one
  epinfo, devclass,   \* the device table, for addresses 1 and up
  tmp_addr,           \* the address USB_Task gave last
  hidAddr,            \* hid_device.addr
  runningdebugflag,   \* main has seen USB_STATE_RUNNING since it last saw another state
  device,             \* class main polls, 255 for none
  settled,            \* usb_delay has passed
  pc,                 \* where the loop of main is
  HIRQ,               \* the handler's copy of hirq
  hirq,               \* interrupt requests pending in the chip
  busrst, sof,        \* the chip's bus reset and start-of-frame generation are on
  bus,                \* what the bus shows: a device, no device (SE0) or SE1
  devAddr             \* address the device on the bus answers

(* History *)
VARIABLES
  unseen,             \* the bus has changed since busprobe last sampled it
  keysFrom,           \* the device whose report setKeycode wrote last
  quiet               \* nobody will touch the plug again

table == <<epinfo, devclass>>
chip == <<hirq, busrst, sof>>
loop == <<runningdebugflag, device>>
cable == <<bus, quiet>>
vars == <<usb_task_state, table, tmp_addr, hidAddr, loop, settled, pc, HIRQ, chip, cable,
          devAddr, unseen, keysFrom>>

-----------------------------------------------------------------------------
(* USB.h *)
DETACHED == 0
INITIALIZE == 1
WAIT_FOR_DEVICE == 3
ILLEGAL == 4
ATTACHED == 16
SETTLE == 17
RESET_DEVICE == 18
WAIT_RESET_COMPLETE == 19
WAIT_SOF == 20
GET_DEVICE_DESCRIPTOR_SIZE == 21
ADDRESSING == 32
CONFIGURING == 48
RUNNING == 64
ERROR == 255

Masked(s) == (s \div 16) * 16

(* transfer.h *)
UNINIT == 0
HID_K == 1
HID_M == 2
NoDriver == 255

Devices == {"keyboard", "mouse", "other"}
Addresses == 1 .. (NumDevices - 1)
Interrupts == {"CONDET", "BUSEVENT", "FRAME"}

(* A device answers at its address unless it is being reset. *)
Answers(a) == bus \in Devices /\ devAddr = a /\ ~busrst

(* USB_init *)
ClearTable ==
  /\ epinfo' = [a \in Addresses |-> "NULL"]
  /\ devclass' = [a \in Addresses |-> UNINIT]

Init ==
  /\ usb_task_state = INITIALIZE
  /\ epinfo = [a \in Addresses |-> "NULL"]
  /\ devclass = [a \in Addresses |-> UNINIT]
  /\ tmp_addr = 0
  /\ hidAddr = 0
  /\ runningdebugflag = FALSE
  /\ device = NoDriver
  /\ settled = TRUE
  /\ pc = "init"
  /\ HIRQ = {}
  /\ hirq = {}
  /\ busrst = FALSE
  /\ sof = FALSE
  /\ bus \in {"SE0"} \cup Devices
  /\ devAddr = 0
  /\ unseen = TRUE
  /\ keysFrom = "nothing"
  /\ quiet = FALSE

-----------------------------------------------------------------------------
(* Seeded fault: the interrupt of the bus reset restarts the attachment. *)
ProbesAttachmentAlways == TRUE
(* A bus reset raises the connection interrupt too. *)
ProbesAttachment == usb_task_state # WAIT_RESET_COMPLETE

(* MAX_busprobe *)
BusProbe(before) ==
  /\ unseen' = FALSE
  /\ usb_task_state' =
       CASE bus = "SE0" -> IF Masked(usb_task_state) = DETACHED
                           THEN WAIT_FOR_DEVICE ELSE INITIALIZE
         [] bus = "SE1" -> ILLEGAL
         [] OTHER       -> IF ProbesAttachment THEN ATTACHED ELSE usb_task_state
  /\ sof' = \/ before
            \/ bus = "SE0" /\ Masked(usb_task_state) = DETACHED
            \/ bus \in Devices /\ ProbesAttachment

(* MAX3421E_Task: the pin follows CONDET, the one interrupt enabled.        *)
PollPin ==
  /\ pc = "max"
  /\ IF "CONDET" \in hirq THEN HIRQ' = hirq /\ pc' = "probe" ELSE UNCHANGED HIRQ /\ pc' = "usb"
  /\ UNCHANGED <<usb_task_state, table, tmp_addr, hidAddr, loop, settled, chip, cable, devAddr,
                 unseen, keysFrom>>

(* MaxIntHandler, up to the bus probe ... *)
HandlerProbes ==
  /\ pc = "probe" /\ pc' = "ack"
  /\ BusProbe(sof)
  /\ UNCHANGED <<table, tmp_addr, hidAddr, loop, settled, HIRQ, hirq, busrst, cable, devAddr,
                 keysFrom>>

(* ... and from there to its end: usb_task_state++ and the acknowledgement. *)
HandlerAcks ==
  /\ pc = "ack" /\ pc' = "usb"
  /\ usb_task_state' = IF "BUSEVENT" \in HIRQ THEN (usb_task_state + 1) % 256 ELSE usb_task_state
  /\ hirq' = hirq \ HIRQ
  /\ HIRQ' = {}
  /\ UNCHANGED <<table, tmp_addr, hidAddr, loop, settled, busrst, sof, cable, devAddr, unseen,
                 keysFrom>>

-----------------------------------------------------------------------------
(* One call of USB_Task.                                                    *)
InTask == pc = "usb" /\ pc' = "main" /\ UNCHANGED <<loop, HIRQ, cable, unseen, keysFrom>>

Initialize ==
  /\ usb_task_state = INITIALIZE /\ usb_task_state' = WAIT_FOR_DEVICE
  /\ ClearTable
  /\ InTask
  /\ UNCHANGED <<tmp_addr, hidAddr, settled, chip, devAddr>>

Attached ==
  /\ usb_task_state = ATTACHED /\ usb_task_state' = SETTLE
  /\ settled' = FALSE
  /\ InTask
  /\ UNCHANGED <<table, tmp_addr, hidAddr, chip, devAddr>>

Settle ==
  /\ usb_task_state = SETTLE
  /\ usb_task_state' = IF settled THEN RESET_DEVICE ELSE SETTLE
  /\ InTask
  /\ UNCHANGED <<table, tmp_addr, hidAddr, settled, chip, devAddr>>

(* Seeded fault: an old bus event is left pending. *)
ClearedForResetNot == {}
ClearedForReset == {"BUSEVENT"}

ResetDevice ==
  /\ usb_task_state = RESET_DEVICE /\ usb_task_state' = WAIT_RESET_COMPLETE
  /\ hirq' = hirq \ ClearedForReset
  /\ busrst' = TRUE
  /\ InTask
  /\ UNCHANGED <<table, tmp_addr, hidAddr, settled, sof, devAddr>>

WaitResetComplete ==
  /\ usb_task_state = WAIT_RESET_COMPLETE
  /\ usb_task_state' = IF busrst THEN WAIT_RESET_COMPLETE ELSE WAIT_SOF
  /\ sof' = (sof \/ ~busrst)
  /\ InTask
  /\ UNCHANGED <<table, tmp_addr, hidAddr, settled, hirq, busrst, devAddr>>

(* The test of the frame interrupt is an OR with a non-zero mask.           *)
WaitSof ==
  /\ usb_task_state = WAIT_SOF /\ usb_task_state' = GET_DEVICE_DESCRIPTOR_SIZE
  /\ InTask
  /\ UNCHANGED <<table, tmp_addr, hidAddr, settled, chip, devAddr>>

(* Only the result of the first request counts. *)
GetDescriptor ==
  /\ usb_task_state = GET_DEVICE_DESCRIPTOR_SIZE
  /\ \/ Answers(0) /\ usb_task_state' = ADDRESSING
     \/ usb_task_state' = ERROR
  /\ InTask
  /\ UNCHANGED <<table, tmp_addr, hidAddr, settled, chip, devAddr>>

Free == {a \in Addresses : epinfo[a] = "NULL"}
(* Seeded fault: addresses are given from the top of the table. *)
FreeAddressDown == CHOOSE a \in Free : \A b \in Free : b <= a
FreeAddress == CHOOSE a \in Free : \A b \in Free : a <= b

(* The entry is taken before the device has its address, and stays taken    *)
(* when the request fails.  A device may have taken the address of a request *)
(* whose status stage was lost.                                             *)
Address ==
  /\ usb_task_state = ADDRESSING
  /\ Free # {}
  /\ epinfo' = [epinfo EXCEPT ![FreeAddress] = "dev0ep"]
  /\ \/ /\ Answers(0)
        /\ devAddr' = FreeAddress
        /\ tmp_addr' = FreeAddress
        /\ usb_task_state' = CONFIGURING
     \/ /\ devAddr' \in {devAddr} \cup (IF Answers(0) THEN {FreeAddress} ELSE {})
        /\ usb_task_state' = ERROR
        /\ UNCHANGED tmp_addr
  /\ InTask
  /\ UNCHANGED <<devclass, hidAddr, settled, chip>>

NoAddress ==
  /\ usb_task_state = ADDRESSING
  /\ Free = {}
  /\ usb_task_state' = ERROR
  /\ InTask
  /\ UNCHANGED <<table, tmp_addr, hidAddr, settled, chip, devAddr>>

(* The class whose probe, HIDMProbe or HIDKProbe, knows the device. *)
ClassOf(d) == IF d = "keyboard" THEN HID_K ELSE HID_M

(* A probe fills the table once it has read the interface of its class ...  *)
Identify ==
  /\ usb_task_state = CONFIGURING
  /\ Answers(tmp_addr) /\ bus \in {"keyboard", "mouse"}
  /\ devclass' = [devclass EXCEPT ![tmp_addr] = ClassOf(bus)]
  /\ epinfo' = [epinfo EXCEPT ![tmp_addr] = "hid_ep"]
  /\ hidAddr' = tmp_addr
  /\ usb_task_state' \in {RUNNING, ERROR}     \* it may yet fail to configure it
  /\ InTask
  /\ UNCHANGED <<tmp_addr, settled, chip, devAddr>>

(* ... or every probe fails. *)
NoClientDriver ==
  /\ usb_task_state = CONFIGURING /\ usb_task_state' = ERROR
  /\ InTask
  /\ UNCHANGED <<table, tmp_addr, hidAddr, settled, chip, devAddr>>

Handled == {INITIALIZE, ATTACHED, SETTLE, RESET_DEVICE, WAIT_RESET_COMPLETE, WAIT_SOF,
            GET_DEVICE_DESCRIPTOR_SIZE, ADDRESSING, CONFIGURING}

Idle ==
  /\ usb_task_state \notin Handled
  /\ InTask
  /\ UNCHANGED <<usb_task_state, table, tmp_addr, hidAddr, settled, chip, devAddr>>

USB_Task ==
  \/ Initialize \/ Attached \/ Settle \/ ResetDevice \/ WaitResetComplete \/ WaitSof
  \/ GetDescriptor \/ Address \/ NoAddress \/ Identify \/ NoClientDriver \/ Idle

-----------------------------------------------------------------------------
(* The rest of a pass of main's loop.                                       *)
InMain == pc = "main" /\ UNCHANGED <<table, tmp_addr, hidAddr, settled, HIRQ, cable, devAddr>>

Taken == {a \in Addresses : epinfo[a] # "NULL"}

(* Seeded fault: GetDriverandReport stops at the first entry. *)
FirstEntry == CHOOSE a \in Taken : \A b \in Taken : a <= b
LastEntry == CHOOSE a \in Taken : \A b \in Taken : b <= a

(* GetDriverandReport: the last entry counts. *)
GetDriver ==
  /\ usb_task_state = RUNNING /\ ~runningdebugflag
  /\ runningdebugflag' = TRUE
  /\ device' = IF Taken = {} THEN NoDriver
               ELSE devclass[LastEntry]
  /\ pc' = "sleep"
  /\ InMain
  /\ UNCHANGED <<usb_task_state, chip, unseen, keysFrom>>

(* A keyboard with a new report sleeps, one without is polled again.        *)
PollKeyboard ==
  /\ usb_task_state = RUNNING /\ runningdebugflag /\ device = HID_K
  /\ \/ Answers(hidAddr) /\ keysFrom' = bus /\ pc' = "sleep"
     \/ UNCHANGED keysFrom /\ pc' = "max"
  /\ InMain
  /\ UNCHANGED <<usb_task_state, loop, chip, unseen>>

PollMouse ==
  /\ usb_task_state = RUNNING /\ runningdebugflag /\ device # HID_K
  /\ \/ device = HID_M /\ pc' = "max"
     \/ (device = HID_M => Answers(hidAddr)) /\ pc' = "sleep"
  /\ InMain
  /\ UNCHANGED <<usb_task_state, loop, chip, unseen, keysFrom>>

(* Not running any more: MAX3421E_init resets the chip and probes the bus.  *)
Restart ==
  /\ usb_task_state \notin {RUNNING, ERROR} /\ runningdebugflag
  /\ runningdebugflag' = FALSE
  /\ BusProbe(FALSE)
  /\ hirq' = {} /\ busrst' = FALSE
  /\ pc' = "clear"
  /\ InMain
  /\ UNCHANGED <<device, keysFrom>>

NotRunning ==
  /\ usb_task_state = ERROR \/ (usb_task_state # RUNNING /\ ~runningdebugflag)
  /\ pc' = "sleep"
  /\ InMain
  /\ UNCHANGED <<usb_task_state, loop, chip, unseen, keysFrom>>

(* MAX3421E_init before the loop, up to its bus probe. *)
Boot ==
  /\ pc = "init" /\ pc' = "clear"
  /\ BusProbe(FALSE)
  /\ hirq' = {} /\ busrst' = FALSE
  /\ UNCHANGED <<table, tmp_addr, hidAddr, loop, settled, HIRQ, cable, devAddr, keysFrom>>

(* The end of MAX3421E_init, and USB_init. *)
Reinit ==
  /\ pc = "clear" /\ pc' = "sleep"
  /\ hirq' = hirq \ {"CONDET"}
  /\ ClearTable
  /\ UNCHANGED <<usb_task_state, tmp_addr, hidAddr, loop, settled, HIRQ, busrst, sof, cable,
                 devAddr, unseen, keysFrom>>

Sleep ==
  /\ pc = "sleep" /\ pc' = "max"
  /\ UNCHANGED <<usb_task_state, table, tmp_addr, hidAddr, loop, settled, HIRQ, chip, cable,
                 devAddr, unseen, keysFrom>>

Software ==
  \/ PollPin \/ HandlerProbes \/ HandlerAcks \/ USB_Task
  \/ GetDriver \/ PollKeyboard \/ PollMouse \/ Restart \/ NotRunning
  \/ Boot \/ Reinit \/ Sleep

-----------------------------------------------------------------------------
(* The chip and the bus. *)
software == <<usb_task_state, table, tmp_addr, hidAddr, loop, pc, HIRQ, keysFrom>>

(* A device comes, goes, is swapped, or the lines show SE1 for a while.     *)
BusChange ==
  /\ ~quiet
  /\ bus' \in ({"SE0", "SE1"} \cup Devices) \ {bus}
  /\ hirq' = hirq \cup {"CONDET"}
  /\ devAddr' = 0
  /\ unseen' = TRUE
  /\ UNCHANGED <<software, settled, busrst, sof, quiet>>

(* The end of a bus reset: the device is back at address 0, and the         *)
(* connection interrupt may come as well.                                   *)
ResetDone ==
  /\ busrst /\ busrst' = FALSE
  /\ hirq' \in {hirq \cup {"BUSEVENT"}, hirq \cup {"BUSEVENT", "CONDET"}}
  /\ devAddr' = 0
  /\ UNCHANGED <<software, settled, sof, cable, unseen>>

Frame ==
  /\ sof /\ ~busrst
  /\ hirq' = hirq \cup {"FRAME"}
  /\ UNCHANGED <<software, settled, busrst, sof, cable, devAddr, unseen>>

DelayPasses ==
  /\ ~settled /\ settled' = TRUE
  /\ UNCHANGED <<software, chip, cable, devAddr, unseen>>

LeaveAlone ==
  /\ ~quiet /\ quiet' = TRUE
  /\ UNCHANGED <<software, chip, settled, bus, devAddr, unseen>>

Next == Software \/ BusChange \/ ResetDone \/ Frame \/ DelayPasses \/ LeaveAlone

(* The loop never stops and time passes.  It spends almost all its time     *)
(* asleep, so that resets do not for ever end between two other steps.      *)
Fairness ==
  /\ WF_vars(Software)
  /\ WF_vars(DelayPasses)
  /\ WF_vars(ResetDone)
  /\ SF_vars(ResetDone /\ pc = "sleep")

Spec == Init /\ [][Next]_vars /\ Fairness

-----------------------------------------------------------------------------
(* Where usb_task_state++ can take the byte: 2 and 5 are no states of USB.h. *)
Reached == Handled \cup {2, WAIT_FOR_DEVICE, ILLEGAL, 5, RUNNING, ERROR}

TypeOK ==
  /\ usb_task_state \in Reached
  /\ epinfo \in [Addresses -> {"NULL", "dev0ep", "hid_ep"}]
  /\ devclass \in [Addresses -> {UNINIT, HID_K, HID_M}]
  /\ tmp_addr \in {0} \cup Addresses
  /\ hidAddr \in {0} \cup Addresses
  /\ runningdebugflag \in BOOLEAN
  /\ device \in {UNINIT, HID_K, HID_M, NoDriver}
  /\ settled \in BOOLEAN
  /\ pc \in {"init", "clear", "max", "probe", "ack", "usb", "main", "sleep"}
  /\ HIRQ \in SUBSET Interrupts
  /\ hirq \in SUBSET Interrupts
  /\ busrst \in BOOLEAN
  /\ sof \in BOOLEAN
  /\ bus \in {"SE0", "SE1"} \cup Devices
  /\ devAddr \in {0} \cup Addresses
  /\ unseen \in BOOLEAN
  /\ keysFrom \in {"nothing"} \cup Devices
  /\ quiet \in BOOLEAN

(* The keycode register is only ever written from the report of a keyboard, *)
(* however devices are swapped, half enumerated or pulled out.              *)
KeysFromKeyboard == keysFrom \in {"nothing", "keyboard"}

(* The table holds the entry of the address that main.c is hard-wired to    *)
(* whenever it asks for it: GetDriverandReport follows no null pointer.     *)
HardWiredEntryThere == usb_task_state = RUNNING => epinfo[1] # "NULL"

(* No transfer is started while the bus reset is driven: the bus event that *)
(* ends the wait is never an old one.                                       *)
NoTransferInReset ==
  usb_task_state \in {WAIT_SOF, GET_DEVICE_DESCRIPTOR_SIZE, ADDRESSING, CONFIGURING, RUNNING}
    => ~busrst

(* Once the plug is left alone an enumeration that has begun ends, in       *)
(* USB_STATE_RUNNING or in an error, and is not begun again.                *)
Enumerating == {ATTACHED, SETTLE, RESET_DEVICE, WAIT_RESET_COMPLETE, WAIT_SOF,
                GET_DEVICE_DESCRIPTOR_SIZE, ADDRESSING, CONFIGURING}
EnumerationEnds == <>quiet => <>[](usb_task_state \notin Enumerating)

-----------------------------------------------------------------------------
(* The inductive invariant of UsbProofs.tla. *)

(* The handler's copy lives from the read of the register to the            *)
(* acknowledgement, and holds no event of a reset still going on.           *)
CopyHeld == pc \notin {"probe", "ack"} => HIRQ = {}
NoOldEvent == busrst => "BUSEVENT" \notin hirq \cup HIRQ

(* What busprobe leaves, before usb_task_state++ and USB_Init. *)
AfterProbe == {WAIT_RESET_COMPLETE, ATTACHED, INITIALIZE, WAIT_FOR_DEVICE, ILLEGAL}
Probed == pc \in {"ack", "clear"} => usb_task_state \in AfterProbe

(* Addresses are taken in order, so the last one given is the highest. *)
TakenUpTo(k) == \A a \in Addresses : epinfo[a] # "NULL" <=> a <= k
InOrder == \E k \in 0 .. (NumDevices - 1) : TakenUpTo(k)
LastGiven ==
  usb_task_state \in {CONFIGURING, RUNNING} =>
    tmp_addr \in Addresses /\ TakenUpTo(tmp_addr)

(* A running device has the class that its entry records ... *)
Identified ==
  usb_task_state = RUNNING =>
    /\ hidAddr = tmp_addr
    /\ devAddr = hidAddr /\ devclass[hidAddr] = HID_K /\ bus \in Devices => bus = "keyboard"
    /\ runningdebugflag => device = devclass[hidAddr]

(* ... and main forgets the class of the last one in the pass in which it   *)
(* stops running.                                                           *)
Forgotten ==
  runningdebugflag =>
    \/ usb_task_state = RUNNING /\ pc \notin {"init", "clear"}
    \/ pc = "ack" /\ usb_task_state \in {ATTACHED, INITIALIZE, ILLEGAL}
    \/ pc = "usb" /\ usb_task_state \in {ATTACHED, SETTLE, INITIALIZE, 2, ILLEGAL, 5}
    \/ pc = "main" /\ usb_task_state \in {SETTLE, RESET_DEVICE, 2, WAIT_FOR_DEVICE, ILLEGAL, 5}

IInv ==
  /\ TypeOK
  /\ CopyHeld /\ NoOldEvent /\ Probed /\ NoTransferInReset
  /\ InOrder /\ LastGiven /\ Identified /\ Forgotten
  /\ KeysFromKeyboard

-----------------------------------------------------------------------------
(* What comments of the code say, and the code does not do.                 *)

(* transfer.c: "Should never get here". *)
CasesCovered ==
  pc = "usb" =>
    \/ Masked(usb_task_state) \in {DETACHED, ATTACHED, ADDRESSING, CONFIGURING, RUNNING}
    \/ Masked(usb_task_state) = ERROR

(* transfer.c: "when first SOF received we can continue". *)
FirstSof ==
  [][(usb_task_state = WAIT_SOF /\ usb_task_state' = GET_DEVICE_DESCRIPTOR_SIZE)
       => "FRAME" \in hirq]_vars

(* main.c: the "hard-wired USB address" is the one of the device it polls.  *)
HardWiredAddress == usb_task_state = RUNNING => hidAddr = 1

(* MAX3421E.c: "clear serviced IRQs": a connection change that the handler  *)
(* acknowledges has been probed.                                            *)
ChangesServiced ==
  [][(pc = "ack" /\ "CONDET" \in hirq /\ "CONDET" \notin hirq') => ~unseen]_vars
=============================================================================
