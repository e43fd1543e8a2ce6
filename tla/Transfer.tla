------------------------------ MODULE Transfer ------------------------------
(***************************************************************************)
(* The transfers of usb_kb/transfer.c: XferCtrlReq and XferInTransfer, and *)
(* XferDispatchPkt below them, against the MAX3421E and the device at the  *)
(* other end of the cable.                                                 *)
(*                                                                         *)
(* The program launches a packet by writing HXFR, spins until HXFRDNIRQ or *)
(* the time limit, and reads the result from HRSL.  The chip and the       *)
(* device run beside it: packets and handshakes are lost, the device NAKs, *)
(* stalls or falls silent.  The time limit is an event here; how it is     *)
(* computed is the subject of UsbTime.                                     *)
(***************************************************************************)
EXTENDS Integers

CONSTANTS USB_NAK_LIMIT, USB_RETRY_LIMIT,
          MaxPktSize,     \* of both endpoints, in units of data
          Asked,          \* the lengths requests and polls ask for
          LateChip        \* TRUE: a packet may end after its time limit

ASSUME TransferAssumption ==
  /\ USB_NAK_LIMIT \in 1 .. 255 /\ USB_RETRY_LIMIT \in 1 .. 127
  /\ MaxPktSize \in Nat \ {0}
  /\ Asked \subseteq Nat \ {0}
  /\ LateChip \in BOOLEAN

VARIABLES
  pc,          \* where the program is: idle, launch, wait, result, returned
  req,         \* the request: get and set on endpoint 0, poll on endpoint 1
  nbytes,      \* the length it asks for
  token,       \* of the packet being dispatched
  nak_count, retry_count, rcode, xfrlen,
  rcvToggle,   \* devtable[ addr ].epinfo[ ep ].rcvToggle
  flying,      \* the token the chip is working on, or "none"
  HXFRDNIRQ, RCVDAVIRQ, HRSL, RCVBC, RCVTOG,
  alive,       \* the chip and the device still answer
  stage,       \* how far the device has come with the control request
  left,        \* what it has still to send of it
  devToggle,   \* the toggle of its next data packet, by endpoint
  owed         \* data it saw acknowledged less data returned, by endpoint

host == <<req, nbytes, token, nak_count, retry_count, rcode, xfrlen, rcvToggle>>
chip == <<flying, HXFRDNIRQ, RCVDAVIRQ, HRSL, RCVBC, RCVTOG>>
device == <<alive, stage, left, devToggle>>
vars == <<pc, host, chip, device, owed>>

-----------------------------------------------------------------------------
(* MAX3421E.h: the results the code tells apart, and one for the others.    *)
hrSUCCESS == 0
hrBUSY == 1
hrNAK == 4
hrSTALL == 5
hrTOGERR == 6
hrTIMEOUT == 14
NoData == 240       \* 0xf0: no RCVDAVIRQ
Expired == 255      \* 0xff: the time limit

Results == {hrSUCCESS, hrNAK, hrSTALL, hrTOGERR, hrTIMEOUT}
Tokens == {"SETUP", "IN", "INHS", "OUTHS"}
Ep == IF req = "poll" THEN 1 ELSE 0

Init ==
  /\ pc = "idle" /\ req = "poll" /\ nbytes \in Asked /\ token = "IN"
  /\ nak_count = 0 /\ retry_count = 0 /\ rcode = 0 /\ xfrlen = 0
  /\ rcvToggle = [ep \in 0 .. 1 |-> 0]
  /\ flying = "none" /\ HXFRDNIRQ = FALSE /\ RCVDAVIRQ = FALSE
  /\ HRSL = hrSUCCESS /\ RCVBC = 0 /\ RCVTOG = 0
  /\ alive = TRUE /\ stage = "done" /\ left = 0
  /\ devToggle = [ep \in 0 .. 1 |-> 0]
  /\ owed = [ep \in 0 .. 1 |-> 0]

-----------------------------------------------------------------------------
(* XferDispatchPkt.                                                         *)
Dispatch(tok) ==
  /\ token' = tok
  /\ nak_count' = 0 /\ retry_count' = 0
  /\ pc' = "launch"

(* Writing HXFR while the chip is busy starts the new packet. *)
Launch ==
  /\ pc = "launch" /\ pc' = "wait"
  /\ flying' = token
  /\ UNCHANGED <<host, HXFRDNIRQ, RCVDAVIRQ, HRSL, RCVBC, RCVTOG, device, owed>>

(* Seeded fault: the flag is left for the next packet. *)
Uncleared == TRUE
Cleared == FALSE

SeeDone ==
  /\ pc = "wait" /\ pc' = "result"
  /\ HXFRDNIRQ
  /\ HXFRDNIRQ' = Cleared
  /\ UNCHANGED <<host, flying, RCVDAVIRQ, HRSL, RCVBC, RCVTOG, device, owed>>

(* Seeded fault: the packet is launched again. *)
LaunchAgain == "launch"
AfterExpiry == "returned"

(* The limit passes: with a prompt chip only when nothing will ever answer. *)
Expire ==
  /\ pc = "wait" /\ pc' = AfterExpiry
  /\ LateChip \/ (~alive /\ ~HXFRDNIRQ)
  /\ rcode' = Expired
  /\ UNCHANGED <<req, nbytes, token, nak_count, retry_count, xfrlen, rcvToggle, chip, device, owed>>

ReadHRSL == IF flying # "none" THEN hrBUSY ELSE HRSL

(* Whether a result leads to another launch. *)
Again(r) == \/ r = hrNAK /\ nak_count + 1 # USB_NAK_LIMIT
            \/ r = hrTIMEOUT /\ retry_count + 1 # USB_RETRY_LIMIT

Result ==
  /\ pc = "result"
  /\ rcode' = ReadHRSL
  /\ nak_count' = IF ReadHRSL = hrNAK THEN nak_count + 1 ELSE nak_count
  /\ retry_count' = IF ReadHRSL = hrTIMEOUT THEN retry_count + 1 ELSE retry_count
  /\ pc' = IF Again(ReadHRSL) THEN "launch" ELSE "returned"
  /\ UNCHANGED <<req, nbytes, token, xfrlen, rcvToggle, chip, device, owed>>

-----------------------------------------------------------------------------
(* XferCtrlReq and, for a poll, XferInTransfer called by kbdPoll.           *)
StartRequest ==
  /\ pc = "idle"
  /\ req' \in {"get", "set"} /\ nbytes' \in Asked
  /\ xfrlen' = 0
  /\ Dispatch("SETUP")
  /\ UNCHANGED <<rcode, rcvToggle, chip, device, owed>>

StartPoll ==
  /\ pc = "idle"
  /\ req' = "poll" /\ nbytes' = MaxPktSize
  /\ xfrlen' = 0
  /\ RCVTOG' = rcvToggle[1]
  /\ Dispatch("IN")
  /\ UNCHANGED <<rcode, rcvToggle, flying, HXFRDNIRQ, RCVDAVIRQ, HRSL, RCVBC, device, owed>>

Finish(r) == pc' = "idle" /\ rcode' = r

(* Any error but that of the data stage is handed up as it is. *)
Fail ==
  /\ pc = "returned" /\ rcode # 0
  /\ Finish(rcode)
  /\ UNCHANGED <<req, nbytes, token, nak_count, retry_count, xfrlen, rcvToggle, chip, device, owed>>

(* The status stage of a request without data: XferCtrlND. *)
StatusOfSet ==
  /\ pc = "returned" /\ rcode = 0 /\ token = "SETUP" /\ req = "set"
  /\ Dispatch("INHS")
  /\ UNCHANGED <<req, nbytes, rcode, xfrlen, rcvToggle, chip, device, owed>>

(* XferCtrlData: the data stage starts with DATA1. *)
DataStage ==
  /\ pc = "returned" /\ rcode = 0 /\ token = "SETUP" /\ req = "get"
  /\ rcvToggle' = [rcvToggle EXCEPT ![0] = 1]
  /\ RCVTOG' = 1
  /\ Dispatch("IN")
  /\ UNCHANGED <<req, nbytes, rcode, xfrlen, flying, HXFRDNIRQ, RCVDAVIRQ, HRSL, RCVBC, device, owed>>

NothingReceived ==
  /\ pc = "returned" /\ rcode = 0 /\ token = "IN"
  /\ ~RCVDAVIRQ
  /\ Finish(NoData)
  /\ UNCHANGED <<req, nbytes, token, nak_count, retry_count, xfrlen, rcvToggle, chip, device, owed>>

(* Seeded fault: the next transfer starts from the toggle of this one. *)
SavedToggleNot == rcvToggle[Ep]
SavedToggle == RCVTOG

(* Seeded fault: a request that got its data is taken to be over. *)
StatusStageNever == FALSE
(* XferCtrlData follows the data with a status stage. *)
StatusStage == req = "get"

(* A packet is taken from the FIFO; a short one, or enough, ends the loop.  *)
Receive ==
  LET enough == RCVBC < MaxPktSize \/ xfrlen + RCVBC >= nbytes IN
  /\ pc = "returned" /\ rcode = 0 /\ token = "IN"
  /\ RCVDAVIRQ
  /\ xfrlen' = xfrlen + RCVBC
  /\ RCVDAVIRQ' = FALSE
  /\ owed' = [owed EXCEPT ![Ep] = @ - 1]
  /\ rcvToggle' = IF enough THEN [rcvToggle EXCEPT ![Ep] = SavedToggle] ELSE rcvToggle
  /\ IF ~enough THEN Dispatch("IN") /\ UNCHANGED rcode
     ELSE IF StatusStage THEN Dispatch("OUTHS") /\ UNCHANGED rcode
     ELSE Finish(0) /\ UNCHANGED <<token, nak_count, retry_count>>
  /\ UNCHANGED <<req, nbytes, flying, HXFRDNIRQ, HRSL, RCVBC, RCVTOG, device>>

StatusDone ==
  /\ pc = "returned" /\ rcode = 0 /\ token \in {"INHS", "OUTHS"}
  /\ Finish(0)
  /\ UNCHANGED <<req, nbytes, token, nak_count, retry_count, xfrlen, rcvToggle, chip, device, owed>>

Program ==
  \/ Launch \/ SeeDone \/ Expire \/ Result \/ Fail \/ StatusOfSet \/ DataStage
  \/ NothingReceived \/ Receive \/ StatusDone

-----------------------------------------------------------------------------
(* The chip and the device (external).  A packet ends with a result.  One   *)
(* that ends late does so before the next request or while it waits.  The   *)
(* code is prepared for an IN packet that brings no data.                   *)
Ends(r) ==
  /\ flying # "none" /\ alive /\ pc # "launch"
  /\ flying' = "none" /\ HXFRDNIRQ' = TRUE /\ HRSL' = r

NotNow ==
  /\ \/ Ends(hrNAK) /\ flying # "SETUP"
     \/ Ends(hrTIMEOUT)
     \/ Ends(hrSUCCESS) /\ flying = "IN"
  /\ UNCHANGED <<pc, host, RCVDAVIRQ, RCVBC, RCVTOG, device, owed>>

Stall ==
  /\ flying # "SETUP"
  /\ stage' = IF req = "poll" THEN stage ELSE "stalled"
  /\ Ends(hrSTALL)
  /\ UNCHANGED <<pc, host, RCVDAVIRQ, RCVBC, RCVTOG, alive, left, devToggle, owed>>

(* The device takes every SETUP; its handshake may be lost. *)
SetupTaken ==
  /\ flying = "SETUP"
  /\ Ends(hrSUCCESS) \/ Ends(hrTIMEOUT)
  /\ stage' = req
  /\ left' \in 0 .. nbytes
  /\ devToggle' = [devToggle EXCEPT ![0] = 1]
  /\ owed' = [owed EXCEPT ![0] = 0]
  /\ UNCHANGED <<pc, host, RCVDAVIRQ, RCVBC, RCVTOG, alive>>

Packet == IF req = "get" /\ left < MaxPktSize THEN left ELSE MaxPktSize

(* The device sends a data packet and sees it acknowledged, or not.  A      *)
(* packet with the wrong toggle is acknowledged and thrown away.            *)
DataSent ==
  /\ flying = "IN" /\ (req = "get" => stage = "get")
  /\ IF devToggle[Ep] = RCVTOG
     THEN /\ Ends(hrSUCCESS)
          /\ RCVDAVIRQ' = TRUE /\ RCVBC' = Packet /\ RCVTOG' = 1 - RCVTOG
     ELSE Ends(hrTOGERR) /\ UNCHANGED <<RCVDAVIRQ, RCVBC, RCVTOG>>
  /\ \/ /\ devToggle' = [devToggle EXCEPT ![Ep] = 1 - @]
        /\ owed' = [owed EXCEPT ![Ep] = @ + 1]
        /\ left' = IF req = "get" THEN left - Packet ELSE left
     \/ UNCHANGED <<devToggle, owed, left>>
  /\ UNCHANGED <<pc, host, alive, stage>>

(* The status stage, either way; a handshake may be lost. *)
StatusTaken ==
  /\ \/ flying = "INHS" /\ stage = "set" /\ Ends(hrSUCCESS)
     \/ flying = "OUTHS" /\ stage \in {"get", "done"} /\ (Ends(hrSUCCESS) \/ Ends(hrTIMEOUT))
  /\ stage' = "done"
  /\ UNCHANGED <<pc, host, RCVDAVIRQ, RCVBC, RCVTOG, alive, left, devToggle, owed>>

Dies ==
  /\ alive /\ alive' = FALSE
  /\ UNCHANGED <<pc, host, chip, stage, left, devToggle, owed>>

Environment == NotNow \/ Stall \/ SetupTaken \/ DataSent \/ StatusTaken

Next == StartRequest \/ StartPoll \/ Program \/ Environment \/ Dies

(* The program runs, and a chip and device that live answer every packet.   *)
Fairness == WF_vars(Program) /\ WF_vars(Environment)

Spec == Init /\ [][Next]_vars /\ Fairness

-----------------------------------------------------------------------------
(* Every variable has its type. *)
TypeOK ==
  /\ pc \in {"idle", "launch", "wait", "result", "returned"}
  /\ req \in {"get", "set", "poll"} /\ nbytes \in Asked \cup {MaxPktSize} /\ token \in Tokens
  /\ nak_count \in 0 .. USB_NAK_LIMIT /\ retry_count \in 0 .. USB_RETRY_LIMIT
  /\ rcode \in Results \cup {hrBUSY, NoData, Expired} /\ xfrlen \in Nat
  /\ rcvToggle \in [0 .. 1 -> 0 .. 1]
  /\ flying \in Tokens \cup {"none"} /\ HXFRDNIRQ \in BOOLEAN /\ RCVDAVIRQ \in BOOLEAN
  /\ HRSL \in Results /\ RCVBC \in 0 .. MaxPktSize /\ RCVTOG \in 0 .. 1
  /\ alive \in BOOLEAN /\ stage \in {"get", "set", "done", "stalled"} /\ left \in Nat
  /\ devToggle \in [0 .. 1 -> 0 .. 1] /\ owed \in [0 .. 1 -> Int]

(* The result XferDispatchPkt reads is that of the packet it launched: the  *)
(* flag it saw was not left behind by an earlier one.                       *)
ResultIsOwn == pc = "result" => flying = "none"

(* When XferCtrlReq reports success, the device has come to the end of the  *)
(* status stage of this very request, whatever was lost on the way.         *)
SuccessIsComplete ==
  [][(pc # "idle" /\ pc' = "idle" /\ rcode' = 0 /\ req # "poll") => stage = "done"]_vars

(* Many packets make one request, as UsbHost takes it (Request.tla): it is  *)
(* carried out when the device has come to the end of its status stage.     *)
RequestStatus ==
  IF req = "poll" THEN "none"
  ELSE IF pc # "idle" THEN "asked"
  ELSE IF rcode = 0 THEN "succeeded" ELSE "failed"
CarriedOut == req # "poll" /\ token \in {"INHS", "OUTHS"} /\ stage = "done"

TheRequest == INSTANCE Request WITH status <- RequestStatus, carried <- CarriedOut
ImplementsRequest == TheRequest!Spec

(* Only the device's own status stage carries a request out: neither the    *)
(* end of the request before it, nor a step of the program, passes for it.  *)
CarriedByDevice == [][(CarriedOut' /\ ~CarriedOut) => StatusTaken]_vars

(* The toggles keep the two ends in step: between requests no packet that   *)
(* the device saw acknowledged is missing, and none has been taken twice;   *)
(* one whose acknowledgement was lost is still to be thrown away.           *)
EveryPacketOnce == pc = "idle" => \A ep \in 0 .. 1 : owed[ep] \in {-1, 0}

(* Every request returns, whatever the chip and the device do: the NAKs and *)
(* the retries are counted and the time is limited.                         *)
RequestEnds == pc # "idle" ~> pc = "idle"

(* transfer.c:189: an IN transfer returns the result of a packet, f0, or fe *)
(* for a transfer timeout.                                                  *)
DocumentedCodes ==
  [][(token = "IN" /\ pc # "idle" /\ pc' = "idle") => rcode' \in 0 .. 15 \cup {240, 254}]_vars
=============================================================================
