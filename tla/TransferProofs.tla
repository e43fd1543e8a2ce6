--------------------------- MODULE TransferProofs ---------------------------
(***************************************************************************)
(* Transfers against a chip that ends every packet before its time limit:  *)
(* a result is that of the packet just launched, the toggles keep the host *)
(* and the device in step, and success means that the device has come to   *)
(* the end of the request.  For any limits, packet size and lengths.       *)
(***************************************************************************)
EXTENDS Transfer, TLAPS

Typed ==
  /\ pc \in {"idle", "launch", "wait", "result", "returned"}
  /\ req \in {"get", "set", "poll"} /\ token \in Tokens
  /\ rcvToggle \in [0 .. 1 -> 0 .. 1] /\ devToggle \in [0 .. 1 -> 0 .. 1]
  /\ owed \in [0 .. 1 -> Int]
  /\ flying \in Tokens \cup {"none"} /\ HXFRDNIRQ \in BOOLEAN /\ RCVDAVIRQ \in BOOLEAN
  /\ RCVTOG \in 0 .. 1 /\ alive \in BOOLEAN

(* Each request dispatches its own tokens only. *)
OwnTokens ==
  pc # "idle" => \/ req = "poll" /\ token = "IN"
                 \/ req = "get" /\ token \in {"SETUP", "IN", "OUTHS"}
                 \/ req = "set" /\ token \in {"SETUP", "INHS"}

(* A prompt chip is at work, or done, only while the program waits for it.  *)
Prompt ==
  /\ HXFRDNIRQ => pc = "wait" /\ flying = "none"
  /\ (flying # "none" /\ alive) => pc = "wait" /\ flying = token
  /\ pc = "result" => flying = "none"

(* The packet has succeeded, on its way from HRSL to the caller. *)
Succeeded ==
  \/ pc = "wait" /\ HXFRDNIRQ /\ HRSL = hrSUCCESS
  \/ pc = "result" /\ HRSL = hrSUCCESS
  \/ pc = "returned" /\ rcode = 0

DataHasCome == RCVDAVIRQ => token = "IN" /\ Succeeded

(* After SETUP both ends start with DATA1 and nothing owed. *)
SetupInStep == (token = "SETUP" /\ Succeeded) => devToggle[0] = 1 /\ owed[0] = 0

StatusInStep == (token \in {"INHS", "OUTHS"} /\ Succeeded) => stage = "done"

(* What a comparison of toggles says of the packets between two ends.       *)
Balance(dev, host_) == IF dev = host_ THEN 0 ELSE -1

(* While packets come in, the chip's toggle is the host's. *)
InStep ==
  (pc # "idle" /\ token = "IN")
    => owed[Ep] = Balance(devToggle[Ep], RCVTOG) + (IF RCVDAVIRQ THEN 1 ELSE 0)

ControlInStep == (pc = "idle" \/ req # "get" \/ token # "IN") => owed[0] \in {-1, 0}

(* Between two polls the saved toggle is; a poll takes one packet. *)
PollInStep ==
  /\ (pc = "idle" \/ req # "poll") => owed[1] = Balance(devToggle[1], rcvToggle[1])
  /\ (pc # "idle" /\ req = "poll") =>
       /\ nbytes = MaxPktSize /\ xfrlen = 0
       /\ ~RCVDAVIRQ => RCVTOG = rcvToggle[1]
       /\ RCVDAVIRQ => RCVBC = MaxPktSize

TransferInv ==
  /\ Typed /\ OwnTokens /\ Prompt /\ DataHasCome /\ SetupInStep /\ StatusInStep
  /\ InStep /\ ControlInStep /\ PollInStep
-----------------------------------------------------------------------------
USE DEF hrSUCCESS, hrBUSY, hrNAK, hrSTALL, hrTOGERR, hrTIMEOUT, Tokens

LEMMA InitKeeps == ASSUME TransferAssumption PROVE Init => TransferInv
<1> SUFFICES ASSUME Init PROVE TransferInv OBVIOUS
<1>1. Typed
  <2>1. rcvToggle \in [0 .. 1 -> 0 .. 1] BY DEF Init
  <2>2. devToggle \in [0 .. 1 -> 0 .. 1] BY DEF Init
  <2>3. owed \in [0 .. 1 -> Int] BY DEF Init
  <2>4. HXFRDNIRQ \in BOOLEAN /\ RCVDAVIRQ \in BOOLEAN /\ alive \in BOOLEAN BY DEF Init
  <2>5. pc = "idle" /\ req = "poll" /\ token = "IN" /\ flying = "none" /\ RCVTOG = 0 BY DEF Init
  <2> QED BY <2>1, <2>2, <2>3, <2>4, <2>5 DEF Typed
<1>2. OwnTokens /\ Prompt /\ DataHasCome BY DEF Init, OwnTokens, Prompt, DataHasCome
<1>3. SetupInStep /\ StatusInStep BY DEF Init, SetupInStep, StatusInStep
<1>4. InStep /\ ControlInStep BY DEF Init, InStep, ControlInStep
<1>5. PollInStep BY DEF Init, PollInStep, Balance
<1> QED BY <1>1, <1>2, <1>3, <1>4, <1>5 DEF TransferInv

-----------------------------------------------------------------------------
(* One lemma for each action. *)
LEMMA StartRequestKeeps ==
  ASSUME TransferAssumption, ~LateChip, TransferInv, StartRequest
  PROVE  TransferInv'
<1> USE DEF StartRequest, Dispatch, host, chip, device
<1> QED
 
    BY DEF TransferInv, Typed, OwnTokens, Prompt, DataHasCome, SetupInStep, StatusInStep,
      InStep, ControlInStep,
      PollInStep, TransferAssumption, Succeeded, Balance, Ep

LEMMA StartPollKeeps ==
  ASSUME TransferAssumption, ~LateChip, TransferInv, StartPoll
  PROVE  TransferInv'
<1> USE DEF StartPoll, Dispatch, host, chip, device
<1> QED
 
    BY DEF TransferInv, Typed, OwnTokens, Prompt, DataHasCome, SetupInStep, StatusInStep,
      InStep, ControlInStep,
      PollInStep, TransferAssumption, Succeeded, Balance, Ep

LEMMA LaunchKeeps ==
  ASSUME TransferAssumption, ~LateChip, TransferInv, Launch
  PROVE  TransferInv'
<1> USE DEF Launch, host, chip, device
<1> QED
 
    BY DEF TransferInv, Typed, OwnTokens, Prompt, DataHasCome, SetupInStep, StatusInStep,
      InStep, ControlInStep,
      PollInStep, TransferAssumption, Succeeded, Balance, Ep

LEMMA SeeDoneKeeps ==
  ASSUME TransferAssumption, ~LateChip, TransferInv, SeeDone
  PROVE  TransferInv'
<1> USE DEF SeeDone, Cleared, host, chip, device
<1>1. Typed' BY DEF TransferInv, Typed, Tokens
<1>2. OwnTokens' BY DEF TransferInv, Typed, OwnTokens
<1>3. Prompt' BY DEF TransferInv, Typed, Prompt
<1>4. DataHasCome' BY DEF TransferInv, Typed, Prompt, DataHasCome, OwnTokens, Succeeded
<1>5. SetupInStep' BY DEF TransferInv, Typed, OwnTokens, Prompt, SetupInStep, DataHasCome, Succeeded
<1>6. StatusInStep' BY DEF TransferInv, Typed, OwnTokens, Prompt, StatusInStep, Succeeded
<1>7. InStep'
  BY DEF TransferInv, Typed, OwnTokens, Prompt, DataHasCome, InStep, PollInStep, SetupInStep,
    Succeeded, Balance, Ep
<1>8. ControlInStep'
  BY DEF TransferInv, Typed, OwnTokens, Prompt, DataHasCome, ControlInStep, InStep, SetupInStep,
    Succeeded, Balance, Ep
<1>9. PollInStep'
  BY DEF TransferInv, Typed, OwnTokens, Prompt, DataHasCome, PollInStep, InStep, Succeeded,
    Balance, Ep, TransferAssumption
<1> QED BY <1>1, <1>2, <1>3, <1>4, <1>5, <1>6, <1>7, <1>8, <1>9 DEF TransferInv

LEMMA ExpireKeeps ==
  ASSUME TransferAssumption, ~LateChip, TransferInv, Expire
  PROVE  TransferInv'
<1> USE DEF Expire, AfterExpiry, Expired, host, chip, device
<1> QED
 
    BY DEF TransferInv, Typed, OwnTokens, Prompt, DataHasCome, SetupInStep, StatusInStep,
      InStep, ControlInStep,
      PollInStep, TransferAssumption, Succeeded, Balance, Ep

LEMMA ResultKeeps ==
  ASSUME TransferAssumption, ~LateChip, TransferInv, Result
  PROVE  TransferInv'
<1> USE DEF Result, ReadHRSL, Again, host, chip, device
<1> QED
 
    BY DEF TransferInv, Typed, OwnTokens, Prompt, DataHasCome, SetupInStep, StatusInStep,
      InStep, ControlInStep,
      PollInStep, TransferAssumption, Succeeded, Balance, Ep

LEMMA FailKeeps ==
  ASSUME TransferAssumption, ~LateChip, TransferInv, Fail
  PROVE  TransferInv'
<1> USE DEF Fail, Finish, host, chip, device
<1> QED
 
    BY DEF TransferInv, Typed, OwnTokens, Prompt, DataHasCome, SetupInStep, StatusInStep,
      InStep, ControlInStep,
      PollInStep, TransferAssumption, Succeeded, Balance, Ep

LEMMA StatusOfSetKeeps ==
  ASSUME TransferAssumption, ~LateChip, TransferInv, StatusOfSet
  PROVE  TransferInv'
<1> USE DEF StatusOfSet, Dispatch, host, chip, device
<1> QED
 
    BY DEF TransferInv, Typed, OwnTokens, Prompt, DataHasCome, SetupInStep, StatusInStep,
      InStep, ControlInStep,
      PollInStep, TransferAssumption, Succeeded, Balance, Ep

LEMMA DataStageKeeps ==
  ASSUME TransferAssumption, ~LateChip, TransferInv, DataStage
  PROVE  TransferInv'
<1> USE DEF DataStage, Dispatch, host, chip, device
<1> QED
 
    BY DEF TransferInv, Typed, OwnTokens, Prompt, DataHasCome, SetupInStep, StatusInStep,
      InStep, ControlInStep,
      PollInStep, TransferAssumption, Succeeded, Balance, Ep

LEMMA NothingReceivedKeeps ==
  ASSUME TransferAssumption, ~LateChip, TransferInv, NothingReceived
  PROVE  TransferInv'
<1> USE DEF NothingReceived, Finish, NoData, host, chip, device
<1> QED
 
    BY DEF TransferInv, Typed, OwnTokens, Prompt, DataHasCome, SetupInStep, StatusInStep,
      InStep, ControlInStep,
      PollInStep, TransferAssumption, Succeeded, Balance, Ep

LEMMA ReceiveKeeps ==
  ASSUME TransferAssumption, ~LateChip, TransferInv, Receive
  PROVE  TransferInv'
<1> USE DEF Receive, Dispatch, Finish, SavedToggle, StatusStage, host, chip, device
<1>1. Typed'
  <2>1. Ep \in 0 .. 1 BY DEF Ep
  <2>2. owed' \in [0 .. 1 -> Int] BY <2>1 DEF TransferInv, Typed
  <2>3. devToggle' \in [0 .. 1 -> 0 .. 1] /\ rcvToggle' \in [0 .. 1 -> 0 .. 1]
    BY <2>1 DEF TransferInv, Typed
  <2>4. RCVTOG' \in 0 .. 1 BY DEF TransferInv, Typed
  <2>5. /\ flying' \in Tokens \cup {"none"} /\ HXFRDNIRQ' \in BOOLEAN /\ RCVDAVIRQ' \in BOOLEAN
        /\ alive' \in BOOLEAN
    BY DEF TransferInv, Typed
  <2>6. pc' \in {"idle", "launch", "wait", "result", "returned"} /\ req' \in {"get", "set", "poll"}
        /\ token' \in Tokens
    BY DEF TransferInv, Typed
  <2> QED BY <2>2, <2>3, <2>4, <2>5, <2>6 DEF Typed
<1>2. OwnTokens' BY DEF TransferInv, Typed, OwnTokens
<1>3. Prompt' BY DEF TransferInv, Typed, Prompt
<1>4. DataHasCome' BY DEF TransferInv, Typed, Prompt, DataHasCome, OwnTokens, Succeeded
<1>5. SetupInStep' BY DEF TransferInv, Typed, OwnTokens, Prompt, SetupInStep, DataHasCome, Succeeded
<1>6. StatusInStep' BY DEF TransferInv, Typed, OwnTokens, Prompt, StatusInStep, Succeeded
<1>7. InStep'
  BY DEF TransferInv, Typed, OwnTokens, Prompt, DataHasCome, InStep, PollInStep, SetupInStep,
    Succeeded, Balance, Ep
<1>8. ControlInStep'
  BY DEF TransferInv, Typed, OwnTokens, Prompt, DataHasCome, ControlInStep, InStep, SetupInStep,
    Succeeded, Balance, Ep
<1>9. PollInStep'
  BY DEF TransferInv, Typed, OwnTokens, Prompt, DataHasCome, PollInStep, InStep, Succeeded,
    Balance, Ep, TransferAssumption
<1> QED BY <1>1, <1>2, <1>3, <1>4, <1>5, <1>6, <1>7, <1>8, <1>9 DEF TransferInv

LEMMA StatusDoneKeeps ==
  ASSUME TransferAssumption, ~LateChip, TransferInv, StatusDone
  PROVE  TransferInv'
<1> USE DEF StatusDone, Finish, host, chip, device
<1> QED
 
    BY DEF TransferInv, Typed, OwnTokens, Prompt, DataHasCome, SetupInStep, StatusInStep,
      InStep, ControlInStep,
      PollInStep, TransferAssumption, Succeeded, Balance, Ep

LEMMA NotNowKeeps ==
  ASSUME TransferAssumption, ~LateChip, TransferInv, NotNow
  PROVE  TransferInv'
<1> USE DEF NotNow, Ends, host, chip, device
<1>1. Typed' BY DEF TransferInv, Typed, Tokens
<1>2. OwnTokens' BY DEF TransferInv, Typed, OwnTokens
<1>3. Prompt' BY DEF TransferInv, Typed, Prompt
<1>4. DataHasCome' BY DEF TransferInv, Typed, Prompt, DataHasCome, OwnTokens, Succeeded
<1>5. SetupInStep' BY DEF TransferInv, Typed, OwnTokens, Prompt, SetupInStep, DataHasCome, Succeeded
<1>6. StatusInStep' BY DEF TransferInv, Typed, OwnTokens, Prompt, StatusInStep, Succeeded
<1>7. InStep'
  BY DEF TransferInv, Typed, OwnTokens, Prompt, DataHasCome, InStep, PollInStep, SetupInStep,
    Succeeded, Balance, Ep
<1>8. ControlInStep'
  BY DEF TransferInv, Typed, OwnTokens, Prompt, DataHasCome, ControlInStep, InStep, SetupInStep,
    Succeeded, Balance, Ep
<1>9. PollInStep'
  BY DEF TransferInv, Typed, OwnTokens, Prompt, DataHasCome, PollInStep, InStep, Succeeded,
    Balance, Ep, TransferAssumption
<1> QED BY <1>1, <1>2, <1>3, <1>4, <1>5, <1>6, <1>7, <1>8, <1>9 DEF TransferInv

LEMMA StallKeeps ==
  ASSUME TransferAssumption, ~LateChip, TransferInv, Stall
  PROVE  TransferInv'
<1> USE DEF Stall, Ends, host, chip, device
<1> QED
 
    BY DEF TransferInv, Typed, OwnTokens, Prompt, DataHasCome, SetupInStep, StatusInStep,
      InStep, ControlInStep,
      PollInStep, TransferAssumption, Succeeded, Balance, Ep

LEMMA SetupTakenKeeps ==
  ASSUME TransferAssumption, ~LateChip, TransferInv, SetupTaken
  PROVE  TransferInv'
<1> USE DEF SetupTaken, Ends, host, chip, device
<1>1. Typed'
  <2>1. Ep \in 0 .. 1 BY DEF Ep
  <2>2. owed' \in [0 .. 1 -> Int] BY <2>1 DEF TransferInv, Typed
  <2>3. devToggle' \in [0 .. 1 -> 0 .. 1] /\ rcvToggle' \in [0 .. 1 -> 0 .. 1]
    BY <2>1 DEF TransferInv, Typed
  <2>4. RCVTOG' \in 0 .. 1 BY DEF TransferInv, Typed
  <2>5. /\ flying' \in Tokens \cup {"none"} /\ HXFRDNIRQ' \in BOOLEAN /\ RCVDAVIRQ' \in BOOLEAN
        /\ alive' \in BOOLEAN
    BY DEF TransferInv, Typed
  <2>6. pc' \in {"idle", "launch", "wait", "result", "returned"} /\ req' \in {"get", "set", "poll"}
        /\ token' \in Tokens
    BY DEF TransferInv, Typed
  <2> QED BY <2>2, <2>3, <2>4, <2>5, <2>6 DEF Typed
<1>2. OwnTokens' BY DEF TransferInv, Typed, OwnTokens
<1>3. Prompt' BY DEF TransferInv, Typed, Prompt
<1>4. DataHasCome' BY DEF TransferInv, Typed, Prompt, DataHasCome, OwnTokens, Succeeded
<1>5. SetupInStep' BY DEF TransferInv, Typed, OwnTokens, Prompt, SetupInStep, DataHasCome, Succeeded
<1>6. StatusInStep' BY DEF TransferInv, Typed, OwnTokens, Prompt, StatusInStep, Succeeded
<1>7. InStep'
  BY DEF TransferInv, Typed, OwnTokens, Prompt, DataHasCome, InStep, PollInStep, SetupInStep,
    Succeeded, Balance, Ep
<1>8. ControlInStep'
  BY DEF TransferInv, Typed, OwnTokens, Prompt, DataHasCome, ControlInStep, InStep, SetupInStep,
    Succeeded, Balance, Ep
<1>9. PollInStep'
  BY DEF TransferInv, Typed, OwnTokens, Prompt, DataHasCome, PollInStep, InStep, Succeeded,
    Balance, Ep, TransferAssumption
<1> QED BY <1>1, <1>2, <1>3, <1>4, <1>5, <1>6, <1>7, <1>8, <1>9 DEF TransferInv

LEMMA DataSentKeeps ==
  ASSUME TransferAssumption, ~LateChip, TransferInv, DataSent
  PROVE  TransferInv'
<1> USE DEF DataSent, Ends, Packet, host, chip, device
<1>1. Typed'
  <2>1. Ep \in 0 .. 1 BY DEF Ep
  <2>2. owed' \in [0 .. 1 -> Int] BY <2>1 DEF TransferInv, Typed
  <2>3. devToggle' \in [0 .. 1 -> 0 .. 1] /\ rcvToggle' \in [0 .. 1 -> 0 .. 1]
    BY <2>1 DEF TransferInv, Typed
  <2>4. RCVTOG' \in 0 .. 1 BY DEF TransferInv, Typed
  <2>5. /\ flying' \in Tokens \cup {"none"} /\ HXFRDNIRQ' \in BOOLEAN /\ RCVDAVIRQ' \in BOOLEAN
        /\ alive' \in BOOLEAN
    BY DEF TransferInv, Typed
  <2>6. pc' \in {"idle", "launch", "wait", "result", "returned"} /\ req' \in {"get", "set", "poll"}
        /\ token' \in Tokens
    BY DEF TransferInv, Typed
  <2> QED BY <2>2, <2>3, <2>4, <2>5, <2>6 DEF Typed
<1>2. OwnTokens' BY DEF TransferInv, Typed, OwnTokens
<1>3. Prompt' BY DEF TransferInv, Typed, Prompt
<1>4. DataHasCome' BY DEF TransferInv, Typed, Prompt, DataHasCome, OwnTokens, Succeeded
<1>5. SetupInStep' BY DEF TransferInv, Typed, OwnTokens, Prompt, SetupInStep, DataHasCome, Succeeded
<1>6. StatusInStep' BY DEF TransferInv, Typed, OwnTokens, Prompt, StatusInStep, Succeeded
<1>7. InStep'
  BY DEF TransferInv, Typed, OwnTokens, Prompt, DataHasCome, InStep, PollInStep, SetupInStep,
    Succeeded, Balance, Ep
<1>8. ControlInStep'
  BY DEF TransferInv, Typed, OwnTokens, Prompt, DataHasCome, ControlInStep, InStep, SetupInStep,
    Succeeded, Balance, Ep
<1>9. PollInStep'
  BY DEF TransferInv, Typed, OwnTokens, Prompt, DataHasCome, PollInStep, InStep, Succeeded,
    Balance, Ep, TransferAssumption
<1> QED BY <1>1, <1>2, <1>3, <1>4, <1>5, <1>6, <1>7, <1>8, <1>9 DEF TransferInv

LEMMA StatusTakenKeeps ==
  ASSUME TransferAssumption, ~LateChip, TransferInv, StatusTaken
  PROVE  TransferInv'
<1> USE DEF StatusTaken, Ends, host, chip, device
<1>1. Typed' BY DEF TransferInv, Typed, Tokens
<1>2. OwnTokens' BY DEF TransferInv, Typed, OwnTokens
<1>3. Prompt' BY DEF TransferInv, Typed, Prompt
<1>4. DataHasCome' BY DEF TransferInv, Typed, Prompt, DataHasCome, OwnTokens, Succeeded
<1>5. SetupInStep' BY DEF TransferInv, Typed, OwnTokens, Prompt, SetupInStep, DataHasCome, Succeeded
<1>6. StatusInStep' BY DEF TransferInv, Typed, OwnTokens, Prompt, StatusInStep, Succeeded
<1>7. InStep'
  BY DEF TransferInv, Typed, OwnTokens, Prompt, DataHasCome, InStep, PollInStep, SetupInStep,
    Succeeded, Balance, Ep
<1>8. ControlInStep'
  BY DEF TransferInv, Typed, OwnTokens, Prompt, DataHasCome, ControlInStep, InStep, SetupInStep,
    Succeeded, Balance, Ep
<1>9. PollInStep'
  BY DEF TransferInv, Typed, OwnTokens, Prompt, DataHasCome, PollInStep, InStep, Succeeded,
    Balance, Ep, TransferAssumption
<1> QED BY <1>1, <1>2, <1>3, <1>4, <1>5, <1>6, <1>7, <1>8, <1>9 DEF TransferInv

LEMMA DiesKeeps ==
  ASSUME TransferAssumption, ~LateChip, TransferInv, Dies
  PROVE  TransferInv'
<1> USE DEF Dies, host, chip, device
<1>1. Typed' BY DEF TransferInv, Typed, Tokens
<1>2. OwnTokens' BY DEF TransferInv, Typed, OwnTokens
<1>3. Prompt' BY DEF TransferInv, Typed, Prompt
<1>4. DataHasCome' BY DEF TransferInv, Typed, Prompt, DataHasCome, OwnTokens, Succeeded
<1>5. SetupInStep' BY DEF TransferInv, Typed, OwnTokens, Prompt, SetupInStep, DataHasCome, Succeeded
<1>6. StatusInStep' BY DEF TransferInv, Typed, OwnTokens, Prompt, StatusInStep, Succeeded
<1>7. InStep'
  BY DEF TransferInv, Typed, OwnTokens, Prompt, DataHasCome, InStep, PollInStep, SetupInStep,
    Succeeded, Balance, Ep
<1>8. ControlInStep'
  BY DEF TransferInv, Typed, OwnTokens, Prompt, DataHasCome, ControlInStep, InStep, SetupInStep,
    Succeeded, Balance, Ep
<1>9. PollInStep'
  BY DEF TransferInv, Typed, OwnTokens, Prompt, DataHasCome, PollInStep, InStep, Succeeded,
    Balance, Ep, TransferAssumption
<1> QED BY <1>1, <1>2, <1>3, <1>4, <1>5, <1>6, <1>7, <1>8, <1>9 DEF TransferInv

LEMMA StepKeeps == ASSUME TransferAssumption, ~LateChip PROVE TransferInv /\ [Next]_vars => TransferInv'
<1> SUFFICES ASSUME TransferInv, [Next]_vars PROVE TransferInv' OBVIOUS
<1>1. CASE StartRequest BY <1>1, StartRequestKeeps
<1>2. CASE StartPoll BY <1>2, StartPollKeeps
<1>3. CASE Program
  BY <1>3, LaunchKeeps, SeeDoneKeeps, ExpireKeeps, ResultKeeps, FailKeeps, StatusOfSetKeeps,
     DataStageKeeps, NothingReceivedKeeps, ReceiveKeeps, StatusDoneKeeps DEF Program
<1>4. CASE Environment
  BY <1>4, NotNowKeeps, StallKeeps, SetupTakenKeeps, DataSentKeeps, StatusTakenKeeps DEF Environment
<1>5. CASE Dies BY <1>5, DiesKeeps
<1>6. CASE UNCHANGED vars
  BY <1>6 DEF vars, host, chip, device, TransferInv, Typed, OwnTokens, Prompt, DataHasCome,
    SetupInStep, StatusInStep, InStep, ControlInStep, PollInStep, Succeeded, Balance, Ep
<1> QED BY <1>1, <1>2, <1>3, <1>4, <1>5, <1>6 DEF Next

LEMMA Inductive == ASSUME ~LateChip PROVE Spec => []TransferInv
<1>1. Init => TransferInv BY InitKeeps, TransferAssumption
<1>2. TransferInv /\ [Next]_vars => TransferInv' BY StepKeeps, TransferAssumption
<1> QED BY <1>1, <1>2, PTL DEF Spec

-----------------------------------------------------------------------------
(* With a chip that answers in time, the result the program reads is that   *)
(* of the packet it launched.                                               *)
THEOREM PromptResultIsOwn == ASSUME ~LateChip PROVE Spec => []ResultIsOwn
<1>1. TransferInv => ResultIsOwn BY DEF TransferInv, Prompt, ResultIsOwn
<1> QED BY Inductive, <1>1, PTL

(* However packets and acknowledgements are lost, no packet that the device *)
(* saw acknowledged is missing between requests, and none has come twice.   *)
THEOREM TogglesKeepStep == ASSUME ~LateChip PROVE Spec => []EveryPacketOnce
<1>1. TransferInv => EveryPacketOnce
  BY DEF TransferInv, Typed, ControlInStep, PollInStep, Balance, EveryPacketOnce
<1> QED BY Inductive, <1>1, PTL

(* A control request that reports success has come to its end.              *)
THEOREM SuccessComplete == ASSUME ~LateChip PROVE Spec => SuccessIsComplete
<1>1. TransferInv /\ [Next]_vars =>
        [(pc # "idle" /\ pc' = "idle" /\ rcode' = 0 /\ req # "poll") => stage = "done"]_vars
  <2> SUFFICES ASSUME TransferInv, [Next]_vars, pc # "idle", pc' = "idle", rcode' = 0, req # "poll"
               PROVE  stage = "done"
    OBVIOUS
  <2>1. CASE StatusDone BY <2>1 DEF StatusDone, TransferInv, StatusInStep, Succeeded
  <2>2. CASE Fail BY <2>2 DEF Fail, Finish
  <2>3. CASE NothingReceived BY <2>3 DEF NothingReceived, Finish, NoData
  <2>4. CASE Receive
    BY <2>4 DEF Receive, Dispatch, Finish, StatusStage, TransferInv, OwnTokens
  <2>5. CASE Launch \/ SeeDone \/ Expire \/ Result \/ StatusOfSet \/ DataStage
    BY <2>5 DEF Launch, SeeDone, Expire, AfterExpiry, Result, StatusOfSet, DataStage, Dispatch
  <2>6. CASE StartRequest \/ StartPoll BY <2>6 DEF StartRequest, StartPoll
  <2>7. CASE Environment \/ Dies
    BY <2>7 DEF Environment, NotNow, Stall, SetupTaken, DataSent, StatusTaken, Dies
  <2>8. CASE UNCHANGED vars BY <2>8 DEF vars
  <2> QED BY <2>1, <2>2, <2>3, <2>4, <2>5, <2>6, <2>7, <2>8 DEF Next, Program
<1> QED BY Inductive, <1>1, PTL DEF Spec, SuccessIsComplete
-----------------------------------------------------------------------------
(* Where the device stands in the request, before the status stage: at the  *)
(* end of no earlier one.                                                   *)
StageOwn ==
  /\ (token = "SETUP" /\ Succeeded /\ req # "poll") => stage = req
  /\ (pc # "idle" /\ req = "get" /\ token = "IN") => stage \in {"get", "stalled"}

LEMMA StageStaysOwn ==
  ASSUME TransferAssumption, ~LateChip, TransferInv, StageOwn, [Next]_vars
  PROVE  StageOwn'
<1> USE DEF TransferInv, Typed, OwnTokens, Prompt, StageOwn, Succeeded, host, chip, device
<1>1. CASE StartRequest BY <1>1 DEF StartRequest, Dispatch
<1>2. CASE StartPoll BY <1>2 DEF StartPoll, Dispatch
<1>3. CASE Launch BY <1>3 DEF Launch
<1>4. CASE SeeDone BY <1>4 DEF SeeDone
<1>5. CASE Expire BY <1>5 DEF Expire, AfterExpiry, Expired
<1>6. CASE Result BY <1>6 DEF Result, ReadHRSL, Again
<1>7. CASE Fail \/ NothingReceived \/ StatusDone
  BY <1>7 DEF Fail, NothingReceived, StatusDone, Finish
<1>8. CASE StatusOfSet BY <1>8 DEF StatusOfSet, Dispatch
<1>9. CASE DataStage BY <1>9 DEF DataStage, Dispatch
<1>10. CASE Receive BY <1>10 DEF Receive, Dispatch, Finish
<1>11. CASE NotNow BY <1>11 DEF NotNow, Ends
<1>12. CASE Stall BY <1>12 DEF Stall, Ends
<1>13. CASE SetupTaken BY <1>13 DEF SetupTaken, Ends
<1>14. CASE DataSent BY <1>14 DEF DataSent, Ends
<1>15. CASE StatusTaken BY <1>15 DEF StatusTaken, Ends
<1>16. CASE Dies BY <1>16 DEF Dies
<1>17. CASE UNCHANGED vars BY <1>17 DEF vars
<1> QED
  BY <1>1, <1>2, <1>3, <1>4, <1>5, <1>6, <1>7, <1>8, <1>9, <1>10, <1>11, <1>12, <1>13, <1>14,
     <1>15, <1>16, <1>17 DEF Next, Program, Environment

RequestInv == TransferInv /\ StageOwn

LEMMA RequestInductive == ASSUME ~LateChip PROVE Spec => []RequestInv
<1>1. Init => StageOwn BY DEF Init, StageOwn, Succeeded
<1>2. TransferInv /\ StageOwn /\ [Next]_vars => StageOwn' BY StageStaysOwn, TransferAssumption
<1> QED BY <1>1, <1>2, Inductive, PTL DEF Spec, RequestInv

(* The steps that leave the stage of the device and the last token alone,   *)
(* or change them before the status stage: none carries the request out.    *)
LEMMA DeviceCarries ==
  ASSUME TransferAssumption, ~LateChip, RequestInv, [Next]_vars, ~CarriedOut, CarriedOut'
  PROVE  StatusTaken
<1> USE DEF RequestInv, TransferInv, Typed, OwnTokens, Prompt, StageOwn, Succeeded, CarriedOut,
            host, chip, device
<1>1. CASE StartRequest BY <1>1 DEF StartRequest, Dispatch
<1>2. CASE StartPoll BY <1>2 DEF StartPoll, Dispatch
<1>3. CASE Launch \/ SeeDone \/ Expire \/ Result
  BY <1>3 DEF Launch, SeeDone, Expire, Result
<1>4. CASE Fail \/ NothingReceived \/ StatusDone
  BY <1>4 DEF Fail, NothingReceived, StatusDone, Finish
<1>5. CASE StatusOfSet BY <1>5 DEF StatusOfSet, Dispatch
<1>6. CASE DataStage BY <1>6 DEF DataStage, Dispatch
<1>7. CASE Receive BY <1>7 DEF Receive, Dispatch, Finish, StatusStage
<1>8. CASE NotNow \/ Stall \/ SetupTaken \/ DataSent
  BY <1>8 DEF NotNow, Stall, SetupTaken, DataSent, Ends
<1>9. CASE Dies BY <1>9 DEF Dies
<1>10. CASE UNCHANGED vars BY <1>10 DEF vars
<1> QED
  BY <1>1, <1>2, <1>3, <1>4, <1>5, <1>6, <1>7, <1>8, <1>9, <1>10 DEF Next, Program, Environment

(* With a chip that answers in time only the device's own status stage      *)
(* carries a request out: what the request before it has left does not.     *)
THEOREM DeviceCarriesOut == ASSUME ~LateChip PROVE Spec => CarriedByDevice
<1>1. RequestInv /\ [Next]_vars => [(CarriedOut' /\ ~CarriedOut) => StatusTaken]_vars
  BY DeviceCarries, TransferAssumption
<1> QED BY <1>1, RequestInductive, PTL DEF Spec, CarriedByDevice

-----------------------------------------------------------------------------
(* Each step, seen as one of Request.tla.                                   *)
LEMMA RequestStep ==
  ASSUME TransferAssumption, ~LateChip, RequestInv, [Next]_vars
  PROVE  TheRequest!Next \/ UNCHANGED <<RequestStatus, CarriedOut>>
<1> USE DEF RequestInv, TransferInv, Typed, OwnTokens, Prompt, StatusInStep, Succeeded,
            RequestStatus, CarriedOut, host, chip, device
<1> DEFINE Step == TheRequest!Next \/ UNCHANGED <<RequestStatus, CarriedOut>>
<1>1. CASE StartRequest
  <2>1. TheRequest!Ask BY <1>1 DEF StartRequest, Dispatch, TheRequest!Ask
  <2> QED BY <2>1 DEF TheRequest!Next
<1>2. CASE StartPoll
  <2>1. TheRequest!Forget BY <1>2 DEF StartPoll, Dispatch, TheRequest!Forget
  <2> QED BY <2>1 DEF TheRequest!Next
<1>3. CASE Launch \/ SeeDone \/ Expire \/ Result
  BY <1>3 DEF Launch, SeeDone, Expire, AfterExpiry, Result
<1>4. CASE StatusOfSet \/ DataStage
  <2>1. req # "poll" /\ RequestStatus = "asked" /\ RequestStatus' = "asked"
    BY <1>4 DEF StatusOfSet, DataStage, Dispatch
  <2>2. CarriedOut' \in BOOLEAN OBVIOUS
  <2> QED BY <2>1, <2>2 DEF TheRequest!Next, TheRequest!CarryOut
<1>5. CASE Fail
  <2>1. UNCHANGED CarriedOut /\ (req = "poll" => UNCHANGED RequestStatus)
    BY <1>5 DEF Fail, Finish
  <2>2. req # "poll" => RequestStatus = "asked" /\ RequestStatus' = "failed"
    BY <1>5 DEF Fail, Finish
  <2> QED BY <2>1, <2>2 DEF TheRequest!Next, TheRequest!Fail
<1>6. CASE NothingReceived
  <2>1. UNCHANGED CarriedOut /\ (req = "poll" => UNCHANGED RequestStatus)
    BY <1>6 DEF NothingReceived, Finish
  <2>2. req # "poll" => RequestStatus = "asked" /\ RequestStatus' = "failed"
    BY <1>6 DEF NothingReceived, Finish, NoData
  <2> QED BY <2>1, <2>2 DEF TheRequest!Next, TheRequest!Fail
<1>7. CASE Receive
  <2>1. req = "poll" => UNCHANGED <<RequestStatus, CarriedOut>>
    BY <1>7 DEF Receive, Dispatch, Finish
  <2>2. req # "poll" => RequestStatus = "asked" /\ RequestStatus' = "asked"
    BY <1>7 DEF Receive, Dispatch, Finish, StatusStage
  <2>3. CarriedOut' \in BOOLEAN OBVIOUS
  <2> QED BY <2>1, <2>2, <2>3 DEF TheRequest!Next, TheRequest!CarryOut
<1>8. CASE StatusDone
  <2>1. RequestStatus = "asked" /\ RequestStatus' = "succeeded" BY <1>8 DEF StatusDone, Finish
  <2>2. CarriedOut /\ UNCHANGED CarriedOut BY <1>8 DEF StatusDone, Finish
  <2> QED BY <2>1, <2>2 DEF TheRequest!Next, TheRequest!Succeed
<1>9. CASE Environment
  <2>1. /\ pc = "wait" /\ pc' = pc /\ UNCHANGED req /\ UNCHANGED token
    BY <1>9 DEF Environment, NotNow, Stall, SetupTaken, DataSent, StatusTaken, Ends
  <2>2. UNCHANGED RequestStatus BY <2>1
  <2>3. req = "poll" => UNCHANGED CarriedOut BY <2>1
  <2>4. req # "poll" => RequestStatus = "asked" BY <2>1
  <2>5. CarriedOut' \in BOOLEAN OBVIOUS
  <2> QED BY <2>2, <2>3, <2>4, <2>5 DEF TheRequest!Next, TheRequest!CarryOut
<1>10. CASE Dies BY <1>10 DEF Dies
<1>11. CASE UNCHANGED vars BY <1>11 DEF vars
<1> QED
  BY <1>1, <1>2, <1>3, <1>4, <1>5, <1>6, <1>7, <1>8, <1>9, <1>10, <1>11 DEF Next, Program

(* All the packets of a control request, its retries and its lost           *)
(* handshakes make the one step UsbHost takes it for: success means that    *)
(* the device has carried out this request, and nothing follows its return. *)
THEOREM TransferImplementsRequest == ASSUME ~LateChip PROVE Spec => ImplementsRequest
<1>1. Init => TheRequest!Init
  BY DEF Init, TheRequest!Init, RequestStatus, CarriedOut
<1>2. RequestInv /\ [Next]_vars => [TheRequest!Next]_<<RequestStatus, CarriedOut>>
  BY RequestStep, TransferAssumption
<1> QED BY <1>1, <1>2, RequestInductive, PTL DEF Spec, ImplementsRequest, TheRequest!Spec

-----------------------------------------------------------------------------
(* With any chip, prompt or late: every variable keeps its type, and while  *)
(* a packet is dispatched an attempt is left to it.                         *)
AttemptsLeft ==
  pc \in {"launch", "wait", "result"} => nak_count < USB_NAK_LIMIT /\ retry_count < USB_RETRY_LIMIT

HostTyped ==
  /\ pc \in {"idle", "launch", "wait", "result", "returned"}
  /\ req \in {"get", "set", "poll"} /\ nbytes \in Asked \cup {MaxPktSize} /\ token \in Tokens
  /\ nak_count \in 0 .. USB_NAK_LIMIT /\ retry_count \in 0 .. USB_RETRY_LIMIT
  /\ rcode \in Results \cup {hrBUSY, NoData, Expired} /\ xfrlen \in Nat
  /\ rcvToggle \in [0 .. 1 -> 0 .. 1]
ChipTyped ==
  /\ flying \in Tokens \cup {"none"} /\ HXFRDNIRQ \in BOOLEAN /\ RCVDAVIRQ \in BOOLEAN
  /\ HRSL \in Results /\ RCVBC \in 0 .. MaxPktSize /\ RCVTOG \in 0 .. 1
DeviceTyped ==
  /\ alive \in BOOLEAN /\ stage \in {"get", "set", "done", "stalled"} /\ left \in Nat
  /\ devToggle \in [0 .. 1 -> 0 .. 1] /\ owed \in [0 .. 1 -> Int]

(* Also a late chip is at work on the last packet launched, and a poll      *)
(* sends no SETUP.                                                          *)
TokensFit ==
  /\ (flying # "none" /\ pc # "launch") => flying = token
  /\ req = "poll" => token = "IN"

CountInv == HostTyped /\ ChipTyped /\ DeviceTyped /\ AttemptsLeft /\ TokensFit

LEMMA InitCounts == ASSUME TransferAssumption PROVE Init => CountInv
<1> SUFFICES ASSUME Init PROVE CountInv OBVIOUS
<1>1. HostTyped BY DEF Init, HostTyped, Results, TransferAssumption
<1>2. ChipTyped
  <2>1. HXFRDNIRQ \in BOOLEAN /\ RCVDAVIRQ \in BOOLEAN BY DEF Init
  <2>2. flying \in Tokens \cup {"none"} /\ HRSL \in Results /\ RCVTOG \in 0 .. 1 BY DEF Init, Results
  <2>3. RCVBC \in 0 .. MaxPktSize BY DEF Init, TransferAssumption
  <2> QED BY <2>1, <2>2, <2>3 DEF ChipTyped
<1>3. DeviceTyped BY DEF Init, DeviceTyped
<1>4. AttemptsLeft /\ TokensFit BY DEF Init, AttemptsLeft, TokensFit
<1> QED BY <1>1, <1>2, <1>3, <1>4 DEF CountInv

LEMMA ProgramKeepsTypes ==
  ASSUME TransferAssumption, CountInv, StartRequest \/ StartPoll \/ Program
  PROVE  HostTyped' /\ ChipTyped' /\ DeviceTyped'
<1> USE DEF CountInv, HostTyped, ChipTyped, DeviceTyped, Dispatch, Finish, chip, device
<1>1. CASE StartRequest BY <1>1 DEF StartRequest, TransferAssumption
<1>2. CASE StartPoll
  <2>1. RCVTOG' \in 0 .. 1 BY <1>2 DEF StartPoll
  <2> QED BY <1>2, <2>1 DEF StartPoll, TransferAssumption
<1>3. CASE Launch BY <1>3 DEF Launch, host
<1>4. CASE SeeDone
  <2>1. HXFRDNIRQ' \in BOOLEAN BY <1>4 DEF SeeDone, Cleared
  <2>2. pc' = "result" /\ UNCHANGED <<host, flying, RCVDAVIRQ, HRSL, RCVBC, RCVTOG, device, owed>>
    BY <1>4 DEF SeeDone
  <2>3. HostTyped' BY <2>2 DEF host
  <2>4. ChipTyped' BY <2>1, <2>2
  <2>5. DeviceTyped' BY <2>2
  <2> QED BY <2>3, <2>4, <2>5
<1>5. CASE Expire BY <1>5 DEF Expire, AfterExpiry
<1>6. CASE Result
  <2>1. rcode' \in Results \cup {hrBUSY, NoData, Expired} BY <1>6 DEF Result, ReadHRSL
  <2>2. nak_count' \in 0 .. USB_NAK_LIMIT /\ retry_count' \in 0 .. USB_RETRY_LIMIT
    BY <1>6 DEF Result, AttemptsLeft, TransferAssumption
  <2>3. pc' \in {"launch", "returned"} BY <1>6 DEF Result
  <2> QED BY <1>6, <2>1, <2>2, <2>3 DEF Result
<1>7. CASE Fail \/ StatusDone BY <1>7 DEF Fail, StatusDone, Results
<1>8. CASE NothingReceived BY <1>8 DEF NothingReceived
<1>9. CASE StatusOfSet BY <1>9 DEF StatusOfSet, TransferAssumption
<1>10. CASE DataStage
  <2>1. rcvToggle' \in [0 .. 1 -> 0 .. 1] /\ RCVTOG' \in 0 .. 1 BY <1>10 DEF DataStage
  <2> QED BY <1>10, <2>1 DEF DataStage, TransferAssumption
<1>11. CASE Receive
  <2>1. Ep \in 0 .. 1 BY DEF Ep
  <2>2. rcvToggle' \in [0 .. 1 -> 0 .. 1] BY <1>11, <2>1 DEF Receive, SavedToggle
  <2>3. owed' \in [0 .. 1 -> Int] BY <1>11, <2>1 DEF Receive
  <2>4. xfrlen' \in Nat BY <1>11 DEF Receive, TransferAssumption
  <2>5. /\ pc' \in {"launch", "idle"} /\ token' \in Tokens
        /\ nak_count' \in 0 .. USB_NAK_LIMIT /\ retry_count' \in 0 .. USB_RETRY_LIMIT
        /\ rcode' \in Results \cup {hrBUSY, NoData, Expired}
    BY <1>11 DEF Receive, Results, TransferAssumption
  <2>6. RCVDAVIRQ' = FALSE /\ UNCHANGED <<req, nbytes, flying, HXFRDNIRQ, HRSL, RCVBC, RCVTOG>>
        /\ UNCHANGED <<alive, stage, left, devToggle>>
    BY <1>11 DEF Receive
  <2> QED BY <2>2, <2>3, <2>4, <2>5, <2>6
<1> QED
  BY <1>1, <1>2, <1>3, <1>4, <1>5, <1>6, <1>7, <1>8, <1>9, <1>10, <1>11 DEF Program

LEMMA EnvironmentKeepsTypes ==
  ASSUME TransferAssumption, CountInv, Environment
  PROVE  ChipTyped' /\ DeviceTyped'
<1> USE DEF CountInv, HostTyped, ChipTyped, DeviceTyped, host
<1>1. Ep \in 0 .. 1 BY DEF Ep
<1>2. flying' = "none" /\ HXFRDNIRQ' = TRUE /\ HRSL' \in Results
  BY DEF Environment, NotNow, Stall, SetupTaken, DataSent, StatusTaken, Ends, Results
<1>3. CASE NotNow
  <2>1. UNCHANGED <<RCVDAVIRQ, RCVBC, RCVTOG, device, owed>> BY <1>3 DEF NotNow
  <2>2. ChipTyped'
    <3>1. HXFRDNIRQ' \in BOOLEAN BY <1>2
    <3> QED BY <1>2, <2>1, <3>1
  <2>3. DeviceTyped' BY <2>1 DEF device
  <2> QED BY <2>2, <2>3
<1>4. CASE Stall
  <2>1. stage' \in {stage, "stalled"} BY <1>4 DEF Stall
  <2> QED BY <1>2, <1>4, <2>1 DEF Stall
<1>5. CASE SetupTaken
  <2>1. devToggle' \in [0 .. 1 -> 0 .. 1] /\ owed' \in [0 .. 1 -> Int] BY <1>5 DEF SetupTaken
  <2>2. stage' = req /\ left' \in Nat BY <1>5 DEF SetupTaken, TransferAssumption
  <2>3. req # "poll" BY <1>5 DEF SetupTaken, Ends, TokensFit
  <2> QED BY <1>2, <1>5, <2>1, <2>2, <2>3 DEF SetupTaken
<1>6. CASE DataSent
  <2>1. Packet \in 0 .. MaxPktSize /\ (req = "get" => left - Packet \in Nat)
    BY DEF Packet, TransferAssumption
  <2>2. RCVDAVIRQ' \in BOOLEAN /\ RCVBC' \in 0 .. MaxPktSize /\ RCVTOG' \in 0 .. 1
    <3>1. CASE devToggle[Ep] = RCVTOG
      <4>1. RCVDAVIRQ' = TRUE /\ RCVBC' = Packet /\ RCVTOG' = 1 - RCVTOG BY <1>6, <3>1 DEF DataSent
      <4>2. RCVTOG \in 0 .. 1 => 1 - RCVTOG \in 0 .. 1 OBVIOUS
      <4> QED BY <2>1, <4>1, <4>2
    <3>2. CASE devToggle[Ep] # RCVTOG BY <1>6, <3>2 DEF DataSent
    <3> QED BY <3>1, <3>2
  <2>3. devToggle' \in [0 .. 1 -> 0 .. 1] /\ owed' \in [0 .. 1 -> Int]
    BY <1>1, <1>6 DEF DataSent
  <2>4. left' \in Nat BY <1>6, <2>1 DEF DataSent
  <2> QED BY <1>2, <1>6, <2>2, <2>3, <2>4 DEF DataSent
<1>7. CASE StatusTaken BY <1>2, <1>7 DEF StatusTaken
<1> QED BY <1>3, <1>4, <1>5, <1>6, <1>7 DEF Environment

LEMMA AttemptsKeep ==
  ASSUME TransferAssumption, CountInv, [Next]_vars
  PROVE  AttemptsLeft' /\ TokensFit'
<1> USE DEF CountInv, HostTyped, AttemptsLeft, TokensFit, Dispatch, Finish, host, chip, device
<1>1. CASE StartRequest BY <1>1 DEF StartRequest, TransferAssumption
<1>2. CASE StartPoll BY <1>2 DEF StartPoll, TransferAssumption
<1>3. CASE Launch \/ SeeDone \/ Expire BY <1>3 DEF Launch, SeeDone, Expire, AfterExpiry
<1>4. CASE Result BY <1>4 DEF Result, Again, TransferAssumption
<1>5. CASE Fail \/ NothingReceived \/ StatusDone BY <1>5 DEF Fail, NothingReceived, StatusDone
<1>6. CASE StatusOfSet \/ DataStage BY <1>6 DEF StatusOfSet, DataStage, TransferAssumption
<1>7. CASE Receive BY <1>7 DEF Receive, StatusStage, TransferAssumption
<1>8. CASE Environment
  <2>1. UNCHANGED <<pc, host>> /\ flying' = "none"
    BY <1>8 DEF Environment, NotNow, Stall, SetupTaken, DataSent, StatusTaken, Ends
  <2> QED BY <2>1
<1>9. CASE Dies \/ UNCHANGED vars BY <1>9 DEF Dies, vars
<1> QED BY <1>1, <1>2, <1>3, <1>4, <1>5, <1>6, <1>7, <1>8, <1>9 DEF Next, Program

LEMMA CountKeeps == ASSUME TransferAssumption PROVE CountInv /\ [Next]_vars => CountInv'
<1> SUFFICES ASSUME CountInv, [Next]_vars PROVE CountInv' OBVIOUS
<1>1. AttemptsLeft' /\ TokensFit' BY AttemptsKeep
<1>2. CASE StartRequest \/ StartPoll \/ Program BY <1>1, <1>2, ProgramKeepsTypes DEF CountInv
<1>3. CASE Environment
  <2>1. UNCHANGED <<pc, host>>
    BY <1>3 DEF Environment, NotNow, Stall, SetupTaken, DataSent, StatusTaken
  <2>2. HostTyped' BY <2>1 DEF CountInv, HostTyped, host
  <2> QED BY <1>1, <1>3, <2>2, EnvironmentKeepsTypes DEF CountInv
<1>4. CASE Dies \/ UNCHANGED vars
  <2>1. UNCHANGED <<pc, host, chip, stage, left, devToggle, owed>> /\ alive' \in {alive, FALSE}
    BY <1>4 DEF Dies, vars, device
  <2>2. HostTyped' BY <2>1 DEF CountInv, HostTyped, host
  <2>3. ChipTyped' BY <2>1 DEF CountInv, ChipTyped, chip
  <2>4. DeviceTyped' BY <2>1 DEF CountInv, DeviceTyped
  <2> QED BY <1>1, <2>2, <2>3, <2>4 DEF CountInv
<1> QED BY <1>2, <1>3, <1>4 DEF Next

LEMMA CountInductive == Spec => []CountInv
<1>1. Init => CountInv BY InitCounts, TransferAssumption
<1>2. CountInv /\ [Next]_vars => CountInv' BY CountKeeps, TransferAssumption
<1> QED BY <1>1, <1>2, PTL DEF Spec

(* Every variable keeps its type, with a late chip too: neither counter     *)
(* passes its limit, so that neither byte wraps.                            *)
THEOREM TransferTypeCorrect == Spec => []TypeOK
<1>1. CountInv => TypeOK BY DEF CountInv, HostTyped, ChipTyped, DeviceTyped, TypeOK
<1> QED BY <1>1, CountInductive, PTL

(* What is left of a request: stages, data, attempts at this packet, and    *)
(* steps of this attempt, in this order.                                    *)
StagesLeft == IF token = "SETUP" THEN 2 ELSE IF token = "IN" THEN 1 ELSE 0
ToCome == nbytes - xfrlen
Attempts == (USB_NAK_LIMIT - nak_count) + (USB_RETRY_LIMIT - retry_count)
StepsLeft == CASE pc = "launch" -> 3 [] pc = "wait" -> 2 [] pc = "result" -> 1 [] OTHER -> 0

Closer ==
  \/ pc' = "idle"
  \/ StagesLeft' < StagesLeft
  \/ StagesLeft' = StagesLeft /\ ToCome' < ToCome /\ ToCome' \in Nat
  \/ UNCHANGED <<StagesLeft, ToCome>> /\ Attempts' < Attempts
  \/ UNCHANGED <<StagesLeft, ToCome, Attempts>> /\ StepsLeft' < StepsLeft
ProgressStep ==
  pc # "idle" =>
    /\ StagesLeft \in Nat /\ Attempts \in Nat /\ StepsLeft \in Nat
    /\ IF Program THEN Closer ELSE UNCHANGED <<pc, host>>

(* Every step of the program brings a request closer to its return, in a    *)
(* well-founded order, and the chip and the device never take it back: the  *)
(* safety part of RequestEnds, for any limits and lengths and a late chip.  *)
RequestProgress == [][ProgressStep]_vars

LEMMA ProgramCloser ==
  ASSUME TransferAssumption, CountInv, Program
  PROVE  Closer
<1> USE DEF CountInv, HostTyped, AttemptsLeft, Closer, StagesLeft, ToCome, Attempts, StepsLeft, host
<1>1. CASE Launch BY <1>1 DEF Launch
<1>2. CASE SeeDone BY <1>2 DEF SeeDone
<1>3. CASE Expire BY <1>3 DEF Expire, AfterExpiry
<1>4. CASE Result
  <2>1. UNCHANGED <<token, nbytes, xfrlen>> /\ pc = "result" /\ pc' \in {"launch", "returned"}
    BY <1>4 DEF Result
  <2>2. UNCHANGED <<StagesLeft, ToCome>> /\ StepsLeft = 1 BY <2>1
  <2>3. CASE UNCHANGED <<nak_count, retry_count>>
    <3>1. pc' = "returned" BY <1>4, <2>3 DEF Result, Again, TransferAssumption
    <3> QED BY <2>2, <2>3, <3>1
  <2>4. CASE ~UNCHANGED <<nak_count, retry_count>>
    <3>1. \/ nak_count' = nak_count + 1 /\ retry_count' = retry_count
          \/ nak_count' = nak_count /\ retry_count' = retry_count + 1
      BY <1>4, <2>4 DEF Result
    <3>2. Attempts' < Attempts BY <3>1 DEF TransferAssumption
    <3> QED BY <2>2, <3>2
  <2> QED BY <2>3, <2>4
<1>5. CASE Fail \/ NothingReceived \/ StatusDone
  BY <1>5 DEF Fail, NothingReceived, StatusDone, Finish
<1>6. CASE StatusOfSet BY <1>6 DEF StatusOfSet, Dispatch
<1>7. CASE DataStage BY <1>7 DEF DataStage, Dispatch
<1>8. CASE Receive
  <2>1. CASE RCVBC < MaxPktSize \/ xfrlen + RCVBC >= nbytes
    BY <1>8, <2>1 DEF Receive, Dispatch, Finish
  <2>2. CASE ~(RCVBC < MaxPktSize \/ xfrlen + RCVBC >= nbytes)
    <3>1. RCVBC = MaxPktSize /\ xfrlen + RCVBC < nbytes /\ nbytes \in Nat /\ MaxPktSize \in Nat \ {0}
      BY <2>2 DEF TransferAssumption, ChipTyped
    <3>2. xfrlen' = xfrlen + RCVBC /\ nbytes' = nbytes /\ token = "IN" /\ token' = "IN"
      BY <1>8, <2>2 DEF Receive, Dispatch
    <3>3. ToCome' \in Nat /\ ToCome' < ToCome BY <3>1, <3>2
    <3> QED BY <3>2, <3>3
  <2> QED BY <2>1, <2>2
<1> QED BY <1>1, <1>2, <1>3, <1>4, <1>5, <1>6, <1>7, <1>8 DEF Program

(* What RequestEnds needs for its end: a request returns after boundedly    *)
(* many steps of its own, however many NAKs, retries and packets it takes.  *)
THEOREM EveryStepCounts == Spec => RequestProgress
<1>1. CountInv /\ [Next]_vars => [ProgressStep]_vars
  <2> SUFFICES ASSUME CountInv, Next, pc # "idle" PROVE ProgressStep
    BY DEF ProgressStep
  <2>1. StagesLeft \in Nat /\ StepsLeft \in Nat BY DEF StagesLeft, StepsLeft
  <2>2. Attempts \in Nat
    <3>1. USB_NAK_LIMIT \in Nat /\ USB_RETRY_LIMIT \in Nat
      BY TransferAssumption DEF TransferAssumption
    <3> QED BY <3>1 DEF CountInv, HostTyped, Attempts
  <2>3. CASE Program BY <2>1, <2>2, <2>3, ProgramCloser, TransferAssumption DEF ProgressStep
  <2>4. CASE ~Program
    <3>1. Environment \/ Dies BY <2>4 DEF Next, StartRequest, StartPoll
    <3>2. UNCHANGED <<pc, host>>
      BY <3>1 DEF Environment, NotNow, Stall, SetupTaken, DataSent, StatusTaken, Dies
    <3> QED BY <2>1, <2>2, <2>4, <3>2 DEF ProgressStep
  <2> QED BY <2>3, <2>4
<1> QED BY <1>1, CountInductive, PTL DEF Spec, RequestProgress
=============================================================================
