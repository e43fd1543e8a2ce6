------------------------------ MODULE HidProbe ------------------------------
(***************************************************************************)
(* The probes of HID.c, run in turn by the CONFIGURING case of USB_Task:   *)
(* each reads the configuration of the device into bigbuf, walks it to the *)
(* first interface and, if that is of its class, to an endpoint, and then  *)
(* configures the device.                                                  *)
(*                                                                         *)
(* A configuration is a sequence of descriptors, each told by its type; an *)
(* interface also by its class, and one without a length by that.  bigbuf  *)
(* is static: it is as the last probe of the last device left it, and      *)
(* zeros before.  Every transfer may fail, and it may succeed with less    *)
(* than was asked for: a short packet ends it (transfer.c:217).  An answer *)
(* ends between two descriptors, and descriptors are of one size.          *)
(***************************************************************************)
EXTENDS Integers, Sequences

CONSTANTS BufSize,     \* descriptors bigbuf has room for
          MaxDescr     \* descriptors a device has at most

(* What the constants may be. *)
HidProbeAssumption == BufSize \in Nat \ {0} /\ MaxDescr \in Nat \ {0}

VARIABLES
  pc,          \* off, size, whole, walk, endpoint, setconf, setproto, running, error
  probe,       \* the class whose probe runs: HID_M, then HID_K
  device,      \* the configuration of the device at the plug
  bigbuf,      \* what the slots of the buffer hold
  wTotalLength,   \* in its first descriptor, counted in descriptors
  total_length, at,
  devclass,    \* of the device's entry in devtable
  epinfo,      \* where its endpoint 1 was found, 0 for nowhere
  configured,  \* the device's: requests it has obeyed
  missing      \* history: the first descriptor that the probe asked for with the
               \* whole configuration and did not get, behind the buffer for none

vars == <<pc, probe, device, bigbuf, wTotalLength, total_length, at, devclass, epinfo, configured,
          missing>>

Interfaces == {"HID_K", "HID_M", "other"}
Types == Interfaces \cup {"hid", "endpoint", "zero"}
(* What the buffer has no room for is never read: it is not told apart. *)
Rest(n) == {s \in [1 .. n -> Types] : \A i \in BufSize .. n : s[i] = "hid"}
Configurations == {<<"config">> \o s : s \in UNION {Rest(n) : n \in 0 .. MaxDescr - 1}}
Slots == 1 .. BufSize

Init ==
  /\ pc = "off" /\ probe = "HID_M"
  /\ device = <<>>
  /\ bigbuf = [s \in Slots |-> "zero"] /\ wTotalLength = 0
  /\ total_length = 0 /\ at = 1
  /\ devclass = "UNINIT" /\ epinfo = 0 /\ configured = {}
  /\ missing = 1

(* A device has been given an address and a fresh entry. *)
Enumerate ==
  /\ pc = "off" /\ pc' = "size"
  /\ device' \in Configurations
  /\ UNCHANGED <<probe, bigbuf, wTotalLength, total_length, at,
                 devclass, epinfo, configured, missing>>

(* It is unplugged; the next one gets another entry. *)
Unplug ==
  /\ pc \in {"running", "error"} /\ pc' = "off"
  /\ device' = <<>> /\ probe' = "HID_M"
  /\ devclass' = "UNINIT" /\ epinfo' = 0 /\ configured' = {} /\ missing' = 1
  /\ UNCHANGED <<bigbuf, wTotalLength, total_length, at>>

(* A probe returns FALSE: the next one runs, or there is none.  Its locals  *)
(* are gone.                                                                *)
NextProbe ==
  /\ total_length' = 0 /\ at' = 1 /\ missing' = 1
  /\ IF probe = "HID_M" THEN probe' = "HID_K" /\ pc' = "size"
                        ELSE pc' = "error" /\ UNCHANGED probe

TransferFails ==
  /\ pc \in {"size", "whole", "setconf", "setproto"}
  /\ NextProbe
  /\ UNCHANGED <<device, bigbuf, wTotalLength, devclass, epinfo, configured>>

(* The first n descriptors of the device are read over what was there. *)
Received(n) ==
  /\ bigbuf' = [s \in Slots |-> IF s <= n THEN device[s] ELSE bigbuf[s]]
  /\ wTotalLength' = IF n > 0 THEN Len(device) ELSE wTotalLength

Fits(length) == IF length > BufSize THEN BufSize ELSE length

(* The configuration descriptor alone, for its wTotalLength. *)
GetSize ==
  /\ pc = "size" /\ pc' = "whole"
  /\ \E n \in 0 .. 1 : Received(n)
  /\ total_length' = Fits(wTotalLength')
  /\ UNCHANGED <<probe, device, at, devclass, epinfo, configured, missing>>

(* Seeded fault: the second request asks for the first descriptor again. *)
AsksFirst == 1
AsksWhole == total_length

(* Success does not say that all came. *)
GetWhole ==
  /\ pc = "whole" /\ pc' = "walk"
  /\ \E n \in 0 .. AsksWhole :
       /\ n <= Len(device) /\ Received(n)
       /\ missing' = IF n < AsksWhole THEN n + 1 ELSE BufSize + 1
  /\ at' = 1
  /\ UNCHANGED <<probe, device, total_length, devclass, epinfo, configured>>

(* Seeded fault: data_ptr is moved and byte_ptr is not. *)
SkipNot(s) == at' = s
(* bLength is added to byte_ptr. *)
SkipFrom(s) == at' = IF bigbuf[s] = "zero" THEN s ELSE s + 1

Wanted == IF pc = "walk" THEN Interfaces ELSE {"endpoint"}

Skip ==
  /\ pc \in {"walk", "endpoint"} /\ at <= total_length
  /\ bigbuf[at] \notin Wanted
  /\ SkipFrom(at)
  /\ UNCHANGED <<pc, probe, device, bigbuf, wTotalLength, total_length,
                 devclass, epinfo, configured, missing>>

(* Seeded fault: any boot interface will do. *)
MatchesEither(i) == i # "other"
Matches(i) == i = probe

(* Only the first interface counts: "die on first interface". *)
FirstInterface ==
  /\ pc = "walk" /\ at <= total_length /\ bigbuf[at] \in Interfaces
  /\ IF Matches(bigbuf[at])
     THEN /\ pc' = "endpoint" /\ devclass' = probe
          /\ SkipFrom(at)
          /\ UNCHANGED <<probe, total_length, missing>>
     ELSE NextProbe /\ UNCHANGED devclass
  /\ UNCHANGED <<device, bigbuf, wTotalLength, epinfo, configured>>

Endpoint ==
  /\ pc = "endpoint" /\ at <= total_length /\ bigbuf[at] = "endpoint"
  /\ epinfo' = at
  /\ pc' = "setconf"
  /\ UNCHANGED <<probe, device, bigbuf, wTotalLength, total_length, at,
                 devclass, configured, missing>>

WalkedOff ==
  /\ pc \in {"walk", "endpoint"} /\ at > total_length
  /\ NextProbe
  /\ UNCHANGED <<device, bigbuf, wTotalLength, devclass, epinfo, configured>>

SetConf ==
  /\ pc = "setconf" /\ pc' = "setproto"
  /\ configured' = configured \cup {"configuration"}
  /\ UNCHANGED <<probe, device, bigbuf, wTotalLength, total_length, at, devclass, epinfo, missing>>

SetProto ==
  /\ pc = "setproto" /\ pc' = "running"
  /\ total_length' = 0 /\ at' = 1
  /\ configured' = configured \cup {"boot protocol"}
  /\ UNCHANGED <<probe, device, bigbuf, wTotalLength, devclass, epinfo, missing>>

Walk == Skip \/ FirstInterface \/ Endpoint \/ WalkedOff
Probing == TransferFails \/ GetSize \/ GetWhole \/ Walk \/ SetConf \/ SetProto

Next == Enumerate \/ Unplug \/ Probing

Spec == Init /\ [][Next]_vars /\ WF_vars(Probing)

-----------------------------------------------------------------------------
(* Every variable has its type. *)
TypeOK ==
  /\ pc \in {"off", "size", "whole", "walk", "endpoint", "setconf", "setproto", "running", "error"}
  /\ probe \in {"HID_M", "HID_K"}
  /\ device \in Configurations \cup {<<>>}
  /\ bigbuf \in [Slots -> Types \cup {"config"}]
  /\ wTotalLength \in 0 .. MaxDescr
  /\ total_length \in 0 .. BufSize /\ at \in 1 .. BufSize + 1 /\ missing \in 1 .. BufSize + 1
  /\ devclass \in {"UNINIT", "HID_K", "HID_M"} /\ epinfo \in 0 .. BufSize
  /\ configured \subseteq {"configuration", "boot protocol"}

FirstOf(d) == {i \in 1 .. Len(d) : d[i] \in Interfaces /\ \A j \in 1 .. i - 1 : d[j] \notin Interfaces}

(* As far as a device answers what it is asked, a probe walks over its      *)
(* bytes and not over those an earlier device left in the buffer: the       *)
(* probe asks for all that it walks over.                                   *)
OwnBytes ==
  pc \in {"walk", "endpoint"} /\ at <= total_length =>
    at >= missing \/ bigbuf[at] = device[at]

(* A device runs only in the class of the first interface in the buffer,    *)
(* with an endpoint behind it, and after both requests: a probe that        *)
(* recognised it and failed does not make it run later in the class of      *)
(* another.  Interface and endpoint are its own but for those it was asked  *)
(* for and has not sent.                                                    *)
RunsAsItIs ==
  pc = "running" =>
    /\ \E i \in FirstOf(bigbuf) :
         /\ i < epinfo /\ devclass = bigbuf[i]
         /\ i >= missing \/ (i \in FirstOf(device) /\ devclass = device[i])
    /\ bigbuf[epinfo] = "endpoint" /\ (epinfo >= missing \/ device[epinfo] = "endpoint")
    /\ configured = {"configuration", "boot protocol"}

(* The probe stands at a descriptor of length 0, one the device has sent or *)
(* one behind a short answer.                                               *)
Stuck == pc \in {"walk", "endpoint"} /\ at <= total_length /\ bigbuf[at] = "zero"

(* Every enumeration that comes to the probes ends, running or not, unless  *)
(* the probe comes to a descriptor of length 0.                             *)
ProbesEnd == pc \notin {"off", "running", "error"} ~> pc \in {"running", "error"} \/ Stuck

(* HID.c:36, "get the whole configuration": what is not so.                 *)
WholeConfiguration == pc \in {"walk", "endpoint"} /\ at <= total_length => bigbuf[at] = device[at]

(* HID.c:139, "skip to the next descriptor": the walk leaves every one.     *)
SkipsOn == \A s \in Slots : (pc = "walk" /\ at = s) ~> ~(pc = "walk" /\ at = s)
=============================================================================
