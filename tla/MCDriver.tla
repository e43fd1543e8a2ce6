------------------------------ MODULE MCDriver ------------------------------
(***************************************************************************)
(* Parts of the USB software that share no variable, checked side by side: *)
(* part is the one that runs, the others stay where they begin.  No action *)
(* of one reads a variable of another, so nothing is lost by it.           *)
(***************************************************************************)
EXTENDS Integers

CONSTANTS
  Word, Hz, SettleTime, USB_XFER_TIMEOUT,   \* of UsbTime
  BufSize, MaxDescr,                        \* of HidProbe
  Sizes, TmpValues, OscStarts,              \* of MaxSpi (TmpValues: Byte)
  Keys, Displacements, Presses              \* of Panel

VARIABLES
  part,
  nticks, wait, limit, looked, elapsed,
  hpc, probe, config, bigbuf, wTotalLength, total_length, at, devclass, epinfo,
  configured, missing,
  spc, toWrite, write_zeros, read_ignore, credits, toRead, got, asked, sent, txdata,
  shift, rxdata, SSO, chip, trdy, rrdy, boot, tmp, RES, CHIPRES, OSCOKIRQ,
  state, runningdebugflag, errorflag, device, LED, hex, keycode, velocity, plugged,
  talks, entered, down, told, before, shown

time == <<nticks, wait, limit, looked, elapsed>>
probes == <<hpc, probe, config, bigbuf, wTotalLength, total_length, at, devclass, epinfo,
            configured, missing>>
spi == <<spc, toWrite, write_zeros, read_ignore, credits, toRead, got, asked, sent, txdata,
         shift, rxdata, SSO, chip, trdy, rrdy, boot, tmp, RES, CHIPRES, OSCOKIRQ>>
panel == <<state, runningdebugflag, errorflag, device, LED, hex, keycode, velocity, plugged,
           talks, entered, down, told, before, shown>>
vars == <<part, time, probes, spi, panel>>

Time == INSTANCE UsbTime
Probes == INSTANCE HidProbe WITH pc <- hpc, device <- config
Spi == INSTANCE MaxSpi WITH pc <- spc, Byte <- TmpValues
Panels == INSTANCE Panel WITH devclass <- entered, looked <- before

ASSUME DriverAssumption ==
  /\ Time!UsbTimeAssumption
  /\ Probes!HidProbeAssumption
  /\ Spi!SpiAssumption
  /\ Panels!PanelAssumption

Init ==
  /\ part \in {"time", "probe", "spi", "panel"}
  /\ Time!Init /\ Probes!Init /\ Spi!Init /\ Panels!Init
  /\ part # "time" => nticks = 0
  /\ part # "spi" => ~RES /\ rxdata = Spi!Empty

NextTime == part = "time" /\ Time!Next /\ UNCHANGED <<part, probes, spi, panel>>
NextProbe == part = "probe" /\ Probes!Next /\ UNCHANGED <<part, time, spi, panel>>
NextSpi == part = "spi" /\ Spi!Next /\ UNCHANGED <<part, time, probes, panel>>
NextPanel == part = "panel" /\ Panels!Next /\ UNCHANGED <<part, time, probes, spi>>
Next == NextTime \/ NextProbe \/ NextSpi \/ NextPanel

(* Each part's own fairness, for the part that runs. *)
Fairness ==
  /\ WF_time(part = "time" /\ Time!Look) /\ WF_time(part = "time" /\ Time!Tick)
  /\ WF_probes(part = "probe" /\ Probes!Probing)
  /\ WF_panel(part = "panel" /\ Panels!main)
  /\ SF_panel(part = "panel" /\ Panels!KeyReport)
  /\ WF_panel(part = "panel" /\ Panels!FirstLook)

Spec == Init /\ [][Next]_vars /\ Fairness

-----------------------------------------------------------------------------
(* No wait on the clock is cut short, on whatever side of the wrap it began. *)
NotEarly == Time!NotEarly

(* Every wait ends whose limit the clock can pass before its product wraps. *)
Ends == Time!Ends

(* As far as a device answers what it is asked, a probe walks over its      *)
(* bytes and not over those an earlier device left in the buffer.           *)
OwnBytes == Probes!OwnBytes

(* A device runs only as the first interface in the buffer is, with an      *)
(* endpoint behind it and after both requests, whatever failed on the way;  *)
(* both are its own but for what it was asked for and has not sent.         *)
RunsAsItIs == Probes!RunsAsItIs

(* Every enumeration that comes to the probes ends, running or not, or      *)
(* stands at a descriptor of length 0.                                      *)
ProbesEnd == Probes!ProbesEnd

(* The bytes an SPI access hands back are those the chip sent after it had  *)
(* the whole command: none of an earlier access, none twice, none missing.  *)
OwnAnswer == Spi!OwnAnswer

(* The panel always shows both numbers of the last report, sign and         *)
(* hundreds with them, although two routines share its registers.           *)
PanelShows == Panels!PanelShows

(* A change of the keys comes to the game, unless it is overtaken or the    *)
(* keyboard leaves.                                                         *)
KeysFollow == Panels!KeysFollow
=============================================================================
