------------------------------- MODULE MaxSpi -------------------------------
(***************************************************************************)
(* One access to the MAX3421E: alt_avalon_spi_command, below MAXreg_wr,    *)
(* MAXreg_rd, MAXbytes_wr and MAXbytes_rd, against the SPI master, which   *)
(* shifts a byte out and one in at a time; and the reset of the chip.      *)
(*                                                                         *)
(* The master has one byte of transmit register, a shift register and one  *)
(* byte of receive register.  A byte that arrives takes the place of one    *)
(* that has not been read: an overrun.                                     *)
(***************************************************************************)
EXTENDS Integers, Sequences, SequencesExt

CONSTANTS
  Sizes,        \* the lengths of MAXbytes_wr and MAXbytes_rd
  Byte,         \* the values of tmp, which count the attempts of the reset
  OscStarts     \* TRUE: the oscillator starts once the reset is removed

(* What the constants may be. *)
SpiAssumption ==
  /\ Sizes \subseteq Nat
  /\ Byte \in Nat \ {0}
  /\ OscStarts \in BOOLEAN

VARIABLES
  pc,            \* idle, select, loop, send, take, drain
  toWrite,       \* write_end - write_data: bytes of the command still to send
  write_zeros, read_ignore, credits,
  toRead,        \* read_end - read_data
  got,           \* the bytes stored at read_data, by the position they answer
  asked,         \* the length of the command written, and of the answer
  sent,          \* bytes this command has put into TXDATA
  txdata, shift, \* position of the byte in the register, or Empty
  rxdata,
  SSO,           \* the chip select is held
  chip,          \* bytes the chip has seen since it was selected
  trdy, rrdy,    \* of the status the loop has read
  boot,          \* how far MAX3421E_reset has come
  tmp,
  RES, CHIPRES, OSCOKIRQ    \* the reset pin, the reset bit, the oscillator

command == <<toWrite, write_zeros, read_ignore, credits, toRead, got, asked, sent>>
status == <<trdy, rrdy>>
master == <<txdata, shift, rxdata>>
reset == <<boot, tmp, RES, CHIPRES, OSCOKIRQ>>
vars == <<pc, command, status, master, SSO, chip, reset>>

Empty == 0
Stale == -1      \* a byte left behind by an earlier command

Init ==
  /\ pc = "idle"
  /\ toWrite = 0 /\ write_zeros = 0 /\ read_ignore = 0 /\ credits = 1 /\ toRead = 0
  /\ got = <<>> /\ asked = [writes |-> 0, reads |-> 0] /\ sent = 0
  /\ trdy = FALSE /\ rrdy = FALSE
  /\ txdata = Empty /\ shift = Empty /\ rxdata \in {Empty, Stale}
  /\ SSO = FALSE /\ chip = 0
  /\ boot = "start" /\ tmp = 0
  /\ RES \in BOOLEAN /\ CHIPRES = FALSE /\ OSCOKIRQ = FALSE

TRDY == txdata = Empty \/ shift = Empty
RRDY == rxdata # Empty
TMT == txdata = Empty /\ shift = Empty

-----------------------------------------------------------------------------
(* alt_avalon_spi_command: w bytes out, then r bytes in. *)
Command(w, r) ==
  /\ pc = "idle" /\ pc' = "select"
  /\ asked' = [writes |-> w, reads |-> r]
  /\ toWrite' = w /\ toRead' = r
  /\ write_zeros' = r /\ read_ignore' = w /\ credits' = 1
  /\ got' = <<>> /\ sent' = 0
  /\ UNCHANGED <<status, master, SSO, chip>>

Forced == TRUE

(* Seeded fault: what an earlier command left in RXDATA stays there. *)
KeepStale == rxdata
Discard == Empty

(* The chip select falls, and stale data is discarded. *)
Select ==
  /\ pc = "select" /\ pc' = "loop"
  /\ SSO' = Forced /\ chip' = 0
  /\ rxdata' = Discard
  /\ UNCHANGED <<command, status, txdata, shift, reset>>

(* The status is read until a byte may be sent or one has arrived.          *)
ReadStatus ==
  /\ pc = "loop" /\ pc' = "send"
  /\ (TRDY /\ credits # 0) \/ RRDY
  /\ trdy' = TRDY /\ rrdy' = RRDY
  /\ UNCHANGED <<command, master, SSO, chip, reset>>

Spends == credits - 1

Send ==
  /\ pc = "send" /\ pc' = "take"
  /\ IF ~(trdy /\ credits > 0)
     THEN UNCHANGED <<txdata, sent, toWrite, write_zeros, credits>>
     ELSE IF toWrite > 0 \/ write_zeros > 0
     THEN /\ txdata' = sent + 1 /\ sent' = sent + 1
          /\ toWrite' = IF toWrite > 0 THEN toWrite - 1 ELSE 0
          /\ write_zeros' = IF toWrite > 0 THEN write_zeros ELSE write_zeros - 1
          /\ credits' = Spends
     ELSE credits' = -1024 /\ UNCHANGED <<txdata, sent, toWrite, write_zeros>>
  /\ UNCHANGED <<read_ignore, toRead, got, asked, status, shift, rxdata, SSO, chip, reset>>

Stores == read_ignore = 0

Take ==
  /\ pc = "take"
  /\ IF rrdy
     THEN /\ IF Stores THEN got' = Append(got, rxdata) /\ toRead' = toRead - 1 /\ UNCHANGED read_ignore
                       ELSE read_ignore' = read_ignore - 1 /\ UNCHANGED <<got, toRead>>
          /\ rxdata' = Empty
          /\ credits' = credits + 1
          /\ pc' = IF read_ignore' = 0 /\ toRead' = 0 THEN "drain" ELSE "loop"
     ELSE pc' = "loop" /\ UNCHANGED <<read_ignore, got, toRead, rxdata, credits>>
  /\ UNCHANGED <<toWrite, write_zeros, asked, sent, status, txdata, shift, SSO, chip, reset>>

(* The last byte has left, the chip is released, and the access returns.    *)
Release ==
  /\ pc = "drain" /\ pc' = "idle"
  /\ TMT
  /\ SSO' = FALSE
  /\ UNCHANGED <<command, status, master, chip>>

-----------------------------------------------------------------------------
(* MAX3421E.c: a register's byte, then data out or in.                      *)
MAXreg_wr == Command(2, 0)
MAXreg_rd == Command(1, 1)
MAXbytes_wr == \E nbytes \in Sizes : Command(nbytes + 1, 0)
MAXbytes_rd == \E nbytes \in Sizes : Command(1, nbytes)

(* MAX3421E_reset: the pin down and up, then the bit set and removed.       *)
PinDown ==
  /\ boot = "start" /\ boot' = "down"
  /\ RES' = FALSE /\ OSCOKIRQ' = FALSE
  /\ UNCHANGED <<pc, command, status, master, SSO, chip, tmp, CHIPRES>>

PinUp ==
  /\ boot = "down" /\ boot' = "set"
  /\ RES' = TRUE
  /\ UNCHANGED <<pc, command, status, master, SSO, chip, tmp, CHIPRES, OSCOKIRQ>>

(* The accesses of the reset, in order, and then any other. *)
Access ==
  /\ \/ boot \in {"set", "remove"} /\ MAXreg_wr
     \/ boot = "poll" /\ MAXreg_rd
     \/ boot = "done" /\ (MAXreg_wr \/ MAXreg_rd \/ MAXbytes_wr \/ MAXbytes_rd)
  /\ UNCHANGED reset

Removed == FALSE

(* What an access of the reset does when it returns. *)
Returned ==
  /\ Release
  /\ UNCHANGED RES
  /\ \/ /\ boot = "set" /\ boot' = "remove"
        /\ CHIPRES' = TRUE /\ OSCOKIRQ' = FALSE /\ UNCHANGED tmp
     \/ /\ boot = "remove" /\ boot' = "poll"
        /\ CHIPRES' = Removed /\ UNCHANGED <<tmp, OSCOKIRQ>>
     \/ /\ boot = "poll" /\ OSCOKIRQ /\ boot' = "done"
        /\ UNCHANGED <<tmp, CHIPRES, OSCOKIRQ>>
     \/ /\ boot = "poll" /\ ~OSCOKIRQ /\ tmp' = (tmp + 1) % Byte
        /\ UNCHANGED <<boot, CHIPRES, OSCOKIRQ>>
     \/ boot = "done" /\ UNCHANGED <<boot, tmp, CHIPRES, OSCOKIRQ>>

Program == PinDown \/ PinUp \/ Access
Driver == Select \/ ReadStatus \/ Send \/ Take \/ Returned

-----------------------------------------------------------------------------
(* finalprojsoc_spi_0.v, the SPI master.                                    *)
Load ==
  /\ txdata # Empty /\ shift = Empty
  /\ shift' = txdata /\ txdata' = Empty
  /\ UNCHANGED <<pc, command, status, rxdata, SSO, chip, reset>>

(* A byte is exchanged; without SSO the chip is deselected after it.        *)
Shift ==
  /\ shift # Empty /\ shift' = Empty
  /\ rxdata' = shift
  /\ chip' = IF SSO THEN chip + 1 ELSE 1
  /\ UNCHANGED <<pc, command, status, txdata, SSO, reset>>

(* The oscillator of the chip (external). *)
Oscillator ==
  /\ RES /\ ~CHIPRES /\ ~OSCOKIRQ /\ OSCOKIRQ' = TRUE
  /\ UNCHANGED <<pc, command, status, master, SSO, chip, boot, tmp, RES, CHIPRES>>

Next == Program \/ Driver \/ Load \/ Shift \/ Oscillator

(* The program and the master run; whether the oscillator does is a choice. *)
Fairness ==
  /\ WF_vars(Program) /\ WF_vars(Driver) /\ WF_vars(Load) /\ WF_vars(Shift)
  /\ OscStarts => WF_vars(Oscillator)

Spec == Init /\ [][Next]_vars /\ Fairness

-----------------------------------------------------------------------------
(* Every variable has its type. *)
TypeOK ==
  /\ pc \in {"idle", "select", "loop", "send", "take", "drain"}
  /\ toWrite \in Nat /\ write_zeros \in Nat /\ read_ignore \in Nat /\ toRead \in Nat
  /\ credits \in 0 .. 1
  /\ got \in Seq(Int) /\ asked \in [writes : Nat, reads : Nat] /\ sent \in Nat
  /\ trdy \in BOOLEAN /\ rrdy \in BOOLEAN
  /\ txdata \in Nat /\ shift \in Nat /\ rxdata \in Nat \cup {Stale}
  /\ SSO \in BOOLEAN /\ chip \in Nat
  /\ boot \in {"start", "down", "set", "remove", "poll", "done"} /\ tmp \in 0 .. Byte - 1
  /\ RES \in BOOLEAN /\ CHIPRES \in BOOLEAN /\ OSCOKIRQ \in BOOLEAN

(* The bytes an access hands back are those the chip sent after it had the  *)
(* whole command: none of an earlier access, none twice, none missing.      *)
OwnAnswer == pc = "drain" => got = [i \in 1 .. asked.reads |-> asked.writes + i]

(* The chip sees the access in one piece, as many bytes as it has.          *)
OnePiece == [][pc = "drain" /\ pc' = "idle" => chip = asked.writes + asked.reads]_vars

(* A byte never arrives on one that has not been read: the credit lets one  *)
(* byte be under way.                                                       *)
NoOverrun == shift # Empty => rxdata = Empty

(* An access ends, and the reset does when the oscillator starts.           *)
AccessEnds == pc # "idle" ~> pc = "idle"

(* MAX3421E.c:136: the wait for the oscillator times out after 256 attempts. *)
ResetEnds == boot = "start" ~> boot = "done"
=============================================================================
