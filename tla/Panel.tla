------------------------------- MODULE Panel -------------------------------
(***************************************************************************)
(* What a pass of main's loop shows: the keycode register the game reads,  *)
(* the seven-segment digits, the LEDs and the mouse velocities, and how    *)
(* they follow a keyboard or mouse that comes and goes.                    *)
(*                                                                         *)
(* UsbHost has the states behind usb_task_state; here only what main       *)
(* tells apart is left, and a device that was enumerated again has been    *)
(* seen by main in another state between (Forgotten in UsbHost).        *)
(***************************************************************************)
EXTENDS Integers, Sequences

CONSTANTS Keys,            \* the codes of the keyboard's keys, 0 is none
          Displacements,   \* the bytes a mouse reports along an axis
          Presses          \* the sets of buttons a mouse reports

(* What the constants may be. *)
PanelAssumption ==
  /\ Keys \subseteq 1 .. 255
  /\ Displacements \subseteq 0 .. 255
  /\ Presses \subseteq SUBSET (0 .. 2)

VARIABLES
  state,            \* usb_task_state: running, error or other
  runningdebugflag, errorflag,
  device,           \* the class main polls
  LED, hex,         \* the PIOs: the LEDs that are lit, the bits of four digits that are set
  keycode, velocity,
  plugged, talks,   \* the device on the cable; it has been enumerated and answers
  devclass,         \* the class the last enumeration has entered in the table
  down,             \* the keys held down, in the order of the report
  told,             \* the keyboard has nothing new
  looked,           \* the state main saw in its last pass
  shown             \* the two numbers of the last report

pio == <<LED, hex, keycode, velocity>>
flags == <<runningdebugflag, errorflag, device>>
bus == <<plugged, talks, devclass, down, told>>
vars == <<state, flags, pio, bus, looked, shown>>

(* What the six bytes of a report can hold; three are enough here.          *)
Report == {r \in UNION {[1 .. n -> Keys] : n \in 0 .. 3} :
             \A j, k \in DOMAIN r : r[j] = r[k] => j = k}
Byte(r, n) == IF n \in DOMAIN r THEN r[n] ELSE 0

Init ==
  /\ state = "other" /\ runningdebugflag = FALSE /\ errorflag = FALSE /\ device = "none"
  /\ LED = {} /\ hex = {} /\ keycode = <<0, 0>> /\ velocity = <<0, 0>>
  /\ plugged = "none" /\ talks = FALSE /\ devclass = "none" /\ down = <<>> /\ told = TRUE
  /\ looked = "other" /\ shown = <<0, 0>>

-----------------------------------------------------------------------------
(* The values of C: a signed char, its negation, / and %.                   *)
SignedChar(v) == IF v % 256 < 128 THEN v % 256 ELSE (v % 256) - 256
Quotient(v, n) == IF v < 0 THEN -((-v) \div n) ELSE v \div n
Remainder(v, n) == v - n * Quotient(v, n)
Magnitude(v) == IF v < 0 THEN SignedChar(-v) ELSE v

(* The bits of a byte shifted left by n, and what four bits from n on say.  *)
Shifted(v, n) == {b + n : b \in {c \in 0 .. 7 : ((v % 256) \div 2^c) % 2 = 1}}
Digit(bits, n) ==
  LET set(k) == IF n + k \in bits THEN 1 ELSE 0
  IN  set(0) + 2 * set(1) + 4 * set(2) + 8 * set(3)

(* Seeded fault: the digits of both numbers are kept. *)
KeepsAll(n) == 0 .. 15
(* The digits of the other number.                                          *)
Keeps(n) == IF n = 0 THEN 0 .. 7 ELSE 8 .. 15

(* printSignedHex0 and printSignedHex1: sign on LED 11 or 10, hundreds on   *)
(* LED 13 or 12, and two digits of four bits beside those of the other.     *)
SignLED(n) == 11 - n
HundredsLED(n) == 13 - n
Ones(n) == IF n = 0 THEN 8 ELSE 0
DigitsOf(n, v) ==
  LET rest == Remainder(Magnitude(v), 100)
  IN  Shifted(Quotient(rest, 10), Ones(n) + 4) \cup Shifted(Remainder(rest, 10), Ones(n))
Lit(n, v) ==
  (IF v < 0 THEN {SignLED(n)} ELSE {}) \cup
  (IF Quotient(Magnitude(v), 100) # 0 THEN {HundredsLED(n)} ELSE {})
NumberLEDs == {10, 11, 12, 13}

(* One after the other; the second sees what the first has written.         *)
Show(v0, v1, buttons, old) ==
  /\ hex' = (0 .. 15) \cap
       ((((hex \cap Keeps(0)) \cup DigitsOf(0, v0)) \cap Keeps(1)) \cup DigitsOf(1, v1))
  /\ LED' = (LED \ (NumberLEDs \cup old)) \cup Lit(0, v0) \cup Lit(1, v1) \cup buttons
  /\ shown' = <<v0, v1>>

Quiet == velocity' = <<0, 0>>

-----------------------------------------------------------------------------
(* A pass of the loop, by what it finds.                                    *)
Pass == looked' = state /\ UNCHANGED <<state, plugged, talks, devclass, down>>

(* GetDriverandReport. *)
Driver == devclass

clearLED(n) == LED \ {n}

(* USB_STATE_RUNNING for the first time.                                    *)
FirstLook ==
  /\ state = "running" /\ ~runningdebugflag
  /\ runningdebugflag' = TRUE /\ device' = Driver
  /\ LED' = LED \cup {9}
  /\ Quiet /\ Pass
  /\ UNCHANGED <<errorflag, hex, keycode, told, shown>>

Polls(kind) == state = "running" /\ runningdebugflag /\ device = kind

(* Seeded fault: the second key is lost. *)
FirstKey(r) == <<Byte(r, 1), 0>>
(* setKeycode. *)
Keycode(r) == <<Byte(r, 1), Byte(r, 2)>>

KeyReport ==
  /\ Polls("keyboard") /\ talks /\ ~told
  /\ keycode' = Keycode(down) /\ told' = TRUE
  /\ Show(SignedChar(Byte(down, 1)), SignedChar(Byte(down, 2)), {}, {})
  /\ Quiet /\ Pass
  /\ UNCHANGED flags

MouseReport ==
  /\ Polls("mouse") /\ talks
  /\ \E x, y \in Displacements, button \in Presses :
       /\ velocity' = <<x, y>>
       /\ Show(SignedChar(x), SignedChar(y), button, 0 .. 2)
  /\ Pass
  /\ UNCHANGED <<flags, keycode, told>>

(* NAK, an error, or no class that main knows.                              *)
NoReport ==
  /\ state = "running" /\ runningdebugflag
  /\ Quiet /\ Pass
  /\ UNCHANGED <<flags, LED, hex, keycode, told, shown>>

ErrorState ==
  /\ state = "error"
  /\ errorflag' = TRUE
  /\ LED' = IF errorflag THEN LED ELSE clearLED(9)
  /\ Quiet /\ Pass
  /\ UNCHANGED <<runningdebugflag, device, hex, keycode, told, shown>>

NotRunning ==
  /\ state = "other"
  /\ runningdebugflag' = FALSE /\ errorflag' = FALSE
  /\ LED' = clearLED(9)
  /\ Quiet /\ Pass
  /\ UNCHANGED <<device, hex, keycode, told, shown>>

main == FirstLook \/ KeyReport \/ MouseReport \/ NoReport \/ ErrorState \/ NotRunning

-----------------------------------------------------------------------------
(* The user, and the tasks between two passes.                              *)
Outside == UNCHANGED <<flags, pio, looked, shown>>

(* A keyboard reports what changes.                                         *)
Press ==
  /\ plugged = "keyboard"
  /\ \E r \in Report \ {down} : down' = r
  /\ told' = FALSE
  /\ Outside /\ UNCHANGED <<state, plugged, talks, devclass>>

Plug ==
  /\ plugged = "none" /\ state = "other"
  /\ plugged' \in {"keyboard", "mouse"}
  /\ Outside /\ UNCHANGED <<state, talks, devclass, down, told>>

Unplug ==
  /\ plugged # "none"
  /\ plugged' = "none" /\ talks' = FALSE /\ down' = <<>> /\ told' = TRUE
  /\ Outside /\ UNCHANGED <<state, devclass>>

(* MAX3421E_Task sees that the device has gone or come.                     *)
Notice ==
  /\ state # "other" /\ ~talks
  /\ state' = "other"
  /\ Outside /\ UNCHANGED bus

(* USB_Task ends an enumeration, after main has seen that there was one.    *)
Enumerate ==
  /\ state = "other" /\ looked = "other" /\ plugged # "none"
  /\ \/ state' = "running" /\ talks' = TRUE /\ devclass' = plugged
     \/ state' = "error" /\ UNCHANGED <<talks, devclass>>
  /\ Outside /\ UNCHANGED <<plugged, down, told>>

Next == main \/ Press \/ Plug \/ Unplug \/ Notice \/ Enumerate

(* main runs for ever, and the bus does not fail at every report.           *)
Spec == Init /\ [][Next]_vars /\ WF_vars(main) /\ SF_vars(KeyReport) /\ WF_vars(FirstLook)

-----------------------------------------------------------------------------
TypeOK ==
  /\ state \in {"running", "error", "other"} /\ looked \in {"running", "error", "other"}
  /\ runningdebugflag \in BOOLEAN /\ errorflag \in BOOLEAN
  /\ device \in {"none", "keyboard", "mouse"} /\ devclass \in {"none", "keyboard", "mouse"}
  /\ runningdebugflag => device # "none"
  /\ plugged \in {"none", "keyboard", "mouse"}
  /\ LED \subseteq 0 .. 13 /\ hex \subseteq 0 .. 15 /\ keycode \in (0 .. 255) \X (0 .. 255)
  /\ velocity \in (0 .. 255) \X (0 .. 255)
  /\ talks \in BOOLEAN /\ down \in Report /\ told \in BOOLEAN
  /\ shown \in (-128 .. 127) \X (-128 .. 127)

(* What the LEDs and the digits say.                                        *)
Reads(n) ==
  LET sign == IF SignLED(n) \in LED THEN -1 ELSE 1
      hundreds == IF HundredsLED(n) \in LED THEN 100 ELSE 0
  IN  sign * (hundreds + 10 * Digit(hex, Ones(n) + 4) + Digit(hex, Ones(n)))

(* main.c:72: two routines share a register of digits and one of LEDs, read *)
(* them back and write them: the panel always shows both numbers of the     *)
(* last report, sign and hundreds with them.                                *)
PanelShows == Reads(0) = shown[1] /\ Reads(1) = shown[2]

(* main.c:165: LED 9 is lit when the last pass found a running device, and  *)
(* only then, through errors and restarts.                                  *)
LED9 == 9 \in LED <=> looked = "running"

(* main.c:184: a change of the keys that the keyboard has to report comes   *)
(* to the game, unless it is overtaken or the keyboard leaves.  Nothing     *)
(* clears the register when the keyboard leaves.                            *)
KeysFollow ==
  \A r \in Report :
    (talks /\ plugged = "keyboard" /\ ~told /\ down = r)
      ~> (keycode = <<Byte(r, 1), Byte(r, 2)>> \/ ~talks \/ down # r)
=============================================================================
