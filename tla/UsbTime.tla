------------------------------ MODULE UsbTime -------------------------------
(***************************************************************************)
(* The clock of the USB stack and the two loops that wait on it: SETTLE in *)
(* USB_Task, which leaves when the time is past its limit, and the wait of *)
(* XferDispatchPkt, which goes on while it is before its limit.            *)
(*                                                                         *)
(* Both compute milliseconds as (alt_nticks()*1000)/alt_ticks_per_second() *)
(* in 32 bits: the product wraps after 2^32 / 1000 ticks, some 71 minutes, *)
(* while the limit, a sum, does not.                                       *)
(***************************************************************************)
EXTENDS Integers

CONSTANTS Word,             \* 2^32
          Hz,               \* alt_ticks_per_second(), and the factor 1000
          SettleTime,       \* 200
          USB_XFER_TIMEOUT  \* 5000

(* The limits fit a word, so that their sum never wraps. *)
(* What the constants may be. *)
UsbTimeAssumption ==
  /\ Hz \in Nat \ {0} /\ SettleTime \in Nat \ {0} /\ USB_XFER_TIMEOUT \in Nat \ {0}
  /\ Word \in Nat /\ Word > (Word - 1) \div Hz + SettleTime + USB_XFER_TIMEOUT

VARIABLES
  nticks,    \* alt_nticks()
  wait,      \* which loop runs: none, settle, transfer
  limit,     \* its limit: usb_delay or timeout
  looked,    \* the loop has looked at the clock in this tick
  elapsed    \* history: ticks since the loop began, up to MostElapsed

vars == <<nticks, wait, limit, looked, elapsed>>

Now == ((nticks * Hz) % Word) \div Hz

LastNow == (Word - 1) \div Hz
InReach == limit < LastNow - 1     \* every lap of the clock comes past it
TimeOf(w) == IF w = "settle" THEN SettleTime ELSE USB_XFER_TIMEOUT
MostElapsed == SettleTime + USB_XFER_TIMEOUT + 2

Init == nticks \in 0 .. Word - 1 /\ wait = "none" /\ limit = 0 /\ looked = TRUE /\ elapsed = 0

(* Seeded fault: half the time is added. *)
LimitHalf(w) == (Now + TimeOf(w) \div 2) % Word
Limit(w) == (Now + TimeOf(w)) % Word

Begin(w) ==
  /\ wait = "none" /\ wait' = w
  /\ limit' = Limit(w)
  /\ looked' = FALSE /\ elapsed' = 0
  /\ UNCHANGED nticks

(* Seeded fault: the time is compared for equality. *)
OverAtLimit == IF wait = "settle" THEN Now = limit + 1 ELSE Now >= limit + 3
Over == IF wait = "settle" THEN Now > limit ELSE Now >= limit

Look ==
  /\ wait # "none" /\ ~looked
  /\ wait' = IF Over THEN "none" ELSE wait
  /\ looked' = TRUE
  /\ UNCHANGED <<nticks, limit, elapsed>>

(* The chip answers a transfer; a connection change ends a settle. *)
Answered == wait # "none" /\ wait' = "none" /\ UNCHANGED <<nticks, limit, looked, elapsed>>

(* alt_tick.  A loop is quicker than the timer. *)
Tick ==
  /\ wait = "none" \/ looked
  /\ nticks' = (nticks + 1) % Word
  /\ looked' = FALSE
  /\ elapsed' = IF elapsed < MostElapsed THEN elapsed + 1 ELSE elapsed
  /\ UNCHANGED <<wait, limit>>

Next == Begin("settle") \/ Begin("transfer") \/ Look \/ Answered \/ Tick

Spec == Init /\ [][Next]_vars /\ WF_vars(Look) /\ WF_vars(Tick)

-----------------------------------------------------------------------------
(* No wait is cut short: a loop that leaves because of the time has let its *)
(* whole time pass, on whatever side of the wrap it began.                  *)
NotEarly == [][(Look /\ wait' = "none") => elapsed >= TimeOf(wait)]_vars

(* A limit the clock can pass is passed at once: the loop outlasts its time *)
(* by a tick at most.                                                       *)
NotLate == (wait # "none" /\ InReach) => elapsed <= TimeOf(wait) + 1

(* Every wait ends whose limit the clock can pass before its product wraps. *)
Ends == wait # "none" ~> (wait = "none" \/ ~InReach)

(* transfer.c:277: "initial settle 200ms": the settle time ends.            *)
SettleEnds == wait = "settle" ~> wait # "settle"

(* project_config.h:17: "USB transfer timeout": a transfer is given up.     *)
TransferTimesOut == wait = "transfer" ~> wait # "transfer"
=============================================================================
