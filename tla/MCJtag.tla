------------------------------- MODULE MCJtag -------------------------------
(***************************************************************************)
(* The driver of the JTAG UART with a program that only writes and with    *)
(* one that only reads while the host types: each way has a buffer of its  *)
(* own, and the two together are beyond TLC.                               *)
(***************************************************************************)
EXTENDS JtagUart

VARIABLE reading

OneWay ==
  /\ UNCHANGED reading
  /\ IF reading THEN pc' \notin {"write", "close"} ELSE pc' # "read" /\ rxfifo' = <<>>

OneWayInit == reading \in BOOLEAN /\ Init
OneWayNext == Next /\ OneWay
SafeSpec == OneWayInit /\ [][OneWayNext]_<<reading, vars>>
LiveSpec == SafeSpec /\ Fairness

-----------------------------------------------------------------------------
(* A write or a close ends: the host takes the characters, or after some    *)
(* seconds without it the driver gives up; and a character that the host    *)
(* sends ends the read that waits for one.  The handler gives the processor *)
(* back, however fast the host types.                                       *)
CallsEnd ==
  /\ (pc # "idle" /\ (reading => rxfifo # <<>>)) ~> pc = "idle"
  /\ HandlerEnds
=============================================================================
