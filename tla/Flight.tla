-------------------------------- MODULE Flight --------------------------------
(***************************************************************************)
(* The flight of one bullet: venom.sv moves it at the edge of frame_clk,   *)
(* its venom_stateMachine launches it and ends its flight on vga_clk, at a *)
(* pixel where the disc of the bullet meets a wall or the other snake.     *)
(* As in Snake a frame is drawn row by row, the rows of the disc only; the *)
(* fire key, the magazine and the heading may change between any two.      *)
(***************************************************************************)
EXTENDS Integers

CONSTANTS
  VenomS,      \* the radius of the disc
  VenomStep,   \* the pixels a bullet moves in a frame
  VenomWord,   \* positions are counted modulo this
  Stops,       \* the pixels of the walls
  Meets,       \* whether a pixel may show the other snake: TRUE, FALSE or both
  Heads        \* where the middle of the shooter may be

ASSUME FlightAssumption ==
  /\ VenomStep \in Nat /\ VenomS \in Nat /\ VenomStep <= VenomS
  /\ VenomWord \in Nat \ {0} /\ Meets \subseteq BOOLEAN
  /\ Heads \subseteq (0 .. VenomWord - 1) \X (0 .. VenomWord - 1)

VARIABLES
  State,       \* of venom_stateMachine: Halted and bulletFired last a pixel and are passed
  bulletDir,
  Ball_Pos, Ball_Motion,   \* <<x, y>> of the middle of the disc
  pulled,      \* the fire key is down and the magazine shows this slot
  head,        \* the middle of the shooter
  row          \* of the disc, to be drawn next

(* History *)
VARIABLES
  whole,       \* the bullet has been in the air since before this frame
  came,        \* by what the last edge moved it
  shooter      \* where the head was at the last edge

flight == <<State, bulletDir, Ball_Pos, Ball_Motion, pulled, head, row, whole, came, shooter>>

(* The device powers up with every register at 0. *)
FlightInit ==
  /\ State = "Idle" /\ bulletDir = "W"
  /\ Ball_Pos = <<0, 0>> /\ Ball_Motion = <<0, 0>>
  /\ pulled = FALSE /\ head \in Heads /\ row = -VenomS
  /\ whole = FALSE /\ came = <<0, 0>> /\ shooter = <<0, 0>>

-----------------------------------------------------------------------------
(* Two pixels take a bullet whose trigger is pulled into the air: nothing   *)
(* else is as fast.                                                        *)
Launching == State = "Idle" /\ pulled

(* The direction is the heading of that moment. *)
Launch ==
  /\ Launching
  /\ State' = "bulletMoving"
  /\ bulletDir' \in {"W", "A", "S", "D"}
  /\ whole' = FALSE
  /\ UNCHANGED <<Ball_Pos, Ball_Motion, pulled, head, row, came, shooter>>

Trigger ==
  /\ ~Launching
  /\ pulled' = ~pulled
  /\ UNCHANGED <<State, bulletDir, Ball_Pos, Ball_Motion, head, row, whole, came, shooter>>

(* Seeded fault: the radius is not squared. *)
CoversSmall(x, y) == x * x + y * y <= VenomS
(* venom1_on, as seen from the middle of the disc. *)
Covers(x, y) == x * x + y * y <= VenomS * VenomS

MeetsWall(l) ==
  \E x \in -VenomS .. VenomS : Covers(x, l) /\ <<Ball_Pos[1] + x, Ball_Pos[2] + l>> \in Stops

(* A row of the disc; it may meet the other snake as well.  A bullet that   *)
(* ends and is launched again in the same row does so here and in Launch.   *)
DrawRow ==
  /\ ~Launching
  /\ row <= VenomS /\ row' = row + 1
  /\ \E meetsSnake \in Meets :
       State' = IF State = "bulletMoving" /\ (meetsSnake \/ MeetsWall(row)) THEN "Idle" ELSE State
  /\ UNCHANGED <<bulletDir, Ball_Pos, Ball_Motion, pulled, head, whole, came, shooter>>

-----------------------------------------------------------------------------
Flown(d) == CASE d = "W" -> <<0, -VenomStep>> [] d = "A" -> <<-VenomStep, 0>>
              [] d = "S" -> <<0, VenomStep>>  [] d = "D" -> <<VenomStep, 0>>

(* The old motion moves the bullet: in the first frame of a flight that of  *)
(* the last one.  A bullet that is not in the air follows the head.         *)
BulletEdge ==
  /\ ~Launching
  /\ row = VenomS + 1 /\ row' = -VenomS
  /\ IF State = "bulletMoving"
     THEN /\ Ball_Pos' = <<(Ball_Pos[1] + Ball_Motion[1]) % VenomWord,
                           (Ball_Pos[2] + Ball_Motion[2]) % VenomWord>>
          /\ Ball_Motion' = Flown(bulletDir)
          /\ came' = Ball_Motion
     ELSE /\ Ball_Pos' = head
          /\ came' = <<0, 0>>
          /\ UNCHANGED Ball_Motion
  /\ whole' = (State = "bulletMoving")
  /\ head' \in Heads /\ shooter' = head
  /\ UNCHANGED <<State, bulletDir, pulled>>

(* KEY0: the bullet is at the head, which is at the centre of the screen,   *)
(* and the picture starts again, with an edge of frame_clk.                *)
FlightReset ==
  /\ State' = "Idle"
  /\ head' \in Heads /\ Ball_Pos' = head' /\ shooter' = head'
  /\ Ball_Motion' = <<0, 0>> /\ came' = <<0, 0>>
  /\ row' = VenomS + 1 /\ whole' = FALSE
  /\ UNCHANGED <<bulletDir, pulled>>

FlightNext == Launch \/ Trigger \/ DrawRow \/ BulletEdge \/ FlightReset

FlightSpec == FlightInit /\ [][FlightNext]_flight

-----------------------------------------------------------------------------
Motions == {<<0, 0>>} \cup {Flown(d) : d \in {"W", "A", "S", "D"}}

FlightTypeOK ==
  /\ State \in {"Idle", "bulletMoving"} /\ bulletDir \in {"W", "A", "S", "D"}
  /\ Ball_Pos \in (0 .. VenomWord - 1) \X (0 .. VenomWord - 1)
  /\ Ball_Motion \in Motions /\ came \in Motions
  /\ pulled \in BOOLEAN /\ whole \in BOOLEAN
  /\ head \in Heads /\ shooter \in Heads \cup {<<0, 0>>}
  /\ row \in -VenomS .. VenomS + 1

(* The pixels from one position to the next. *)
Span(m) == IF m < 0 THEN m .. 0 ELSE 0 .. m
Ahead == {<<Ball_Pos[1] + x, Ball_Pos[2] + y>> : x \in Span(Ball_Motion[1]), y \in Span(Ball_Motion[2])}
Behind == {<<Ball_Pos[1] - x, Ball_Pos[2] - y>> : x \in Span(came[1]), y \in Span(came[2])}

(* No bullet tunnels: one that flies on at an edge and was in the air       *)
(* before the frame has met no wall on its way from the edge before, and    *)
(* meets none on its way to the next, however thin the wall and whatever    *)
(* way the bullet before it was shot.                                      *)
NoTunnel == [][(BulletEdge /\ whole /\ State = "bulletMoving") => (Ahead \cup Behind) \cap Stops = {}]_flight

(* README.md:5: venom shoots out of the snake's head. *)
ShotFromHead == [][Launch => Ball_Pos = shooter]_flight
=============================================================================
