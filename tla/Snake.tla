-------------------------------- MODULE Snake --------------------------------
(***************************************************************************)
(* One snake among the obstacles.  snake.sv and snake2.sv move it at the   *)
(* edge of frame_clk, move_stateMachine.sv gives its heading on Clk, and   *)
(* colorBGD_example.sv looks, while the picture is drawn, for an obstacle  *)
(* on the side of the sprite the snake heads for.  A frame is drawn line   *)
(* by line: only those beside the sprite matter, and the keys may change   *)
(* between any two of them.                                                *)
(***************************************************************************)
EXTENDS Integers

CONSTANTS
  Ball_X_Max, Ball_Y_Max,         \* the last column and line of the screen
  Ball_X_Center, Ball_Y_Center,   \* where the snake starts
  Ball_Size,                      \* half the side of the sprite
  Word,                           \* positions are counted modulo this
  TopWidth,                       \* the columns above the sprite that are looked at
  Obstacles                       \* pixels, those not shown among them, that the ROM has as obstacles

ASSUME SnakeAssumption ==
  /\ Ball_Size \in Nat \ {0} /\ Ball_X_Max \in Nat /\ Ball_Y_Max \in Nat
  /\ Word \in Nat /\ Word > Ball_X_Max /\ Word > Ball_Y_Max /\ Word > 2 * Ball_Size
  /\ Ball_X_Center \in 0 .. Ball_X_Max /\ Ball_Y_Center \in 0 .. Ball_Y_Max
  /\ TopWidth \in {2 * Ball_Size, 2 * Ball_Size + 1}
  /\ Obstacles \subseteq (0 .. Word - 1) \X (0 .. Word - 1)

VARIABLES
  X, Y,              \* Ball_X_Pos, Ball_Y_Pos: the top left corner of the sprite
  XMotion, YMotion,
  key,               \* the direction key that counts: the second byte's, or else the first's
  motionFlag,        \* the heading
  OBFlag,
  line               \* the line to be drawn, counted from the sprite's first

(* History *)
VARIABLE steady      \* the heading and the place are those of the whole frame

snake == <<X, Y, XMotion, YMotion, key, motionFlag, OBFlag, line, steady>>

Direction == {"W", "A", "S", "D"}
Side == 2 * Ball_Size
Wrap(v) == v % Word

SnakeInit ==
  /\ X = Ball_X_Center /\ Y = Ball_Y_Center
  /\ XMotion = 0 /\ YMotion = 0
  /\ key = "none" /\ motionFlag = "W"
  /\ OBFlag = FALSE /\ line = -1 /\ steady = TRUE

-----------------------------------------------------------------------------
Obstacle(dx, dy) == <<Wrap(X + dx), Wrap(Y + dy)>> \in Obstacles

(* Seeded fault: the heading S looks at the sprite's own last line. *)
TouchesShort(l) ==
  CASE motionFlag = "W" -> l = -1 /\ \E d \in 0 .. TopWidth - 1 : Obstacle(d, l)
    [] motionFlag = "S" -> l = Side - 1 /\ \E d \in 0 .. Side - 1 : Obstacle(d, l)
    [] motionFlag = "A" -> l \in 0 .. Side - 1 /\ Obstacle(-1, l)
    [] motionFlag = "D" -> l \in 0 .. Side - 1 /\ Obstacle(Side, l)

(* An obstacle on line l, beside the side the snake heads for. *)
Touches(l) ==
  CASE motionFlag = "W" -> l = -1 /\ \E d \in 0 .. TopWidth - 1 : Obstacle(d, l)
    [] motionFlag = "S" -> l = Side /\ \E d \in 0 .. Side - 1 : Obstacle(d, l)
    [] motionFlag = "A" -> l \in 0 .. Side - 1 /\ Obstacle(-1, l)
    [] motionFlag = "D" -> l \in 0 .. Side - 1 /\ Obstacle(Side, l)

DrawLine ==
  /\ line <= Side /\ line' = line + 1
  /\ OBFlag' = (OBFlag \/ Touches(line))
  /\ UNCHANGED <<X, Y, XMotion, YMotion, key, motionFlag, steady>>

(* The heading stays when no direction is held. *)
KeyChange ==
  /\ key' \in (Direction \cup {"none"}) \ {key}
  /\ motionFlag' = IF key' = "none" THEN motionFlag ELSE key'
  /\ steady' = (steady /\ motionFlag' = motionFlag)
  /\ UNCHANGED <<X, Y, XMotion, YMotion, OBFlag, line>>

-----------------------------------------------------------------------------
Toward(d) == CASE d = "W" -> <<0, -1>> [] d = "A" -> <<-1, 0>>
               [] d = "S" -> <<0, 1>>  [] d = "D" -> <<1, 0>>

PushedBack == <<-Toward(motionFlag)[1], -Toward(motionFlag)[2]>>

(* The edges are tried in this order, and before the keys. *)
NewMotion ==
  IF Wrap(Y + Ball_Size) >= Ball_Y_Max THEN <<XMotion, -1>>
  ELSE IF Wrap(Y - Ball_Size) = 0 THEN <<XMotion, 1>>
  ELSE IF Wrap(X + Ball_Size) >= Ball_X_Max THEN <<-1, YMotion>>
  ELSE IF Wrap(X - Ball_Size) = 0 THEN <<1, YMotion>>
  ELSE IF key # "none" THEN Toward(key)
  ELSE <<XMotion, YMotion>>

(* The old motion moves the snake.  The flag is cleared at the first pixel. *)
MoveBall ==
  /\ line = Side + 1 /\ line' = -1
  /\ XMotion' = NewMotion[1] /\ YMotion' = NewMotion[2]
  /\ LET step == IF OBFlag THEN PushedBack ELSE <<XMotion, YMotion>>
     IN X' = Wrap(X + step[1]) /\ Y' = Wrap(Y + step[2])
  /\ OBFlag' = FALSE
  /\ steady' = TRUE
  /\ UNCHANGED <<key, motionFlag>>

ToCenter ==
  /\ X' = Ball_X_Center /\ Y' = Ball_Y_Center
  /\ XMotion' = 0 /\ YMotion' = 0

(* The end of a game: the flag of the place the snake has left stays. *)
EndGame ==
  /\ ToCenter
  /\ steady' = FALSE
  /\ UNCHANGED <<key, motionFlag, OBFlag, line>>

(* KEY0: the picture starts again, with an edge of frame_clk. *)
Reset ==
  /\ ToCenter
  /\ motionFlag' = IF key = "none" THEN "W" ELSE key
  /\ OBFlag' = FALSE /\ line' = Side + 1 /\ steady' = FALSE
  /\ UNCHANGED key

SnakeNext == DrawLine \/ KeyChange \/ MoveBall \/ EndGame \/ Reset

SnakeSpec == SnakeInit /\ [][SnakeNext]_snake

-----------------------------------------------------------------------------
SnakeTypeOK ==
  /\ X \in 0 .. Word - 1 /\ Y \in 0 .. Word - 1
  /\ XMotion \in -1 .. 1 /\ YMotion \in -1 .. 1
  /\ key \in Direction \cup {"none"} /\ motionFlag \in Direction
  /\ OBFlag \in BOOLEAN /\ line \in -1 .. Side + 1 /\ steady \in BOOLEAN

Clear == \A i, j \in 0 .. Side - 1 : ~Obstacle(i, j)

(* A snake that is clear of the obstacles, and that heads for the whole     *)
(* frame where it moves, does not enter one at the edge of frame_clk.       *)
NoBlindStep ==
  [][(MoveBall /\ steady /\ <<XMotion, YMotion>> = Toward(motionFlag)
      /\ ~OBFlag /\ Clear) => Clear']_snake

(* README.md:5 and the bounces of snake.sv: the snake stays within the arena. *)
StaysOnScreen == X + Side - 1 <= Ball_X_Max /\ Y + Side - 1 <= Ball_Y_Max
=============================================================================
