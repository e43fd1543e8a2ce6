------------------------------ MODULE MCPicture ------------------------------
(***************************************************************************)
(* The scan of the screen at its real size and, beside it, a snake and a   *)
(* bullet on screens of their own, small ones: part is the one that runs,  *)
(* the others stay where they begin.  As on the real screen, the wall      *)
(* round the snake's arena is wider than half a sprite and narrower than a *)
(* whole one, a block stands in the arena, and the columns that are not    *)
(* shown have the pixels of the next line.  The walls the bullet meets are *)
(* thin ones.                                                              *)
(***************************************************************************)
EXTENDS VgaController, Snake, Flight

VARIABLE part

Wall(x, y) == \/ x < 3 \/ x > 14 \/ y < 3 \/ y > 12
              \/ x \in 10 .. 11 /\ y \in 7 .. 9
Walls == {p \in (0 .. 22) \X (0 .. 15) :
            /\ p[2] + p[1] \div 18 < 16
            /\ Wall(p[1] % 18, p[2] + p[1] \div 18)}

Fences == {p \in (0 .. 9) \X (0 .. 8) :
             \/ p[1] \in {0, 9} \/ p[2] \in {0, 8}
             \/ p[1] = 6 /\ p[2] \in 3 .. 4}
Places == {<<3, 4>>, <<4, 4>>}

PictureInit ==
  /\ part \in {"scan", "snake", "bullet"}
  /\ Init /\ SnakeInit /\ FlightInit
  /\ part # "scan" => ~reset
  /\ part # "bullet" => head = <<3, 4>>

NextScan == part = "scan" /\ Next /\ UNCHANGED <<part, snake, flight>>
NextSnake == part = "snake" /\ SnakeNext /\ UNCHANGED <<part, vars, flight>>
NextFlight == part = "bullet" /\ FlightNext /\ UNCHANGED <<part, vars, snake>>
PictureNext == NextScan \/ NextSnake \/ NextFlight

PictureSpec == PictureInit /\ [][PictureNext]_<<part, vars, snake, flight>>
=============================================================================
