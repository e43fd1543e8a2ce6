---------------------------- MODULE PictureProofs ----------------------------
(***************************************************************************)
(* What the scan, the snake and the bullet promise for a screen, sprites   *)
(* and obstacles of any size.  VgaController.tla: where frame_clk rises in *)
(* the scan and what has been drawn by then; IInv gives vs and drawn as    *)
(* functions of the position in the scan.  Snake.tla and Flight.tla: a     *)
(* step along the heading that the whole picture was drawn with never      *)
(* enters an obstacle, and no bullet passes through one.                   *)
(***************************************************************************)
EXTENDS VgaController, Snake, Flight, TLAPS

(* The scan.                                                                *)
(* vs is registered: low from the second pixel of line VSync - 1 to the     *)
(* first of line VSync + 1.  At the very first pixel it still shows reset.  *)
Pulse ==
  \/ vc = VSync - 1 /\ hc > 0
  \/ vc = VSync
  \/ vc = VSync + 1 /\ hc = 0

AtStart == hc = 0 /\ vc = 0 /\ ~synced

PulseShown == vs = 0 <=> (AtStart \/ Pulse)

(* The first scan after a reset has not come to the pulse. *)
Unsynced == ~synced => (vc < VSync - 1 \/ (vc = VSync - 1 /\ hc = 0))

(* Visible pixels of the scan before the one at hc, vc. *)
Before ==
  IF vc < VVisible
  THEN HVisible * vc + (IF hc < HVisible THEN hc ELSE HVisible)
  ELSE HVisible * VVisible

Counted == drawn = IF vc > VSync /\ ~Pulse THEN 0 ELSE Before

Position == hc \in 0 .. HPixels /\ vc \in 0 .. VLines

Bits == reset \in BOOLEAN /\ hs \in {0, 1} /\ vs \in {0, 1} /\ synced \in BOOLEAN

IInv == Position /\ Bits /\ PulseShown /\ Unsynced /\ Counted

-----------------------------------------------------------------------------
LEMMA Screen ==
  /\ HPixels \in Nat /\ VLines \in Nat /\ HVisible \in Nat /\ VVisible \in Nat /\ VSync \in Nat
  /\ 0 < HVisible /\ HVisible < HPixels
  /\ 0 < VVisible /\ VVisible < VSync /\ VSync < VLines
BY ScreenAssumption

(* Multiplication, as far as the count needs it. *)
LEMMA NextLine ==
  ASSUME NEW w \in Nat, NEW n \in Nat
  PROVE  w * (n + 1) = w * n + w /\ w * n \in Nat /\ w * 0 = 0
OBVIOUS

LEMMA Product ==
  ASSUME NEW w \in Nat, NEW n \in Nat, NEW m \in Nat, n < m
  PROVE  w * n + w <= w * m
<1>1. PICK k \in Nat : m = (n + 1) + k
  <2>1. m - (n + 1) \in Nat /\ m = (n + 1) + (m - (n + 1))
    OBVIOUS
  <2> QED
    BY <2>1
<1>2. w * ((n + 1) + k) = w * n + w + w * k /\ w * k \in Nat
  OBVIOUS
<1>3. w * n \in Nat
  OBVIOUS
<1> QED
  BY <1>1, <1>2, <1>3

-----------------------------------------------------------------------------
LEMMA InitIInv == Init => IInv
<1> SUFFICES ASSUME Init PROVE IInv
  OBVIOUS
<1>1. Before = 0
  BY Screen, NextLine DEF Init, Before
<1>2. Position /\ Bits
  <2>1. Position
    BY Screen DEF Init, Position
  <2> QED
    BY <2>1 DEF Init, Bits
<1>3. ~(vc > VSync) /\ AtStart
  BY Screen DEF Init, AtStart
<1> QED
  BY <1>1, <1>2, <1>3, Screen DEF Init, IInv, PulseShown, Unsynced, Counted

LEMMA PixelPosition ==
  ASSUME Position, Pixel
  PROVE  /\ Position'
         /\ \/ hc < HPixels /\ hc' = hc + 1 /\ vc' = vc
            \/ hc = HPixels /\ hc' = 0 /\ vc < VLines /\ vc' = vc + 1
            \/ hc = HPixels /\ hc' = 0 /\ vc = VLines /\ vc' = 0
BY Screen DEF Position, Pixel, PixelEnd, LineEnd

LEMMA BeforeBound ==
  ASSUME Position
  PROVE  HVisible * VVisible \in Nat /\ Before \in 0 .. HVisible * VVisible
<1>1. CASE vc < VVisible
  <2>1. vc \in Nat /\ hc \in Nat
    BY DEF Position
  <2>2. HVisible * vc + HVisible <= HVisible * VVisible
    BY <1>1, <2>1, Screen, Product
  <2>3. HVisible * vc \in Nat /\ HVisible * VVisible \in Nat
    BY <2>1, Screen, NextLine
  <2> QED
    BY <1>1, <2>1, <2>2, <2>3, Screen DEF Before
<1>2. CASE ~(vc < VVisible)
  BY <1>2, Screen, NextLine DEF Before
<1> QED
  BY <1>1, <1>2

(* The visible pixels before the next position: one more if this one is.    *)
LEMMA BeforeStep ==
  ASSUME Position, Pixel, vc' # 0 \/ vc = 0
  PROVE  Before' = IF Display THEN Before + 1 ELSE Before
<1> USE Screen DEF Position, Before, Display
<1>1. CASE hc < HPixels /\ hc' = hc + 1 /\ vc' = vc
  <2>1. HVisible * vc \in Nat
    OBVIOUS
  <2> QED
    BY <1>1, <2>1
<1>2. CASE hc = HPixels /\ hc' = 0 /\ vc < VLines /\ vc' = vc + 1
  <2>1. HVisible * (vc + 1) = HVisible * vc + HVisible /\ HVisible * vc \in Nat
    BY NextLine
  <2>2. CASE vc + 1 < VVisible
    BY <1>2, <2>1, <2>2
  <2>3. CASE vc + 1 = VVisible
    BY <1>2, <2>1, <2>3
  <2>4. CASE vc >= VVisible
    BY <1>2, <2>4
  <2> QED
    BY <2>2, <2>3, <2>4
<1> QED
  BY <1>1, <1>2, PixelPosition

LEMMA PixelIInv ==
  ASSUME IInv, Pixel
  PROVE  IInv'
<1> USE Screen DEF IInv
<1>1. Position'
  BY PixelPosition
<1>2. Bits'
  BY DEF Bits, Pixel
<1>3. InVSync <=> vc \in {VSync - 1, VSync}
  BY DEF InVSync, Position
<1>4. synced' <=> (synced \/ InVSync)
  BY DEF Pixel
<1>5. Unsynced' /\ (InVSync <=> (AtStart \/ Pulse)')
  <2> USE DEF Unsynced, AtStart, Pulse, Position, Bits
  <2>1. CASE hc < HPixels /\ hc' = hc + 1 /\ vc' = vc
    <3>1. Unsynced'
      BY <1>3, <1>4, <2>1
    <3>2. ~AtStart' /\ (Pulse' <=> vc \in {VSync - 1, VSync})
      BY <2>1
    <3> QED
      BY <1>3, <3>1, <3>2
  <2>2. CASE hc = HPixels /\ hc' = 0 /\ vc < VLines /\ vc' = vc + 1
    BY <1>3, <1>4, <2>2
  <2>3. CASE hc = HPixels /\ hc' = 0 /\ vc = VLines /\ vc' = 0
    BY <1>3, <1>4, <2>3
  <2> QED
    BY <2>1, <2>2, <2>3, PixelPosition
<1>6. PulseShown'
  BY <1>5 DEF PulseShown, Pixel
<1>7. Counted'
  <2>1. CASE vs = 0 /\ vs' = 1 /\ AtStart
    <3>1. Before' = 1
      BY <2>1, BeforeStep, NextLine DEF Before, Display, AtStart, Pixel, PixelEnd
    <3> QED
      BY <2>1, <3>1 DEF Counted, Display, AtStart, Pixel, PixelEnd
  <2>2. CASE vs = 0 /\ vs' = 1 /\ ~AtStart
    <3>1. vc = VSync + 1 /\ hc = 0
      BY <1>3, <2>2 DEF PulseShown, Pulse, Pixel, Position
    <3>2. vc' = vc /\ hc' = 1
      BY <3>1, PixelPosition
    <3> QED
      BY <2>2, <3>1, <3>2 DEF Counted, Pulse, Pixel, Display
  <2>3. CASE ~(vs = 0 /\ vs' = 1) /\ vc > VSync /\ ~Pulse
    BY <2>3, PixelPosition, NextLine DEF Counted, Pulse, Pixel, Display, Before, Position
  <2>4. CASE ~(vs = 0 /\ vs' = 1) /\ ~(vc > VSync /\ ~Pulse)
    <3>1. vc <= VSync
      BY <1>3, <2>4 DEF PulseShown, Pulse, Pixel, Position, Bits
    <3>2. vc' # 0 \/ vc = 0
      BY <3>1, PixelPosition DEF Position
    <3>3. ~(vc > VSync /\ ~Pulse)'
      BY <3>1, PixelPosition DEF Pulse, Position
    <3>4. drawn = Before /\ drawn < MostDrawn
      <4>1. drawn = Before
        BY <2>4 DEF Counted
      <4>2. HVisible * VVisible \in Nat /\ Before \in 0 .. HVisible * VVisible
        BY BeforeBound
      <4> HIDE DEF Before
      <4> QED
        BY <4>1, <4>2 DEF MostDrawn
    <3> QED
      BY <2>4, <3>2, <3>3, <3>4, BeforeStep DEF Counted, Pixel
  <2> QED
    BY <2>1, <2>2, <2>3, <2>4
<1> QED
  BY <1>1, <1>2, <1>5, <1>6, <1>7

LEMMA NextIInv == IInv /\ [Next]_vars => IInv'
<1> SUFFICES ASSUME IInv, [Next]_vars PROVE IInv'
  OBVIOUS
<1>1. CASE Pixel
  BY <1>1, PixelIInv
<1>2. CASE ResetDown
  <2>1. Before' = 0
    BY <1>2, Screen, NextLine DEF ResetDown, Before
  <2>2. Position' /\ Bits'
    <3>1. Position'
      BY <1>2, Screen DEF ResetDown, Position
    <3> QED
      BY <1>2, <3>1 DEF ResetDown, IInv, Bits
  <2>3. (~(vc > VSync) /\ AtStart)'
    BY <1>2, Screen DEF ResetDown, AtStart
  <2> QED
    BY <1>2, <2>1, <2>2, <2>3, Screen DEF ResetDown, IInv, PulseShown, Unsynced, Counted
<1> USE DEF IInv, Position, Bits, PulseShown, AtStart, Pulse, Unsynced, Counted, Before
<1>3. CASE ResetUp
  BY <1>3 DEF ResetUp
<1>4. CASE UNCHANGED vars
  BY <1>4 DEF vars
<1> QED
  BY <1>1, <1>2, <1>3, <1>4 DEF Next

THEOREM Invariance == Spec => []IInv
BY InitIInv, NextIInv, PTL DEF Spec

-----------------------------------------------------------------------------
(* The counters stay on the screen and its blanking, and no more pixels are *)
(* drawn between two frame edges than the picture has.                      *)
THEOREM TypeCorrect == Spec => []TypeOK
<1>1. IInv => TypeOK
  <2> SUFFICES ASSUME IInv PROVE TypeOK
    OBVIOUS
  <2>1. HVisible * VVisible \in Nat /\ Before \in 0 .. HVisible * VVisible
    BY BeforeBound DEF IInv
  <2> QED
    BY <2>1 DEF IInv, Position, Bits, Counted, TypeOK
<1> QED
  BY <1>1, Invariance, PTL

(* frame_clk rises below the picture. *)
THEOREM EdgeInBlank == Spec => FrameEdgeInBlank
<1>1. IInv /\ [Next]_vars => [(FrameEdge /\ synced) => vc >= VVisible]_vars
  BY Screen DEF IInv, PulseShown, AtStart, Pulse, Position, FrameEdge
<1> QED
  BY <1>1, Invariance, PTL DEF Spec, FrameEdgeInBlank

(* Every visible pixel is drawn exactly once between two edges. *)
THEOREM PictureWhole == Spec => WholePicture
<1>1. IInv /\ [Next]_vars => [(FrameEdge /\ synced) => drawn = HVisible * VVisible]_vars
  <2> SUFFICES ASSUME IInv, FrameEdge, synced PROVE drawn = HVisible * VVisible
    OBVIOUS
  <2>1. Pulse
    BY DEF IInv, PulseShown, AtStart, FrameEdge
  <2>2. vc >= VVisible
    BY <2>1, Screen DEF IInv, Position, Pulse
  <2> QED
    BY <2>1, <2>2, Screen DEF IInv, Position, Counted, Before
<1> QED
  BY <1>1, Invariance, PTL DEF Spec, WholePicture

-----------------------------------------------------------------------------
(* The snake and the bullet.                                                *)
(* The lines drawn so far have shown a steady, unflagged snake nothing.     *)
Seen == (steady /\ ~OBFlag) => \A l \in -1 .. line - 1 : ~Touches(l)

SnakeInv == SnakeTypeOK /\ Seen

-----------------------------------------------------------------------------
(* Positions come round once at most. *)
LEMMA WrapInside == ASSUME NEW W \in Nat \ {0}, NEW v \in 0 .. W - 1 PROVE v % W = v
OBVIOUS
LEMMA WrapAbove == ASSUME NEW W \in Nat \ {0}, NEW v \in W .. 2 * W - 1 PROVE v % W = v - W
OBVIOUS
LEMMA WrapBelow == ASSUME NEW W \in Nat \ {0}, NEW v \in -W .. -1 PROVE v % W = v + W
OBVIOUS

LEMMA WrapType ==
  ASSUME SnakeAssumption, NEW v \in Int
  PROVE  Wrap(v) \in 0 .. Word - 1
BY DEF SnakeAssumption, Wrap

(* A pixel of a sprite that has moved by one is where it was, moved by one. *)
LEMMA WrapTwice ==
  ASSUME SnakeAssumption, NEW v \in 0 .. Word - 1, NEW m \in -1 .. 1, NEW i \in 0 .. Side - 1
  PROVE  Wrap(Wrap(v + m) + i) = Wrap(v + (m + i))
<1> DEFINE W == Word
<1>0. W \in Nat \ {0} /\ 2 * Ball_Size < W /\ Ball_Size \in Nat \ {0} /\ Side = 2 * Ball_Size
  BY DEF SnakeAssumption, Side
<1>1. i \in 0 .. W - 1 /\ v \in 0 .. W - 1 BY <1>0
<1> HIDE DEF W
<1>2. CASE v + m \in 0 .. W - 1
  <2>1. (v + m) % W = v + m BY <1>0, <1>2, WrapInside
  <2> QED BY <2>1, <1>1, <1>0 DEF Wrap, W
<1>3. CASE v + m = -1
  <2>1. (v + m) % W = v + m + W BY <1>0, <1>3, WrapBelow
  <2>2. v = 0 /\ m = -1 BY <1>1, <1>3
  <2>3. CASE i = 0
    <3>1. (v + (m + i)) % W = W - 1 BY <2>3, <2>2, <2>1, <1>0
    <3>2. (W - 1) % W = W - 1 BY <1>0, WrapInside
    <3> QED BY <3>1, <3>2, <2>1, <2>2, <2>3, <1>0 DEF Wrap, W
  <2>4. CASE i # 0
    <3>1. (v + (m + i)) = i - 1 /\ i - 1 \in 0 .. W - 1 BY <2>2, <2>4, <1>1, <1>0
    <3>2. (i - 1) % W = i - 1 BY <3>1, <1>0, WrapInside
    <3>3. ((W - 1) + i) % W = (W - 1) + i - W
      <4>1. (W - 1) + i \in W .. 2 * W - 1 BY <2>4, <1>1, <1>0
      <4> QED BY <4>1, <1>0, WrapAbove
    <3> QED BY <3>1, <3>2, <3>3, <2>1, <2>2, <1>0, <1>1 DEF Wrap, W
  <2> QED BY <2>3, <2>4
<1>4. CASE v + m = W
  <2>1. (v + m) % W = 0
    <3>1. v + m \in W .. 2 * W - 1 BY <1>4, <1>0
    <3> QED BY <3>1, <1>4, <1>0, WrapAbove
  <2>2. i % W = i BY <1>0, <1>1, WrapInside
  <2>3. (W + i) % W = i
    <3>1. W + i \in W .. 2 * W - 1 BY <1>1, <1>0
    <3> QED BY <3>1, <1>1, <1>0, WrapAbove
  <2>4. v + (m + i) = W + i BY <1>4, <1>1, <1>0
  <2> QED BY <2>1, <2>2, <2>3, <2>4, <1>1 DEF Wrap, W
<1> QED BY <1>1, <1>2, <1>3, <1>4, <1>0

-----------------------------------------------------------------------------
LEMMA InitInv == ASSUME SnakeAssumption PROVE SnakeInit => SnakeInv
<1> SUFFICES ASSUME SnakeInit PROVE SnakeInv OBVIOUS
<1>1. SnakeTypeOK
  <2>1. X \in 0 .. Word - 1 /\ Y \in 0 .. Word - 1 BY DEF SnakeInit, SnakeAssumption
  <2>2. line \in -1 .. Side + 1 BY DEF SnakeInit, Side, SnakeAssumption
  <2>3. XMotion \in -1 .. 1 /\ YMotion \in -1 .. 1 BY DEF SnakeInit
  <2>4. key \in Direction \cup {"none"} /\ motionFlag \in Direction BY DEF SnakeInit, Direction
  <2>5. OBFlag \in BOOLEAN /\ steady \in BOOLEAN BY DEF SnakeInit
  <2> QED BY <2>1, <2>2, <2>3, <2>4, <2>5 DEF SnakeTypeOK
<1>2. Seen
  <2>1. -1 .. line - 1 = {} BY DEF SnakeInit
  <2> QED BY <2>1 DEF Seen
<1> QED BY <1>1, <1>2 DEF SnakeInv

LEMMA TypeStep == ASSUME SnakeAssumption PROVE SnakeTypeOK /\ [SnakeNext]_snake => SnakeTypeOK'
<1> SUFFICES ASSUME SnakeTypeOK, [SnakeNext]_snake PROVE SnakeTypeOK' OBVIOUS
<1> USE DEF SnakeTypeOK
<1>0. Side \in Nat /\ Side + 1 \in Nat BY DEF Side, SnakeAssumption
<1>1. CASE DrawLine
  <2>1. line' \in -1 .. Side + 1 BY <1>1, <1>0 DEF DrawLine
  <2>2. OBFlag' \in BOOLEAN BY <1>1 DEF DrawLine, Touches
  <2> QED BY <2>1, <2>2, <1>1 DEF DrawLine
<1>2. CASE KeyChange BY <1>2 DEF KeyChange, Direction
<1>3. CASE MoveBall
  <2>1. NewMotion \in (-1 .. 1) \X (-1 .. 1) BY DEF NewMotion, Toward, Direction
  <2>2. X' \in 0 .. Word - 1 /\ Y' \in 0 .. Word - 1
    <3>1. PushedBack \in (-1 .. 1) \X (-1 .. 1) BY DEF PushedBack, Toward, Direction
    <3>2. <<XMotion, YMotion>> \in (-1 .. 1) \X (-1 .. 1) OBVIOUS
    <3>3. PICK step \in (-1 .. 1) \X (-1 .. 1) : X' = Wrap(X + step[1]) /\ Y' = Wrap(Y + step[2])
      BY <1>3, <3>1, <3>2 DEF MoveBall
    <3>4. X + step[1] \in Int /\ Y + step[2] \in Int BY <3>3
    <3> QED BY <3>3, <3>4, WrapType
  <2>3. XMotion' \in -1 .. 1 /\ YMotion' \in -1 .. 1 BY <1>3, <2>1 DEF MoveBall
  <2>4. line' \in -1 .. Side + 1 BY <1>3, <1>0 DEF MoveBall
  <2>5. OBFlag' \in BOOLEAN /\ steady' \in BOOLEAN BY <1>3 DEF MoveBall
  <2>6. key' \in Direction \cup {"none"} /\ motionFlag' \in Direction BY <1>3 DEF MoveBall
  <2> QED BY <2>2, <2>3, <2>4, <2>5, <2>6
<1>4. CASE EndGame
  <2>1. X' \in 0 .. Word - 1 /\ Y' \in 0 .. Word - 1 BY <1>4 DEF EndGame, ToCenter, SnakeAssumption
  <2>2. XMotion' \in -1 .. 1 /\ YMotion' \in -1 .. 1 BY <1>4 DEF EndGame, ToCenter
  <2>3. OBFlag' \in BOOLEAN /\ steady' \in BOOLEAN BY <1>4 DEF EndGame
  <2>4. line' \in -1 .. Side + 1 BY <1>4 DEF EndGame
  <2>5. key' \in Direction \cup {"none"} /\ motionFlag' \in Direction BY <1>4 DEF EndGame
  <2> QED BY <2>1, <2>2, <2>3, <2>4, <2>5
<1>5. CASE Reset
  <2>1. X' \in 0 .. Word - 1 /\ Y' \in 0 .. Word - 1 BY <1>5 DEF Reset, ToCenter, SnakeAssumption
  <2>2. line' \in -1 .. Side + 1 BY <1>5, <1>0 DEF Reset
  <2>3. motionFlag' \in Direction BY <1>5 DEF Reset, Direction
  <2>4. XMotion' \in -1 .. 1 /\ YMotion' \in -1 .. 1 BY <1>5 DEF Reset, ToCenter
  <2>5. OBFlag' \in BOOLEAN /\ steady' \in BOOLEAN BY <1>5 DEF Reset
  <2>6. key' \in Direction \cup {"none"} BY <1>5 DEF Reset
  <2> QED BY <2>1, <2>2, <2>3, <2>4, <2>5, <2>6
<1>6. CASE UNCHANGED snake BY <1>6 DEF snake
<1> QED BY <1>1, <1>2, <1>3, <1>4, <1>5, <1>6 DEF SnakeNext

LEMMA SeenStep == ASSUME SnakeAssumption PROVE SnakeInv /\ [SnakeNext]_snake => Seen'
<1> SUFFICES ASSUME SnakeTypeOK, Seen, [SnakeNext]_snake, steady', ~OBFlag',
                    NEW l \in -1 .. line' - 1
             PROVE  ~Touches(l)'
  BY DEF SnakeInv, Seen
<1>1. CASE DrawLine
  <2>1. steady /\ ~OBFlag /\ ~Touches(line) BY <1>1 DEF DrawLine, SnakeTypeOK
  <2>2. l \in -1 .. line BY <1>1 DEF DrawLine, SnakeTypeOK
  <2>3. ~Touches(l) BY <2>1, <2>2 DEF Seen, SnakeTypeOK
  <2> QED BY <2>3, <1>1 DEF DrawLine, Touches, Obstacle
<1>2. CASE KeyChange
  <2>1. steady /\ motionFlag' = motionFlag BY <1>2 DEF KeyChange, SnakeTypeOK
  <2>2. ~Touches(l) BY <2>1, <1>2 DEF KeyChange, Seen
  <2> QED BY <2>1, <2>2, <1>2 DEF KeyChange, Touches, Obstacle
<1>3. CASE MoveBall BY <1>3 DEF MoveBall
<1>4. CASE EndGame BY <1>4 DEF EndGame
<1>5. CASE Reset BY <1>5 DEF Reset
<1>6. CASE UNCHANGED snake
  <2>1. ~Touches(l) BY <1>6 DEF Seen, snake
  <2> QED BY <2>1, <1>6 DEF snake, Touches, Obstacle
<1> QED BY <1>1, <1>2, <1>3, <1>4, <1>5, <1>6 DEF SnakeNext

(* The lines of every picture have been looked at before its frame ends.    *)
THEOREM PictureSeen == SnakeSpec => []SnakeInv
<1>1. SnakeInv /\ [SnakeNext]_snake => SnakeInv'
  BY SnakeAssumption, TypeStep, SeenStep DEF SnakeInv
<1>2. SnakeInit => SnakeInv BY SnakeAssumption, InitInv
<1> QED BY <1>1, <1>2, PTL DEF SnakeSpec

-----------------------------------------------------------------------------
(* The pixels of the sprite after a step are among those it had and those   *)
(* on the side it heads for.                                                *)
LEMMA StepIsClear ==
  ASSUME SnakeAssumption, SnakeInv, MoveBall, steady, ~OBFlag, Clear,
         <<XMotion, YMotion>> = Toward(motionFlag)
  PROVE  Clear'
<1>0. /\ X \in 0 .. Word - 1 /\ Y \in 0 .. Word - 1 /\ motionFlag \in Direction
      /\ Side \in Nat \ {0} /\ TopWidth \in Nat /\ Side <= TopWidth
  BY DEF SnakeInv, SnakeTypeOK, Side, SnakeAssumption
<1> SUFFICES ASSUME NEW i \in 0 .. Side - 1, NEW j \in 0 .. Side - 1
             PROVE  ~Obstacle(i, j)'
  <2>1. Side' = Side BY DEF Side
  <2> QED BY <2>1 DEF Clear
<1>1. \A l \in -1 .. Side : ~Touches(l)
  BY <1>0 DEF SnakeInv, Seen, MoveBall
<1>2. X' = Wrap(X + XMotion) /\ Y' = Wrap(Y + YMotion) BY DEF MoveBall
<1>3. XMotion \in -1 .. 1 /\ YMotion \in -1 .. 1 BY DEF SnakeInv, SnakeTypeOK
<1>4. Obstacle(i, j)' <=> Obstacle(XMotion + i, YMotion + j)
  <2>1. Wrap(X' + i) = Wrap(X + (XMotion + i)) BY <1>0, <1>2, <1>3, WrapTwice
  <2>2. Wrap(Y' + j) = Wrap(Y + (YMotion + j)) BY <1>0, <1>2, <1>3, WrapTwice
  <2>3. Obstacle(i, j)' <=> <<Wrap(X' + i), Wrap(Y' + j)>> \in Obstacles BY DEF Obstacle, Wrap
  <2> QED BY <2>1, <2>2, <2>3 DEF Obstacle
<1>5. CASE motionFlag = "W"
  <2>1. XMotion = 0 /\ YMotion = -1 BY <1>5 DEF Toward
  <2>2. CASE j = 0
    <3>1. ~Touches(-1) BY <1>0, <1>1
    <3>2. i \in 0 .. TopWidth - 1 BY <1>0
    <3>3. ~Obstacle(i, -1) BY <3>1, <3>2, <1>5 DEF Touches
    <3> QED BY <3>3, <2>1, <2>2, <1>4, <1>0
  <2>3. CASE j # 0
    <3>1. j - 1 \in 0 .. Side - 1 BY <2>3, <1>0
    <3>2. ~Obstacle(i, j - 1) BY <3>1 DEF Clear
    <3>3. XMotion + i = i /\ YMotion + j = j - 1 BY <2>1, <1>0
    <3> QED BY <3>2, <3>3, <1>4
  <2> QED BY <2>2, <2>3
<1>6. CASE motionFlag = "S"
  <2>1. XMotion = 0 /\ YMotion = 1 BY <1>6 DEF Toward
  <2>2. CASE j = Side - 1
    <3>1. ~Touches(Side) BY <1>0, <1>1
    <3>2. ~Obstacle(i, Side) BY <3>1, <1>6 DEF Touches
    <3>3. XMotion + i = i /\ YMotion + j = Side BY <2>1, <2>2, <1>0
    <3> QED BY <3>2, <3>3, <1>4
  <2>3. CASE j # Side - 1
    <3>1. j + 1 \in 0 .. Side - 1 BY <2>3, <1>0
    <3>2. ~Obstacle(i, j + 1) BY <3>1 DEF Clear
    <3>3. XMotion + i = i /\ YMotion + j = j + 1 BY <2>1, <1>0
    <3> QED BY <3>2, <3>3, <1>4
  <2> QED BY <2>2, <2>3
<1>7. CASE motionFlag = "A"
  <2>1. XMotion = -1 /\ YMotion = 0 BY <1>7 DEF Toward
  <2>2. CASE i = 0
    <3>1. ~Touches(j) BY <1>0, <1>1
    <3>2. ~Obstacle(-1, j) BY <3>1, <1>7, <1>0 DEF Touches
    <3>3. XMotion + i = -1 /\ YMotion + j = j BY <2>1, <2>2, <1>0
    <3> QED BY <3>2, <3>3, <1>4
  <2>3. CASE i # 0
    <3>1. i - 1 \in 0 .. Side - 1 BY <2>3, <1>0
    <3>2. ~Obstacle(i - 1, j) BY <3>1 DEF Clear
    <3>3. XMotion + i = i - 1 /\ YMotion + j = j BY <2>1, <1>0
    <3> QED BY <3>2, <3>3, <1>4
  <2> QED BY <2>2, <2>3
<1>8. CASE motionFlag = "D"
  <2>1. XMotion = 1 /\ YMotion = 0 BY <1>8 DEF Toward
  <2>2. CASE i = Side - 1
    <3>1. ~Touches(j) BY <1>0, <1>1
    <3>2. ~Obstacle(Side, j) BY <3>1, <1>8, <1>0 DEF Touches
    <3>3. XMotion + i = Side /\ YMotion + j = j BY <2>1, <2>2, <1>0
    <3> QED BY <3>2, <3>3, <1>4
  <2>3. CASE i # Side - 1
    <3>1. i + 1 \in 0 .. Side - 1 BY <2>3, <1>0
    <3>2. ~Obstacle(i + 1, j) BY <3>1 DEF Clear
    <3>3. XMotion + i = i + 1 /\ YMotion + j = j BY <2>1, <1>0
    <3> QED BY <3>2, <3>3, <1>4
  <2> QED BY <2>2, <2>3
<1> QED BY <1>0, <1>5, <1>6, <1>7, <1>8 DEF Direction

(* Whatever the obstacles, the size of the snake and the word its position  *)
(* is kept in: no step along a heading held for the whole frame enters one. *)
THEOREM NeverBlind == SnakeSpec => NoBlindStep
<1>1. SnakeInv /\ [SnakeNext]_snake
      => [(MoveBall /\ steady /\ <<XMotion, YMotion>> = Toward(motionFlag)
           /\ ~OBFlag /\ Clear) => Clear']_snake
  BY SnakeAssumption, StepIsClear
<1> QED BY PictureSeen, <1>1, PTL DEF SnakeSpec, NoBlindStep

-----------------------------------------------------------------------------
(* The rows drawn so far have shown a bullet in the air no wall.            *)
RowsClear == whole /\ State = "bulletMoving" => \A l \in -VenomS .. row - 1 : ~MeetsWall(l)

FlightInv ==
  /\ row \in -VenomS .. VenomS + 1 /\ bulletDir \in {"W", "A", "S", "D"}
  /\ Ball_Pos \in Int \X Int /\ head \in Heads
  /\ Ball_Motion \in Motions /\ came \in Motions
  /\ RowsClear

(* What a bullet moves by lies inside its disc, ahead and behind.           *)
LEMMA InsideDisc ==
  ASSUME FlightAssumption, NEW a \in -VenomStep .. VenomStep
  PROVE  a \in -VenomS .. VenomS /\ Covers(a, 0) /\ Covers(0, a) /\ Covers(-a, 0) /\ Covers(0, -a)
<1>1. VenomS \in Nat /\ a \in Int /\ a <= VenomS /\ -a <= VenomS BY DEF FlightAssumption
<1>2. a * a <= VenomS * VenomS
  <2>1. CASE a >= 0 BY <1>1, <2>1
  <2>2. CASE a < 0
    <3>1. a * a = (-a) * (-a) BY <1>1
    <3>2. -a \in Nat /\ -a <= VenomS BY <1>1, <2>2
    <3> QED BY <1>1, <3>1, <3>2
  <2> QED BY <1>1, <2>1, <2>2
<1>3. (-a) * (-a) = a * a BY <1>1
<1> QED BY <1>1, <1>2, <1>3 DEF Covers

(* A row that shows no wall shows none in the column of the middle, and the *)
(* middle row none at all within reach.                                     *)
LEMMA ClearAround ==
  ASSUME FlightAssumption, FlightInv, BulletEdge, whole, State = "bulletMoving",
         NEW a \in -VenomStep .. VenomStep
  PROVE  <<Ball_Pos[1] + a, Ball_Pos[2]>> \notin Stops /\ <<Ball_Pos[1], Ball_Pos[2] + a>> \notin Stops
<1>1. \A l \in -VenomS .. VenomS : ~MeetsWall(l) BY DEF FlightInv, RowsClear, BulletEdge, FlightAssumption
<1>2. 0 \in -VenomS .. VenomS /\ a \in -VenomS .. VenomS /\ Covers(a, 0) /\ Covers(0, a)
  BY InsideDisc DEF FlightAssumption
<1>3. Ball_Pos[1] + 0 = Ball_Pos[1] /\ Ball_Pos[2] + 0 = Ball_Pos[2] BY DEF FlightInv
<1>4. ~MeetsWall(0) /\ ~MeetsWall(a) BY <1>1, <1>2
<1> QED BY <1>2, <1>3, <1>4 DEF MeetsWall

(* A motion goes along one axis, by a step. *)
LEMMA OneAxis ==
  ASSUME FlightAssumption, NEW m \in Motions
  PROVE  /\ m[1] \in -VenomStep .. VenomStep /\ m[2] \in -VenomStep .. VenomStep
         /\ m[1] = 0 \/ m[2] = 0
         /\ Span(m[1]) \subseteq -VenomStep .. VenomStep /\ Span(m[2]) \subseteq -VenomStep .. VenomStep
         /\ Span(0) = {0}
<1>1. m[1] \in {0, VenomStep, -VenomStep} /\ m[2] \in {0, VenomStep, -VenomStep} /\ (m[1] = 0 \/ m[2] = 0)
  BY DEF Motions, Flown, FlightAssumption
<1> QED BY <1>1 DEF Span, FlightAssumption

(* The invariant holds at power-up and in every step. *)
LEMMA PowerUpClear == ASSUME FlightAssumption, FlightInit PROVE FlightInv
BY DEF FlightAssumption, FlightInit, FlightInv, RowsClear, Motions

LEMMA StepClear == ASSUME FlightAssumption, FlightInv, [FlightNext]_flight PROVE FlightInv'
<1> USE FlightAssumption DEF FlightAssumption, FlightInv
<1>1. CASE Launch BY <1>1 DEF Launch, RowsClear
<1>2. CASE Trigger BY <1>2 DEF Trigger, RowsClear, MeetsWall
<1>3. CASE DrawRow
  <2>1. row' \in -VenomS .. VenomS + 1 /\ UNCHANGED <<Ball_Motion, came, Ball_Pos, whole>>
    BY <1>3 DEF DrawRow
  <2>2. RowsClear'
    <3> SUFFICES ASSUME whole', State' = "bulletMoving", NEW l \in -VenomS .. row' - 1
                 PROVE  ~MeetsWall(l)'
      BY DEF RowsClear
    <3>1. State = "bulletMoving" /\ whole /\ ~MeetsWall(row) /\ row' = row + 1 BY <1>3 DEF DrawRow
    <3>2. ~MeetsWall(l) BY <3>1 DEF RowsClear
    <3> QED BY <2>1, <3>2 DEF MeetsWall
  <2> QED BY <1>3, <2>1, <2>2 DEF DrawRow
<1>4. CASE BulletEdge
  <2>1. row' = -VenomS /\ RowsClear' BY <1>4 DEF BulletEdge, RowsClear
  <2>2. Ball_Motion' \in Motions /\ came' \in Motions BY <1>4 DEF BulletEdge, Motions
  <2>3. Ball_Pos' \in Int \X Int
    <3>1. CASE State = "bulletMoving"
      <4>1. Ball_Pos[1] + Ball_Motion[1] \in Int /\ Ball_Pos[2] + Ball_Motion[2] \in Int
        BY DEF Motions, Flown
      <4>2. (Ball_Pos[1] + Ball_Motion[1]) % VenomWord \in Int
            /\ (Ball_Pos[2] + Ball_Motion[2]) % VenomWord \in Int
        BY <4>1
      <4> QED BY <1>4, <3>1, <4>2 DEF BulletEdge
    <3>2. CASE State # "bulletMoving" BY <1>4, <3>2 DEF BulletEdge
    <3> QED BY <3>1, <3>2
  <2> QED BY <1>4, <2>1, <2>2, <2>3 DEF BulletEdge
<1>5. CASE FlightReset BY <1>5 DEF FlightReset, RowsClear, Motions
<1>6. CASE UNCHANGED flight BY <1>6 DEF flight, RowsClear, MeetsWall
<1> QED BY <1>1, <1>2, <1>3, <1>4, <1>5, <1>6 DEF FlightNext

(* No bullet tunnels, however thin the wall, for every radius, step and arena. *)
THEOREM NeverTunnels == FlightSpec => NoTunnel
<1>1. FlightInit => FlightInv BY PowerUpClear, FlightAssumption
<1>2. FlightInv /\ [FlightNext]_flight => FlightInv' BY StepClear, FlightAssumption
<1>3. FlightInv /\ [FlightNext]_flight =>
        [(BulletEdge /\ whole /\ State = "bulletMoving") => (Ahead \cup Behind) \cap Stops = {}]_flight
  <2> SUFFICES ASSUME FlightInv, BulletEdge, whole, State = "bulletMoving"
               PROVE  (Ahead \cup Behind) \cap Stops = {}
    OBVIOUS
  <2>1. Ball_Motion \in Motions /\ came \in Motions /\ Ball_Pos \in Int \X Int BY DEF FlightInv
  <2>2. ASSUME NEW p \in Ahead PROVE p \notin Stops
    <3>1. PICK x \in Span(Ball_Motion[1]), y \in Span(Ball_Motion[2]) :
            p = <<Ball_Pos[1] + x, Ball_Pos[2] + y>>
      BY <2>2 DEF Ahead
    <3>2. x \in -VenomStep .. VenomStep /\ y \in -VenomStep .. VenomStep /\ (x = 0 \/ y = 0)
      BY <2>1, OneAxis, FlightAssumption
    <3>3. CASE x = 0
      <4>1. p = <<Ball_Pos[1], Ball_Pos[2] + y>> BY <2>1, <3>1, <3>3
      <4> QED BY <3>2, <4>1, ClearAround, FlightAssumption
    <3>4. CASE y = 0
      <4>1. p = <<Ball_Pos[1] + x, Ball_Pos[2]>> BY <2>1, <3>1, <3>4
      <4> QED BY <3>2, <4>1, ClearAround, FlightAssumption
    <3> QED BY <3>2, <3>3, <3>4
  <2>3. ASSUME NEW p \in Behind PROVE p \notin Stops
    <3>1. PICK x \in Span(came[1]), y \in Span(came[2]) :
            p = <<Ball_Pos[1] - x, Ball_Pos[2] - y>>
      BY <2>3 DEF Behind
    <3>2. x \in -VenomStep .. VenomStep /\ y \in -VenomStep .. VenomStep /\ (x = 0 \/ y = 0)
      BY <2>1, OneAxis, FlightAssumption
    <3>3. -x \in -VenomStep .. VenomStep /\ -y \in -VenomStep .. VenomStep
      BY <3>2, FlightAssumption DEF FlightAssumption
    <3>4. CASE x = 0
      <4>1. p = <<Ball_Pos[1], Ball_Pos[2] + (-y)>> BY <2>1, <3>1, <3>2, <3>4
      <4> QED BY <3>3, <4>1, ClearAround, FlightAssumption
    <3>5. CASE y = 0
      <4>1. p = <<Ball_Pos[1] + (-x), Ball_Pos[2]>> BY <2>1, <3>1, <3>2, <3>5
      <4> QED BY <3>3, <4>1, ClearAround, FlightAssumption
    <3> QED BY <3>2, <3>4, <3>5
  <2> QED BY <2>2, <2>3
<1> QED BY <1>1, <1>2, <1>3, PTL DEF FlightSpec, NoTunnel
=============================================================================
