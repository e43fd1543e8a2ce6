---------------------------- MODULE VgaController ----------------------------
(***************************************************************************)
(* VGA_controller.sv: the pixel and line counters that address the screen,  *)
(* and the two sync pulses.  vs is also frame_clk: its rising edge moves    *)
(* the snakes and bullets and steps ISDU, and the obstacle flags it uses    *)
(* are collected while the visible pixels are drawn, so where in the scan   *)
(* it rises matters to the whole game.                                      *)
(***************************************************************************)
EXTENDS Naturals

CONSTANTS
  HPixels, VLines,        \* last pixel of a line, last line: 799 and 524
  HVisible, VVisible,     \* visible pixels and lines: 640 and 480
  HSyncFirst, HSyncLast,  \* the horizontal pulse: 656 and 752
  VSync                   \* the vertical pulse: 490

ASSUME ScreenAssumption ==
  /\ {HPixels, VLines, HVisible, VVisible, HSyncFirst, HSyncLast, VSync} \subseteq Nat \ {0}
  /\ HVisible < HSyncFirst /\ HSyncFirst < HSyncLast /\ HSyncLast <= HPixels
  /\ VVisible < VSync /\ VSync < VLines

VARIABLES
  reset,    \* TRUE while KEY0 is down: it stops vga_clk
  hc, vc,   \* DrawX and DrawY
  hs, vs    \* the sync pulses, active low

(* History *)
VARIABLES
  synced,   \* vs has pulsed since the last reset
  drawn     \* visible pixels since the last edge of frame_clk

vars == <<reset, hc, vc, hs, vs, synced, drawn>>

Display == hc < HVisible /\ vc < VVisible

Init ==
  /\ reset \in BOOLEAN
  /\ hc = 0
  /\ vc = 0
  /\ hs = 0
  /\ vs = 0
  /\ synced = FALSE
  /\ drawn = 0

LineEnd == vc = VLines

(* Seeded fault: a line ends with its visible pixels, before the last one. *)
PixelEndEarly == hc = HVisible - 2
PixelEnd == hc = HPixels

InVSync == vc + 1 \in {VSync, VSync + 1}

(* Pixels that drawn counts: one more than the picture has. *)
MostDrawn == HVisible * VVisible + 1

InHSync == HSyncFirst <= hc + 1 /\ hc + 1 < HSyncLast

(* An edge of clkdiv.  hs and vs are registered: they show the pixel before. *)
Pixel ==
  /\ ~reset
  /\ IF PixelEnd
     THEN hc' = 0 /\ vc' = IF LineEnd THEN 0 ELSE vc + 1
     ELSE hc' = hc + 1 /\ UNCHANGED vc
  /\ hs' = IF InHSync THEN 0 ELSE 1
  /\ vs' = IF InVSync THEN 0 ELSE 1
  /\ synced' = (synced \/ InVSync)
  /\ drawn' = IF vs = 0 /\ vs' = 1 THEN (IF Display THEN 1 ELSE 0)
              ELSE IF Display /\ drawn < MostDrawn THEN drawn + 1 ELSE drawn
  /\ UNCHANGED reset

(* KEY0 clears the counters and holds both syncs low. *)
ResetDown ==
  /\ ~reset /\ reset' = TRUE
  /\ hc' = 0 /\ vc' = 0 /\ hs' = 0 /\ vs' = 0
  /\ synced' = FALSE
  /\ drawn' = 0

ResetUp ==
  /\ reset /\ reset' = FALSE
  /\ UNCHANGED <<hc, vc, hs, vs, synced, drawn>>

Next == Pixel \/ ResetDown \/ ResetUp

Spec == Init /\ [][Next]_vars /\ WF_vars(Pixel)

-----------------------------------------------------------------------------
FrameEdge == vs = 0 /\ vs' = 1

TypeOK ==
  /\ reset \in BOOLEAN
  /\ hc \in 0 .. HPixels
  /\ vc \in 0 .. VLines
  /\ hs \in {0, 1}
  /\ vs \in {0, 1}
  /\ synced \in BOOLEAN
  /\ drawn \in 0 .. HVisible * VVisible

(* Snakes and bullets never move while their pixels are being drawn: after  *)
(* the first edge that follows a reset, frame_clk rises below the picture.  *)
FrameEdgeInBlank == [][(FrameEdge /\ synced) => vc >= VVisible]_vars

(* Between two edges of frame_clk, every visible pixel is drawn exactly     *)
(* once: the obstacle flags and the collisions have seen the whole picture. *)
WholePicture ==
  [][(FrameEdge /\ synced) => drawn = HVisible * VVisible]_vars

(* The game keeps time: frame_clk ticks for ever once KEY0 is left alone.    *)
FramesForEver == <>[]~reset => []<>(vs = 0) /\ []<>(vs = 1)

(* The comment of VGA_controller.sv: the pulse is at lines 490-491.  One    *)
(* pixel of delay is granted to the register.                               *)
VSyncAtItsLines == (synced /\ vs = 0 /\ hc > 0) => vc \in {VSync, VSync + 1}
=============================================================================
