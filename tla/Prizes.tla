-------------------------------- MODULE Prizes --------------------------------
(***************************************************************************)
(* What a round offers besides the fight, as colorBGD_example.sv does it:  *)
(* the apple, whose place comes from two generators (VGA_Random_Coords)    *)
(* that software seeds, and the egg, which is shown for some seconds of a  *)
(* round (Second_Counter).  What a pixel shows is a free choice.           *)
(***************************************************************************)
EXTENDS Integers

CONSTANTS
  Bits, Tap,        \* of a generator: 10, and the bit it feeds back beside the last: 6
  AfterReset,            \* a generator after KEY0: 10'hF
  Every,            \* the edges of vga_clk from one coordinate to the next: 10
  Columns, Lines    \* where an apple may be: 600 and 400

Top == 2^Bits - 1

ASSUME PrizesAssumption ==
  /\ Bits \in Nat \ {0} /\ Tap \in 0 .. Bits - 1 /\ AfterReset \in 0 .. Top
  /\ Every \in Nat \ {0} /\ Columns \in 1 .. Top /\ Lines \in 1 .. Top

Axis == {"x", "y"}

VARIABLES
  seed,       \* bits 7 and 3 of randCord
  random,     \* of XCoord1 and of YCoord1, which share clock and reset, and so
  count,
  rnd,        \* random_done of both
  out         \* x_out and y_out: the middle of the apple

VARIABLES
  seconds,    \* of the egg's Second_Counter, and
  ended,      \* endGameS1 | endGameS2, which holds it at 0
  easterEggOn,
  show_me     \* the egg has been taken

apple == <<seed, random, count, rnd, out>>
egg == <<seconds, ended, easterEggOn, show_me>>

Both(n) == [a \in Axis |-> n]

(* The device powers up with every register at 0. *)
AppleInit ==
  seed = Both(0) /\ random = Both(0) /\ count = 0 /\ rnd = Both(0) /\ out = Both(0)
EggInit == seconds = 0 /\ ended = FALSE /\ easterEggOn = FALSE /\ show_me = FALSE

-----------------------------------------------------------------------------
Bit(r, n) == (r \div 2^n) % 2
random_next(r, s) == ((2 * r) % 2^Bits) + ((Bit(r, Bits - 1) + Bit(r, Tap) + s) % 2)

(* Seeded fault: a place beyond one of the two limits will do. *)
BothOutside == out["x"] >= Columns /\ out["y"] >= Lines
Outside == out["x"] >= Columns \/ out["y"] >= Lines

(* Clk has two edges for each of vga_clk: an apple that is outside has been *)
(* moved before the generators go on.                                      *)
Sampled == Outside => out = rnd

(* An edge of vga_clk. *)
RandomEdge ==
  /\ Sampled
  /\ random' = [a \in Axis |-> random_next(random[a], seed[a])]
  /\ count' = (count + 1) % Every
  /\ rnd' = IF count = Every - 1 THEN random ELSE rnd
  /\ UNCHANGED <<seed, out>>

(* LoadX and LoadY, which are one. *)
Load == out' = rnd /\ UNCHANGED <<seed, random, count, rnd>>

(* An edge of Clk. *)
LoadOutside == Outside /\ out # rnd /\ Load

(* An edge of Clk at the pixel in the middle of the apple, if it is drawn:  *)
(* the apple moves from under a wall or a snake, and from a coordinate that *)
(* the generators show.                                                    *)
LoadCovered ==
  /\ ~Outside
  /\ \E covered \in BOOLEAN : covered \/ \E a \in Axis : rnd[a] = out[a]
  /\ Load

(* setRandCord: main writes a new random number. *)
setRandCord == seed' \in [Axis -> {0, 1}] /\ UNCHANGED <<random, count, rnd, out>>

(* KEY0.  random_done keeps its value. *)
AppleReset ==
  /\ random' = Both(AfterReset) /\ count' = 0 /\ out' = Both(0)
  /\ UNCHANGED <<seed, rnd>>

AppleNext == RandomEdge \/ LoadOutside \/ LoadCovered \/ setRandCord \/ AppleReset

-----------------------------------------------------------------------------
EggShown == 25
EggGone == 28

(* What an edge of Clk makes of easterEggOn, at a pixel where a snake is on *)
(* the egg or at another.                                                  *)
EggFlag(taken) ==
  IF seconds = EggShown THEN TRUE
  ELSE IF taken \/ seconds = EggGone THEN FALSE
  ELSE easterEggOn

EggPixel ==
  /\ \E taken \in {FALSE, easterEggOn} :
       /\ easterEggOn' = EggFlag(taken)
       /\ show_me' = (show_me \/ taken)
  /\ UNCHANGED <<seconds, ended>>

(* Of the later seconds it only matters that they are over. *)
LaterSecond == EggGone + 1

(* A second is long enough for Clk to see it. *)
Second ==
  /\ ~ended /\ EggFlag(FALSE) = easterEggOn
  /\ seconds' = IF seconds = LaterSecond THEN LaterSecond ELSE seconds + 1
  /\ UNCHANGED <<ended, easterEggOn, show_me>>

(* An end screen comes, and goes. *)
RoundEnds == ~ended /\ ended' = TRUE /\ seconds' = 0 /\ UNCHANGED <<easterEggOn, show_me>>
RoundBegins == ended /\ ended' = FALSE /\ UNCHANGED <<seconds, easterEggOn, show_me>>

(* KEY0: the egg stays on. *)
EggReset ==
  /\ seconds' = 0 /\ show_me' = FALSE /\ ended' = FALSE
  /\ UNCHANGED easterEggOn

EggNext == EggPixel \/ Second \/ RoundEnds \/ RoundBegins \/ EggReset

-----------------------------------------------------------------------------
PrizesTypeOK ==
  /\ seed \in [Axis -> {0, 1}] /\ random \in [Axis -> 0 .. Top]
  /\ count \in 0 .. Every - 1
  /\ rnd \in [Axis -> 0 .. Top] /\ out \in [Axis -> 0 .. Top]
  /\ seconds \in 0 .. LaterSecond
  /\ ended \in BOOLEAN /\ easterEggOn \in BOOLEAN /\ show_me \in BOOLEAN

(* A generator of ones with seed 1 stays as it is; and two generators with  *)
(* different seeds that are opposite stay opposite.                        *)
Opposite(r) == r["x"] + r["y"] = Top
Stuck ==
  \/ \E a \in Axis : seed[a] = 1 /\ random[a] = Top
  \/ seed["x"] # seed["y"] /\ Opposite(random)

(* colorBGD_example.sv:691: opposite generators never show a place inside,  *)
(* because the two limits add up to no more than the range, and so an apple *)
(* that is outside stays outside until main changes a seed or KEY0 is used. *)
Away == seed["x"] # seed["y"] /\ Opposite(random) /\ Opposite(rnd) /\ Outside
StaysAway == [][(Away /\ seed' = seed /\ ~AppleReset) => Away']_apple
AppleSpec == AppleInit /\ [][AppleNext]_apple

(* When main leaves the seeds alone, as it does while no key changes, an    *)
(* apple moved outside is back soon, or its generators are stuck.  An egg   *)
(* is gone after its seconds once no round ends before them.               *)
AppleReturns ==
  <>[][seed' = seed]_apple =>
    []<>((out["x"] < Columns /\ out["y"] < Lines) \/ Stuck)
EggGoes == <>[][~RoundEnds /\ ~EggReset]_egg => <>[](~easterEggOn \/ ended)
PrizesInTime == AppleReturns /\ EggGoes
=============================================================================
