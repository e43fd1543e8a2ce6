-------------------------------- MODULE Round --------------------------------
(***************************************************************************)
(* ISDU.sv, the machine that takes the game from the menu through a round,  *)
(* the dying animation and the winner's screen back to the menu, with the   *)
(* wiring of colorBGD_example.sv: it reads the hearts of both snakes and    *)
(* its end screens reset them.  ISDU moves on frame_clk; hearts are lost    *)
(* between frames, as Hearts.tla allows.                                    *)
(***************************************************************************)
EXTENDS Naturals

CONSTANT SecondFrames   \* frames cntr counts before counter moves: 60

ASSUME SecondFramesAssumption == SecondFrames \in Nat \ {0}

Player == {1, 2}

VARIABLES
  isdu,       \* State of ISDU
  cntr,       \* frames, and
  counter,    \* seconds, since cntr_rst or since they last wrapped
  hearts,     \* healthCount of each snake
  enter,      \* TRUE while keycode holds key 88, in either byte
  reset       \* TRUE while KEY0 is down

(* History *)
VARIABLES
  keyUp,      \* a frame has sampled key 88 up since the last end screen
  pictured    \* frames the last picture of the animation has been up

vars == <<isdu, cntr, counter, hearts, enter, reset, keyUp, pictured>>

-----------------------------------------------------------------------------
(* The pictures of the animation of snake 2 dying, and of snake 1.          *)
Dying2 == {"V1", "V2", "V3", "V4", "V5", "V3_1", "V4_1", "V6", "V7"}
Dying1 == {"V11", "V21", "V31", "V41", "V51", "V3_11", "V4_11", "V61", "V71"}
EndScreens == {"Snake1wins", "Snake2wins"}
States == {"Halted", "MainMenu", "Play_M1", "Wait_state1"} \cup Dying1 \cup Dying2 \cup EndScreens

(* The pictures that are followed by the next one after a single frame.     *)
AfterPicture ==
  [V1 |-> "V2", V2 |-> "V3", V3 |-> "V4", V4 |-> "V5", V5 |-> "V3_1", V3_1 |-> "V4_1",
   V4_1 |-> "V6", V6 |-> "V7",
   V11 |-> "V21", V21 |-> "V31", V31 |-> "V41", V41 |-> "V51", V51 |-> "V3_11",
   V3_11 |-> "V4_11", V4_11 |-> "V61", V61 |-> "V71"]

(* The states that raise cntr_rst. *)
Clears == {"V6", "V61"}

Restored == [p \in Player |-> 3]

(* endGameS1 | endGameS2, wired to the asynchronous reset of the hearts. *)
EndGame(s) == s \in EndScreens

(* player1wins and player2wins *)
Wins(p) == hearts[3 - p] = 0

Init ==
  /\ isdu = "Halted"
  /\ cntr = 0
  /\ counter = 0
  /\ hearts = Restored
  /\ enter = FALSE
  /\ reset \in BOOLEAN
  /\ keyUp = TRUE
  /\ pictured = 0

-----------------------------------------------------------------------------
(* counter is only ever compared with 1. *)
MaxSeconds == 2
(* Frames of the last picture that pictured counts. *)
MaxPictured == SecondFrames + 1

SecondPassed == cntr + 1 = SecondFrames

(* cntr_rst is asynchronous and up for the whole frame of V6 or V61: the    *)
(* edges that enter and leave it both find the counters at 0.               *)
CountFrame ==
  IF isdu \in Clears \/ isdu' \in Clears
  THEN cntr' = 0 /\ counter' = 0
  ELSE IF SecondPassed
       THEN cntr' = 0 /\ counter' = IF counter < MaxSeconds THEN counter + 1 ELSE counter
       ELSE cntr' = cntr + 1 /\ UNCHANGED counter

(* What every edge of frame_clk does beside moving ISDU. *)
Frame ==
  /\ ~reset
  /\ CountFrame
  /\ hearts' = IF EndGame(isdu') THEN Restored ELSE hearts
  /\ pictured' = IF isdu \in {"V7", "V71"} /\ isdu' = isdu
                 THEN (IF pictured < MaxPictured THEN pictured + 1 ELSE pictured)
                 ELSE 0
  /\ keyUp' = (~enter \/ (keyUp /\ isdu \notin EndScreens))
  /\ UNCHANGED <<enter, reset>>

PowerOn == isdu = "Halted" /\ isdu' = "MainMenu" /\ Frame

Menu ==
  /\ isdu = "MainMenu"
  /\ isdu' = IF enter THEN "Play_M1" ELSE "MainMenu"
  /\ Frame

(* Seeded fault: the two wins are tested in the other order. *)
VerdictPlayer2First ==
  IF Wins(2) THEN "V11" ELSE IF Wins(1) THEN "V1" ELSE "Play_M1"
Verdict ==
  IF Wins(1) THEN "V1" ELSE IF Wins(2) THEN "V11" ELSE "Play_M1"

Play ==
  /\ isdu = "Play_M1"
  /\ isdu' = Verdict
  /\ Frame

Animate ==
  /\ isdu \in DOMAIN AfterPicture
  /\ isdu' = AfterPicture[isdu]
  /\ Frame

(* Seeded fault: the last picture waits for the wrong second. *)
SecondOverLate == counter = MaxSeconds + 1
SecondOver == counter = 1

LastPicture ==
  /\ isdu \in {"V7", "V71"}
  /\ isdu' = IF ~SecondOver THEN isdu ELSE IF isdu = "V7" THEN "Snake1wins" ELSE "Snake2wins"
  /\ Frame

(* Seeded fault: the end screen goes to the menu with the key still down. *)
DismissedToMenu == "MainMenu"
Dismissed == "Wait_state1"

EndScreen ==
  /\ isdu \in EndScreens
  /\ isdu' = IF enter THEN Dismissed ELSE isdu
  /\ Frame

AwaitRelease ==
  /\ isdu = "Wait_state1"
  /\ isdu' = IF enter THEN "Wait_state1" ELSE "MainMenu"
  /\ Frame

FrameEdge ==
  PowerOn \/ Menu \/ Play \/ Animate \/ LastPicture \/ EndScreen \/ AwaitRelease

-----------------------------------------------------------------------------
(* Between frames: a snake loses a heart (health_stateMachine.sv) ...       *)
Strike(p) ==
  /\ ~reset /\ ~EndGame(isdu)
  /\ hearts[p] > 0
  /\ hearts' = [hearts EXCEPT ![p] = @ - 1]
  /\ UNCHANGED <<isdu, cntr, counter, enter, reset, keyUp, pictured>>

(* ... key 88 goes down or up ... *)
KeyChange ==
  /\ enter' = ~enter
  /\ UNCHANGED <<isdu, cntr, counter, hearts, reset, keyUp, pictured>>

(* ... and KEY0.  VS stops while it is down, and rises when it comes up.    *)
ResetDown ==
  /\ ~reset /\ reset' = TRUE
  /\ isdu' = "Halted"
  /\ cntr' = 0
  /\ counter' = 0
  /\ hearts' = Restored
  /\ keyUp' = TRUE
  /\ pictured' = 0
  /\ UNCHANGED enter

ResetUp ==
  /\ reset /\ reset' = FALSE
  /\ UNCHANGED <<isdu, cntr, counter, hearts, enter, keyUp, pictured>>

Next == FrameEdge \/ (\E p \in Player : Strike(p)) \/ KeyChange \/ ResetDown \/ ResetUp

(* The display keeps drawing; nobody has to press a key. *)
Spec == Init /\ [][Next]_vars /\ WF_vars(FrameEdge)

-----------------------------------------------------------------------------
TypeOK ==
  /\ isdu \in States
  /\ cntr \in 0 .. (SecondFrames - 1)
  /\ counter \in 0 .. MaxSeconds
  /\ hearts \in [Player -> 0 .. 3]
  /\ enter \in BOOLEAN
  /\ reset \in BOOLEAN
  /\ keyUp \in BOOLEAN
  /\ pictured \in 0 .. SecondFrames

(* The rounds are decided as Match.tla promises: once, for a snake whose    *)
(* rival is dead, with player 1 ahead when both are, and the winner cannot  *)
(* change between the verdict and the end screen.                           *)
Phase(s) ==
  CASE s \in {"Halted", "MainMenu", "Wait_state1"} -> "menu"
    [] s = "Play_M1"                               -> "play"
    [] s \in Dying1 \cup Dying2                    -> "dying"
    [] s \in EndScreens                            -> "shown"

Winner(s) ==
  CASE s \in Dying2 \cup {"Snake1wins"} -> 1
    [] s \in Dying1 \cup {"Snake2wins"} -> 2
    [] OTHER                            -> 0

TheMatch == INSTANCE Match WITH phase <- Phase(isdu), winner <- Winner(isdu)
ImplementsMatch == TheMatch!Spec

(* What Duel.tla implements, seen from here: the hearts of each snake, and  *)
(* play wherever neither an end screen nor KEY0 holds them reset.           *)
Playing == ~reset /\ ~EndGame(isdu)
Display1 == INSTANCE Hearts WITH hearts <- hearts[1], playing <- Playing
Display2 == INSTANCE Hearts WITH hearts <- hearts[2], playing <- Playing

(* The last picture of a death stays up for one second and one frame,      *)
(* whatever the free-running counters held when the snake died.             *)
LastPictureStays ==
  [][(isdu \in {"V7", "V71"} /\ isdu' \in EndScreens) => pictured = SecondFrames]_vars

(* The press that dismisses an end screen never starts the next round.      *)
NoDoubleEnter ==
  [][(isdu = "MainMenu" /\ isdu' = "Play_M1") => keyUp]_vars

(* A snake that dies in a round gets the other one its end screen. *)
DeathIsShown ==
  (isdu = "Play_M1" /\ \E p \in Player : hearts[p] = 0) ~> (isdu \in EndScreens \/ reset)

-----------------------------------------------------------------------------
(* The inductive invariant of RoundProofs.tla. *)

(* The picture before the last one finds the counters cleared ... *)
Cleared == isdu \in Clears => cntr = 0 /\ counter = 0

(* ... so that the last picture counts one second from its first frame.     *)
SecondMeasured ==
  IF isdu \in {"V7", "V71"}
  THEN \/ counter = 0 /\ cntr = pictured /\ pictured < SecondFrames
       \/ counter = 1 /\ cntr = 0 /\ pictured = SecondFrames
  ELSE pictured = 0

(* The end screens hold the hearts reset. *)
HeartsBack == EndGame(isdu) => hearts = Restored

(* Only the end screens and the wait for the key owe a release.             *)
Owes == isdu \notin EndScreens \cup {"Wait_state1"} => keyUp

IInv == TypeOK /\ Cleared /\ SecondMeasured /\ HeartsBack /\ Owes
=============================================================================
