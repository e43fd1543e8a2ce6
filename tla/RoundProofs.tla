----------------------------- MODULE RoundProofs -----------------------------
(***************************************************************************)
(* The safety properties of Round, for a second of any number of frames.   *)
(* IInv says what the counters hold while the last picture is up, that the *)
(* end screens hold the hearts reset, and which states owe a release of    *)
(* the key.  At the end, the apple beside the round (Prizes.tla).          *)
(***************************************************************************)
EXTENDS Round, Prizes, TLAPS

USE SecondFramesAssumption

(* The animation goes forward, never changes sides, and reaches its last   *)
(* picture only from the one that clears the counters.                     *)
LEMMA Animation ==
  ASSUME isdu \in DOMAIN AfterPicture
  PROVE  /\ isdu \in Dying1 => AfterPicture[isdu] \in Dying1
         /\ isdu \in Dying2 => AfterPicture[isdu] \in Dying2
         /\ isdu \in Dying1 \cup Dying2
         /\ isdu \notin {"V7", "V71"}
         /\ AfterPicture[isdu] \in {"V7", "V71"} => isdu \in Clears
<1>1. DOMAIN AfterPicture = (Dying1 \cup Dying2) \ {"V7", "V71"}
  BY DEF AfterPicture, Dying1, Dying2
<1>2. isdu \in (Dying1 \cup Dying2) \ {"V7", "V71"}
  BY <1>1
<1> QED
  BY <1>2 DEF AfterPicture, Dying1, Dying2, Clears

(* Where the edges of frame_clk take ISDU. *)
LEMMA Steps ==
  ASSUME FrameEdge, isdu \in States
  PROVE  /\ Frame
         /\ isdu' \in States
         /\ isdu' \in {"V7", "V71"} => isdu \in Clears \/ isdu' = isdu
         /\ isdu \in {"V7", "V71"} => isdu' = isdu \/ (counter = 1 /\ isdu' \in EndScreens)
         /\ isdu' = isdu /\ isdu \in {"V7", "V71"} => counter # 1
         /\ isdu \in EndScreens => isdu' \in EndScreens \cup {"Wait_state1"}
         /\ isdu' = "Wait_state1" => isdu \in EndScreens \cup {"Wait_state1"}
         /\ isdu = "Wait_state1" /\ isdu' # "Wait_state1" => ~enter
<1> USE DEF States, Dying1, Dying2, EndScreens, Clears
<1>1. CASE PowerOn
  BY <1>1 DEF PowerOn
<1>2. CASE Menu
  BY <1>2 DEF Menu
<1>3. CASE Play
  BY <1>3 DEF Play, Verdict
<1>4. CASE Animate
  BY <1>4, Animation DEF Animate
<1>5. CASE LastPicture
  BY <1>5 DEF LastPicture, SecondOver
<1>6. CASE EndScreen
  BY <1>6 DEF EndScreen, Dismissed
<1>7. CASE AwaitRelease
  BY <1>7 DEF AwaitRelease
<1> QED
  BY <1>1, <1>2, <1>3, <1>4, <1>5, <1>6, <1>7 DEF FrameEdge

-----------------------------------------------------------------------------
LEMMA InitIInv == Init => IInv
<1> SUFFICES ASSUME Init PROVE IInv
  OBVIOUS
<1>1. TypeOK
  <2>1. hearts \in [Player -> 0 .. 3]
    BY DEF Init, Restored
  <2>2. /\ isdu \in States
        /\ cntr \in 0 .. (SecondFrames - 1)
        /\ counter \in 0 .. MaxSeconds
        /\ pictured \in 0 .. SecondFrames
    BY DEF Init, States, MaxSeconds
  <2> QED
    BY <2>1, <2>2 DEF Init, TypeOK
<1>2. Cleared /\ SecondMeasured /\ HeartsBack /\ Owes
  BY DEF Init, Cleared, SecondMeasured, HeartsBack, Owes, Clears, EndGame, EndScreens
<1> QED
  BY <1>1, <1>2 DEF IInv

LEMMA FrameIInv ==
  ASSUME IInv, FrameEdge
  PROVE  IInv'
<1> USE DEF IInv
<1>1. Frame /\ isdu' \in States
  BY Steps DEF TypeOK
<1>2. Cleared'
  BY <1>1 DEF Frame, CountFrame, Cleared, Clears
<1>3. SecondMeasured'
  <2>1. CASE isdu' \in {"V7", "V71"} /\ isdu' = isdu
    <3>1. counter = 0 /\ cntr = pictured /\ pictured < SecondFrames /\ isdu \notin Clears
      BY <2>1, Steps DEF TypeOK, SecondMeasured, Clears
    <3>2. pictured' = pictured + 1
      BY <1>1, <2>1, <3>1 DEF Frame, MaxPictured, TypeOK
    <3>3. CASE SecondPassed
      BY <1>1, <2>1, <3>1, <3>2, <3>3
         DEF Frame, CountFrame, SecondPassed, SecondMeasured, TypeOK, MaxSeconds
    <3>4. CASE ~SecondPassed
      BY <1>1, <2>1, <3>1, <3>2, <3>4
         DEF Frame, CountFrame, SecondPassed, SecondMeasured, TypeOK
    <3> QED
      BY <3>3, <3>4
  <2>2. CASE isdu' \in {"V7", "V71"} /\ isdu' # isdu
    <3>1. isdu \in Clears
      BY <2>2, Steps DEF TypeOK
    <3> QED
      BY <1>1, <2>2, <3>1 DEF Frame, CountFrame, SecondMeasured
  <2>3. CASE isdu' \notin {"V7", "V71"}
    BY <1>1, <2>3 DEF Frame, SecondMeasured
  <2> QED
    BY <2>1, <2>2, <2>3
<1>4. HeartsBack'
  BY <1>1 DEF Frame, HeartsBack, EndGame, Restored
<1>5. Owes'
  BY <1>1, Steps DEF Frame, Owes, TypeOK, EndScreens
<1>6. TypeOK'
  <2>1. cntr' \in 0 .. (SecondFrames - 1) /\ counter' \in 0 .. MaxSeconds
    BY <1>1 DEF Frame, CountFrame, SecondPassed, TypeOK, MaxSeconds
  <2>2. pictured' \in 0 .. SecondFrames
    <3>1. pictured' = 0 \/ pictured' = cntr' \/ pictured' = SecondFrames
      BY <1>3 DEF SecondMeasured
    <3> QED
      BY <2>1, <3>1
  <2>3. hearts' \in [Player -> 0 .. 3]
    BY <1>1 DEF Frame, TypeOK, Restored
  <2>4. enter' \in BOOLEAN /\ reset' \in BOOLEAN /\ keyUp' \in BOOLEAN
    BY <1>1 DEF Frame, TypeOK
  <2> QED
    BY <1>1, <2>1, <2>2, <2>3, <2>4 DEF TypeOK
<1> QED
  BY <1>2, <1>3, <1>4, <1>5, <1>6

LEMMA NextIInv == IInv /\ [Next]_vars => IInv'
<1> SUFFICES ASSUME IInv, [Next]_vars PROVE IInv'
  OBVIOUS
<1> USE DEF IInv, TypeOK, Cleared, SecondMeasured, HeartsBack, Owes
<1>1. CASE FrameEdge
  BY <1>1, FrameIInv
<1>2. ASSUME NEW p \in Player, Strike(p) PROVE IInv'
  <2>1. hearts' \in [Player -> 0 .. 3]
    BY <1>2 DEF Strike
  <2> QED
    BY <1>2, <2>1 DEF Strike
<1>3. CASE KeyChange
  BY <1>3 DEF KeyChange
<1>4. CASE ResetDown
  BY <1>4 DEF ResetDown, States, Clears, Restored, EndGame, EndScreens, MaxSeconds
<1>5. CASE ResetUp
  BY <1>5 DEF ResetUp
<1>6. CASE UNCHANGED vars
  BY <1>6 DEF vars
<1> QED
  BY <1>1, <1>2, <1>3, <1>4, <1>5, <1>6 DEF Next

THEOREM Invariance == Spec => []IInv
BY InitIInv, NextIInv, PTL DEF Spec

-----------------------------------------------------------------------------
(* ISDU, its counters and the hearts stay in the ranges declared. *)
THEOREM TypeCorrect == Spec => []TypeOK
<1>1. IInv => TypeOK
  BY DEF IInv
<1> QED
  BY <1>1, Invariance, PTL

(* The last picture stays up a second, whatever the counters held when the  *)
(* snake died: the free-running counters are cleared one picture before.    *)
THEOREM LastPicturePasses == Spec => LastPictureStays
<1>1. IInv /\ [Next]_vars =>
        [(isdu \in {"V7", "V71"} /\ isdu' \in EndScreens) => pictured = SecondFrames]_vars
  <2> SUFFICES ASSUME IInv, Next, isdu \in {"V7", "V71"}, isdu' \in EndScreens
               PROVE  pictured = SecondFrames
    BY DEF vars
  <2>1. FrameEdge
    BY DEF Next, Strike, KeyChange, ResetDown, ResetUp, EndScreens
  <2>2. counter = 1
    BY <2>1, Steps DEF IInv, TypeOK, EndScreens
  <2> QED
    BY <2>2 DEF IInv, SecondMeasured
<1> QED
  BY <1>1, Invariance, PTL DEF Spec, LastPictureStays

(* One press of the key cannot dismiss an end screen and start a round.     *)
THEOREM PressStartsOnce == Spec => NoDoubleEnter
<1>1. IInv /\ [Next]_vars =>
        [(isdu = "MainMenu" /\ isdu' = "Play_M1") => keyUp]_vars
  BY DEF IInv, Owes, EndScreens
<1> QED
  BY <1>1, Invariance, PTL DEF Spec, NoDoubleEnter

-----------------------------------------------------------------------------
(* Phase and Winner, state by state. *)
LEMMA PhaseOf ==
  ASSUME NEW s \in States
  PROVE  /\ s \in {"Halted", "MainMenu", "Wait_state1"} => Phase(s) = "menu" /\ Winner(s) = 0
         /\ s = "Play_M1" => Phase(s) = "play" /\ Winner(s) = 0
         /\ s \in Dying2 => Phase(s) = "dying" /\ Winner(s) = 1
         /\ s \in Dying1 => Phase(s) = "dying" /\ Winner(s) = 2
         /\ s = "Snake1wins" => Phase(s) = "shown" /\ Winner(s) = 1
         /\ s = "Snake2wins" => Phase(s) = "shown" /\ Winner(s) = 2
<1> USE DEF Dying1, Dying2, EndScreens
<1>1. CASE s \in Dying1
  BY <1>1 DEF Phase, Winner
<1>2. CASE s \in Dying2
  BY <1>2 DEF Phase, Winner
<1>3. CASE s \notin Dying1 \cup Dying2
  BY <1>3 DEF Phase, Winner, States
<1> QED
  BY <1>1, <1>2, <1>3

LEMMA FrameImplementsMatch ==
  ASSUME IInv, FrameEdge
  PROVE  TheMatch!Next \/ UNCHANGED <<Phase(isdu), Winner(isdu), hearts>>
<1> USE DEF IInv, TypeOK
<1>1. /\ Frame /\ isdu' \in States
      /\ isdu' \notin EndScreens => hearts' = hearts
      /\ isdu' \in EndScreens => hearts' = Restored
  BY Steps DEF Frame, EndGame
<1>2. CASE isdu' = isdu
  BY <1>1, <1>2 DEF HeartsBack, EndGame
<1>3. CASE PowerOn \/ AwaitRelease
  BY <1>1, <1>2, <1>3, PhaseOf DEF PowerOn, AwaitRelease, EndScreens
<1>4. CASE Menu /\ isdu' # isdu
  BY <1>1, <1>4, PhaseOf DEF Menu, EndScreens, TheMatch!Next, TheMatch!Start
<1>5. CASE Play /\ isdu' # isdu
  <2>1. isdu = "Play_M1" /\ Phase(isdu) = "play"
    BY <1>5, PhaseOf DEF Play
  <2>2. CASE Wins(1)
    <3>1. isdu' = "V1" /\ hearts[2] = 0
      BY <1>5, <2>2 DEF Play, Verdict, Wins
    <3>2. Phase(isdu') = "dying" /\ Winner(isdu') = 1
      BY <1>1, <3>1, PhaseOf DEF Dying2
    <3> QED
      BY <1>1, <2>1, <3>1, <3>2
         DEF EndScreens, TheMatch!Next, TheMatch!Decide, TheMatch!Player, TheMatch!Rival
  <2>3. CASE ~Wins(1)
    <3>1. isdu' = "V11" /\ hearts[1] = 0 /\ hearts[2] > 0
      BY <1>5, <2>1, <2>3 DEF Play, Verdict, Wins, Player
    <3>2. Phase(isdu') = "dying" /\ Winner(isdu') = 2
      BY <1>1, <3>1, PhaseOf DEF Dying1
    <3> QED
      BY <1>1, <2>1, <3>1, <3>2
         DEF EndScreens, TheMatch!Next, TheMatch!Decide, TheMatch!Player, TheMatch!Rival
  <2> QED
    BY <2>2, <2>3
<1>6. CASE Animate
  <2>1. isdu \in Dying1 \cup Dying2
    BY <1>6, Animation DEF Animate
  <2>2. /\ isdu \in Dying1 => isdu' \in Dying1
        /\ isdu \in Dying2 => isdu' \in Dying2
    BY <1>6, Animation DEF Animate
  <2>3. isdu' \notin EndScreens
    BY <2>1, <2>2 DEF Dying1, Dying2, EndScreens
  <2> QED
    BY <1>1, <2>1, <2>2, <2>3, PhaseOf
<1>7. CASE LastPicture /\ isdu' # isdu
  <2>1. /\ isdu \in Dying1 \cup Dying2
        /\ isdu \in Dying1 => isdu' = "Snake2wins"
        /\ isdu \in Dying2 => isdu' = "Snake1wins"
    BY <1>7 DEF LastPicture, Dying1, Dying2
  <2>2. hearts' = TheMatch!Restored
    BY <1>1, <2>1 DEF Restored, Player, EndScreens, TheMatch!Restored, TheMatch!Player,
       TheMatch!Full
  <2> QED
    BY <1>1, <2>1, <2>2, PhaseOf DEF TheMatch!Next, TheMatch!Show
<1>8. CASE EndScreen /\ isdu' # isdu
  <2>1. isdu \in EndScreens /\ isdu' = "Wait_state1"
    BY <1>8 DEF EndScreen, Dismissed
  <2> QED
    BY <1>1, <2>1, PhaseOf DEF EndScreens, TheMatch!Next, TheMatch!Dismiss
<1> QED
  BY <1>2, <1>3, <1>4, <1>5, <1>6, <1>7, <1>8 DEF FrameEdge

(* The machine of frames, counters and pictures implements the rounds that  *)
(* Match promises.                                                          *)
THEOREM RoundImplementsMatch == Spec => ImplementsMatch
<1>1. Init => TheMatch!Init
  <2> SUFFICES ASSUME Init PROVE TheMatch!Init
    OBVIOUS
  <2>1. hearts = TheMatch!Restored
    BY DEF Init, Restored, Player, TheMatch!Restored, TheMatch!Player, TheMatch!Full
  <2> QED
    BY <2>1, PhaseOf DEF Init, TheMatch!Init, States
<1>2. IInv /\ [Next]_vars => [TheMatch!Next]_(<<Phase(isdu), Winner(isdu), hearts>>)
  <2> SUFFICES ASSUME IInv, [Next]_vars
               PROVE  TheMatch!Next \/ UNCHANGED <<Phase(isdu), Winner(isdu), hearts>>
    OBVIOUS
  <2> USE DEF IInv, TypeOK
  <2>1. CASE FrameEdge
    BY <2>1, FrameImplementsMatch
  <2>2. ASSUME NEW p \in Player, Strike(p) PROVE TheMatch!Next
    <3>1. Phase(isdu) # "shown" /\ isdu' = isdu
      BY <2>2, PhaseOf DEF Strike, EndGame, EndScreens, States
    <3>2. TheMatch!Strike(p)
      BY <2>2, <3>1 DEF Strike, TheMatch!Strike
    <3> QED
      BY <3>2 DEF TheMatch!Next, TheMatch!Player, Player
  <2>3. CASE KeyChange \/ ResetUp
    BY <2>3 DEF KeyChange, ResetUp
  <2>4. CASE ResetDown
    <3>1. isdu' = "Halted" /\ hearts' = TheMatch!Restored
      BY <2>4 DEF ResetDown, Restored, Player, TheMatch!Restored, TheMatch!Player, TheMatch!Full
    <3> QED
      BY <3>1, PhaseOf DEF States, TheMatch!Next, TheMatch!Abandon
  <2>5. CASE UNCHANGED vars
    BY <2>5 DEF vars
  <2> QED
    BY <2>1, <2>2, <2>3, <2>4, <2>5 DEF Next
<1> QED
  BY <1>1, <1>2, Invariance, PTL DEF Spec, ImplementsMatch, TheMatch!Spec

-----------------------------------------------------------------------------
(* The hearts of either snake, through one step: what Hearts.tla allows.   *)
HeartsStep(p) ==
  \/ Playing /\ hearts[p] > 0 /\ hearts'[p] = hearts[p] - 1 /\ Playing' = Playing
  \/ Playing' = FALSE /\ hearts'[p] = 3
  \/ ~Playing /\ Playing' = TRUE /\ hearts'[p] = hearts[p]
  \/ Playing' = Playing /\ hearts'[p] = hearts[p]

LEMMA HeartsMove ==
  ASSUME IInv, [Next]_vars, NEW p \in Player
  PROVE  HeartsStep(p)
<1> USE DEF IInv, TypeOK, HeartsStep, Playing
<1>1. CASE FrameEdge
  <2>1. /\ reset = FALSE /\ reset' = FALSE
        /\ hearts' = IF EndGame(isdu') THEN Restored ELSE hearts
    BY <1>1, Steps DEF Frame
  <2>2. CASE EndGame(isdu')
    BY <2>1, <2>2 DEF Restored
  <2>3. CASE ~EndGame(isdu')
    BY <2>1, <2>3 DEF EndGame
  <2> QED
    BY <2>2, <2>3
<1>2. ASSUME NEW q \in Player, Strike(q) PROVE HeartsStep(p)
  <2>1. Playing /\ Playing' = Playing
    BY <1>2 DEF Strike, EndGame
  <2>2. CASE p = q
    BY <1>2, <2>1, <2>2 DEF Strike
  <2>3. CASE p # q
    BY <1>2, <2>1, <2>3 DEF Strike
  <2> QED
    BY <2>2, <2>3
<1>3. CASE KeyChange
  BY <1>3 DEF KeyChange, EndGame
<1>4. CASE ResetDown
  BY <1>4 DEF ResetDown, Restored
<1>5. CASE ResetUp
  BY <1>5 DEF ResetUp, EndGame
<1>6. CASE UNCHANGED vars
  BY <1>6 DEF vars, EndGame
<1> QED
  BY <1>1, <1>2, <1>3, <1>4, <1>5, <1>6 DEF Next

(* The hearts Round reads are those Hearts.tla promises, for both players:  *)
(* they are lost one at a time and only in play, and they come back all     *)
(* together, only when an end screen or KEY0 interrupts.  Duel implements   *)
(* the same Hearts from the pixels up, and this closes the composition.     *)
THEOREM RoundKeepsHearts == Spec => Display1!Spec /\ Display2!Spec
<1>1. Init => Display1!Init /\ Display2!Init
  BY DEF Init, Playing, Restored, Player, Display1!Init, Display2!Init, Display1!Full, Display2!Full
<1>2. IInv /\ [Next]_vars => [Display1!Next]_<<hearts[1], Playing>>
  <2> SUFFICES ASSUME IInv, [Next]_vars PROVE [Display1!Next]_<<hearts[1], Playing>>
    OBVIOUS
  <2>1. HeartsStep(1) /\ Playing \in BOOLEAN
    BY HeartsMove DEF Player, Playing
  <2> QED
    BY <2>1 DEF HeartsStep, Display1!Next, Display1!Lose, Display1!Interrupt, Display1!Play, Display1!Full
<1>3. IInv /\ [Next]_vars => [Display2!Next]_<<hearts[2], Playing>>
  <2> SUFFICES ASSUME IInv, [Next]_vars PROVE [Display2!Next]_<<hearts[2], Playing>>
    OBVIOUS
  <2>1. HeartsStep(2) /\ Playing \in BOOLEAN
    BY HeartsMove DEF Player, Playing
  <2> QED
    BY <2>1 DEF HeartsStep, Display2!Next, Display2!Lose, Display2!Interrupt, Display2!Play, Display2!Full
<1> QED
  BY <1>1, <1>2, <1>3, Invariance, PTL DEF Spec, Display1!Spec, Display2!Spec

-----------------------------------------------------------------------------
(* The pictures still to come after s. *)
Ahead(s) ==
  CASE s \in {"V1", "V11"}     -> 8
    [] s \in {"V2", "V21"}     -> 7
    [] s \in {"V3", "V31"}     -> 6
    [] s \in {"V4", "V41"}     -> 5
    [] s \in {"V5", "V51"}     -> 4
    [] s \in {"V3_1", "V3_11"} -> 3
    [] s \in {"V4_1", "V4_11"} -> 2
    [] s \in {"V6", "V61"}     -> 1
    [] OTHER                   -> 0

(* Frames to the end screen: one for each picture still to come, a second   *)
(* and one frame for the last.                                              *)
FramesLeft ==
  IF isdu \in EndScreens THEN 0 ELSE Ahead(isdu) + SecondFrames + 1 - pictured

(* From the verdict to the end screen every frame counts and nothing else   *)
(* does: the display keeps to the animation whatever the players, the hits  *)
(* and the counters do, unless KEY0 is pressed.                             *)
DyingStep ==
  isdu \in Dying1 \cup Dying2 =>
    /\ FramesLeft \in 1 .. SecondFrames + 9
    /\ \/ FrameEdge /\ FramesLeft' = FramesLeft - 1
       \/ UNCHANGED <<isdu, FramesLeft>>
       \/ ResetDown
DyingCounted == [][DyingStep]_vars

(* The next picture is one nearer to the last. *)
LEMMA OneNearer ==
  ASSUME isdu \in DOMAIN AfterPicture
  PROVE  /\ isdu \in (Dying1 \cup Dying2) \ {"V7", "V71"}
         /\ Ahead(AfterPicture[isdu]) \in Nat
         /\ Ahead(isdu) = Ahead(AfterPicture[isdu]) + 1
<1>1. isdu \in (Dying1 \cup Dying2) \ {"V7", "V71"}
  BY Animation
<1>2. CASE isdu \in Dying1
  BY <1>1, <1>2 DEF Dying1, AfterPicture, Ahead
<1>3. CASE isdu \in Dying2
  BY <1>1, <1>3 DEF Dying2, AfterPicture, Ahead
<1> QED
  BY <1>1, <1>2, <1>3

LEMMA FrameCounted ==
  ASSUME IInv, FrameEdge, isdu \in Dying1 \cup Dying2
  PROVE  FramesLeft' = FramesLeft - 1
<1> USE DEF IInv, TypeOK
<1>1. /\ Frame /\ isdu \in States /\ isdu \notin EndScreens
      /\ isdu \notin {"Halted", "MainMenu", "Play_M1", "Wait_state1"}
  BY Steps DEF Dying1, Dying2, EndScreens
<1>2. Animate \/ LastPicture
  BY <1>1 DEF FrameEdge, PowerOn, Menu, Play, EndScreen, AwaitRelease
<1>3. CASE Animate
  <2>1. /\ isdu' = AfterPicture[isdu] /\ isdu' \in Dying1 \cup Dying2
        /\ isdu \notin {"V7", "V71"} /\ Ahead(isdu) = Ahead(isdu') + 1 /\ Ahead(isdu') \in Nat
    BY <1>3, Animation, OneNearer DEF Animate
  <2>2. pictured = 0 /\ pictured' = 0
    BY <1>1, <2>1 DEF SecondMeasured, Frame
  <2>3. isdu' \notin EndScreens
    BY <2>1 DEF Dying1, Dying2, EndScreens
  <2>4. FramesLeft = Ahead(isdu) + SecondFrames + 1 - pictured
        /\ FramesLeft' = Ahead(isdu') + SecondFrames + 1 - pictured'
    BY <1>1, <2>3 DEF FramesLeft
  <2> QED
    BY <2>1, <2>2, <2>4
<1>4. CASE LastPicture
  <2>1. isdu \in {"V7", "V71"} /\ Ahead(isdu) = 0
    BY <1>4 DEF LastPicture, Ahead
  <2>2. FramesLeft = SecondFrames + 1 - pictured /\ pictured \in Nat
    BY <1>1, <2>1 DEF FramesLeft
  <2>3. CASE counter = 1
    <3>1. pictured = SecondFrames
      BY <2>1, <2>3 DEF SecondMeasured
    <3>2. isdu' \in EndScreens
      BY <1>4, <2>3 DEF LastPicture, SecondOver, EndScreens
    <3> QED
      BY <2>2, <3>1, <3>2 DEF FramesLeft
  <2>4. CASE counter # 1
    <3>1. pictured < SecondFrames
      BY <2>1, <2>4 DEF SecondMeasured
    <3>2. isdu' = isdu
      BY <1>4, <2>4 DEF LastPicture, SecondOver
    <3>3. pictured' = pictured + 1
      BY <1>1, <2>1, <2>2, <3>1, <3>2 DEF Frame, MaxPictured
    <3>4. FramesLeft' = SecondFrames + 1 - pictured'
      BY <1>1, <2>1, <3>2 DEF FramesLeft
    <3> QED
      BY <2>2, <3>3, <3>4
  <2> QED
    BY <2>3, <2>4
<1> QED
  BY <1>2, <1>3, <1>4

(* The dying of a snake takes eight frames, a second and one frame, for a   *)
(* second of any number of frames: what DeathIsShown needs for its end.     *)
THEOREM DyingTakesItsFrames == Spec => DyingCounted
<1>1. IInv /\ [Next]_vars => [DyingStep]_vars
  <2> SUFFICES ASSUME IInv, Next, isdu \in Dying1 \cup Dying2 PROVE DyingStep
    BY DEF vars, DyingStep
  <2>1. FramesLeft \in 1 .. SecondFrames + 9
    <3>1. isdu \notin EndScreens
      BY DEF Dying1, Dying2, EndScreens
    <3>2. Ahead(isdu) \in 0 .. 8 /\ pictured \in 0 .. SecondFrames
      BY DEF Ahead, IInv, TypeOK
    <3>3. pictured = 0 \/ Ahead(isdu) = 0
      BY DEF IInv, SecondMeasured, Ahead
    <3> QED
      BY <3>1, <3>2, <3>3 DEF FramesLeft
  <2>2. CASE FrameEdge
    BY <2>1, <2>2, FrameCounted DEF DyingStep
  <2>3. CASE (\E p \in Player : Strike(p)) \/ KeyChange \/ ResetUp
    BY <2>1, <2>3 DEF DyingStep, Strike, KeyChange, ResetUp, FramesLeft
  <2>4. CASE ResetDown
    BY <2>1, <2>4 DEF DyingStep
  <2> QED
    BY <2>2, <2>3, <2>4 DEF Next
<1> QED
  BY <1>1, Invariance, PTL DEF Spec, DyingCounted

-----------------------------------------------------------------------------
(* The apple.                                                               *)
(* The powers of two of the code's generators.                              *)
LEMMA Bits10 == ASSUME Bits = 10 PROVE 2^Bits = 1024 /\ Top = 1023 /\ 2^(Bits - 1) = 512 /\ 2^6 = 64
<1>1. 2^10 = 1024 /\ 2^9 = 512 /\ 2^6 = 64 OBVIOUS
<1>2. Bits - 1 = 9 OBVIOUS
<1> QED BY <1>1, <1>2 DEF Top

(* One step of two opposite generators with different seeds.                *)
LEMMA OppositeSteps ==
  ASSUME Bits = 10, Tap = 6, NEW r \in 0 .. Top, NEW q \in 0 .. Top, r + q = Top,
         NEW s \in {0, 1}, NEW t \in {0, 1}, s # t
  PROVE  /\ random_next(r, s) + random_next(q, t) = Top
         /\ random_next(r, s) \in 0 .. Top /\ random_next(q, t) \in 0 .. Top
<1>1. 2^Bits = 1024 /\ Top = 1023 /\ 2^(Bits - 1) = 512 /\ 2^Tap = 64 BY Bits10
<1>2. r \in 0 .. 1023 /\ q = 1023 - r BY <1>1
<1>3. ((2 * r) % 1024) + ((2 * q) % 1024) = 1022 BY <1>2
<1>4. (r \div 512) % 2 = 1 - ((q \div 512) % 2) BY <1>2
<1>5. (r \div 64) % 2 = 1 - ((q \div 64) % 2) BY <1>2
<1> DEFINE b == (q \div 512) % 2
           c == (q \div 64) % 2
           f == (2 * r) % 1024
           g == (2 * q) % 1024
<1>6. b \in {0, 1} /\ c \in {0, 1} /\ f \in 0 .. 1022 /\ g \in 0 .. 1022 BY <1>2
<1>7. random_next(r, s) = f + ((((r \div 512) % 2) + ((r \div 64) % 2) + s) % 2)
      /\ random_next(q, t) = g + ((b + c + t) % 2)
  BY <1>1 DEF random_next, Bit
<1>8. random_next(r, s) = f + (((1 - b) + (1 - c) + s) % 2) BY <1>4, <1>5, <1>7
<1>9. f + g = 1022 BY <1>3
<1> HIDE DEF b, c, f, g
<1>10. (((1 - b) + (1 - c) + s) % 2) + ((b + c + t) % 2) = 1
       /\ ((1 - b) + (1 - c) + s) % 2 \in {0, 1} /\ (b + c + t) % 2 \in {0, 1}
  BY <1>6
<1> DEFINE v == ((1 - b) + (1 - c) + s) % 2
           w == (b + c + t) % 2
<1>11. random_next(r, s) = f + v /\ random_next(q, t) = g + w BY <1>7, <1>8
<1>12. v + w = 1 /\ v \in {0, 1} /\ w \in {0, 1} BY <1>10
<1> HIDE DEF v, w
<1>13. f + v \in 0 .. 1023 /\ g + w \in 0 .. 1023 /\ (f + v) + (g + w) = 1023 BY <1>6, <1>9, <1>12
<1>14. Top = 1023 BY <1>1
<1> DEFINE x == random_next(r, s)
           y == random_next(q, t)
           m == Top
<1>15. x + y = m /\ x \in 0 .. m /\ y \in 0 .. m
  <2>1. x = f + v /\ y = g + w /\ m = 1023 BY <1>11, <1>14
  <2> HIDE DEF x, y, m, v, w
  <2> QED BY <1>13, <2>1
<1> QED BY <1>15

LEMMA RandomType ==
  ASSUME Bits = 10, Tap = 6, NEW r \in 0 .. Top, NEW s \in {0, 1}
  PROVE  random_next(r, s) \in 0 .. Top
<1>1. 2^Bits = 1024 /\ Top = 1023 /\ 2^(Bits - 1) = 512 /\ 2^Tap = 64 BY Bits10
<1> DEFINE f == (2 * r) % 1024
           v == ((r \div 512) % 2) + ((r \div 64) % 2) + s
<1>2. f \in 0 .. 1022 /\ v \in Nat BY <1>1
<1>3. random_next(r, s) = f + (v % 2) BY <1>1 DEF random_next, Bit
<1> HIDE DEF f, v
<1>4. v % 2 \in {0, 1} BY <1>2
<1> QED BY <1>1, <1>2, <1>3, <1>4

AppleTypes ==
  /\ seed \in [Axis -> {0, 1}] /\ random \in [Axis -> 0 .. Top]
  /\ rnd \in [Axis -> 0 .. Top] /\ out \in [Axis -> 0 .. Top]

LEMMA AppleTyped ==
  ASSUME Bits = 10, Tap = 6
  PROVE  AppleSpec => []AppleTypes
<1>1. Top = 1023 BY Bits10
<1>2. 0 \in 0 .. Top /\ AfterReset \in 0 .. Top BY <1>1, PrizesAssumption
<1>3. AppleInit => AppleTypes BY <1>2 DEF AppleInit, AppleTypes, Both
<1>4. ASSUME AppleTypes, [AppleNext]_apple PROVE AppleTypes'
  <2>1. CASE RandomEdge
    <3>1. \A a \in Axis : random_next(random[a], seed[a]) \in 0 .. Top
      BY <1>4, RandomType DEF AppleTypes
    <3> QED BY <1>4, <2>1, <3>1 DEF RandomEdge, AppleTypes
  <2>2. CASE LoadOutside \/ LoadCovered
    BY <1>4, <2>2 DEF LoadOutside, LoadCovered, Load, AppleTypes
  <2>3. CASE setRandCord BY <1>4, <2>3 DEF setRandCord, AppleTypes
  <2>4. CASE AppleReset BY <1>2, <1>4, <2>4 DEF AppleReset, AppleTypes, Both
  <2>5. CASE UNCHANGED apple BY <1>4, <2>5 DEF apple, AppleTypes
  <2> QED BY <1>4, <2>1, <2>2, <2>3, <2>4, <2>5 DEF AppleNext
<1> QED BY <1>3, <1>4, PTL DEF AppleSpec

(* Two opposite coordinates are not both inside: 600 and 400 are no more    *)
(* than 1024.                                                               *)
LEMMA OppositeOutside ==
  ASSUME Top = 1023, Columns + Lines <= 1024, Columns \in Int, Lines \in Int,
         NEW r \in [Axis -> 0 .. Top], Opposite(r)
  PROVE  r["x"] >= Columns \/ r["y"] >= Lines
<1>1. r["x"] \in Int /\ r["y"] \in Int /\ r["x"] + r["y"] = 1023 BY DEF Axis, Opposite
<1> QED BY <1>1

(* An apple that was moved outside while the generators are opposite does   *)
(* not come back before main changes a seed: the code's generators, of ten  *)
(* bits that feed back the last and the seventh, and any field whose two    *)
(* limits add up to no more than their range.                               *)
THEOREM AppleStaysAway ==
  ASSUME Bits = 10, Tap = 6, Columns + Lines <= 1024
  PROVE  AppleSpec => StaysAway
<1>1. Top = 1023 /\ Columns \in Int /\ Lines \in Int BY Bits10, PrizesAssumption
<1>2. ASSUME AppleTypes, AppleNext, Away, seed' = seed, ~AppleReset PROVE Away'
  <2>1. "x" \in Axis /\ "y" \in Axis BY DEF Axis
  <2>2. seed["x"] \in {0, 1} /\ seed["y"] \in {0, 1} /\ seed["x"] # seed["y"]
        /\ random["x"] \in 0 .. Top /\ random["y"] \in 0 .. Top /\ random["x"] + random["y"] = Top
    BY <1>2, <2>1 DEF AppleTypes, Away, Opposite
  <2>3. CASE RandomEdge
    <3>1. random'["x"] + random'["y"] = Top
      BY <2>1, <2>2, <2>3, OppositeSteps DEF RandomEdge
    <3>2. Opposite(rnd)' BY <1>2, <2>3 DEF RandomEdge, Away, Opposite
    <3>3. out' = out BY <2>3 DEF RandomEdge
    <3> QED BY <1>2, <3>1, <3>2, <3>3 DEF Away, Opposite, Outside
  <2>4. CASE LoadOutside
    <3>1. out' = rnd /\ rnd' = rnd /\ random' = random BY <2>4 DEF LoadOutside, Load
    <3>2. rnd["x"] >= Columns \/ rnd["y"] >= Lines
      <4>1. rnd \in [Axis -> 0 .. Top] /\ Opposite(rnd) BY <1>2 DEF AppleTypes, Away
      <4> QED BY <1>1, <4>1, OppositeOutside
    <3> QED BY <1>2, <3>1, <3>2 DEF Away, Opposite, Outside
  <2>5. CASE LoadCovered BY <1>2, <2>5 DEF LoadCovered, Away
  <2>6. CASE setRandCord BY <1>2, <2>6 DEF setRandCord, Away, Opposite, Outside
  <2> QED BY <1>2, <2>3, <2>4, <2>5, <2>6 DEF AppleNext
<1> QED BY <1>2, AppleTyped, PTL DEF AppleSpec, StaysAway
=============================================================================
