------------------------------- MODULE Hearts -------------------------------
(***************************************************************************)
(* What the hearts of one snake promise its player, whatever the pixels    *)
(* and clocks below do: they are lost one at a time, only while playing,   *)
(* and all come back together, when play is interrupted.  This is the      *)
(* interface of health_stateMachine.sv (outputs healthCount and gameEnd).  *)
(***************************************************************************)
EXTENDS Naturals

VARIABLES
  hearts,     \* hearts on display
  playing     \* FALSE while an end screen or KEY0 holds the machine

Full == 3

Init == hearts = Full /\ playing \in BOOLEAN

Lose ==
  /\ playing /\ hearts > 0
  /\ hearts' = hearts - 1
  /\ UNCHANGED playing

Interrupt ==
  /\ playing' = FALSE
  /\ hearts' = Full

Play ==
  /\ ~playing
  /\ playing' = TRUE
  /\ UNCHANGED hearts

Next == Lose \/ Interrupt \/ Play

Spec == Init /\ [][Next]_<<hearts, playing>>
=============================================================================
