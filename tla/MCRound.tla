------------------------------- MODULE MCRound -------------------------------
(***************************************************************************)
(* The round and, beside it, what it offers: part is the one that runs,    *)
(* the others stay where they begin.                                       *)
(***************************************************************************)
EXTENDS Round, Prizes

VARIABLE part

RoundInit == part \in {"round", "apple", "egg"} /\ Init /\ AppleInit /\ EggInit

NextRound == part = "round" /\ Next /\ UNCHANGED <<part, apple, egg>>
NextApple == part = "apple" /\ AppleNext /\ UNCHANGED <<part, vars, egg>>
NextEgg == part = "egg" /\ EggNext /\ UNCHANGED <<part, vars, apple>>
RoundNext == NextRound \/ NextApple \/ NextEgg

(* No clock of the board stops, for the part that runs. *)
RoundSpec ==
  /\ RoundInit /\ [][RoundNext]_<<part, vars, apple, egg>>
  /\ WF_vars(part = "round" /\ FrameEdge)
  /\ WF_apple(part = "apple" /\ RandomEdge) /\ WF_apple(part = "apple" /\ LoadOutside)
  /\ WF_egg(part = "egg" /\ EggPixel) /\ WF_egg(part = "egg" /\ Second)
=============================================================================
