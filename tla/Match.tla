-------------------------------- MODULE Match --------------------------------
(***************************************************************************)
(* What the rounds of Cobra Combat promise the two players, with nothing    *)
(* of frames, counters or animation pictures: a round goes from the menu to *)
(* play, is decided once, for a snake whose rival has no heart left, and    *)
(* shows that winner before the menu comes back with all hearts restored.   *)
(* When both snakes are dead player 1 wins.                                 *)
(***************************************************************************)
EXTENDS Naturals

Player == {1, 2}
Rival(p) == 3 - p
Full == 3

VARIABLES
  phase,      \* "menu", "play", "dying" or "shown"
  winner,     \* the player the round is decided for, 0 before
  hearts      \* hearts of each player

Restored == [p \in Player |-> Full]

Init ==
  /\ phase = "menu"
  /\ winner = 0
  /\ hearts = Restored

(* Snakes can be hit in the menu and while one is dying, too. *)
Strike(p) ==
  /\ phase # "shown" /\ hearts[p] > 0
  /\ hearts' = [hearts EXCEPT ![p] = @ - 1]
  /\ UNCHANGED <<phase, winner>>

Start ==
  /\ phase = "menu"
  /\ phase' = "play"
  /\ UNCHANGED <<winner, hearts>>

Decide(p) ==
  /\ phase = "play"
  /\ hearts[Rival(p)] = 0
  /\ p = 2 => hearts[2] > 0
  /\ phase' = "dying"
  /\ winner' = p
  /\ UNCHANGED hearts

Show ==
  /\ phase = "dying"
  /\ phase' = "shown"
  /\ hearts' = Restored
  /\ UNCHANGED winner

Dismiss ==
  /\ phase = "shown"
  /\ phase' = "menu"
  /\ winner' = 0
  /\ UNCHANGED hearts

(* KEY0 *)
Abandon ==
  /\ phase' = "menu"
  /\ winner' = 0
  /\ hearts' = Restored

Next ==
  \/ \E p \in Player : Strike(p) \/ Decide(p)
  \/ Start \/ Show \/ Dismiss \/ Abandon

Spec == Init /\ [][Next]_<<phase, winner, hearts>>
=============================================================================
