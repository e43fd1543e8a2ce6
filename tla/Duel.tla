-------------------------------- MODULE Duel --------------------------------
(***************************************************************************)
(* One direction of the fight in Cobra Combat: a snake that shoots, and    *)
(* the snake it shoots at.  Three kinds of state machine take part, each   *)
(* on its own clock:                                                       *)
(*                                                                         *)
(*   - venomCountMachine.sv, the shooter's magazine, on Clk (50 MHz);      *)
(*   - venom_stateMachine.sv, one instance for each slot of the magazine,  *)
(*     on vga_clk (Clk divided by two, one edge per pixel);                *)
(*   - health_stateMachine.sv, the hearts of the snake shot at, on         *)
(*     vga_clk.                                                            *)
(*                                                                         *)
(* colorBGD_example.sv wires them together: the slot that may fire is the  *)
(* one whose number the magazine shows, and the collision inputs are the   *)
(* pixel being drawn (bullet and wall, or bullet and snake).  What a pixel *)
(* shows, where the snakes are and what the players press are the          *)
(* environment.                                                            *)
(***************************************************************************)
EXTENDS Naturals, FiniteSets

CONSTANT NVenom       \* slots of a magazine: 3 instances of venom in the code

ASSUME NVenomAssumption == NVenom \in Nat \ {0}

Slots == 0 .. (NVenom - 1)

VARIABLES
  due,          \* clock edges still to come in this pixel
  key,          \* TRUE while keycode holds the fire key, in either byte
  halt,         \* "none", "over" (an end screen is shown) or "reset" (KEY0)
  unsampled,    \* clocks that have not sampled the present key or halt yet
  ammo,         \* State of venomCountMachine, without its number
  venomCount,   \* its output: the slot that may fire, NVenom when empty
  venom,        \* State of each venom_stateMachine
  health        \* State of health_stateMachine, as a place in its chain

(* History: it never appears in a guard of the code's own actions.         *)
VARIABLES
  fresh,        \* slots launched by this pull of the trigger, still airborne
  used,         \* slots launched since the magazine was last filled
  served,       \* the slot pulled has been airborne at some time in this pull
  refilled,     \* the magazine was filled while the trigger was held
  rearmed,      \* the magazine was reset while the trigger was held and its
                \* bullet, of another slot than 0, was in the air
  budget,       \* bullets the shooter may have had in this round
  heldLanding   \* some bullet of this round came down with the trigger held

machines == <<ammo, venomCount, venom, health>>
history  == <<fresh, used, served, refilled, rearmed, budget, heldLanding>>
vars     == <<due, key, halt, unsampled, machines, history>>

-----------------------------------------------------------------------------
(* health_stateMachine.sv.  Its states form one chain, each left for the    *)
(* next under its own condition:                                           *)
(*   0 Halted, 1 Health3, 2-4 WaitState1-3, 5 Health2, 6-8 WaitState4-6,    *)
(*   9 Health1, 10-11 WaitState7-8, 12 Health0.                            *)
(* WaitState9 is declared and decoded but no state leads to it.            *)
HaltedHealth == 0
Health3 == 1
Health2 == 5
Health1 == 9
Health0 == 12
HealthStates == HaltedHealth .. Health0

(* Seeded fault: a wait state waits for a collision, not for its end. *)
AdvancesOnHit(h, collision) == h = HaltedHealth \/ (h # Health0 /\ collision)

(* A state that shows a heart waits for a collision, a wait state for the  *)
(* first pixel without one.                                                *)
Advances(h, collision) ==
  \/ h = HaltedHealth
  \/ h \in {Health3, Health2, Health1} /\ collision
  \/ h \notin {HaltedHealth, Health3, Health2, Health1, Health0} /\ ~collision

(* Seeded fault: Health1 is left for the wait states of Health2. *)
HealthNextWrongWait(h, collision) ==
  IF ~Advances(h, collision) THEN h ELSE IF h = Health1 THEN Health2 + 1 ELSE h + 1
HealthNext(h, collision) == IF Advances(h, collision) THEN h + 1 ELSE h

(* The hearts on display. *)
HealthCount(h) ==
  IF h < Health2 THEN 3 ELSE IF h < Health1 THEN 2 ELSE IF h < Health0 THEN 1 ELSE 0

(* Hearts taken, the one whose wait states are still running included. *)
HeartsTaken(h) ==
  IF h <= Health3 THEN 0 ELSE IF h <= Health2 THEN 1 ELSE IF h <= Health1 THEN 2 ELSE 3

-----------------------------------------------------------------------------
(* venom_stateMachine.sv: the next state of one slot. *)
VenomStates == {"Halted", "Idle", "bulletFired", "bulletMoving"}

VenomNext(s, fires, collision) ==
  CASE venom[s] = "Halted"       -> "Idle"
    [] venom[s] = "Idle"         -> IF fires THEN "bulletFired" ELSE "Idle"
    [] venom[s] = "bulletFired"  -> "bulletMoving"
    [] venom[s] = "bulletMoving" -> IF collision THEN "Idle" ELSE "bulletMoving"

(* Seeded fault: the number of the slot is not compared. *)
FiresAnySlot(s) == key
Fires(s) == key /\ venomCount = s

(* A bullet is drawn, and can collide, only while venomMovement is up. *)
VenomOn(s, cover) == s \in cover /\ venom[s] = "bulletMoving"

AmmoStates == {"Halted", "Venom", "Wait_state", "Reload_Venom"}

Airborne == {s \in Slots : venom[s] \in {"bulletFired", "bulletMoving"}}

-----------------------------------------------------------------------------
(* vga_clk is a register clocked by Clk, so every second Clk edge comes     *)
(* with an edge of vga_clk, and the machines on the one may sample the     *)
(* other's output before or after it changes: "clk" and "vga" happen in    *)
(* either order.  "half" is the Clk edge in the middle of a pixel.         *)
(* KEY0 stops vga_clk in the low half of a pixel, but not Clk.              *)
PixelStart == {"clk", "vga"}

EdgeDone(e) ==
  due' = IF halt = "reset" \/ due = {"half"} THEN PixelStart
         ELSE IF due = {e} THEN {"half"}
         ELSE due \ {e}

ClkDue == "clk" \in due \/ "half" \in due
VgaDue == "vga" \in due /\ halt # "reset"

(* A key or an end screen lasts milliseconds, a clock period 20 ns: neither *)
(* changes again before every running clock has sampled it.                 *)
Settled == unsampled = {}
Clocks  == IF halt = "reset" THEN {"clk"} ELSE {"clk", "vga"}

(* The device powers up with every register at 0, KEY0 down or not.         *)
Init ==
  /\ due = PixelStart
  /\ key = FALSE
  /\ halt \in {"none", "reset"}
  /\ unsampled = Clocks
  /\ ammo = "Halted"
  /\ venomCount = 0
  /\ venom = [s \in Slots |-> "Halted"]
  /\ health = HaltedHealth
  /\ fresh = {}
  /\ used = {}
  /\ served = FALSE
  /\ refilled = FALSE
  /\ rearmed = FALSE
  /\ budget = 0
  /\ heldLanding = FALSE

-----------------------------------------------------------------------------
(* venomCountMachine.sv at an edge of Clk.  Its reset is synchronous.       *)
(* VenomN and Wait_stateN are ammo with venomCount = N - 1.                *)
ClkEdge ==
  /\ ClkDue
  /\ EdgeDone("clk")
  /\ unsampled' = unsampled \ {"clk"}
  /\ UNCHANGED <<key, halt, venom, health, budget, heldLanding>>

(* Seeded fault: the magazine is not reset by the end screens. *)
HaltsAmmoOnKey0Only == halt = "reset"
HaltsAmmo == halt # "none"

(* Seeded fault: a wait state does not wait for the key to come up. *)
ReleasedAtOnce == TRUE
Released == ~key

Passed(n) == IF n = NVenom - 1 THEN "Reload_Venom" ELSE "Venom"

(* The end screens reset the magazine and leave the bullets in the air.     *)
AmmoReset ==
  /\ ClkEdge
  /\ HaltsAmmo
  /\ ammo' = "Halted"
  /\ venomCount' = 0
  /\ used' = {}
  /\ rearmed' = (rearmed \/ (key /\ fresh \ {0} # {}))
  /\ UNCHANGED <<fresh, served, refilled>>

Refill ==
  /\ ammo' = "Venom"
  /\ venomCount' = 0
  /\ used' = {}
  /\ refilled' = (refilled \/ key)
  /\ UNCHANGED <<fresh, served, rearmed>>

AmmoStart ==
  /\ ClkEdge
  /\ ~HaltsAmmo /\ ammo = "Halted"
  /\ Refill

(* reload is S1_ateApple: the pixel shows the apple and the snake. *)
AmmoReload ==
  /\ ClkEdge
  /\ ~HaltsAmmo /\ ammo = "Reload_Venom"
  /\ Refill

AmmoPull ==
  /\ ClkEdge
  /\ ~HaltsAmmo /\ ammo = "Venom" /\ key
  /\ ammo' = "Wait_state"
  /\ UNCHANGED <<venomCount, fresh, used, served, refilled, rearmed>>

AmmoRelease ==
  /\ ClkEdge
  /\ ~HaltsAmmo /\ ammo = "Wait_state" /\ Released
  /\ ammo' = Passed(venomCount)
  /\ venomCount' = venomCount + 1
  /\ UNCHANGED <<fresh, used, served, refilled, rearmed>>

AmmoStay ==
  /\ ClkEdge
  /\ ~HaltsAmmo
  /\ \/ ammo = "Venom" /\ ~key
     \/ ammo = "Wait_state" /\ ~Released
     \/ ammo = "Reload_Venom"
  /\ UNCHANGED <<ammo, venomCount, fresh, used, served, refilled, rearmed>>

-----------------------------------------------------------------------------
(* venom_stateMachine.sv, every slot, and health_stateMachine.sv at an edge *)
(* of vga_clk.  cover: the slots whose disc covers the pixel; wall, enemy:  *)
(* Wall_on and the other snake's snake_on.                                 *)
(* Seeded fault: a bullet ends its flight at a wall only. *)
CollidesWithWall(s, cover, wall, enemy) == VenomOn(s, cover) /\ wall
Collides(s, cover, wall, enemy) == VenomOn(s, cover) /\ (wall \/ enemy)

VgaEdge(cover, wall, enemy) ==
  LET hurt == \E s \in Slots : VenomOn(s, cover) /\ enemy
      next == [s \in Slots |-> VenomNext(s, Fires(s), Collides(s, cover, wall, enemy))]
      launched == {s \in Slots : venom[s] = "Idle" /\ next[s] = "bulletFired"}
      landed == {s \in Slots : venom[s] = "bulletMoving" /\ next[s] = "Idle"}
  IN
  /\ VgaDue
  /\ EdgeDone("vga")
  /\ unsampled' = unsampled \ {"vga"}
  /\ venom' = next
  /\ health' = IF halt = "over" THEN HaltedHealth ELSE HealthNext(health, hurt)
  /\ fresh' = (fresh \ landed) \cup launched
  /\ used' = used \cup launched
  /\ served' = (served \/ \E s \in Airborne \cup launched : Fires(s))
  /\ heldLanding' = (heldLanding \/ (landed # {} /\ key))
  /\ UNCHANGED <<key, halt, ammo, venomCount, refilled, rearmed, budget>>

-----------------------------------------------------------------------------
(* The players, the reset button and the round (ISDU.sv). *)
MostBullets == 4 + NVenom    \* bound of budget: no invariant tells more apart

PressFire ==
  /\ Settled /\ ~key
  /\ key' = TRUE
  /\ unsampled' = Clocks
  /\ fresh' = {}
  /\ served' = FALSE
  /\ refilled' = FALSE
  /\ rearmed' = FALSE
  /\ budget' = IF budget < MostBullets THEN budget + 1 ELSE budget
  /\ UNCHANGED <<due, halt, machines, used, heldLanding>>

ReleaseFire ==
  /\ Settled /\ key
  /\ key' = FALSE
  /\ unsampled' = Clocks
  /\ UNCHANGED <<due, halt, machines, history>>

(* KEY0 down: ISDU leaves any end screen, every bullet and the hearts halt  *)
(* at once, and vga_clk with them.                                          *)
PressReset ==
  /\ Settled /\ halt # "reset"
  /\ halt' = "reset"
  /\ due' = PixelStart
  /\ unsampled' = {"clk"}
  /\ venom' = [s \in Slots |-> "Halted"]
  /\ health' = HaltedHealth
  /\ fresh' = {}
  /\ UNCHANGED <<key, ammo, venomCount, used, served, refilled, rearmed, budget, heldLanding>>

(* An end screen comes up (endGameS1 or endGameS2). *)
RoundOver ==
  /\ Settled /\ halt = "none"
  /\ halt' = "over"
  /\ unsampled' = {"clk", "vga"}
  /\ health' = HaltedHealth
  /\ UNCHANGED <<due, key, ammo, venomCount, venom, history>>

(* The bullet a held trigger may still launch: that of the slot shown. *)
Reserve == IF key /\ venomCount \notin Airborne THEN 1 ELSE 0

(* KEY0 up, or the end screen is left: a round's account is opened with the *)
(* bullets in the air, and one more if the trigger is held and the slot     *)
(* shown has not fired.                                                     *)
Resume ==
  /\ Settled /\ halt # "none"
  /\ halt' = "none"
  /\ unsampled' = {"clk", "vga"}
  /\ budget' = Cardinality(Airborne) + Reserve
  /\ heldLanding' = FALSE
  /\ UNCHANGED <<due, key, machines, fresh, used, served, refilled, rearmed>>

Ammo == AmmoReset \/ AmmoStart \/ AmmoReload \/ AmmoPull \/ AmmoRelease \/ AmmoStay

Pixel == \E cover \in SUBSET Slots, wall, enemy \in BOOLEAN : VgaEdge(cover, wall, enemy)

Input == PressFire \/ ReleaseFire \/ PressReset \/ RoundOver \/ Resume

Next == Ammo \/ Pixel \/ Input

(* The clocks never stop; no player has to press anything. *)
Fairness == WF_vars(Ammo) /\ WF_vars(Pixel)

Spec == Init /\ [][Next]_vars /\ Fairness

-----------------------------------------------------------------------------
TypeOK ==
  /\ due \in {{"clk", "vga"}, {"clk"}, {"vga"}, {"half"}}
  /\ key \in BOOLEAN
  /\ halt \in {"none", "over", "reset"}
  /\ unsampled \in SUBSET {"clk", "vga"}
  /\ ammo \in AmmoStates
  /\ venomCount \in 0 .. NVenom
  /\ venom \in [Slots -> VenomStates]
  /\ health \in HealthStates
  /\ fresh \in SUBSET Slots
  /\ used \in SUBSET Slots
  /\ served \in BOOLEAN
  /\ refilled \in BOOLEAN
  /\ rearmed \in BOOLEAN
  /\ budget \in 0 .. MostBullets
  /\ heldLanding \in BOOLEAN

(* A pull of the trigger has one bullet in the air: holding the key does    *)
(* not empty the magazine (the wait states of venomCountMachine).  Only one *)
(* held over an end screen, which resets the magazine under the bullet, can *)
(* launch a second, from slot 0, and no third.                              *)
OneShotPerPull ==
  /\ ~rearmed => \A s, t \in fresh : s = t
  /\ \A s, t \in fresh : s = t \/ 0 \in {s, t}

(* Without that exception, what is not so: one bullet for every pull.       *)
OneBulletPerPull == \A s, t \in fresh : s = t

(* Every bullet launched from the present magazine is paid for: its slot    *)
(* has been passed, or is being passed by the pull that launched it.  The   *)
(* only exception is a magazine filled under a held trigger, where the two  *)
(* clocks may disagree on which of them saw the trigger first.              *)
ChargedForEveryShot ==
  ammo # "Halted" /\ ~refilled =>
    \A s \in used : \/ s < venomCount
                    \/ s = venomCount /\ (ammo = "Wait_state" \/ key)

(* While no bullet comes down with the trigger held, a pull of the trigger  *)
(* costs the other snake at most one heart, however many pixels and scan    *)
(* lines the bullet overlaps it.                                           *)
HeartPerPull ==
  halt = "none" /\ ~heldLanding =>
    HeartsTaken(health) + Cardinality(Airborne) <= budget

(* The magazine never gives up a venom without a bullet: when a slot is     *)
(* passed, its bullet was in the air at some time in the pull.              *)
NoVenomWasted ==
  [][AmmoRelease /\ ~refilled => served]_vars

(* A round starts with three hearts and a full magazine: both machines have *)
(* seen the end screen by the time it is left.                             *)
FullOnResume ==
  [][Resume => health = HaltedHealth /\ ammo = "Halted" /\ venomCount = 0]_vars

(* What the player sees: see Hearts.tla. *)
Display == INSTANCE Hearts WITH hearts <- HealthCount(health), playing <- (halt = "none")
ImplementsHearts == Display!Spec

(* A heart that is hit is taken off the display, whatever the pixels show:  *)
(* the wait states cannot be held up for ever.                             *)
HitLands ==
  \A h \in {2, 6, 10} : health = h ~> health \in {h + 3, Health0, HaltedHealth}

-----------------------------------------------------------------------------
(* The inductive invariant from which DuelProofs derives the properties.    *)

(* The number shown belongs to the state of the magazine. *)
CountFits ==
  /\ ammo = "Halted" => venomCount = 0
  /\ ammo \in {"Venom", "Wait_state"} => venomCount < NVenom
  /\ ammo = "Reload_Venom" => venomCount = NVenom

(* Whatever this pull has launched came from the slot it is passing; after  *)
(* a reset under it that is slot 0.                                         *)
FreshIsPulled ==
  /\ fresh \subseteq Airborne
  /\ key /\ ~rearmed => \A s \in fresh : s = venomCount
  /\ key /\ rearmed => venomCount = 0

(* A halt that a clock has sampled has halted the machines on it. *)
HaltSeen ==
  /\ halt # "none" => health = HaltedHealth
  /\ halt # "none" /\ ammo # "Halted" => "clk" \in unsampled
  /\ \A s \in Slots : venom[s] = "Halted" =>
       /\ halt = "reset" \/ "vga" \in unsampled
       /\ halt = "none" /\ key /\ ammo \in {"Venom", "Wait_state"} => refilled

(* A trigger that a clock has sampled has moved the machines on it, but for *)
(* a magazine filled under it.                                              *)
PullSeen ==
  /\ ammo = "Venom" /\ key /\ ~refilled => "clk" \in unsampled
  /\ halt = "none" /\ ~refilled /\ ammo \in {"Venom", "Wait_state"} /\ key =>
       served \/ "vga" \in unsampled
  /\ halt = "none" /\ ~refilled /\ ammo = "Wait_state" /\ ~key => served

(* No slot ahead of the one shown has launched. *)
UsedInOrder == ammo # "Halted" => \A s \in used : s <= venomCount

(* The round's account, with the bullet a held trigger may still launch. *)
BudgetHolds ==
  halt = "none" /\ ~heldLanding =>
    HeartsTaken(health) + Cardinality(Airborne) + Reserve <= budget

IInv ==
  /\ TypeOK
  /\ CountFits
  /\ OneShotPerPull
  /\ FreshIsPulled
  /\ HaltSeen
  /\ PullSeen
  /\ UsedInOrder
  /\ ChargedForEveryShot
  /\ BudgetHolds
=============================================================================
