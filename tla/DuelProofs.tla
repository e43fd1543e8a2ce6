----------------------------- MODULE DuelProofs -----------------------------
(***************************************************************************)
(* The safety properties of Duel, for a magazine of any size.  IInv is     *)
(* inductive: one lemma for each clock edge and input shows that a step    *)
(* preserves it, one step of the lemma for each conjunct of IInv.          *)
(***************************************************************************)
EXTENDS Duel, FiniteSetTheorems, TLAPS

USE NVenomAssumption

(* Bullets in the air are counted by a number that no set of slots exceeds. *)
LEMMA SlotsFinite ==
  /\ IsFiniteSet(Slots)
  /\ Cardinality(Slots) = NVenom
<1>1. 0 \in Int /\ NVenom - 1 \in Int
  OBVIOUS
<1>2. IsFiniteSet(0 .. (NVenom - 1)) /\ Cardinality(0 .. (NVenom - 1)) = NVenom
  BY <1>1, FS_Interval
<1> QED
  BY <1>2 DEF Slots

LEMMA AirborneBound ==
  ASSUME NEW S \in SUBSET Slots
  PROVE  /\ IsFiniteSet(S)
         /\ Cardinality(S) \in Nat
         /\ Cardinality(S) <= NVenom
<1>1. IsFiniteSet(S) /\ Cardinality(S) <= NVenom
  BY SlotsFinite, FS_Subset
<1> QED
  BY <1>1, FS_CardinalityType

-----------------------------------------------------------------------------
(* What the chain of health states does to the hearts taken. *)
LEMMA HealthStep ==
  ASSUME NEW h \in HealthStates, NEW collision \in BOOLEAN
  PROVE  /\ HealthNext(h, collision) \in HealthStates
         /\ HeartsTaken(HealthNext(h, collision)) \in 0 .. 3
         /\ HeartsTaken(HealthNext(h, collision)) <= HeartsTaken(h) + 1
         /\ ~collision => HeartsTaken(HealthNext(h, collision)) = HeartsTaken(h)
BY DEF HealthStates, HealthNext, Advances, HeartsTaken, HaltedHealth, Health3, Health2,
       Health1, Health0

-----------------------------------------------------------------------------
LEMMA InitIInv == Init => IInv
<1> SUFFICES ASSUME Init PROVE IInv
  OBVIOUS
<1>1. TypeOK
  <2>1. venom \in [Slots -> VenomStates]
    BY DEF Init, VenomStates
  <2>2. /\ unsampled \in SUBSET {"clk", "vga"}
        /\ health \in HealthStates
        /\ venomCount \in 0 .. NVenom
        /\ budget \in 0 .. MostBullets
    BY DEF Init, Clocks, HealthStates, HaltedHealth, Health0, MostBullets
  <2> QED
    BY <2>1, <2>2 DEF Init, TypeOK, PixelStart, AmmoStates
<1>2. Airborne = {}
  BY DEF Init, Airborne
<1>3. Cardinality(Airborne) = 0
  BY <1>2, FS_EmptySet
<1>4. CountFits /\ OneShotPerPull /\ FreshIsPulled
  BY DEF Init, CountFits, OneShotPerPull, FreshIsPulled
<1>5. HaltSeen /\ PullSeen /\ UsedInOrder /\ ChargedForEveryShot
  BY DEF Init, HaltSeen, PullSeen, UsedInOrder, ChargedForEveryShot, Clocks
<1>6. BudgetHolds
  BY <1>3 DEF Init, BudgetHolds, Reserve, HeartsTaken, HaltedHealth, Health3
<1> QED
  BY <1>1, <1>4, <1>5, <1>6 DEF IInv

-----------------------------------------------------------------------------
(* An edge of Clk: the magazine moves, bullets and hearts do not. *)
LEMMA AmmoStep == IInv /\ Ammo => IInv'
<1> SUFFICES ASSUME IInv, Ammo PROVE IInv'
  OBVIOUS
<1> USE DEF Refill, HaltsAmmo, Released, Passed
<1>0. TypeOK
  BY DEF IInv
<1>1. ClkEdge
  BY DEF Ammo, AmmoReset, AmmoStart, AmmoReload, AmmoPull, AmmoRelease, AmmoStay
<1>2. /\ UNCHANGED <<key, halt, venom, health, budget, heldLanding>>
      /\ unsampled' = unsampled \ {"clk"}
      /\ Airborne' = Airborne
  BY <1>1 DEF ClkEdge, Airborne
<1>3. due' \in {{"clk", "vga"}, {"clk"}, {"vga"}, {"half"}}
  BY <1>0, <1>1 DEF TypeOK, ClkEdge, ClkDue, EdgeDone, PixelStart
<1>4. TypeOK' /\ CountFits'
  BY <1>0, <1>2, <1>3 DEF IInv, TypeOK, CountFits, Ammo, AmmoReset, AmmoStart, AmmoReload,
     AmmoPull, AmmoRelease, AmmoStay, AmmoStates
<1>5. fresh' = fresh /\ (rearmed => rearmed')
  <2>1. CASE AmmoReset
    BY <2>1 DEF AmmoReset
  <2>2. CASE AmmoStart \/ AmmoReload \/ AmmoPull \/ AmmoRelease \/ AmmoStay
    BY <2>2 DEF AmmoStart, AmmoReload, AmmoPull, AmmoRelease, AmmoStay
  <2> QED
    BY <2>1, <2>2 DEF Ammo
<1>6. OneShotPerPull'
  BY <1>5 DEF IInv, OneShotPerPull
<1>7. FreshIsPulled'
  <2>1. fresh' \subseteq Airborne'
    BY <1>2, <1>5 DEF IInv, FreshIsPulled
  <2>2. ASSUME key', ~rearmed', NEW s \in fresh' PROVE s = venomCount'
    <3>1. s \in fresh /\ s = venomCount /\ s \in Slots /\ key
      BY <1>0, <1>2, <1>5, <2>2 DEF IInv, FreshIsPulled, TypeOK
    <3>2. CASE AmmoReset
      BY <1>2, <2>2, <3>1, <3>2 DEF AmmoReset
    <3>3. CASE AmmoStart
      BY <3>1, <3>3 DEF IInv, CountFits, AmmoStart
    <3>4. CASE AmmoReload
      BY <3>1, <3>4 DEF IInv, CountFits, AmmoReload, Slots
    <3>5. CASE AmmoPull \/ AmmoRelease \/ AmmoStay
      BY <3>1, <3>5 DEF AmmoPull, AmmoRelease, AmmoStay
    <3> QED
      BY <3>2, <3>3, <3>4, <3>5 DEF Ammo
  <2>3. key' /\ rearmed' => venomCount' = 0
    <3>1. key' = key /\ (key /\ rearmed => venomCount = 0)
      BY <1>2 DEF IInv, FreshIsPulled
    <3>2. CASE AmmoReset \/ AmmoStart \/ AmmoReload
      BY <3>2 DEF AmmoReset, AmmoStart, AmmoReload
    <3>3. CASE AmmoPull \/ AmmoRelease \/ AmmoStay
      BY <3>1, <3>3 DEF AmmoPull, AmmoRelease, AmmoStay
    <3> QED
      BY <3>2, <3>3 DEF Ammo
  <2> QED
    BY <2>1, <2>2, <2>3 DEF FreshIsPulled
<1>8. HaltSeen'
  BY <1>0, <1>2 DEF IInv, TypeOK, HaltSeen, Ammo, AmmoReset, AmmoStart, AmmoReload,
     AmmoPull, AmmoRelease, AmmoStay
<1>9. PullSeen'
  BY <1>0, <1>2 DEF IInv, TypeOK, PullSeen, Ammo, AmmoReset, AmmoStart, AmmoReload,
     AmmoPull, AmmoRelease, AmmoStay
<1>10. UsedInOrder' /\ ChargedForEveryShot'
  <2>1. CASE AmmoReset \/ AmmoStart \/ AmmoReload
    BY <2>1 DEF UsedInOrder, ChargedForEveryShot, AmmoReset, AmmoStart, AmmoReload
  <2>2. CASE AmmoPull \/ AmmoStay
    BY <1>2, <2>2 DEF IInv, UsedInOrder, ChargedForEveryShot, AmmoPull, AmmoStay
  <2>3. CASE AmmoRelease
    <3> SUFFICES ASSUME NEW s \in used' PROVE s < venomCount' /\ s <= venomCount'
      BY DEF UsedInOrder, ChargedForEveryShot
    <3>1. s \in used /\ s \in Nat /\ venomCount \in Nat /\ ammo = "Wait_state"
      BY <1>0, <2>3 DEF TypeOK, AmmoRelease, Slots
    <3>2. s <= venomCount
      BY <3>1 DEF IInv, UsedInOrder
    <3> QED
      BY <2>3, <3>1, <3>2 DEF AmmoRelease
  <2> QED
    BY <2>1, <2>2, <2>3 DEF Ammo
<1>11. BudgetHolds'
  <2>1. ASSUME halt = "none", key
        PROVE  venomCount' = venomCount \/ venomCount \notin Slots
    <3>1. CASE AmmoReset \/ AmmoPull \/ AmmoRelease \/ AmmoStay
      BY <2>1, <3>1 DEF AmmoReset, AmmoPull, AmmoRelease, AmmoStay
    <3>2. CASE AmmoStart
      BY <3>2 DEF IInv, CountFits, AmmoStart
    <3>3. CASE AmmoReload
      BY <3>3 DEF IInv, CountFits, AmmoReload, Slots
    <3> QED
      BY <3>1, <3>2, <3>3 DEF Ammo
  <2>2. halt = "none" => Reserve' <= Reserve
    BY <1>2, <2>1 DEF Reserve, Airborne
  <2>3. HeartsTaken(health) \in 0 .. 3 /\ Cardinality(Airborne) \in Nat /\ budget \in Nat
    BY <1>0, AirborneBound DEF HeartsTaken, Airborne, TypeOK, MostBullets
  <2>4. Reserve \in 0 .. 1 /\ Reserve' \in 0 .. 1
    BY DEF Reserve
  <2> QED
    BY <1>2, <2>2, <2>3, <2>4 DEF IInv, BudgetHolds
<1> QED
  BY <1>4, <1>6, <1>7, <1>8, <1>9, <1>10, <1>11 DEF IInv

-----------------------------------------------------------------------------
(* An edge of vga_clk: bullets and hearts move, the magazine does not. *)
LEMMA PixelStep ==
  ASSUME IInv, NEW cover \in SUBSET Slots, NEW wall \in BOOLEAN, NEW enemy \in BOOLEAN,
         VgaEdge(cover, wall, enemy)
  PROVE  IInv'
<1> DEFINE hurt == \E s \in Slots : VenomOn(s, cover) /\ enemy
           next == [s \in Slots |-> VenomNext(s, Fires(s), Collides(s, cover, wall, enemy))]
           launched == {s \in Slots : venom[s] = "Idle" /\ next[s] = "bulletFired"}
           landed == {s \in Slots : venom[s] = "bulletMoving" /\ next[s] = "Idle"}
<1>0. TypeOK
  BY DEF IInv
<1>1. /\ VgaDue
      /\ EdgeDone("vga")
      /\ unsampled' = unsampled \ {"vga"}
      /\ venom' = next
      /\ health' = IF halt = "over" THEN HaltedHealth ELSE HealthNext(health, hurt)
      /\ fresh' = (fresh \ landed) \cup launched
      /\ used' = used \cup launched
      /\ served' = (served \/ \E s \in Airborne \cup launched : Fires(s))
      /\ heldLanding' = (heldLanding \/ (landed # {} /\ key))
      /\ UNCHANGED <<key, halt, ammo, venomCount, refilled, rearmed, budget>>
  BY DEF VgaEdge
<1>2. halt # "reset" /\ due' \in {{"clk", "vga"}, {"clk"}, {"vga"}, {"half"}}
  BY <1>0, <1>1 DEF TypeOK, VgaDue, EdgeDone, PixelStart
(* What the step does to one slot. *)
<1>3. ASSUME NEW s \in Slots
      PROVE  /\ venom[s] \in VenomStates
             /\ venom[s] = "Halted" => next[s] = "Idle"
             /\ venom[s] = "Idle" => next[s] = IF Fires(s) THEN "bulletFired" ELSE "Idle"
             /\ venom[s] = "bulletFired" => next[s] = "bulletMoving"
             /\ venom[s] = "bulletMoving" =>
                  next[s] = IF Collides(s, cover, wall, enemy) THEN "Idle" ELSE "bulletMoving"
  BY <1>0 DEF TypeOK, VenomNext, VenomStates
<1>4. ASSUME NEW s \in launched PROVE key /\ s = venomCount /\ s \in Slots
  BY <1>3, <1>4 DEF Fires
<1>5. Airborne' = (Airborne \ landed) \cup launched
  BY <1>1, <1>3 DEF Airborne, VenomStates
<1>6. launched \subseteq {venomCount} \cap Slots /\ (launched # {} => key)
  BY <1>4
<1>7. landed \subseteq Airborne /\ launched \cap Airborne = {}
  BY DEF Airborne
<1>8. venom' \in [Slots -> VenomStates] /\ \A s \in Slots : venom'[s] # "Halted"
  BY <1>1, <1>3 DEF VenomStates
<1>9. hurt => landed # {}
  BY <1>3 DEF VenomOn, Collides
<1>10. health' \in HealthStates
  <2>1. hurt \in BOOLEAN
    OBVIOUS
  <2> HIDE DEF hurt
  <2> QED
    BY <1>0, <1>1, <2>1, HealthStep DEF TypeOK, HealthStates, HaltedHealth, Health0
<1> HIDE DEF hurt, next, launched, landed
<1>11. TypeOK'
  <2>1. served' \in BOOLEAN /\ heldLanding' \in BOOLEAN
    BY <1>0, <1>1 DEF TypeOK
  <2>2. fresh' \in SUBSET Slots /\ used' \in SUBSET Slots
    BY <1>0, <1>1, <1>6 DEF TypeOK
  <2> QED
    BY <1>0, <1>1, <1>2, <1>8, <1>10, <2>1, <2>2 DEF TypeOK, MostBullets
<1>12. CountFits'
  BY <1>1 DEF IInv, CountFits
<1>13. OneShotPerPull'
  <2>1. CASE launched = {}
    BY <1>1, <2>1 DEF IInv, OneShotPerPull
  <2>2. CASE launched # {} /\ ~rearmed
    <3>1. key /\ venomCount \notin Airborne /\ launched = {venomCount}
      BY <1>6, <1>7, <2>2
    <3>2. fresh = {}
      BY <2>2, <3>1 DEF IInv, FreshIsPulled
    <3> QED
      BY <1>1, <3>1, <3>2 DEF OneShotPerPull
  <2>3. CASE launched # {} /\ rearmed
    <3>1. launched = {0}
      BY <1>6, <2>3 DEF IInv, FreshIsPulled
    <3> QED
      BY <1>1, <2>3, <3>1 DEF IInv, OneShotPerPull
  <2> QED
    BY <2>1, <2>2, <2>3
<1>14. FreshIsPulled'
  BY <1>1, <1>5, <1>6 DEF IInv, FreshIsPulled
<1>15. HaltSeen'
  BY <1>0, <1>1, <1>2, <1>8 DEF IInv, TypeOK, HaltSeen
<1>16. PullSeen'
  <2>1. ammo = "Venom" /\ key /\ ~refilled => "clk" \in unsampled'
    BY <1>1 DEF IInv, PullSeen
  <2>2. ASSUME halt = "none", ~refilled, ammo \in {"Venom", "Wait_state"}, key
        PROVE  served'
    <3>1. venomCount \in Slots
      BY <1>0, <2>2 DEF IInv, CountFits, TypeOK, Slots
    <3>2. CASE venom[venomCount] = "Halted"
      BY <2>2, <3>1, <3>2 DEF IInv, HaltSeen
    <3>3. CASE venom[venomCount] = "Idle"
      BY <1>1, <1>3, <2>2, <3>1, <3>3 DEF Fires, launched, next
    <3>4. CASE venomCount \in Airborne
      BY <1>1, <2>2, <3>1, <3>4 DEF Fires
    <3> QED
      BY <1>3, <3>1, <3>2, <3>3, <3>4 DEF VenomStates, Airborne
  <2>3. halt = "none" /\ ~refilled /\ ammo = "Wait_state" /\ ~key => served'
    BY <1>1 DEF IInv, PullSeen
  <2> QED
    BY <1>1, <2>1, <2>2, <2>3 DEF PullSeen
<1>17. UsedInOrder' /\ ChargedForEveryShot'
  BY <1>0, <1>1, <1>6 DEF IInv, TypeOK, Slots, UsedInOrder, ChargedForEveryShot
<1>18. BudgetHolds'
  <2> SUFFICES ASSUME halt = "none", ~heldLanding'
               PROVE  HeartsTaken(health') + Cardinality(Airborne') + Reserve' <= budget
    BY <1>1 DEF BudgetHolds
  <2>1. /\ ~heldLanding /\ (landed # {} => ~key)
        /\ HeartsTaken(health) + Cardinality(Airborne) + Reserve <= budget
    BY <1>1 DEF IInv, BudgetHolds
  <2>2. /\ health' = HealthNext(health, hurt)
        /\ HeartsTaken(health) \in 0 .. 3
        /\ HeartsTaken(health') \in 0 .. 3
        /\ HeartsTaken(health') <= HeartsTaken(health) + 1
        /\ ~hurt => HeartsTaken(health') = HeartsTaken(health)
    <3>1. hurt \in BOOLEAN
      BY DEF hurt
    <3>2. health \in HealthStates /\ health' = HealthNext(health, hurt)
      BY <1>0, <1>1 DEF TypeOK
    <3>3. HeartsTaken(health) \in 0 .. 3
      BY DEF HeartsTaken
    <3> QED
      BY <3>1, <3>2, <3>3, HealthStep
  <2>3. /\ Airborne \in SUBSET Slots
        /\ IsFiniteSet(Airborne)
        /\ Cardinality(Airborne) \in Nat
    <3>1. Airborne \in SUBSET Slots
      BY DEF Airborne
    <3> QED
      BY <3>1, AirborneBound
  <2>4. budget \in Nat /\ Reserve \in 0 .. 1 /\ Reserve' \in 0 .. 1
    BY <1>0 DEF TypeOK, MostBullets, Reserve
  <2>5. CASE landed # {}
    <3>1. ~key /\ launched = {} /\ Reserve = 0 /\ Reserve' = 0
      BY <1>1, <1>6, <2>1, <2>5 DEF Reserve
    <3>2. Airborne' = Airborne \ landed /\ landed \in SUBSET Airborne
      BY <1>5, <1>7, <3>1
    <3>3. PICK s \in landed : TRUE
      BY <2>5
    <3>4. IsFiniteSet(Airborne \ {s}) /\ Cardinality(Airborne \ {s}) = Cardinality(Airborne) - 1
      BY <2>3, <3>2, <3>3, FS_RemoveElement
    <3>5. Airborne' \in SUBSET (Airborne \ {s})
      BY <3>2, <3>3
    <3>6. Cardinality(Airborne') <= Cardinality(Airborne) - 1
      BY <3>4, <3>5, FS_Subset
    <3>7. Cardinality(Airborne') \in Nat
      BY <2>3, <3>2, AirborneBound
    <3> QED
      BY <2>1, <2>2, <2>3, <2>4, <3>1, <3>6, <3>7
  <2>6. CASE landed = {} /\ launched = {}
    <3>1. Airborne' = Airborne /\ Reserve' = Reserve
      BY <1>1, <1>5, <2>6 DEF Reserve
    <3> QED
      BY <1>9, <2>1, <2>2, <2>6, <3>1
  <2>7. CASE landed = {} /\ launched # {}
    <3>1. key /\ venomCount \in Slots /\ launched = {venomCount} /\ venomCount \notin Airborne
      BY <1>6, <1>7, <2>7
    <3>2. Airborne' = Airborne \cup {venomCount}
      BY <1>5, <2>7, <3>1
    <3>3. Reserve = 1 /\ Reserve' = 0
      BY <1>1, <3>1, <3>2 DEF Reserve
    <3>4. Cardinality(Airborne') = Cardinality(Airborne) + 1
      BY <2>3, <3>1, <3>2, FS_AddElement
    <3> QED
      BY <1>9, <2>1, <2>2, <2>3, <2>4, <2>7, <3>3, <3>4
  <2> QED
    BY <2>5, <2>6, <2>7
<1> QED
  BY <1>11, <1>12, <1>13, <1>14, <1>15, <1>16, <1>17, <1>18 DEF IInv

-----------------------------------------------------------------------------
(* Keys, the reset button and the end screens. *)
LEMMA PressFireStep == IInv /\ PressFire => IInv'
<1> SUFFICES ASSUME IInv, PressFire PROVE IInv'
  OBVIOUS
<1>1. TypeOK /\ Airborne' = Airborne
  BY DEF IInv, PressFire, machines, Airborne
<1>2. /\ unsampled = {} /\ ~key /\ key' = TRUE /\ fresh' = {}
      /\ served' = FALSE /\ refilled' = FALSE /\ rearmed' = FALSE
      /\ "clk" \in unsampled' /\ (halt # "reset" => "vga" \in unsampled')
      /\ unsampled' \in SUBSET {"clk", "vga"}
      /\ UNCHANGED <<due, halt, ammo, venomCount, venom, health, used, heldLanding>>
  BY DEF PressFire, Settled, Clocks, machines
<1>3. budget \in Nat /\ budget' \in 0 .. MostBullets
      /\ budget' = IF budget < 4 + NVenom THEN budget + 1 ELSE budget
  BY <1>1 DEF PressFire, TypeOK, MostBullets
<1>4. TypeOK' /\ CountFits' /\ OneShotPerPull' /\ FreshIsPulled'
  BY <1>1, <1>2, <1>3 DEF IInv, TypeOK, CountFits, OneShotPerPull, FreshIsPulled, MostBullets
<1>5. HaltSeen' /\ PullSeen'
  BY <1>2 DEF IInv, HaltSeen, PullSeen
<1>6. UsedInOrder' /\ ChargedForEveryShot'
  BY <1>1, <1>2 DEF IInv, TypeOK, Slots, UsedInOrder, ChargedForEveryShot
<1>7. BudgetHolds'
  <2> SUFFICES ASSUME halt = "none", ~heldLanding
               PROVE  HeartsTaken(health) + Cardinality(Airborne) + Reserve' <= budget'
    BY <1>1, <1>2 DEF BudgetHolds
  <2>1. Reserve = 0 /\ Reserve' \in 0 .. 1
    BY <1>2 DEF Reserve
  <2>2. HeartsTaken(health) + Cardinality(Airborne) + Reserve <= budget
    BY DEF IInv, BudgetHolds
  <2>3. HeartsTaken(health) \in 0 .. 3
    BY DEF HeartsTaken
  <2>4. Cardinality(Airborne) \in 0 .. NVenom
    BY AirborneBound DEF Airborne
  <2> QED
    BY <1>3, <2>1, <2>2, <2>3, <2>4
<1> QED
  BY <1>4, <1>5, <1>6, <1>7 DEF IInv

LEMMA ReleaseFireStep == IInv /\ ReleaseFire => IInv'
<1> SUFFICES ASSUME IInv, ReleaseFire PROVE IInv'
  OBVIOUS
<1>1. TypeOK /\ Airborne' = Airborne
  BY DEF IInv, ReleaseFire, machines, Airborne
<1>2. /\ unsampled = {} /\ key /\ key' = FALSE
      /\ "clk" \in unsampled' /\ (halt # "reset" => "vga" \in unsampled')
      /\ unsampled' \in SUBSET {"clk", "vga"}
      /\ UNCHANGED <<due, halt, ammo, venomCount, venom, health>>
      /\ UNCHANGED <<fresh, used, served, refilled, rearmed, budget, heldLanding>>
  BY DEF ReleaseFire, Settled, Clocks, machines, history
<1>3. TypeOK' /\ CountFits' /\ OneShotPerPull' /\ FreshIsPulled'
  BY <1>1, <1>2 DEF IInv, TypeOK, CountFits, OneShotPerPull, FreshIsPulled, MostBullets
<1>4. HaltSeen' /\ PullSeen'
  BY <1>2 DEF IInv, HaltSeen, PullSeen
<1>5. UsedInOrder' /\ ChargedForEveryShot'
  <2>1. ~refilled => ammo # "Venom"
    BY <1>2 DEF IInv, PullSeen
  <2>2. ammo = "Reload_Venom" => \A s \in used : s < venomCount
    BY <1>1 DEF IInv, TypeOK, CountFits, Slots
  <2> QED
    BY <1>1, <1>2, <2>1, <2>2 DEF IInv, TypeOK, AmmoStates, UsedInOrder, ChargedForEveryShot
<1>6. BudgetHolds'
  <2>1. Reserve' <= Reserve /\ Reserve \in 0 .. 1 /\ Reserve' \in 0 .. 1
    BY <1>2 DEF Reserve
  <2>2. HeartsTaken(health) \in 0 .. 3 /\ Cardinality(Airborne) \in Nat /\ budget \in Nat
    BY <1>1, AirborneBound DEF HeartsTaken, Airborne, TypeOK, MostBullets
  <2> QED
    BY <1>1, <1>2, <2>1, <2>2 DEF IInv, BudgetHolds
<1> QED
  BY <1>3, <1>4, <1>5, <1>6 DEF IInv

LEMMA PressResetStep == IInv /\ PressReset => IInv'
<1> SUFFICES ASSUME IInv, PressReset PROVE IInv'
  OBVIOUS
<1>1. TypeOK
  BY DEF IInv
<1>2. /\ halt' = "reset" /\ due' = {"clk", "vga"} /\ unsampled' = {"clk"}
      /\ venom' = [s \in Slots |-> "Halted"] /\ health' = HaltedHealth /\ fresh' = {}
      /\ UNCHANGED <<key, ammo, venomCount, used, served, refilled, rearmed, budget, heldLanding>>
  BY DEF PressReset, PixelStart
<1>3. TypeOK'
  <2>1. venom' \in [Slots -> VenomStates] /\ health' \in HealthStates
    BY <1>2 DEF VenomStates, HealthStates, HaltedHealth, Health0
  <2> QED
    BY <1>1, <1>2, <2>1 DEF TypeOK, MostBullets
<1>4. CountFits' /\ OneShotPerPull' /\ FreshIsPulled' /\ HaltSeen' /\ PullSeen'
  BY <1>2 DEF IInv, CountFits, OneShotPerPull, FreshIsPulled, HaltSeen, PullSeen
<1>5. UsedInOrder' /\ ChargedForEveryShot' /\ BudgetHolds'
  BY <1>2 DEF IInv, UsedInOrder, ChargedForEveryShot, BudgetHolds
<1> QED
  BY <1>3, <1>4, <1>5 DEF IInv

LEMMA RoundOverStep == IInv /\ RoundOver => IInv'
<1> SUFFICES ASSUME IInv, RoundOver PROVE IInv'
  OBVIOUS
<1>1. TypeOK /\ Airborne' = Airborne
  BY DEF IInv, RoundOver, Airborne
<1>2. /\ unsampled = {} /\ halt = "none" /\ halt' = "over" /\ unsampled' = {"clk", "vga"}
      /\ health' = HaltedHealth
      /\ UNCHANGED <<due, key, ammo, venomCount, venom>>
      /\ UNCHANGED <<fresh, used, served, refilled, rearmed, budget, heldLanding>>
  BY DEF RoundOver, Settled, history
<1>3. TypeOK'
  BY <1>1, <1>2 DEF TypeOK, HealthStates, HaltedHealth, Health0, MostBullets
<1>4. CountFits' /\ OneShotPerPull' /\ FreshIsPulled' /\ HaltSeen' /\ PullSeen'
  BY <1>1, <1>2 DEF IInv, CountFits, OneShotPerPull, FreshIsPulled, HaltSeen, PullSeen
<1>5. UsedInOrder' /\ ChargedForEveryShot' /\ BudgetHolds'
  BY <1>2 DEF IInv, UsedInOrder, ChargedForEveryShot, BudgetHolds
<1> QED
  BY <1>3, <1>4, <1>5 DEF IInv

(* By the time an end screen or KEY0 is left, every machine has seen it. *)
LEMMA HaltedBeforeResume ==
  IInv /\ Resume => health = HaltedHealth /\ ammo = "Halted" /\ venomCount = 0
BY DEF IInv, Resume, Settled, HaltSeen, CountFits

LEMMA ResumeStep == IInv /\ Resume => IInv'
<1> SUFFICES ASSUME IInv, Resume PROVE IInv'
  OBVIOUS
<1>1. TypeOK /\ Airborne' = Airborne /\ Reserve' = Reserve
  BY DEF IInv, Resume, Airborne, machines, Reserve
<1>2. /\ unsampled = {} /\ halt' = "none" /\ unsampled' = {"clk", "vga"}
      /\ budget' = Cardinality(Airborne) + Reserve /\ heldLanding' = FALSE
      /\ UNCHANGED <<due, key, ammo, venomCount, venom, health, fresh, used, served, refilled,
                    rearmed>>
  BY DEF Resume, Settled, machines
<1>3. health = HaltedHealth /\ ammo = "Halted"
  BY HaltedBeforeResume
<1>4. Cardinality(Airborne) \in Nat /\ Cardinality(Airborne) <= NVenom /\ Reserve \in 0 .. 1
  BY AirborneBound DEF Airborne, Reserve
<1>5. TypeOK'
  <2>1. budget' \in 0 .. MostBullets
    BY <1>2, <1>4 DEF MostBullets
  <2> QED
    BY <1>1, <1>2, <2>1 DEF TypeOK, MostBullets
<1>6. CountFits' /\ OneShotPerPull' /\ FreshIsPulled' /\ HaltSeen' /\ PullSeen'
  BY <1>1, <1>2, <1>3 DEF IInv, CountFits, OneShotPerPull, FreshIsPulled, HaltSeen, PullSeen
<1>7. UsedInOrder' /\ ChargedForEveryShot'
  BY <1>2, <1>3 DEF UsedInOrder, ChargedForEveryShot
<1>8. BudgetHolds'
  BY <1>1, <1>2, <1>3, <1>4 DEF BudgetHolds, HeartsTaken, HaltedHealth, Health3
<1> QED
  BY <1>5, <1>6, <1>7, <1>8 DEF IInv

-----------------------------------------------------------------------------
(* Every step preserves IInv. *)
LEMMA NextIInv == IInv /\ [Next]_vars => IInv'
<1> SUFFICES ASSUME IInv, [Next]_vars PROVE IInv'
  OBVIOUS
<1>1. CASE Ammo
  BY <1>1, AmmoStep
<1>2. CASE Pixel
  BY <1>2, PixelStep DEF Pixel
<1>3. CASE Input
  BY <1>3, PressFireStep, ReleaseFireStep, PressResetStep, RoundOverStep, ResumeStep DEF Input
<1>4. CASE UNCHANGED vars
  BY <1>4 DEF vars, machines, history, IInv, TypeOK, CountFits, OneShotPerPull, FreshIsPulled,
     HaltSeen, PullSeen, UsedInOrder, ChargedForEveryShot, BudgetHolds, Airborne, Reserve
<1> QED
  BY <1>1, <1>2, <1>3, <1>4 DEF Next

(* The inductive invariant holds in every reachable state of Duel. *)
THEOREM Invariance == Spec => []IInv
<1> QED
  BY InitIInv, NextIInv, PTL DEF Spec

(* Every variable of Duel keeps its type: the magazine's number, the states  *)
(* of the bullets and the hearts never leave what the code declares.         *)
THEOREM TypeCorrect == Spec => []TypeOK
<1>1. IInv => TypeOK
  BY DEF IInv
<1> QED
  BY <1>1, Invariance, PTL

(* A pull of the trigger has one bullet in the air, for a magazine of any    *)
(* size (wait states of venomCountMachine); two, one of them slot 0's, when  *)
(* an end screen has reset the magazine under the held trigger.              *)
THEOREM PullLaunchesOne == Spec => []OneShotPerPull
<1>1. IInv => OneShotPerPull
  BY DEF IInv
<1> QED
  BY <1>1, Invariance, PTL

(* No bullet is free, although magazine and bullets run on different clocks. *)
THEOREM EveryShotCharged == Spec => []ChargedForEveryShot
<1>1. IInv => ChargedForEveryShot
  BY DEF IInv
<1> QED
  BY <1>1, Invariance, PTL

(* A pull costs the other snake at most one heart while no bullet comes down *)
(* with the trigger held, however its pixels overlap the snake.              *)
THEOREM PullCostsOneHeart == Spec => []HeartPerPull
<1>1. IInv => HeartPerPull
  <2> SUFFICES ASSUME IInv, halt = "none", ~heldLanding
               PROVE  HeartsTaken(health) + Cardinality(Airborne) <= budget
    BY DEF HeartPerPull
  <2>1. HeartsTaken(health) + Cardinality(Airborne) + Reserve <= budget
    BY DEF IInv, BudgetHolds
  <2>2. HeartsTaken(health) \in 0 .. 3 /\ Reserve \in 0 .. 1 /\ budget \in Nat
    BY DEF HeartsTaken, Reserve, IInv, TypeOK, MostBullets
  <2>3. Cardinality(Airborne) \in Nat
    BY AirborneBound DEF Airborne
  <2> QED
    BY <2>1, <2>2, <2>3
<1> QED
  BY <1>1, Invariance, PTL

(* The magazine never passes a slot that had no bullet in the pull. *)
THEOREM NoWaste == Spec => NoVenomWasted
<1>1. IInv /\ [Next]_vars => [AmmoRelease /\ ~refilled => served]_vars
  BY DEF IInv, PullSeen, AmmoRelease, HaltsAmmo, Released
<1> QED
  BY <1>1, Invariance, PTL DEF Spec, NoVenomWasted

(* A round starts with three hearts and a full magazine. *)
THEOREM ResumesFull == Spec => FullOnResume
<1>1. IInv /\ [Next]_vars =>
        [Resume => health = HaltedHealth /\ ammo = "Halted" /\ venomCount = 0]_vars
  BY HaltedBeforeResume
<1> QED
  BY <1>1, Invariance, PTL DEF Spec, FullOnResume

(* What the player sees of the hearts is what Hearts promises: the chain of  *)
(* wait states takes them one at a time and never gives one back.            *)
THEOREM DuelImplementsHearts == Spec => ImplementsHearts
<1>1. Init => Display!Init
  BY DEF Init, Display!Init, Display!Full, HealthCount, HaltedHealth, Health2
<1>2. IInv /\ [Next]_vars => [Display!Next]_(<<HealthCount(health), halt = "none">>)
  <2> SUFFICES ASSUME IInv, [Next]_vars
               PROVE  Display!Next \/ UNCHANGED <<HealthCount(health), halt = "none">>
    OBVIOUS
  <2> USE DEF HealthCount, HaltedHealth, Health3, Health2, Health1, Health0
  <2>1. CASE Ammo
    BY <2>1 DEF Ammo, AmmoReset, AmmoStart, AmmoReload, AmmoPull, AmmoRelease, AmmoStay, ClkEdge
  <2>2. CASE Pixel
    <3>1. PICK cover \in SUBSET Slots, wall \in BOOLEAN, enemy \in BOOLEAN :
            VgaEdge(cover, wall, enemy)
      BY <2>2 DEF Pixel
    <3>2. CASE halt = "over"
      BY <3>1, <3>2 DEF VgaEdge, IInv, HaltSeen
    <3>3. CASE halt = "none"
      <4>1. PICK c \in BOOLEAN : health' = HealthNext(health, c)
        BY <3>1, <3>3 DEF VgaEdge
      <4> QED
        BY <3>1, <3>3, <4>1 DEF VgaEdge, IInv, TypeOK, HealthStates, HealthNext, Advances,
           Display!Next, Display!Lose
    <3> QED
      BY <3>1, <3>2, <3>3 DEF VgaEdge, VgaDue, IInv, TypeOK
  <2>3. CASE PressFire \/ ReleaseFire
    BY <2>3 DEF PressFire, ReleaseFire, machines
  <2>4. CASE PressReset \/ RoundOver
    BY <2>4 DEF PressReset, RoundOver, Display!Next, Display!Interrupt, Display!Full
  <2>5. CASE Resume
    BY <2>5 DEF Resume, machines, Display!Next, Display!Play
  <2>6. CASE UNCHANGED vars
    BY <2>6 DEF vars, machines
  <2> QED
    BY <2>1, <2>2, <2>3, <2>4, <2>5, <2>6 DEF Next, Input
<1> QED
  BY <1>1, <1>2, Invariance, PTL DEF Spec, ImplementsHearts, Display!Spec
=============================================================================
