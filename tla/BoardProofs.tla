---------------------------- MODULE BoardProofs ----------------------------
(***************************************************************************)
(* The services of the board support package, for any number of alarms,    *)
(* delays, periods, descriptors, devices and interrupt lines: the list and *)
(* the times of the alarms, the table of the descriptors and its locks,    *)
(* the interrupts from reset into main.                                    *)
(***************************************************************************)
EXTENDS Alarms, Files, Interrupts, SequenceTheorems, WellFoundedInduction, TLAPS

(* What is chosen as the lowest is there.                                   *)
LEMMA LeastElement ==
  ASSUME NEW S, S \subseteq Nat, S # {}
  PROVE  \E m \in S : \A k \in S : m <= k
<1> DEFINE R == OpToRel(<, Nat)
<1>1. IsWellFoundedOn(R, Nat) BY NatLessThanWellFounded
<1>2. \A x, y \in Nat : <<x, y>> \in R <=> x < y BY DEF OpToRel
<1>3. \E m \in S : \A k \in S : <<k, m>> \notin R
  <2> HIDE DEF R
  <2> QED BY <1>1, WFMin
<1>4. PICK m \in S : \A k \in S : ~(k < m)
  <2> HIDE DEF R
  <2> QED BY <1>2, <1>3
<1>5. QED BY <1>4

-----------------------------------------------------------------------------
(* The alarms: the list stays doubly linked, whatever the callbacks do to   *)
(* it during the walk.                                                      *)
Pointers ==
  /\ next \in [Node -> Node] /\ previous \in [Node -> Node]
  /\ alarm \in Node /\ saved \in Node

ListInv == Pointers /\ Linked
-----------------------------------------------------------------------------
(* An entry that is not in the list, put in front of it. *)
LEMMA InsertKeeps ==
  ASSUME ListInv, NEW a \in Alarm, alt_alarm_list \notin Alarm, ~Registered(a), Insert(a)
  PROVE  Linked' /\ next' \in [Node -> Node] /\ previous' \in [Node -> Node]
<1> DEFINE first == next[alt_alarm_list]
<1>1. a \in Node /\ alt_alarm_list \in Node /\ first \in Node /\ a # alt_alarm_list BY DEF Node, ListInv, Pointers
<1>2. next' \in [Node -> Node] /\ previous' \in [Node -> Node]
  BY <1>1 DEF ListInv, Pointers, Insert
<1>3. next[a] = a /\ previous[a] = a BY <1>1 DEF Registered, ListInv, Linked
<1>4. first # a /\ previous[first] = alt_alarm_list BY <1>1, <1>3 DEF ListInv, Linked
<1>5. \A x \in Node : next'[x] = IF x = alt_alarm_list THEN a ELSE IF x = a THEN first ELSE next[x]
  BY <1>1 DEF ListInv, Pointers, Insert
<1>6. \A x \in Node : previous'[x] = IF x = a THEN alt_alarm_list ELSE IF x = first THEN a ELSE previous[x]
  BY <1>1 DEF ListInv, Pointers, Insert
<1>7. ASSUME NEW x \in Node PROVE previous'[next'[x]] = x /\ next'[previous'[x]] = x
  <2>1. next[x] \in Node /\ previous[x] \in Node /\ previous[next[x]] = x /\ next[previous[x]] = x
    BY DEF ListInv, Pointers, Linked
  <2> QED BY <1>1, <1>3, <1>4, <1>5, <1>6, <2>1
<1> QED BY <1>2, <1>7 DEF Linked

(* An entry taken out of the list, or one that was not in it. *)
LEMMA RemoveKeeps ==
  ASSUME ListInv, NEW a \in Node, Remove(a)
  PROVE  Linked' /\ next' \in [Node -> Node] /\ previous' \in [Node -> Node]
<1>1. next[a] \in Node /\ previous[a] \in Node BY DEF ListInv, Pointers
<1>2. next' \in [Node -> Node] /\ previous' \in [Node -> Node]
  BY <1>1 DEF ListInv, Pointers, Remove
<1>3. ASSUME NEW x \in Node PROVE previous'[next'[x]] = x /\ next'[previous'[x]] = x
  <2>1. next[x] \in Node /\ previous[x] \in Node /\ previous[next[x]] = x /\ next[previous[x]] = x
    BY DEF ListInv, Pointers, Linked
  <2>2. previous[next[a]] = a /\ next[previous[a]] = a BY DEF ListInv, Linked
  <2> QED BY <1>1, <2>1, <2>2 DEF Remove
<1> QED BY <1>2, <1>3 DEF Linked

(* The two calls, from the program or from a callback. *)
LEMMA CallsKeep ==
  ASSUME AlarmsAssumption, ListInv, NEW a \in Alarm, Stop(a) \/ \E n \in Delays : Start(a, n)
  PROVE  Linked' /\ next' \in [Node -> Node] /\ previous' \in [Node -> Node]
<1>1. CASE Stop(a) BY <1>1, RemoveKeeps DEF Stop, Node
<1>2. CASE \E n \in Delays : Start(a, n) BY <1>2, InsertKeeps DEF Start, AlarmsAssumption
<1> QED BY <1>1, <1>2

LEMMA StepKeeps == ASSUME AlarmsAssumption, ListInv, [AlarmsNext]_alarms PROVE ListInv'
<1>1. CASE Program BY <1>1, CallsKeep DEF Program, ListInv, Pointers
<1>2. CASE Tick BY <1>2 DEF Tick, links, ListInv, Pointers, Linked, Node
<1>3. CASE Visit BY <1>3 DEF Visit, links, ListInv, Pointers, Linked
<1>4. CASE Callback BY <1>4, CallsKeep DEF Callback, ListInv, Pointers
<1>5. CASE CallbackReturns
  <2>1. alarm' \in Node /\ saved' \in Node BY <1>5 DEF CallbackReturns, Onward, ListInv, Pointers
  <2>2. Remove(alarm) \/ UNCHANGED links BY <1>5 DEF CallbackReturns, Stop
  <2>3. CASE Remove(alarm) BY <2>1, <2>3, RemoveKeeps DEF ListInv, Pointers
  <2>4. CASE UNCHANGED links BY <2>1, <2>4 DEF links, ListInv, Pointers, Linked
  <2> QED BY <2>2, <2>3, <2>4
<1>6. CASE TickEnd BY <1>6 DEF TickEnd, links, ListInv, Pointers, Linked
<1>7. CASE UNCHANGED alarms BY <1>7 DEF alarms, links, ListInv, Pointers, Linked
<1> QED BY <1>1, <1>2, <1>3, <1>4, <1>5, <1>6, <1>7 DEF AlarmsNext

(* Each neighbour of an entry links back to it, between any calls of the   *)
(* program and of the callbacks.                                           *)
THEOREM StaysLinked == AlarmsSpec => []Linked
<1>1. AlarmsInit => ListInv BY DEF AlarmsInit, ListInv, Pointers, Linked, Node
<1>2. ListInv /\ [AlarmsNext]_alarms => ListInv' BY StepKeeps, AlarmsAssumption
<1>3. ListInv => Linked BY DEF ListInv
<1> QED BY <1>1, <1>2, <1>3, PTL DEF AlarmsSpec

-----------------------------------------------------------------------------
(* The alarms: the order of the list, and the times.                        *)
(* later[x] are the alarms that come after x in the list. *)
From(later, n) == {n} \cup later[n]

Order(later, f) ==
  /\ later[alt_alarm_list] = {}
  /\ \A x \in Alarm : f[x] = x => later[x] = {}
  /\ \A x \in Alarm : \A y \in later[x] :
       f[y] # y /\ x \notin later[y] /\ later[y] \subseteq later[x] /\ y \in From(later, f[x])
  /\ \A x \in Alarm : f[x] # x =>
       f[x] \in later[x] \cup {alt_alarm_list} /\ x \in From(later, f[alt_alarm_list])

Orders == [Node -> SUBSET Alarm]

LEMMA FirstRegistered ==
  ASSUME AlarmsAssumption, Pointers, Linked, next[alt_alarm_list] # alt_alarm_list
  PROVE  next[alt_alarm_list] \in Alarm /\ Registered(next[alt_alarm_list])
<1>1. alt_alarm_list \in Node /\ next[alt_alarm_list] \in Node BY DEF Node, Pointers
<1>2. previous[next[alt_alarm_list]] = alt_alarm_list /\ previous[next[next[alt_alarm_list]]] = next[alt_alarm_list]
  BY <1>1 DEF Linked
<1> QED BY <1>1, <1>2 DEF Node, Registered

LEMMA InsertOrders ==
  ASSUME AlarmsAssumption, Pointers, Linked, NEW later \in Orders, Order(later, next),
         NEW a \in Alarm, ~Registered(a), Insert(a)
  PROVE  \E new \in Orders :
           /\ Order(new, next')
           /\ \A x \in Alarm : x # a => new[x] = later[x] /\ ((next'[x] # x) <=> (next[x] # x))
           /\ next'[a] # a
<1> DEFINE head == alt_alarm_list
           first == next[head]
           new == [later EXCEPT ![a] = {y \in Alarm : next[y] # y}]
<1>1. a \in Node /\ head \in Node /\ first \in Node /\ a # head /\ head \notin Alarm
  BY DEF Node, Pointers, AlarmsAssumption
<1>2. next[a] = a /\ first # a
  <2>1. next[a] = a BY DEF Registered
  <2>2. previous[a] = a BY <1>1, <2>1 DEF Linked
  <2> QED BY <1>1, <2>1, <2>2 DEF Linked
<1>3. \A x \in Node : next'[x] = IF x = head THEN a ELSE IF x = a THEN first ELSE next[x]
  BY <1>1 DEF Pointers, Insert
<1>4. next'[a] # a BY <1>1, <1>2, <1>3
<1>5. \A x \in Alarm : x # a => ((next'[x] # x) <=> (next[x] # x))
  BY <1>1, <1>3 DEF Node
<1>6. new \in Orders /\ new[a] = {y \in Alarm : next[y] # y} BY <1>1 DEF Orders
<1>7. \A x \in Node : x # a => new[x] = later[x] BY DEF Orders
<1> HIDE DEF new
<1>8. first = head \/ (first \in Alarm /\ next[first] # first) BY FirstRegistered DEF Registered
<1>9. Order(new, next')
  <2>1. new[head] = {} BY <1>1, <1>7 DEF Order
  <2>2. \A x \in Alarm : next'[x] = x => new[x] = {}
    BY <1>4, <1>5, <1>7 DEF Order, Node
  <2>3. ASSUME NEW x \in Alarm, NEW y \in new[x]
        PROVE  next'[y] # y /\ x \notin new[y] /\ new[y] \subseteq new[x] /\ y \in From(new, next'[x])
    <3>1. CASE x = a
      <4>1. y \in Alarm /\ next[y] # y /\ y # a BY <1>2, <1>6, <2>3, <3>1
      <4>2. y \in From(later, first) BY <4>1 DEF Order
      <4>3. next'[x] = first BY <1>1, <1>3, <3>1
      <4>4. From(new, first) = From(later, first) BY <1>1, <1>2, <1>7 DEF From
      <4>5. new[y] = later[y] BY <1>7, <4>1 DEF Node
      <4>6. \A z \in later[y] : z \in Alarm /\ next[z] # z BY <4>1 DEF Order, Orders, Node
      <4>7. next[a] = a BY <1>2
      <4> QED BY <1>5, <1>6, <3>1, <4>1, <4>2, <4>3, <4>4, <4>5, <4>6, <4>7
    <3>2. CASE x # a
      <4>1. y \in later[x] /\ y \in Alarm BY <1>7, <2>3, <3>2 DEF Node, Orders
      <4>2. next[y] # y /\ x \notin later[y] /\ later[y] \subseteq later[x] /\ y \in From(later, next[x])
        BY <4>1 DEF Order
      <4>3. y # a BY <1>2, <4>2
      <4>4. new[y] = later[y] /\ new[x] = later[x] BY <1>7, <3>2, <4>1, <4>3 DEF Node
      <4>5. next'[x] = next[x] /\ x \in Node BY <1>1, <1>3, <3>2 DEF Node
      <4>6. next[x] # a BY <1>1, <1>2, <3>2, <4>5 DEF Linked
      <4>7. From(new, next[x]) = From(later, next[x]) BY <1>7, <4>5, <4>6 DEF From, Pointers
      <4> QED BY <1>5, <4>1, <4>2, <4>3, <4>4, <4>5, <4>7
    <3> QED BY <3>1, <3>2
  <2>4. ASSUME NEW x \in Alarm, next'[x] # x
        PROVE  next'[x] \in new[x] \cup {head} /\ x \in From(new, next'[head])
    <3>1. next'[head] = a BY <1>1, <1>3
    <3>2. x \in From(new, a) BY <1>5, <1>6, <2>4 DEF From
    <3>3. CASE x = a BY <1>1, <1>3, <1>6, <1>8, <3>1, <3>2, <3>3
    <3>4. CASE x # a
      <4>1. next[x] # x BY <1>5, <2>4, <3>4
      <4>2. next[x] \in later[x] \cup {head} BY <4>1 DEF Order
      <4> QED BY <1>1, <1>3, <1>7, <3>1, <3>2, <3>4, <4>2 DEF Node
    <3> QED BY <3>3, <3>4
  <2> QED BY <2>1, <2>2, <2>3, <2>4 DEF Order, From
<1> QED BY <1>4, <1>5, <1>6, <1>7, <1>9 DEF Node

LEMMA RemoveOrders ==
  ASSUME AlarmsAssumption, Pointers, Linked, NEW later \in Orders, Order(later, next),
         NEW a \in Alarm, Remove(a)
  PROVE  \E new \in Orders :
           /\ Order(new, next')
           /\ \A x \in Alarm : x # a => new[x] = later[x] \ {a} /\ ((next'[x] # x) <=> (next[x] # x))
           /\ next'[a] = a
<1> DEFINE head == alt_alarm_list
           new == [x \in Node |-> IF x = a THEN {} ELSE later[x] \ {a}]
<1>1. a \in Node /\ head \in Node /\ a # head /\ head \notin Alarm
  BY DEF Node, AlarmsAssumption
<1>2. next[a] \in Node /\ previous[a] \in Node /\ previous[next[a]] = a /\ next[previous[a]] = a
  BY <1>1 DEF Pointers, Linked
<1>3. \A x \in Node : next'[x] = IF x = a THEN a ELSE IF x = previous[a] THEN next[a] ELSE next[x]
  BY DEF Remove
<1>4. next'[a] = a BY <1>1, <1>3
<1>5. \A x \in Node : next[x] = a => x = previous[a] BY DEF Linked
<1>6. new \in Orders /\ \A x \in Node : new[x] = IF x = a THEN {} ELSE later[x] \ {a}
  BY DEF Orders
<1> HIDE DEF new
<1>7. ASSUME NEW x \in Alarm, x # a PROVE (next'[x] # x) <=> (next[x] # x)
  <2>1. x \in Node BY DEF Node
  <2>2. CASE x = previous[a] /\ next[a] = x
    <3>1. next[x] = a /\ next[a] = x BY <1>2, <2>2
    <3>2. next[x] # x /\ next[a] # a BY <1>7, <3>1
    <3>3. a \in later[x] /\ x \in later[a] BY <1>1, <3>1, <3>2 DEF Order
    <3> QED BY <3>3 DEF Order
  <2>3. CASE x = previous[a] /\ next[a] # x
    BY <1>2, <1>3, <1>7, <2>1, <2>3
  <2>4. CASE x # previous[a] BY <1>3, <1>7, <2>1, <2>4
  <2> QED BY <2>2, <2>3, <2>4
(* What came by way of a comes past it now. *)
<1>8. ASSUME NEW x \in Node, x # a, NEW y \in Alarm, y # a, y \in From(later, next[x])
      PROVE  y \in From(new, next'[x])
  <2>1. CASE next[x] = a
    <3>1. next'[x] = next[a] BY <1>3, <1>5, <1>8, <2>1
    <3>2. y \in later[a] BY <1>8, <2>1 DEF From
    <3>3. y \in From(later, next[a]) BY <3>2 DEF Order
    <3>4. next[a] # a BY <3>2 DEF Order
    <3> QED BY <1>2, <1>6, <1>8, <3>1, <3>3, <3>4 DEF From
  <2>2. CASE next[x] # a
    <3>1. x # previous[a] BY <1>2, <2>2
    <3>2. next'[x] = next[x] /\ next[x] \in Node BY <1>3, <1>8, <3>1 DEF Pointers
    <3> QED BY <1>6, <1>8, <2>2, <3>2 DEF From
  <2> QED BY <2>1, <2>2
<1>9. Order(new, next')
  <2>1. new[head] = {} BY <1>1, <1>6 DEF Order
  <2>2. \A x \in Alarm : next'[x] = x => new[x] = {}
    BY <1>6, <1>7 DEF Order, Node
  <2>3. ASSUME NEW x \in Alarm, NEW y \in new[x]
        PROVE  next'[y] # y /\ x \notin new[y] /\ new[y] \subseteq new[x] /\ y \in From(new, next'[x])
    <3>0. x \in Node /\ later[x] \subseteq Alarm BY DEF Node, Orders
    <3>1. x # a /\ y # a /\ y \in later[x] /\ y \in Alarm
      <4>1. new[x] = IF x = a THEN {} ELSE later[x] \ {a} BY <1>6, <3>0
      <4> QED BY <3>0, <4>1, <2>3
    <3>2. next[y] # y /\ x \notin later[y] /\ later[y] \subseteq later[x] /\ y \in From(later, next[x])
      BY <3>1 DEF Order
    <3>3. new[y] = later[y] \ {a} /\ new[x] = later[x] \ {a} BY <1>6, <3>1 DEF Node
    <3>4. x \in Node BY DEF Node
    <3> QED BY <1>7, <1>8, <3>1, <3>2, <3>3, <3>4
  <2>4. ASSUME NEW x \in Alarm, next'[x] # x
        PROVE  next'[x] \in new[x] \cup {head} /\ x \in From(new, next'[head])
    <3>1. x # a /\ x \in Node BY <1>4, <2>4 DEF Node
    <3>2. next[x] # x BY <1>7, <2>4, <3>1
    <3>3. next[x] \in later[x] \cup {head} /\ x \in From(later, next[head]) BY <3>2 DEF Order
    <3>4. x \in From(new, next'[head]) BY <1>1, <1>8, <3>1, <3>3
    <3>5. CASE x = previous[a]
      <4>1. next'[x] = next[a] /\ next[x] = a BY <1>2, <1>3, <3>1, <3>5
      <4>2. a \in later[x] BY <1>1, <3>3, <4>1
      <4>3. next[a] # a /\ later[a] \subseteq later[x] BY <4>2 DEF Order
      <4>4. next[a] \in later[a] \cup {head} /\ next[a] # a BY <4>3 DEF Order
      <4> QED BY <1>6, <3>1, <3>4, <4>1, <4>3, <4>4
    <3>6. CASE x # previous[a]
      <4>1. next'[x] = next[x] /\ next[x] # a BY <1>3, <1>5, <3>1, <3>6
      <4> QED BY <1>6, <3>1, <3>3, <3>4, <4>1
    <3> QED BY <3>5, <3>6
  <2> QED BY <2>1, <2>2, <2>3, <2>4 DEF Order, From
<1> QED BY <1>4, <1>6, <1>7, <1>9 DEF Node

-----------------------------------------------------------------------------
(* The alarms that alt_tick has not come to yet. *)
Pending(later) ==
  IF at = "walk" THEN From(later, alarm) ELSE IF at = "called" THEN From(later, saved) ELSE {}

(* How an alarm's fields tell when it is due; alt_tick clears the rollover  *)
(* flags on its way after the clock has come round.                         *)
Clocked(later) ==
  \A a \in Alarm : Registered(a) =>
    /\ togo[a] \in 0 .. Word - 1
    /\ time[a] = (nticks + togo[a]) % Word
    /\ togo[a] = 0 => a \in Pending(later) \/ (at = "called" /\ a = alarm)
    /\ (rollover[a] <=> nticks + togo[a] >= Word) \/ (nticks = 0 /\ a \in Pending(later))

Place ==
  /\ at = "walk" => alarm = alt_alarm_list \/ Registered(alarm)
  /\ at = "called" => /\ saved # alarm /\ (saved = alt_alarm_list \/ Registered(saved))
                      /\ Registered(alarm) => togo[alarm] = 0 /\ ~rollover[alarm]

ClockInv ==
  /\ AlarmsTypeOK /\ Linked /\ Place
  /\ \E later \in Orders : Order(later, next) /\ Clocked(later)

(* What the code needs of the program: no delay comes back to where the     *)
(* clock is, and no callback takes another alarm out of the walk.           *)
Usage == AlarmsAssumption /\ Word - 1 \notin Delays /\ ~StopsOthers

LEMMA AddWord ==
  ASSUME NEW W \in Nat \ {0}, NEW x \in 0 .. W - 1, NEW y \in 0 .. W - 1
  PROVE  (x + y) % W = IF x + y >= W THEN x + y - W ELSE x + y
<1>1. CASE x + y < W
  <2>1. x + y \in 0 .. W - 1 BY <1>1
  <2>2. \A v \in 0 .. W - 1 : v % W = v OBVIOUS
  <2> QED BY <1>1, <2>1, <2>2
<1>2. CASE x + y >= W
  <2>1. x + y \in W .. 2 * W - 1 BY <1>2
  <2>2. \A v \in W .. 2 * W - 1 : v % W = v - W OBVIOUS
  <2> QED BY <1>2, <2>1, <2>2
<1> QED BY <1>1, <1>2

LEMMA StopKeeps ==
  ASSUME Usage, AlarmsTypeOK, Linked, Place, NEW later \in Orders, Order(later, next), Clocked(later),
         NEW a \in Alarm, Stop(a), at = "idle" \/ (at = "called" /\ a = alarm),
         UNCHANGED <<nticks, at, alarm, saved>>
  PROVE  Place' /\ \E new \in Orders : Order(new, next') /\ Clocked(new)'
<1>1. PICK new \in Orders :
        /\ Order(new, next')
        /\ \A x \in Alarm : x # a => new[x] = later[x] \ {a} /\ ((next'[x] # x) <=> (next[x] # x))
        /\ next'[a] = a
  BY RemoveOrders DEF Usage, Stop, AlarmsTypeOK, Pointers
<1>2. new[alt_alarm_list] = {} /\ later[alt_alarm_list] = {} BY <1>1 DEF Order
<1>3. \A x \in Alarm : x # a => togo'[x] = togo[x] BY DEF Stop, AlarmsTypeOK
<1>4. saved \in Node /\ (at = "called" => saved # a) BY DEF Place, AlarmsTypeOK
<1>5. Place'
  BY <1>1, <1>4 DEF Place, Registered, Node
<1>6. ASSUME NEW x \in Alarm, x # a, x \in Pending(later) PROVE x \in Pending(new)'
  <2>1. at = "called" BY <1>6 DEF Pending
  <2>2. x \in From(new, saved) BY <1>1, <1>2, <1>4, <1>6, <2>1 DEF Pending, From, Node
  <2> QED BY <2>1, <2>2 DEF Pending, From
<1>7. ASSUME NEW x \in Alarm, Registered(x)'
      PROVE  /\ togo'[x] \in 0 .. Word - 1
             /\ time'[x] = (nticks' + togo'[x]) % Word
             /\ togo'[x] = 0 => x \in Pending(new)' \/ (at' = "called" /\ x = alarm')
             /\ (rollover'[x] <=> nticks' + togo'[x] >= Word) \/ (nticks' = 0 /\ x \in Pending(new)')
  <2>1. x # a /\ Registered(x) BY <1>1, <1>7 DEF Registered
  <2>2. time' = time /\ rollover' = rollover BY DEF Stop
  <2> QED BY <1>3, <1>6, <2>1, <2>2 DEF Clocked
<1>8. Clocked(new)' BY <1>7 DEF Clocked, Registered
<1> QED BY <1>1, <1>5, <1>8

LEMMA StartKeeps ==
  ASSUME Usage, AlarmsTypeOK, Linked, Place, NEW later \in Orders, Order(later, next), Clocked(later),
         NEW a \in Alarm, NEW n \in Delays, Start(a, n), at = "idle" \/ (at = "called" /\ a # alarm),
         UNCHANGED <<nticks, at, alarm, saved>>
  PROVE  Place' /\ \E new \in Orders : Order(new, next') /\ Clocked(new)'
<1>1. PICK new \in Orders :
        /\ Order(new, next')
        /\ \A x \in Alarm : x # a => new[x] = later[x] /\ ((next'[x] # x) <=> (next[x] # x))
        /\ next'[a] # a
  BY InsertOrders DEF Usage, Start, AlarmsTypeOK, Pointers
<1>2. new[alt_alarm_list] = {} /\ later[alt_alarm_list] = {} BY <1>1 DEF Order
<1>3. \A x \in Alarm : x # a => togo'[x] = togo[x] /\ time'[x] = time[x] /\ rollover'[x] = rollover[x]
  BY DEF Start, AlarmsTypeOK
<1>4. saved \in Node /\ (at = "called" => saved # a) /\ (at = "called" => alarm \in Alarm)
  BY DEF Place, AlarmsTypeOK, Start, Usage, AlarmsAssumption
<1>5. Place'
  BY <1>1, <1>3, <1>4 DEF Place, Registered, Node
<1>6. ASSUME NEW x \in Alarm, x # a, x \in Pending(later) PROVE x \in Pending(new)'
  <2>1. at = "called" BY <1>6 DEF Pending
  <2>2. x \in From(new, saved) BY <1>1, <1>2, <1>4, <1>6, <2>1 DEF Pending, From, Node
  <2> QED BY <2>1, <2>2 DEF Pending, From
<1>7. ASSUME NEW x \in Alarm, Registered(x)'
      PROVE  /\ togo'[x] \in 0 .. Word - 1
             /\ time'[x] = (nticks' + togo'[x]) % Word
             /\ togo'[x] = 0 => x \in Pending(new)' \/ (at' = "called" /\ x = alarm')
             /\ (rollover'[x] <=> nticks' + togo'[x] >= Word) \/ (nticks' = 0 /\ x \in Pending(new)')
  <2>1. CASE x # a
    <3>1. Registered(x) BY <1>1, <1>7, <2>1 DEF Registered
    <3> QED BY <1>3, <1>6, <2>1, <3>1 DEF Clocked
  <2>2. CASE x = a
    <3>1. Word \in Nat \ {0} /\ n + 1 \in 1 .. Word - 1 /\ nticks \in 0 .. Word - 1 /\ n \in Nat
      BY DEF Usage, AlarmsAssumption, AlarmsTypeOK
    <3>2. togo'[a] = n + 1 /\ time'[a] = (n + nticks + 1) % Word
      BY DEF Start, AlarmsTypeOK
    <3>3. rollover'[a] = ((n + nticks + 1) % Word < nticks) BY DEF Start, AlarmsTypeOK
    <3>4. n + nticks + 1 = nticks + (n + 1) BY <3>1
    <3>5. (nticks + (n + 1)) % Word
            = IF nticks + (n + 1) >= Word THEN nticks + (n + 1) - Word ELSE nticks + (n + 1)
      <4>1. n + 1 \in 0 .. Word - 1 BY <3>1
      <4> QED BY <3>1, <4>1, AddWord
    <3>6. (nticks + (n + 1)) % Word < nticks <=> nticks + (n + 1) >= Word BY <3>1, <3>5
    <3>7. rollover'[a] <=> nticks + (n + 1) >= Word BY <3>3, <3>4, <3>6
    <3> QED BY <2>2, <3>1, <3>2, <3>4, <3>7
  <2> QED BY <2>1, <2>2
<1>8. Clocked(new)' BY <1>7 DEF Clocked, Registered
<1> QED BY <1>1, <1>5, <1>8

LEMMA TypeKeeps == ASSUME AlarmsAssumption, AlarmsTypeOK, [AlarmsNext]_alarms PROVE AlarmsTypeOK'
<1> USE DEF AlarmsTypeOK
<1>0. Word \in Nat \ {0} /\ \A v \in Int : v % Word \in 0 .. Word - 1 BY DEF AlarmsAssumption
<1>1. ASSUME NEW a \in Alarm, NEW n \in Delays, Start(a, n)
      PROVE  /\ next' \in [Node -> Node] /\ previous' \in [Node -> Node]
             /\ time' \in [Alarm -> 0 .. Word - 1] /\ rollover' \in [Alarm -> BOOLEAN]
             /\ togo' \in [Alarm -> Int]
  <2>1. n \in Int /\ n + nticks + 1 \in Int BY <1>0 DEF AlarmsAssumption
  <2>2. (n + nticks + 1) % Word \in 0 .. Word - 1 BY <1>0, <2>1
  <2>3. a \in Node /\ alt_alarm_list \in Node BY DEF Node
  <2>4. ((n + nticks + 1) % Word < nticks) \in BOOLEAN OBVIOUS
  <2>5. next' \in [Node -> Node] /\ previous' \in [Node -> Node]
    BY <1>1, <2>3 DEF Start, Insert
  <2> QED BY <1>1, <2>1, <2>2, <2>4, <2>5 DEF Start
<1>2. ASSUME NEW a \in Alarm, Stop(a)
      PROVE  /\ next' \in [Node -> Node] /\ previous' \in [Node -> Node]
             /\ UNCHANGED <<time, rollover>> /\ togo' \in [Alarm -> Int]
  <2>1. next' \in [Node -> Node] /\ previous' \in [Node -> Node]
    BY <1>2 DEF Stop, Remove, Node
  <2> QED BY <1>2, <2>1 DEF Stop
<1>3. CASE Program BY <1>1, <1>2, <1>3 DEF Program
<1>4. CASE Tick
  <2>1. (nticks + 1) % Word \in 0 .. Word - 1 BY <1>0
  <2>2. next[alt_alarm_list] \in Node BY DEF Node
  <2> QED BY <1>4, <2>1, <2>2 DEF Tick, links
<1>5. CASE Visit BY <1>5 DEF Visit, links, Node
<1>6. CASE Callback BY <1>1, <1>2, <1>6 DEF Callback
<1>7. CASE CallbackReturns
  <2>1. PICK p \in Periods :
          IF p = 0
          THEN Stop(alarm)
          ELSE /\ time' = [time EXCEPT ![alarm] = Again(alarm, p)]
               /\ rollover' = [rollover EXCEPT ![alarm] = RollsOver(alarm, p)]
               /\ togo' = [togo EXCEPT ![alarm] = IF Registered(alarm) THEN @ + p ELSE @]
               /\ UNCHANGED links
    BY <1>7 DEF CallbackReturns
  <2>2. alarm \in Alarm /\ p \in Int BY <1>7 DEF CallbackReturns, AlarmsAssumption
  <2>3. Again(alarm, p) \in 0 .. Word - 1
    <3>1. time[alarm] + p \in Int BY <2>2
    <3> QED BY <1>0, <3>1 DEF Again
  <2>4. RollsOver(alarm, p) \in BOOLEAN BY <2>2 DEF RollsOver
  <2>5. at' = "walk" /\ alarm' \in Node /\ saved' \in Node /\ nticks' = nticks
    BY <1>7 DEF CallbackReturns, Onward
  <2>6. CASE p = 0 BY <1>2, <2>1, <2>2, <2>5, <2>6
  <2>7. CASE p # 0
    <3>1. time' \in [Alarm -> 0 .. Word - 1] BY <2>1, <2>2, <2>3, <2>7
    <3>2. rollover' \in [Alarm -> BOOLEAN] BY <2>1, <2>2, <2>4, <2>7
    <3>3. togo' \in [Alarm -> Int] BY <2>1, <2>2, <2>7
    <3>4. next' \in [Node -> Node] /\ previous' \in [Node -> Node] BY <2>1, <2>7 DEF links
    <3> QED BY <2>5, <3>1, <3>2, <3>3, <3>4
  <2> QED BY <2>6, <2>7
<1>8. CASE TickEnd BY <1>8 DEF TickEnd, links
<1>9. CASE UNCHANGED alarms BY <1>9 DEF alarms, links
<1> QED BY <1>3, <1>4, <1>5, <1>6, <1>7, <1>8, <1>9 DEF AlarmsNext

LEMMA TickKeeps ==
  ASSUME Usage, AlarmsTypeOK, Linked, Place, NEW later \in Orders, Order(later, next), Clocked(later),
         Tick
  PROVE  Place' /\ Clocked(later)'
<1>1. Word \in Nat \ {0} /\ nticks \in 0 .. Word - 1 BY DEF Usage, AlarmsAssumption, AlarmsTypeOK
<1>2. at = "idle" /\ at' = "walk" /\ alarm' = next[alt_alarm_list] /\ UNCHANGED <<links, time, rollover, saved>>
  BY DEF Tick
<1>3. \A a \in Alarm : Registered(a) => a \in Pending(later)'
  BY <1>2 DEF Order, Pending, Registered, links
<1>4. Place' BY <1>2, FirstRegistered DEF Place, Registered, links, Usage, AlarmsTypeOK, Pointers
<1>5. nticks' = IF nticks = Word - 1 THEN 0 ELSE nticks + 1
  BY <1>1 DEF Tick
<1>6. ASSUME NEW a \in Alarm, Registered(a)
      PROVE  /\ togo'[a] \in 0 .. Word - 1
             /\ time'[a] = (nticks' + togo'[a]) % Word
             /\ (rollover'[a] <=> nticks' + togo'[a] >= Word) \/ nticks' = 0
  <2>1. togo[a] \in 1 .. Word - 1 /\ time[a] = (nticks + togo[a]) % Word /\ rollover[a] = (nticks + togo[a] >= Word)
    BY <1>1, <1>2, <1>6 DEF Clocked, Pending, AlarmsTypeOK
  <2>2. togo'[a] = togo[a] - 1 BY <1>6 DEF Tick
  <2>3. time[a] = IF nticks + togo[a] >= Word THEN nticks + togo[a] - Word ELSE nticks + togo[a]
    <3>1. togo[a] \in 0 .. Word - 1 BY <2>1
    <3> QED BY <1>1, <2>1, <3>1, AddWord
  <2>4. togo'[a] \in 0 .. Word - 1 /\ nticks' \in 0 .. Word - 1 BY <1>1, <1>5, <2>1, <2>2
  <2>5. (nticks' + togo'[a]) % Word
          = IF nticks' + togo'[a] >= Word THEN nticks' + togo'[a] - Word ELSE nticks' + togo'[a]
    BY <1>1, <2>4, AddWord
  <2>6. time'[a] = time[a] /\ rollover'[a] = rollover[a] BY <1>2
  <2>7. CASE nticks = Word - 1 BY <1>1, <1>5, <2>1, <2>2, <2>3, <2>4, <2>5, <2>6, <2>7
  <2>8. CASE nticks # Word - 1
    <3>1. nticks' + togo'[a] = nticks + togo[a] BY <1>1, <1>5, <2>1, <2>2, <2>8
    <3> QED BY <2>1, <2>4, <2>6, <3>1
  <2> QED BY <2>7, <2>8
<1>7. Clocked(later)' BY <1>2, <1>3, <1>6 DEF Clocked, Registered, links
<1> QED BY <1>4, <1>7

(* An alarm that alt_tick has come to is due when its fields say so.        *)
LEMMA ExpiredIsDue ==
  ASSUME Usage, AlarmsTypeOK, NEW later \in Orders, Clocked(later), NEW a \in Alarm, Registered(a)
  PROVE  Expired(a) <=> togo[a] = 0
<1>1. Word \in Nat \ {0} /\ nticks \in 0 .. Word - 1 /\ rollover[a] \in BOOLEAN
  BY DEF Usage, AlarmsAssumption, AlarmsTypeOK
<1>2. togo[a] \in 0 .. Word - 1 /\ time[a] = (nticks + togo[a]) % Word BY DEF Clocked
<1>3. (rollover[a] <=> nticks + togo[a] >= Word) \/ nticks = 0 BY DEF Clocked
<1>4. time[a] = IF nticks + togo[a] >= Word THEN nticks + togo[a] - Word ELSE nticks + togo[a]
  BY <1>1, <1>2, AddWord
<1> QED BY <1>1, <1>2, <1>3, <1>4 DEF Expired, Clears

LEMMA VisitKeeps ==
  ASSUME Usage, AlarmsTypeOK, Linked, Place, NEW later \in Orders, Order(later, next), Clocked(later),
         Visit
  PROVE  Place' /\ Clocked(later)' /\ (at' = "called" => togo[alarm] = 0)
<1>1. Word \in Nat \ {0} /\ nticks \in 0 .. Word - 1 BY DEF Usage, AlarmsAssumption, AlarmsTypeOK
<1>2. alarm \in Alarm /\ Registered(alarm) /\ at = "walk"
  BY DEF Visit, Place, AlarmsTypeOK, Node
<1>3. UNCHANGED <<links, time, nticks, togo>> /\ saved' = next[alarm] BY DEF Visit
<1>4. next[alarm] \in later[alarm] \cup {alt_alarm_list} BY <1>2 DEF Order, Registered
<1>5. next[alarm] = alt_alarm_list \/ (next[alarm] \in Alarm /\ Registered(next[alarm]))
  <2>1. later[alarm] \subseteq Alarm BY <1>2 DEF Orders, Node
  <2> QED BY <1>2, <1>4, <2>1 DEF Order, Registered
<1>6. next[alarm] # alarm BY <1>2 DEF Registered
<1>7. Expired(alarm) <=> togo[alarm] = 0 BY <1>2, ExpiredIsDue
<1>8. \A a \in Alarm : rollover'[a] = IF a = alarm THEN rollover[a] /\ ~Clears(a) ELSE rollover[a]
  BY <1>2 DEF Visit, AlarmsTypeOK
<1>9. at' \in {"walk", "called"} /\ (at' = "called" <=> Expired(alarm))
      /\ (at' = "walk" => alarm' = next[alarm]) /\ (at' = "called" => alarm' = alarm)
  BY <1>2 DEF Visit
<1>10. ASSUME NEW a \in Alarm, a # alarm, a \in Pending(later) PROVE a \in Pending(later)'
  <2>1. a \in later[alarm] BY <1>2, <1>10 DEF Pending, From
  <2>2. a \in From(later, next[alarm]) BY <1>2, <2>1 DEF Order
  <2> QED BY <1>3, <1>9, <2>2 DEF Pending, From
<1>11. rollover'[alarm] <=> nticks + togo[alarm] >= Word
  <2>1. togo[alarm] \in 0 .. Word - 1 /\ ((rollover[alarm] <=> nticks + togo[alarm] >= Word) \/ nticks = 0)
    BY <1>2 DEF Clocked
  <2>2. rollover'[alarm] <=> rollover[alarm] /\ ~(rollover[alarm] /\ nticks = 0)
    BY <1>2, <1>8 DEF Clears
  <2>3. CASE nticks = 0
    <3>1. ~(nticks + togo[alarm] >= Word) BY <1>1, <2>1, <2>3
    <3> QED BY <2>2, <2>3, <3>1
  <2>4. CASE nticks # 0 BY <2>1, <2>2, <2>4
  <2> QED BY <2>3, <2>4
<1>12. Place'
  <2>1. at' = "called" => togo[alarm] = 0 /\ ~rollover'[alarm] BY <1>1, <1>7, <1>9, <1>11
  <2> QED BY <1>2, <1>3, <1>5, <1>6, <1>9, <2>1 DEF Place, Registered, links
<1>13. ASSUME NEW a \in Alarm, Registered(a)
       PROVE  /\ togo[a] = 0 => a \in Pending(later)' \/ (at' = "called" /\ a = alarm')
              /\ (rollover'[a] <=> nticks + togo[a] >= Word) \/ (nticks = 0 /\ a \in Pending(later)')
  <2>1. CASE a = alarm BY <1>7, <1>9, <1>11, <2>1
  <2>2. CASE a # alarm BY <1>2, <1>8, <1>10, <1>13, <2>2 DEF Clocked
  <2> QED BY <2>1, <2>2
<1>14. Clocked(later)' BY <1>3, <1>13 DEF Clocked, Registered, links
<1> QED BY <1>7, <1>9, <1>12, <1>14

LEMMA ReturnKeeps ==
  ASSUME Usage, AlarmsTypeOK, Linked, Place, NEW later \in Orders, Order(later, next), Clocked(later),
         CallbackReturns
  PROVE  Place' /\ \E new \in Orders : Order(new, next') /\ Clocked(new)'
<1>1. Word \in Nat \ {0} /\ nticks \in 0 .. Word - 1 BY DEF Usage, AlarmsAssumption, AlarmsTypeOK
<1>2. at = "called" /\ at' = "walk" /\ alarm' = saved /\ UNCHANGED <<nticks, saved>> /\ alarm \in Alarm
  BY DEF CallbackReturns, Onward, AlarmsTypeOK
<1>3. saved # alarm /\ (saved = alt_alarm_list \/ Registered(saved)) /\ saved \in Node
      /\ (Registered(alarm) => togo[alarm] = 0 /\ ~rollover[alarm])
  BY <1>2 DEF Place, AlarmsTypeOK
<1>4. PICK p \in Periods :
        IF p = 0
        THEN Stop(alarm)
        ELSE /\ time' = [time EXCEPT ![alarm] = Again(alarm, p)]
             /\ rollover' = [rollover EXCEPT ![alarm] = RollsOver(alarm, p)]
             /\ togo' = [togo EXCEPT ![alarm] = IF Registered(alarm) THEN @ + p ELSE @]
             /\ UNCHANGED links
  BY DEF CallbackReturns
<1>5. CASE p = 0
  <2>1. Stop(alarm) BY <1>4, <1>5
  <2>2. PICK new \in Orders :
          /\ Order(new, next')
          /\ \A x \in Alarm : x # alarm => new[x] = later[x] \ {alarm} /\ ((next'[x] # x) <=> (next[x] # x))
          /\ next'[alarm] = alarm
    BY <1>2, <2>1, RemoveOrders DEF Usage, Stop, AlarmsTypeOK, Pointers
  <2>3. new[alt_alarm_list] = {} /\ later[alt_alarm_list] = {} BY <2>2 DEF Order
  <2>4. \A x \in Alarm : x # alarm => togo'[x] = togo[x] BY <2>1 DEF Stop, AlarmsTypeOK
  <2>5. time' = time /\ rollover' = rollover BY <2>1 DEF Stop
  <2>6. Place' BY <1>2, <1>3, <2>2 DEF Place, Registered, Node
  <2>7. ASSUME NEW x \in Alarm, x # alarm, x \in Pending(later) PROVE x \in Pending(new)'
    <3>1. x \in From(new, saved) BY <1>2, <1>3, <2>2, <2>3, <2>7 DEF Pending, From, Node
    <3> QED BY <1>2, <3>1 DEF Pending, From
  <2>8. ASSUME NEW x \in Alarm, Registered(x)'
        PROVE  /\ togo'[x] \in 0 .. Word - 1
               /\ time'[x] = (nticks' + togo'[x]) % Word
               /\ togo'[x] = 0 => x \in Pending(new)' \/ (at' = "called" /\ x = alarm')
               /\ (rollover'[x] <=> nticks' + togo'[x] >= Word) \/ (nticks' = 0 /\ x \in Pending(new)')
    <3>1. x # alarm /\ Registered(x) BY <2>2, <2>8 DEF Registered
    <3> QED BY <1>2, <2>4, <2>5, <2>7, <3>1 DEF Clocked
  <2>9. Clocked(new)' BY <2>8 DEF Clocked, Registered
  <2> QED BY <2>2, <2>6, <2>9
<1>6. CASE p # 0
  <2>1. UNCHANGED links /\ \A x \in Alarm : x # alarm =>
          togo'[x] = togo[x] /\ time'[x] = time[x] /\ rollover'[x] = rollover[x]
    BY <1>4, <1>6 DEF AlarmsTypeOK
  <2>2. Place' BY <1>2, <1>3, <2>1 DEF Place, Registered, links
  <2>3. ASSUME NEW x \in Alarm, x \in Pending(later) PROVE x \in Pending(later)'
    BY <1>2, <2>3 DEF Pending, From
  <2>4. ASSUME Registered(alarm)
        PROVE  /\ togo'[alarm] \in 1 .. Word - 1
               /\ time'[alarm] = (nticks + togo'[alarm]) % Word
               /\ rollover'[alarm] <=> nticks + togo'[alarm] >= Word
    <3>1. p \in 1 .. Word - 1 BY <1>1, <1>6 DEF Usage, AlarmsAssumption
    <3>2. togo'[alarm] = p BY <1>2, <1>3, <1>4, <1>6, <2>4, <3>1 DEF AlarmsTypeOK
    <3>3. time[alarm] = nticks
      <4>1. time[alarm] = (nticks + 0) % Word BY <1>2, <1>3, <2>4 DEF Clocked
      <4>2. nticks + 0 = nticks /\ 0 \in 0 .. Word - 1 BY <1>1
      <4>3. (nticks + 0) % Word = IF nticks + 0 >= Word THEN nticks + 0 - Word ELSE nticks + 0
        BY <1>1, <4>2, AddWord
      <4> QED BY <1>1, <4>1, <4>2, <4>3
    <3>4. time'[alarm] = (nticks + p) % Word BY <1>2, <1>4, <1>6, <3>3 DEF AlarmsTypeOK, Again
    <3>5. (nticks + p) % Word = IF nticks + p >= Word THEN nticks + p - Word ELSE nticks + p
      <4>1. p \in 0 .. Word - 1 BY <3>1
      <4> QED BY <1>1, <4>1, AddWord
    <3>6. rollover'[alarm] <=> (nticks + p) % Word < nticks
      <4>1. rollover'[alarm] = RollsOver(alarm, p) BY <1>2, <1>4, <1>6 DEF AlarmsTypeOK
      <4> QED BY <1>3, <2>4, <3>3, <4>1 DEF RollsOver, Again
    <3>7. (nticks + p) % Word < nticks <=> nticks + p >= Word BY <1>1, <3>1, <3>5
    <3> QED BY <3>1, <3>2, <3>4, <3>6, <3>7
  <2>5. ASSUME NEW x \in Alarm, Registered(x)
        PROVE  /\ togo'[x] \in 0 .. Word - 1
               /\ time'[x] = (nticks' + togo'[x]) % Word
               /\ togo'[x] = 0 => x \in Pending(later)' \/ (at' = "called" /\ x = alarm')
               /\ (rollover'[x] <=> nticks' + togo'[x] >= Word) \/ (nticks' = 0 /\ x \in Pending(later)')
    <3>1. CASE x = alarm BY <1>1, <1>2, <2>4, <2>5, <3>1
    <3>2. CASE x # alarm BY <1>2, <2>1, <2>3, <2>5, <3>2 DEF Clocked
    <3> QED BY <3>1, <3>2
  <2>6. Clocked(later)' BY <2>1, <2>5 DEF Clocked, Registered, links
  <2> QED BY <2>1, <2>2, <2>6 DEF links
<1> QED BY <1>5, <1>6

LEMMA TickEndKeeps ==
  ASSUME Usage, AlarmsTypeOK, NEW later \in Orders, Order(later, next), Clocked(later), TickEnd
  PROVE  Place' /\ Clocked(later)'
<1>1. alt_alarm_list \notin Alarm BY DEF Usage, AlarmsAssumption
<1>2. \A a \in Alarm : a \notin Pending(later)
  BY <1>1 DEF TickEnd, Pending, From, Order
<1>3. at' = "idle" /\ at = "walk" /\ UNCHANGED <<links, time, rollover, nticks, alarm, saved, togo>>
  BY DEF TickEnd
<1> QED BY <1>2, <1>3 DEF Place, Clocked, Registered, links

LEMMA ClockKeeps == ASSUME Usage, ClockInv, [AlarmsNext]_alarms PROVE ClockInv'
<1>1. AlarmsTypeOK' BY TypeKeeps DEF Usage, ClockInv
<1>2. Linked' BY StepKeeps DEF Usage, ClockInv, ListInv, Pointers, AlarmsTypeOK
<1>3. PICK later \in Orders : Order(later, next) /\ Clocked(later) BY DEF ClockInv
<1>4. Place' /\ \E new \in Orders : Order(new, next') /\ Clocked(new)'
  <2>0. AlarmsTypeOK /\ Linked /\ Place BY DEF ClockInv
  <2>1. CASE Program BY <1>3, <2>0, <2>1, StopKeeps, StartKeeps DEF Program
  <2>2. CASE Tick BY <1>3, <2>0, <2>2, TickKeeps DEF Tick, links
  <2>3. CASE Visit BY <1>3, <2>0, <2>3, VisitKeeps DEF Visit, links
  <2>4. CASE Callback BY <1>3, <2>0, <2>4, StopKeeps, StartKeeps DEF Callback, Usage
  <2>5. CASE CallbackReturns BY <1>3, <2>0, <2>5, ReturnKeeps
  <2>6. CASE TickEnd BY <1>3, <2>0, <2>6, TickEndKeeps DEF TickEnd, links
  <2>7. CASE UNCHANGED alarms
    <3>1. Place' BY <2>0, <2>7 DEF alarms, links, Place, Registered
    <3>2. Clocked(later)' BY <1>3, <2>7 DEF alarms, links, Clocked, Registered, Pending, From
    <3> QED BY <1>3, <2>7, <3>1, <3>2 DEF alarms, links
  <2> QED BY <2>1, <2>2, <2>3, <2>4, <2>5, <2>6, <2>7 DEF AlarmsNext
<1> QED BY <1>1, <1>2, <1>4 DEF ClockInv

LEMMA ClockStarts == AlarmsAssumption /\ AlarmsInit => ClockInv
<1> SUFFICES ASSUME AlarmsAssumption, AlarmsInit PROVE ClockInv OBVIOUS
<1>1. AlarmsTypeOK
  BY DEF AlarmsInit, AlarmsTypeOK, Node, AlarmsAssumption
<1>2. \A x \in Node : next[x] = x /\ previous[x] = x BY DEF AlarmsInit
<1>3. [x \in Node |-> {}] \in Orders BY DEF Orders
<1>4. Order([x \in Node |-> {}], next) /\ Clocked([x \in Node |-> {}])
  BY <1>2 DEF Order, Clocked, From, Registered, Node
<1> QED BY <1>1, <1>2, <1>3, <1>4 DEF ClockInv, Linked, Place, AlarmsInit

(* No callback comes before its time or after it, on either side of the     *)
(* wrap of the clock.                                                       *)
THEOREM AlarmsOnTime == ASSUME Word - 1 \notin Delays, ~StopsOthers PROVE AlarmsSpec => OnTime
<1>1. Usage BY AlarmsAssumption DEF Usage
<1>2. AlarmsInit => ClockInv BY ClockStarts, AlarmsAssumption
<1>3. ClockInv /\ [AlarmsNext]_alarms => ClockInv' BY <1>1, ClockKeeps
<1>4. ClockInv /\ [AlarmsNext]_alarms => [(at = "walk" /\ at' = "called") => togo[alarm] = 0]_alarms
  <2> SUFFICES ASSUME ClockInv, AlarmsNext, at = "walk", at' = "called" PROVE togo[alarm] = 0
    OBVIOUS
  <2>1. Visit
    BY DEF AlarmsNext, Program, Tick, Callback, CallbackReturns, TickEnd
  <2> QED BY <1>1, <2>1, VisitKeeps DEF ClockInv
<1> QED BY <1>2, <1>3, <1>4, PTL DEF AlarmsSpec, OnTime

(* When a tick is over, no registered alarm has been passed over.           *)
THEOREM NoAlarmMissed == ASSUME Word - 1 \notin Delays, ~StopsOthers PROVE AlarmsSpec => []NotMissed
<1>1. Usage BY AlarmsAssumption DEF Usage
<1>2. AlarmsInit => ClockInv BY ClockStarts, AlarmsAssumption
<1>3. ClockInv /\ [AlarmsNext]_alarms => ClockInv' BY <1>1, ClockKeeps
<1>4. ClockInv => NotMissed BY DEF ClockInv, Clocked, Pending, NotMissed
<1> QED BY <1>2, <1>3, <1>4, PTL DEF AlarmsSpec

(* No callback of an alarm that has been stopped.                           *)
THEOREM SilentOnceStopped == ASSUME Word - 1 \notin Delays, ~StopsOthers PROVE AlarmsSpec => StoppedIsSilent
<1>1. Usage BY AlarmsAssumption DEF Usage
<1>2. AlarmsInit => ClockInv BY ClockStarts, AlarmsAssumption
<1>3. ClockInv /\ [AlarmsNext]_alarms => ClockInv' BY <1>1, ClockKeeps
<1>4. ClockInv /\ [AlarmsNext]_alarms => [(at = "walk" /\ at' = "called") => Registered(alarm)]_alarms
  <2> SUFFICES ASSUME ClockInv, AlarmsNext, at = "walk", at' = "called" PROVE Registered(alarm)
    OBVIOUS
  <2>1. alarm # alt_alarm_list
    BY DEF AlarmsNext, Program, Tick, Callback, CallbackReturns, TickEnd, Visit
  <2> QED BY <2>1 DEF ClockInv, Place
<1> QED BY <1>2, <1>3, <1>4, PTL DEF AlarmsSpec, StoppedIsSilent

-----------------------------------------------------------------------------
(* The descriptors.                                                         *)
(* What the calls keep beside the two properties: until the streams are     *)
(* redirected nothing is held, and the mark is above what is held.          *)
FilesInv ==
  /\ FilesTypeOK /\ NoLeak /\ MarkAbove
  /\ redirected < 3 => held = {}

(* A table that is not full has a first free descriptor, and it is free.    *)
LEMMA FirstIsFree == Free # {} => FirstFree \in Free
<1> SUFFICES ASSUME Free # {} PROVE FirstFree \in Free OBVIOUS
<1>1. Free \subseteq Nat BY FilesAssumption DEF Free, Fd
<1>2. \E n \in Free : \A k \in Free : n <= k BY <1>1, LeastElement
<1> QED BY <1>2 DEF FirstFree

LEMMA FdType == Std \subseteq Fd /\ Fd \subseteq Nat
BY FilesAssumption DEF Std, Fd

LEMMA WatermarkAbove ==
  ASSUME FilesTypeOK, NEW n \in Fd
  PROVE  /\ Watermark(n) \in -1 .. ALT_MAX_FD - 1
         /\ n <= Watermark(n) /\ alt_max_fd <= Watermark(n)
BY FilesAssumption DEF FilesTypeOK, Fd, Watermark

(* The calls of the program. *)
LEMMA OpenKeeps ==
  ASSUME FilesInv, redirected = 3, UNCHANGED redirected,
         NEW d \in Device \cup {NoDev}, NEW mode \in Mode, NEW nb \in BOOLEAN, Open(d, mode, nb)
  PROVE  FilesInv'
<1> DEFINE fd == FirstFree
<1>1. fd \in Free /\ fd \in Fd /\ dev[fd] = NoDev BY FirstIsFree DEF Open, Opened, Free
<1>2. d # NoDev BY DEF Open, Opened
<1> HIDE DEF fd
<1>3. FilesTypeOK'
  BY <1>1, WatermarkAbove DEF FilesInv, FilesTypeOK, Open, Opened, fd
<1>4. NoLeak'
  <2>1. fd \notin Std \cup held BY <1>1 DEF FilesInv, NoLeak
  <2>2. \A n \in Fd : dev'[n] = IF n = fd THEN d ELSE dev[n]
    BY DEF Open, Opened, fd, FilesInv, FilesTypeOK
  <2>3. held' = held \cup {fd} BY DEF Open, fd
  <2> QED BY <1>1, <1>2, <2>1, <2>2, <2>3 DEF FilesInv, NoLeak
<1>5. MarkAbove'
  <2>1. held' = held \cup {fd} /\ alt_max_fd' = Watermark(fd) BY DEF Open, Opened, fd
  <2>2. held \subseteq Nat BY FdType DEF FilesInv, FilesTypeOK
  <2> QED BY <1>1, <2>1, <2>2, WatermarkAbove, FdType DEF FilesInv, FilesTypeOK, MarkAbove
<1> QED BY <1>3, <1>4, <1>5 DEF FilesInv

LEMMA RefusedKeeps ==
  ASSUME FilesInv, redirected = 3, UNCHANGED redirected,
         NEW d \in Device \cup {NoDev}, OpenRefused(d)
  PROVE  FilesInv' /\ dev' = dev
<1> DEFINE fd == FirstFree
<1>1. fd \in Fd /\ dev[fd] = NoDev BY FirstIsFree DEF OpenRefused, Free
<1>2. fd > 2 BY <1>1, FdType DEF FilesInv, NoLeak, Std, Fd
<1> HIDE DEF fd
<1>3. dev' = dev BY <1>1, <1>2 DEF OpenRefused, Released, FilesInv, FilesTypeOK, fd
<1>4. FilesTypeOK'
  BY <1>1, <1>2, <1>3, WatermarkAbove DEF FilesInv, FilesTypeOK, OpenRefused, Released, fd, Mode
<1>5. MarkAbove'
  <2>1. held' = held /\ alt_max_fd' = Watermark(fd) BY DEF OpenRefused, fd
  <2>2. held \subseteq Nat BY FdType DEF FilesInv, FilesTypeOK
  <2> QED BY <1>1, <2>1, <2>2, WatermarkAbove DEF FilesInv, FilesTypeOK, MarkAbove
<1> QED BY <1>3, <1>4, <1>5 DEF FilesInv, NoLeak, OpenRefused

LEMMA CloseKeeps ==
  ASSUME FilesInv, redirected = 3, UNCHANGED redirected, NEW fd \in Std \cup held, Close(fd)
  PROVE  /\ FilesInv'
         /\ \A n \in Fd : dev'[n] = dev[n] \/ dev'[n] = NoDev
<1>1. fd \in Fd BY FdType DEF FilesInv, FilesTypeOK
<1>2. CASE fd > 2
  <2>1. \A n \in Fd : dev'[n] = IF n = fd THEN NoDev ELSE dev[n]
    BY <1>1, <1>2 DEF Close, Released, FilesInv, FilesTypeOK
  <2>2. fd \notin Std /\ held' = held \ {fd} BY <1>1, <1>2 DEF Std, Close
  <2>3. FilesTypeOK'
    BY <1>1, <1>2, <2>2 DEF Close, Released, FilesInv, FilesTypeOK, Mode
  <2>4. NoLeak' BY <2>1, <2>2 DEF FilesInv, NoLeak
  <2>5. MarkAbove' BY <2>2 DEF FilesInv, MarkAbove, Close
  <2> QED BY <2>1, <2>3, <2>4, <2>5 DEF FilesInv
<1>3. CASE ~(fd > 2)
  <2>1. fd \in Std BY <1>1, <1>3, FdType DEF Std, Fd
  <2>2. held' = held BY <2>1 DEF Close, FilesInv, NoLeak
  <2>3. UNCHANGED <<dev, flags, alt_max_fd>> BY <1>3 DEF Close, Released
  <2> QED BY <2>2, <2>3 DEF flags, FilesInv, FilesTypeOK, NoLeak, MarkAbove
<1> QED BY <1>2, <1>3

(* Locks and modes do not touch the descriptors. *)
LEMMA FlagsKeep ==
  ASSUME FilesInv, redirected = 3, UNCHANGED redirected, NEW fd \in Std \cup held,
         Lock(fd) \/ Unlock(fd) \/ Fcntl(fd)
  PROVE  FilesInv' /\ dev' = dev
<1>1. fd \in Fd BY FdType DEF FilesInv, FilesTypeOK
<1>2. dev' = dev /\ held' = held /\ alt_max_fd' = alt_max_fd BY DEF Lock, Unlock, Fcntl
<1>3. FilesTypeOK' BY <1>1, <1>2 DEF Lock, Unlock, Fcntl, FilesInv, FilesTypeOK
<1> QED BY <1>2, <1>3 DEF FilesInv, NoLeak, MarkAbove

LEMMA RedirectKeeps == ASSUME FilesInv, Redirect PROVE FilesInv'
<1> DEFINE s == IF redirected = 0 THEN 1 ELSE IF redirected = 1 THEN 0 ELSE 2
<1>1. s \in Std /\ s \in Fd BY FdType DEF Std
<1> HIDE DEF s
<1>2. FirstFree \in Fd BY FirstIsFree DEF Redirect, Free
<1>3. dev' = [dev EXCEPT ![s] = Uart] /\ held' = held /\ held = {}
  BY DEF Redirect, s, FilesInv
<1>4. FilesTypeOK'
  <2>1. acc' \in [Fd -> Mode] BY <1>1 DEF Redirect, FilesInv, FilesTypeOK, Mode
  <2>2. ALT_FD_DEV' \in [Fd -> BOOLEAN] BY <1>1 DEF Redirect, FilesInv, FilesTypeOK
  <2>3. redirected' \in 0 .. 3 BY DEF Redirect, FilesInv, FilesTypeOK
  <2>4. alt_max_fd' \in -1 .. ALT_MAX_FD - 1 BY <1>2, WatermarkAbove DEF Redirect, FilesInv
  <2>5. dev' \in [Fd -> Device \cup {NoDev}]
    BY <1>1, <1>3, FilesAssumption DEF FilesInv, FilesTypeOK
  <2> QED BY <2>1, <2>2, <2>3, <2>4, <2>5 DEF Redirect, FilesInv, FilesTypeOK
<1>5. NoLeak'
  BY <1>1, <1>3, FilesAssumption DEF FilesInv, FilesTypeOK, NoLeak
<1> QED BY <1>3, <1>4, <1>5 DEF FilesInv, MarkAbove

LEMMA FilesKeep == ASSUME FilesInv, [FilesNext]_files PROVE FilesInv'
<1>1. CASE Redirect BY <1>1, RedirectKeeps
<1>2. CASE Call BY <1>2, OpenKeeps, RefusedKeeps, CloseKeeps, FlagsKeep DEF Call
<1>3. CASE UNCHANGED files
  BY <1>3 DEF files, flags, FilesInv, FilesTypeOK, NoLeak, MarkAbove
<1> QED BY <1>1, <1>2, <1>3 DEF FilesNext

LEMMA FilesStart == FilesInit => FilesInv
<1> SUFFICES ASSUME FilesInit PROVE FilesInv OBVIOUS
<1>1. FilesTypeOK
  BY FilesAssumption DEF FilesInit, FilesTypeOK, Mode
<1>2. NoLeak BY FdType, FilesAssumption DEF FilesInit, NoLeak
<1> QED BY <1>1, <1>2 DEF FilesInv, FilesInit, MarkAbove

LEMMA FilesInvariant == FilesSpec => []FilesInv
BY FilesStart, FilesKeep, PTL DEF FilesSpec

(* A refused open gives its descriptor back, and none is handed out twice.  *)
THEOREM NoDescriptorLeaks == FilesSpec => []NoLeak
<1>1. FilesInv => NoLeak BY DEF FilesInv
<1> QED BY <1>1, FilesInvariant, PTL

(* The search for a lock goes up to the mark, so it comes past every lock   *)
(* that the program holds.                                                  *)
LEMMA LockFound ==
  ASSUME FilesInv, NEW i \in held, ALT_FD_EXCL[i], NEW fd \in Free
  PROVE  Locked(dev[i], fd)
<1>1. i \in Fd /\ dev[i] # NoDev BY DEF FilesInv, NoLeak
<1>2. i # fd BY <1>1 DEF Free
<1>3. i \in 0 .. Watermark(fd)
  BY <1>1, FdType, WatermarkAbove DEF Free, FilesInv, FilesTypeOK, MarkAbove
<1> QED BY <1>2, <1>3 DEF Locked

THEOREM LocksHold == FilesSpec => LockHolds
<1> DEFINE A == \A i \in held : (ALT_FD_EXCL[i] /\ ALT_FD_EXCL'[i]) =>
                   \A j \in Fd : dev'[j] = dev[i] => dev[j] = dev[i]
<1>1. ASSUME FilesInv, FilesNext PROVE A
  <2> SUFFICES ASSUME NEW i \in held, ALT_FD_EXCL[i], NEW j \in Fd, dev'[j] = dev[i]
               PROVE  dev[j] = dev[i]
    OBVIOUS
  <2>1. dev[i] # NoDev /\ i \in Fd BY <1>1 DEF FilesInv, NoLeak
  <2>2. CASE Redirect BY <1>1, <2>2 DEF Redirect, FilesInv
  <2>3. ASSUME Call, NEW d \in Device \cup {NoDev}, OpenRefused(d) PROVE dev[j] = dev[i]
    BY <1>1, <2>3, RefusedKeeps DEF Call
  <2>4. ASSUME NEW d \in Device \cup {NoDev}, NEW mode \in Mode, NEW nb \in BOOLEAN, Open(d, mode, nb)
        PROVE dev[j] = dev[i]
    <3>1. FirstFree \in Free /\ FirstFree \in Fd BY <2>4, FirstIsFree DEF Open, Opened, Free
    <3>2. ~Locked(d, FirstFree) BY <2>4 DEF Open, Opened
    <3>3. d # dev[i] BY <1>1, <3>1, <3>2, LockFound
    <3>4. dev'[j] = IF j = FirstFree THEN d ELSE dev[j]
      BY <1>1, <2>4 DEF Open, Opened, FilesInv, FilesTypeOK
    <3> QED BY <3>3, <3>4
  <2>5. ASSUME Call, NEW fd \in Std \cup held, Close(fd) PROVE dev[j] = dev[i]
    BY <1>1, <2>1, <2>5, CloseKeeps DEF Call
  <2>6. ASSUME Call, NEW fd \in Std \cup held, Lock(fd) \/ Unlock(fd) \/ Fcntl(fd)
        PROVE dev[j] = dev[i]
    BY <1>1, <2>6, FlagsKeep DEF Call
  <2> QED BY <1>1, <2>2, <2>3, <2>4, <2>5, <2>6 DEF FilesNext, Call
<1>2. ASSUME FilesInv, [FilesNext]_files PROVE [A]_files BY <1>1, <1>2
<1> QED BY <1>2, FilesInvariant, PTL DEF FilesSpec, LockHolds

(* alt_io_redirect has put the streams on the UART in its order.            *)
Streams ==
  /\ redirected >= 1 => dev[1] = Uart /\ acc[1] = "O_WRONLY"
  /\ redirected >= 2 => dev[0] = Uart /\ acc[0] = "O_RDONLY"
  /\ redirected >= 3 => dev[2] = Uart /\ acc[2] = "O_WRONLY"

LEMMA StreamsKeep == ASSUME FilesInv, Streams, [FilesNext]_files PROVE Streams'
<1>1. CASE Redirect
  <2>1. redirected \in 0 .. 2 /\ redirected' = redirected + 1
    BY <1>1 DEF Redirect, FilesInv, FilesTypeOK
  <2>2. 0 \in Fd /\ 1 \in Fd /\ 2 \in Fd BY FdType DEF Std
  <2> QED BY <1>1, <2>1, <2>2 DEF Redirect, Streams, FilesInv, FilesTypeOK
<1>2. CASE Call
  <2>1. SUFFICES \A n \in Std : dev'[n] = dev[n] /\ acc'[n] = acc[n]
    BY <1>2 DEF Call, Streams, Std
  <2>2. Free \cap Std = {} BY DEF FilesInv, NoLeak, Free
  <2>3. ASSUME NEW d \in Device \cup {NoDev}, OpenRefused(d)
        PROVE  \A n \in Std : dev'[n] = dev[n] /\ acc'[n] = acc[n]
    BY <2>2, <2>3, FirstIsFree, FdType DEF OpenRefused, Released, flags, FilesInv, FilesTypeOK
  <2>4. ASSUME NEW d \in Device \cup {NoDev}, NEW mode \in Mode, NEW nb \in BOOLEAN, Open(d, mode, nb)
        PROVE  \A n \in Std : dev'[n] = dev[n] /\ acc'[n] = acc[n]
    BY <2>2, <2>4, FirstIsFree, FdType DEF Open, Opened, FilesInv, FilesTypeOK
  <2>5. ASSUME NEW fd \in Std \cup held, Close(fd)
        PROVE  \A n \in Std : dev'[n] = dev[n] /\ acc'[n] = acc[n]
    BY <2>5, FdType DEF Close, Released, flags, FilesInv, FilesTypeOK, Std
  <2>6. ASSUME NEW fd \in Std \cup held, Lock(fd) \/ Unlock(fd) \/ Fcntl(fd)
        PROVE  \A n \in Std : dev'[n] = dev[n] /\ acc'[n] = acc[n]
    BY <2>6 DEF Lock, Unlock, Fcntl
  <2> QED BY <1>2, <2>3, <2>4, <2>5, <2>6 DEF Call
<1>3. CASE UNCHANGED files BY <1>3 DEF files, flags, Streams
<1> QED BY <1>1, <1>2, <1>3 DEF FilesNext

(* Whatever is closed, the three streams stay on the UART and usable.       *)
THEOREM StreamsSurvive == FilesSpec => []StreamsStay
<1>1. FilesInit => Streams BY DEF FilesInit, Streams
<1>2. FilesInv /\ Streams => StreamsStay
  <2> SUFFICES ASSUME FilesInv, Streams, redirected = 3
               PROVE  (\A n \in Std : dev[n] = Uart) /\ MayRead(0) /\ MayWrite(1) /\ MayWrite(2)
    BY DEF StreamsStay
  <2> QED BY FilesAssumption DEF Streams, Std, MayRead, MayWrite
<1> QED BY <1>1, <1>2, FilesInvariant, StreamsKeep, PTL DEF FilesSpec

-----------------------------------------------------------------------------
(* The interrupts.                                                          *)
(* Where the program is in the two registrations and in main's section. *)
Inner == {9, 10, 11, 17, 18, 19}
Outer == {6, 7, 8, 12, 14, 15, 16, 20, 25}

(* The contexts of a section, and of a section inside it. *)
Once == <<TRUE>>
Twice == <<FALSE, TRUE>>

(* The contexts that the program's own sections have not given back. *)
Sections == IF pc \in Inner THEN Twice ELSE IF pc \in Outer THEN Once ELSE <<>>

Nested ==
  IF level = "program"
  THEN contexts = Sections /\ (PIE <=> (pc > 2 /\ Sections = <<>>))
  ELSE /\ pc > 2 /\ Sections = <<>> /\ ~PIE
       /\ contexts = IF level = "tick" THEN Twice ELSE Once

(* What may interrupt has its handler in the table. *)
Table ==
  /\ alt_irq_active \subseteq {TIMER_IRQ, JTAG_UART_IRQ}
  /\ TIMER_IRQ \in alt_irq_active => pc > 9
  /\ JTAG_UART_IRQ \in alt_irq_active => pc > 17
  /\ \A n \in alt_irq_active : handler[n] = "whole"
  /\ pc >= 8 => handler[TIMER_IRQ] = "whole"
  /\ pc >= 16 => handler[JTAG_UART_IRQ] = "whole"
  /\ pc >= 2 => ienable \subseteq alt_irq_active

(* What the dispatcher looks at stays pending until it has called it. *)
Taken ==
  /\ level \in {"search", "called"} => active \subseteq ienable
  /\ level = "called" => irq \in active
  /\ level = "search" => active # {}
  /\ level = "first look" => ipending # {}

IrqTypes ==
  /\ pc \in 1 .. 25 /\ PIE \in BOOLEAN
  /\ ienable \subseteq Irq /\ lines \subseteq Irq /\ active \subseteq Irq /\ irq \in Irq
  /\ handler \in [Irq -> {"none", "half", "whole"}]
  /\ level \in {"program", "first look", "look", "search", "called", "tick"}

IrqInv == IrqTypes /\ Nested /\ Table /\ Taken

LEMMA Lengths == Len(Boot) = 23 /\ Len(MainProgram) = 25
BY DEF Register, TimerInit, UartInit, SysInit, Boot, MainProgram

LEMMA Steps ==
  /\ MainProgram[1] = <<"clear">> /\ MainProgram[2] = <<"pie">>
  /\ MainProgram[3] = <<"rate">> /\ MainProgram[4] = <<"start">>
  /\ MainProgram[5] = <<"disable_all">> /\ MainProgram[6] = <<"handler", TIMER_IRQ>>
  /\ MainProgram[7] = <<"context", TIMER_IRQ>> /\ MainProgram[8] = <<"disable_all">>
  /\ MainProgram[9] = <<"active", TIMER_IRQ>> /\ MainProgram[10] = <<"ienable">>
  /\ MainProgram[11] = <<"enable_all">> /\ MainProgram[12] = <<"enable_all">>
  /\ MainProgram[13] = <<"disable_all">> /\ MainProgram[14] = <<"handler", JTAG_UART_IRQ>>
  /\ MainProgram[15] = <<"context", JTAG_UART_IRQ>> /\ MainProgram[16] = <<"disable_all">>
  /\ MainProgram[17] = <<"active", JTAG_UART_IRQ>> /\ MainProgram[18] = <<"ienable">>
  /\ MainProgram[19] = <<"enable_all">> /\ MainProgram[20] = <<"enable_all">>
  /\ MainProgram[21] = <<"alarm">> /\ MainProgram[22] = <<"device">>
  /\ MainProgram[23] = <<"redirect">>
  /\ MainProgram[24] = <<"disable_all">> /\ MainProgram[25] = <<"enable_all">>
BY DEF Register, TimerInit, UartInit, SysInit, Boot, MainProgram

LEMMA Pushed == ASSUME NEW u, NEW v PROVE <<u>> \o <<v>> = <<u, v>>
<1> DEFINE U == {u, v}
<1>1. <<u>> \in Seq(U) /\ <<v>> \in Seq(U) /\ <<u, v>> \in Seq(U) OBVIOUS
<1>2. <<u>> \o <<v>> \in Seq(U) /\ Len(<<u>> \o <<v>>) = 2 BY <1>1
<1>3. (<<u>> \o <<v>>)[1] = u /\ (<<u>> \o <<v>>)[2] = v BY <1>1
<1>4. \A k \in 1 .. 2 : (<<u>> \o <<v>>)[k] = <<u, v>>[k] BY <1>3
<1> QED BY <1>1, <1>2, <1>4, SeqEqual

LEMMA Popped ==
  ASSUME NEW u, NEW v
  PROVE  /\ Head(<<u>>) = u /\ Tail(<<u>>) = <<>> /\ <<u>> \o <<>> = <<u>>
         /\ Head(<<u, v>>) = u /\ Tail(<<u, v>>) = <<v>>
         /\ <<u>> # <<>> /\ <<u, v>> # <<>>
OBVIOUS

(* What alt_irq_disable_all and alt_irq_enable_all do with the contexts. *)
LEMMA Stack ==
  /\ DisableAll /\ PIE = TRUE /\ contexts = <<>> => contexts' = Once /\ PIE' = FALSE
  /\ DisableAll /\ PIE = FALSE /\ contexts = Once => contexts' = Twice /\ PIE' = FALSE
  /\ EnableAll /\ contexts = Once => contexts' = <<>> /\ PIE' = TRUE
  /\ EnableAll /\ contexts = Twice => contexts' = Once /\ PIE' = FALSE
<1>1. ASSUME DisableAll, PIE = TRUE, contexts = <<>> PROVE contexts' = Once /\ PIE' = FALSE
  <2>1. <<TRUE>> \o <<>> = <<TRUE>> BY Popped, Zenon
  <2> QED BY <1>1, <2>1, Zenon DEF DisableAll, Once
<1>2. ASSUME DisableAll, PIE = FALSE, contexts = Once PROVE contexts' = Twice /\ PIE' = FALSE
  <2>1. <<FALSE>> \o <<TRUE>> = <<FALSE, TRUE>> BY Pushed, Zenon
  <2> QED BY <1>2, <2>1, Zenon DEF DisableAll, Once, Twice
<1>3. ASSUME EnableAll, contexts = Once PROVE contexts' = <<>> /\ PIE' = TRUE
  <2>1. Head(<<TRUE>>) = TRUE /\ Tail(<<TRUE>>) = <<>> BY Popped, Zenon
  <2> QED BY <1>3, <2>1, Zenon DEF EnableAll, Once
<1>4. ASSUME EnableAll, contexts = Twice PROVE contexts' = Once /\ PIE' = FALSE
  <2>1. Head(<<FALSE, TRUE>>) = FALSE /\ Tail(<<FALSE, TRUE>>) = <<TRUE>> BY Popped, Zenon
  <2> QED BY <1>4, <2>1, Zenon DEF EnableAll, Once, Twice
<1> QED BY <1>1, <1>2, <1>3, <1>4, Zenon

LEMMA Levels == Once # <<>> /\ Twice # <<>>
BY Popped, Zenon DEF Once, Twice

LEMMA Ops ==
  ASSUME pc \in 1 .. 25
  PROVE  /\ MainProgram[pc][1] = "rate" <=> pc = 3
         /\ MainProgram[pc][1] = "start" <=> pc = 4
         /\ MainProgram[pc][1] = "alarm" <=> pc = 21
         /\ MainProgram[pc][1] = "device" <=> pc = 22
         /\ MainProgram[pc][1] = "redirect" <=> pc = 23
         /\ MainProgram[pc][1] = "clear" <=> pc = 1
         /\ MainProgram[pc][1] = "active" <=> pc \in {9, 17}
         /\ MainProgram[pc][1] = "ienable" <=> pc \in {10, 18}
<1>1. CASE pc \in 1 .. 5 BY <1>1, Steps
<1>2. CASE pc \in 6 .. 10 BY <1>2, Steps
<1>3. CASE pc \in 11 .. 15 BY <1>3, Steps
<1>4. CASE pc \in 16 .. 20 BY <1>4, Steps
<1>5. CASE pc \in 21 .. 25 BY <1>5, Steps
<1> QED BY <1>1, <1>2, <1>3, <1>4, <1>5

LEMMA IrqStarts == IrqInit => IrqInv
<1> SUFFICES ASSUME IrqInit PROVE IrqInv OBVIOUS
<1>1. Sections = <<>> BY DEF IrqInit, Sections, Inner, Outer
<1>2. IrqTypes
  <2>1. [n \in Irq |-> "none"] \in [Irq -> {"none", "half", "whole"}] OBVIOUS
  <2>2. handler \in [Irq -> {"none", "half", "whole"}] BY <2>1 DEF IrqInit
  <2>3. PIE \in BOOLEAN BY Zenon DEF IrqInit
  <2>4. TIMER_IRQ \in Irq /\ {} \subseteq Irq BY InterruptsAssumption
  <2>5. pc \in 1 .. 25 BY DEF IrqInit
  <2>6. level \in {"program", "first look", "look", "search", "called", "tick"} BY DEF IrqInit
  <2> QED BY <2>2, <2>3, <2>4, <2>5, <2>6, Zenon DEF IrqInit, IrqTypes
<1>3. Nested /\ Table /\ Taken BY <1>1 DEF IrqInit, Nested, Table, Taken
<1> QED BY <1>2, <1>3 DEF IrqInv

(* The program's own steps. *)
LEMMA ProgramKeeps == ASSUME IrqInv, ProgramStep PROVE IrqInv'
<1> DEFINE op == MainProgram[pc]
<1>1. pc \in 1 .. 25 /\ level = "program" /\ level' = "program" /\ UNCHANGED <<lines, active, irq>>
      /\ pc' = IF pc = 25 THEN 24 ELSE pc + 1
  BY Lengths DEF IrqInv, IrqTypes, ProgramStep
<1>2. pc' \in 1 .. 25 BY <1>1
<1>3. contexts = Sections /\ (PIE <=> (pc > 2 /\ Sections = <<>>)) BY <1>1 DEF IrqInv, Nested
<1>4. Sections' = IF pc' \in Inner THEN Twice ELSE IF pc' \in Outer THEN Once ELSE <<>>
  BY DEF Sections, Inner, Outer
<1>5. PIE \in BOOLEAN BY DEF IrqInv, IrqTypes
<1>6. (ProcessorStep(op) /\ UNCHANGED boot) \/ (DriverStep(op) /\ UNCHANGED cpu)
  BY DEF ProgramStep
<1> HIDE DEF op
<1>7. CASE pc \in {5, 8, 13, 16, 24}
  <2>1. op = <<"disable_all">> BY <1>7, Steps DEF op
  <2>2. DisableAll /\ UNCHANGED <<ienable, alt_irq_active, handler>>
    BY <1>6, <2>1 DEF ProcessorStep, DriverStep
  <2>3. contexts' = (IF pc \in {8, 16} THEN Twice ELSE Once) /\ PIE' = FALSE
    <3>1. CASE pc \in {8, 16}
      <4>1. contexts = Once /\ PIE = FALSE BY <1>3, <1>5, <3>1, Levels DEF Sections, Inner, Outer
      <4> QED BY <2>2, <3>1, <4>1, Stack
    <3>2. CASE pc \in {5, 13, 24}
      <4>1. contexts = <<>> /\ PIE = TRUE BY <1>3, <1>5, <3>2 DEF Sections, Inner, Outer
      <4> QED BY <2>2, <3>2, <4>1, Stack
    <3> QED BY <1>7, <3>1, <3>2
  <2>6. Nested' BY <1>1, <1>4, <1>7, <2>3, Levels DEF Nested, Inner, Outer
  <2>4. IrqTypes' BY <1>1, <1>2, <2>2, <2>3 DEF IrqInv, IrqTypes
  <2>5. Table' BY <1>1, <1>7, <2>2 DEF IrqInv, Table
  <2> QED BY <1>1, <2>4, <2>5, <2>6 DEF IrqInv, Taken
<1>8. CASE pc \in {11, 12, 19, 20, 25}
  <2>1. op = <<"enable_all">> BY <1>8, Steps DEF op
  <2>2. EnableAll /\ UNCHANGED <<ienable, alt_irq_active, handler>>
    BY <1>6, <2>1 DEF ProcessorStep, DriverStep
  <2>4. IF pc \in {11, 19} THEN contexts' = Once /\ PIE' = FALSE ELSE contexts' = <<>> /\ PIE' = TRUE
    <3>1. contexts = IF pc \in {11, 19} THEN Twice ELSE Once
      BY <1>3, <1>8 DEF Sections, Inner, Outer
    <3> QED BY <2>2, <3>1, Stack
  <2>3. Nested' BY <1>1, <1>4, <1>8, <2>4, Levels DEF Nested, Inner, Outer
  <2>5. IrqTypes' BY <1>1, <1>2, <2>2, <2>4 DEF IrqInv, IrqTypes
  <2>6. Table' BY <1>1, <1>8, <2>2 DEF IrqInv, Table
  <2> QED BY <1>1, <2>3, <2>5, <2>6 DEF IrqInv, Taken
<1>9. CASE pc \in {6, 7, 14, 15}
  <2> DEFINE n == IF pc < 10 THEN TIMER_IRQ ELSE JTAG_UART_IRQ
  <2>0. n \in Irq /\ n \notin alt_irq_active
    BY <1>1, <1>9, InterruptsAssumption DEF IrqInv, Table
  <2>1. op = <<"handler", n>> \/ op = <<"context", n>> BY <1>9, Steps DEF op
  <2>2. op = <<"context", n>> <=> pc \in {7, 15} BY <1>9, Steps DEF op
  <2> HIDE DEF n
  <2>3. UNCHANGED <<PIE, ienable, alt_irq_active, contexts>>
        /\ handler' = [handler EXCEPT ![n] = IF pc \in {7, 15} THEN "whole" ELSE "half"]
    BY <1>6, <2>1, <2>2 DEF ProcessorStep, DriverStep
  <2>4. Nested' BY <1>1, <1>3, <1>4, <1>9, <2>3 DEF Nested, Sections, Inner, Outer
  <2>5. IrqTypes' BY <1>1, <1>2, <2>0, <2>3 DEF IrqInv, IrqTypes
  <2>6. Table'
    <3>1. \A m \in Irq : m # n => handler'[m] = handler[m] BY <2>3 DEF IrqInv, IrqTypes
    <3>2. pc \in {7, 15} => handler'[n] = "whole" BY <2>0, <2>3 DEF IrqInv, IrqTypes
    <3>3. alt_irq_active \subseteq Irq BY InterruptsAssumption DEF IrqInv, Table
    <3> QED BY <1>1, <1>9, <2>0, <2>3, <3>1, <3>2, <3>3, InterruptsAssumption DEF IrqInv, Table, n
  <2> QED BY <1>1, <2>4, <2>5, <2>6 DEF IrqInv, Taken
<1>10. CASE pc \in {9, 17}
  <2> DEFINE n == IF pc < 10 THEN TIMER_IRQ ELSE JTAG_UART_IRQ
  <2>1. op = <<"active", n>> BY <1>10, Steps DEF op
  <2>2. UNCHANGED <<PIE, ienable, handler, contexts>> /\ alt_irq_active' = alt_irq_active \cup {n}
    BY <1>6, <2>1 DEF ProcessorStep, DriverStep
  <2>3. Nested' BY <1>1, <1>3, <1>4, <1>10, <2>2 DEF Nested, Sections, Inner, Outer
  <2>4. IrqTypes' BY <1>1, <1>2, <2>2 DEF IrqInv, IrqTypes
  <2>5. Table' BY <1>1, <1>10, <2>2, InterruptsAssumption DEF IrqInv, Table
  <2> QED BY <1>1, <2>3, <2>4, <2>5 DEF IrqInv, Taken
<1>11. CASE pc \in {10, 18}
  <2>1. op = <<"ienable">> BY <1>11, Steps DEF op
  <2>2. UNCHANGED <<PIE, alt_irq_active, handler, contexts>> /\ ienable' = alt_irq_active
    BY <1>6, <2>1 DEF ProcessorStep, DriverStep
  <2>3. Nested' BY <1>1, <1>3, <1>4, <1>11, <2>2 DEF Nested, Sections, Inner, Outer
  <2>4. IrqTypes' BY <1>1, <1>2, <2>2, InterruptsAssumption DEF IrqInv, IrqTypes, Table
  <2>5. Table' BY <1>1, <1>11, <2>2 DEF IrqInv, Table
  <2> QED BY <1>1, <2>3, <2>4, <2>5 DEF IrqInv, Taken
<1>12. CASE pc = 1
  <2>1. op = <<"clear">> BY <1>12, Steps DEF op
  <2>2. UNCHANGED <<PIE, alt_irq_active, handler, contexts>> /\ ienable' = {}
    BY <1>6, <2>1 DEF ProcessorStep, DriverStep, NoneEnabled
  <2>3. Nested' BY <1>1, <1>3, <1>4, <1>12, <2>2 DEF Nested, Sections, Inner, Outer
  <2>4. IrqTypes' BY <1>1, <1>2, <2>2 DEF IrqInv, IrqTypes
  <2>5. Table' BY <1>1, <1>12, <2>2 DEF IrqInv, Table
  <2> QED BY <1>1, <2>3, <2>4, <2>5 DEF IrqInv, Taken
<1>13. CASE pc = 2
  <2>1. op = <<"pie">> BY <1>13, Steps DEF op
  <2>2. UNCHANGED <<ienable, alt_irq_active, handler, contexts>> /\ PIE' = TRUE
    BY <1>6, <2>1 DEF ProcessorStep, DriverStep
  <2>3. Nested' BY <1>1, <1>3, <1>4, <1>13, <2>2 DEF Nested, Sections, Inner, Outer
  <2>4. IrqTypes' BY <1>1, <1>2, <2>2 DEF IrqInv, IrqTypes
  <2>5. Table' BY <1>1, <1>13, <2>2 DEF IrqInv, Table
  <2> QED BY <1>1, <2>3, <2>4, <2>5 DEF IrqInv, Taken
<1>14. CASE pc \in {3, 4, 21, 22, 23}
  <2>1. op \in {<<"rate">>, <<"start">>, <<"alarm">>, <<"device">>, <<"redirect">>}
    BY <1>14, Steps DEF op
  <2>2. UNCHANGED cpu BY <1>6, <2>1 DEF ProcessorStep
  <2>3. Nested' BY <1>1, <1>3, <1>4, <1>14, <2>2 DEF Nested, Sections, Inner, Outer, cpu
  <2>4. IrqTypes' BY <1>1, <1>2, <2>2 DEF IrqInv, IrqTypes, cpu
  <2>5. Table' BY <1>1, <1>14, <2>2 DEF IrqInv, Table, cpu
  <2> QED BY <1>1, <2>3, <2>4, <2>5 DEF IrqInv, Taken
<1> QED BY <1>1, <1>7, <1>8, <1>9, <1>10, <1>11, <1>12, <1>13, <1>14

(* The dispatcher and the handlers. *)
LEMMA DispatchKeeps == ASSUME IrqInv, Dispatch PROVE IrqInv'
<1>1. UNCHANGED <<pc, ienable, alt_irq_active, handler>>
  BY DEF Dispatch, Enter, Look, Leave, Search, UartHandler, TimerHandler, TimerReturns, cpu
<1>2. Sections' = Sections /\ Table' BY <1>1 DEF Sections, IrqInv, Table
<1>3. CASE Enter
  <2>1. level = "program" /\ level' = "first look" /\ PIE /\ ipending # {} /\ UNCHANGED <<lines, active, irq>>
    BY <1>3 DEF Enter, Interrupted
  <2>2. contexts' = Once /\ PIE' = FALSE
    <3>1. contexts = <<>> /\ PIE = TRUE BY <2>1 DEF IrqInv, IrqTypes, Nested
    <3> QED BY <1>3, <3>1, Stack DEF Enter
  <2>3. Nested' BY <1>1, <1>2, <2>1, <2>2 DEF IrqInv, Nested
  <2>4. IrqTypes' BY <1>1, <2>1, <2>2 DEF IrqInv, IrqTypes
  <2> QED BY <1>1, <1>2, <2>1, <2>3, <2>4 DEF IrqInv, Taken, ipending
<1>4. CASE Look
  <2>1. ipending # {} BY <1>4 DEF Look, Leaves, IrqInv, Taken
  <2>2. level # "program" /\ level' = "search" /\ active' = ipending /\ UNCHANGED <<cpu, lines, irq>>
    BY <1>4 DEF Look
  <2>3. level # "tick" BY <1>4 DEF Look
  <2>4. ipending \subseteq ienable BY DEF ipending
  <2>5. Nested' BY <1>1, <1>2, <2>2, <2>3 DEF IrqInv, Nested, cpu
  <2>6. IrqTypes' BY <1>1, <2>2, <2>4 DEF IrqInv, IrqTypes, cpu
  <2> QED BY <1>1, <1>2, <2>1, <2>2, <2>4, <2>5, <2>6 DEF IrqInv, Taken
<1>5. CASE Leave
  <2>1. level = "look" /\ level' = "program" /\ active' = {} /\ UNCHANGED <<lines, irq>>
    BY <1>5 DEF Leave, Leaves
  <2>2. contexts' = <<>> /\ PIE' = TRUE
    <3>1. contexts = Once BY <2>1 DEF IrqInv, Nested
    <3> QED BY <1>5, <3>1, Stack DEF Leave
  <2>3. Nested' BY <1>1, <1>2, <2>1, <2>2 DEF IrqInv, Nested
  <2>4. IrqTypes' BY <1>1, <2>1, <2>2 DEF IrqInv, IrqTypes
  <2> QED BY <1>2, <2>1, <2>3, <2>4 DEF IrqInv, Taken
<1>6. CASE Search
  <2>1. level = "search" /\ level' = "called" /\ UNCHANGED <<cpu, lines, active>> BY <1>6 DEF Search
  <2>2. active \subseteq Nat /\ active # {} BY <1>6, InterruptsAssumption DEF Search, IrqInv, IrqTypes
  <2>3. \E n \in active : \A m \in active : n <= m BY <2>2, LeastElement
  <2>4. irq' \in active BY <1>6, <2>3 DEF Search, Lowest
  <2>5. Nested' BY <1>1, <1>2, <2>1 DEF IrqInv, Nested, cpu
  <2>6. IrqTypes' BY <1>1, <2>1, <2>4 DEF IrqInv, IrqTypes, cpu
  <2> QED BY <1>1, <1>2, <2>1, <2>4, <2>5, <2>6 DEF IrqInv, Taken
<1>7. CASE UartHandler
  <2>1. level = "called" /\ level' = "look" /\ UNCHANGED <<cpu, active, irq>>
        /\ lines' = lines \ {JTAG_UART_IRQ}
    BY <1>7 DEF UartHandler
  <2>2. Nested' BY <1>1, <1>2, <2>1 DEF IrqInv, Nested, cpu
  <2>3. IrqTypes' BY <1>1, <2>1 DEF IrqInv, IrqTypes, cpu
  <2> QED BY <1>2, <2>1, <2>2, <2>3 DEF IrqInv, Taken
<1>8. CASE TimerHandler
  <2>1. level = "called" /\ level' = "tick" /\ UNCHANGED <<active, irq>> /\ lines' = lines \ {TIMER_IRQ}
    BY <1>8 DEF TimerHandler, Cleared
  <2>2. contexts' = Twice /\ PIE' = FALSE
    <3>1. contexts = Once /\ PIE = FALSE BY <2>1 DEF IrqInv, IrqTypes, Nested
    <3> QED BY <1>8, <3>1, Stack DEF TimerHandler
  <2>3. Nested' BY <1>1, <1>2, <2>1, <2>2 DEF IrqInv, Nested
  <2>4. IrqTypes' BY <1>1, <2>1, <2>2 DEF IrqInv, IrqTypes
  <2> QED BY <1>2, <2>1, <2>3, <2>4 DEF IrqInv, Taken
<1>9. CASE TimerReturns
  <2>1. level = "tick" /\ level' = "look" /\ UNCHANGED <<lines, active, irq>> BY <1>9 DEF TimerReturns
  <2>2. contexts' = Once /\ PIE' = FALSE
    <3>1. contexts = Twice BY <2>1 DEF IrqInv, Nested
    <3> QED BY <1>9, <3>1, Stack DEF TimerReturns
  <2>3. Nested' BY <1>1, <1>2, <2>1, <2>2 DEF IrqInv, Nested
  <2>4. IrqTypes' BY <1>1, <2>1, <2>2 DEF IrqInv, IrqTypes
  <2> QED BY <1>2, <2>1, <2>3, <2>4 DEF IrqInv, Taken
<1> QED BY <1>3, <1>4, <1>5, <1>6, <1>7, <1>8, <1>9 DEF Dispatch

LEMMA RaiseKeeps == ASSUME IrqInv, Raise PROVE IrqInv'
<1>1. UNCHANGED <<pc, cpu, level, active, irq>> /\ lines \subseteq lines' /\ lines' \subseteq Irq
  BY DEF Raise, IrqInv, IrqTypes
<1>2. ipending \subseteq ipending' BY <1>1 DEF ipending, cpu
<1>3. Sections' = Sections BY <1>1 DEF Sections
<1>4. IrqTypes' BY <1>1 DEF IrqInv, IrqTypes, cpu
<1>5. Table' BY <1>1 DEF IrqInv, Table, cpu
<1>6. Nested' BY <1>1, <1>3 DEF IrqInv, Nested, cpu
<1>7. Taken' BY <1>1, <1>2 DEF IrqInv, Taken, cpu
<1> QED BY <1>4, <1>5, <1>6, <1>7 DEF IrqInv

LEMMA IrqInvariant == IrqSpec => []IrqInv
<1>1. ASSUME IrqInv, UNCHANGED interrupts PROVE IrqInv'
  <2>1. UNCHANGED interrupts BY <1>1
  <2>2. Sections' = Sections /\ ipending' = ipending BY <2>1 DEF interrupts, cpu, Sections, ipending
  <2>3. IrqTypes' BY <1>1 DEF interrupts, cpu, IrqInv, IrqTypes
  <2>4. Nested' BY <1>1, <2>2 DEF interrupts, cpu, IrqInv, Nested
  <2>5. Table' BY <1>1 DEF interrupts, cpu, IrqInv, Table
  <2>6. Taken' BY <1>1, <2>2 DEF interrupts, cpu, IrqInv, Taken
  <2> QED BY <2>3, <2>4, <2>5, <2>6 DEF IrqInv
<1>2. IrqInv /\ [IrqNext]_interrupts => IrqInv'
  BY <1>1, ProgramKeeps, DispatchKeeps, RaiseKeeps DEF IrqNext
<1> QED BY <1>2, IrqStarts, PTL DEF IrqSpec

(* The dispatcher calls only what is whole in its table. *)
THEOREM CallsWhatIsThere == IrqSpec => []HandlerThere
<1>1. IrqInv => HandlerThere
  <2> SUFFICES ASSUME IrqInv, level = "called" PROVE handler[irq] = "whole" /\ irq \in {TIMER_IRQ, JTAG_UART_IRQ}
    BY DEF HandlerThere
  <2>1. pc > 2 /\ irq \in ienable BY DEF IrqInv, Nested, Taken
  <2> QED BY <2>1 DEF IrqInv, IrqTypes, Table
<1> QED BY <1>1, IrqInvariant, PTL

(* No interrupt comes into a critical section or into a handler. *)
THEOREM SectionsStayWhole == IrqSpec => []SectionsWhole
<1>1. IrqInv => SectionsWhole BY DEF IrqInv, Nested, SectionsWhole
<1> QED BY <1>1, IrqInvariant, PTL

(* The search for a bit of active always has one to find. *)
THEOREM SearchEnds == IrqSpec => []FindsBit
<1>1. IrqInv => FindsBit BY DEF IrqInv, Taken, FindsBit
<1> QED BY <1>1, IrqInvariant, PTL

(* main starts with the UART's alarm running and the streams on the UART. *)
Readied ==
  /\ pc > 3 => rate
  /\ pc > 21 => watched
  /\ pc > 22 => device
  /\ pc > 23 => stdio = "uart"

THEOREM MainFindsAll == IrqSpec => []BootedWell
<1>1. IrqInit => Readied BY DEF IrqInit, Readied
<1>2. ASSUME IrqInv, Readied, [IrqNext]_interrupts PROVE Readied'
  <2>1. CASE ProgramStep
    <3>1. pc \in 1 .. 25 /\ pc' = IF pc = 25 THEN 24 ELSE pc + 1
      BY <1>2, <2>1, Lengths DEF IrqInv, IrqTypes, ProgramStep
    <3>2. CASE ProcessorStep(MainProgram[pc]) /\ UNCHANGED boot
      <4>1. pc \notin {3, 21, 22, 23} BY <3>1, <3>2, Ops DEF ProcessorStep
      <4> QED BY <1>2, <3>1, <3>2, <4>1 DEF boot, Readied
    <3>3. CASE DriverStep(MainProgram[pc])
      BY <1>2, <3>1, <3>3, Ops DEF DriverStep, Readied
    <3> QED BY <2>1, <3>2, <3>3 DEF ProgramStep
  <2>2. CASE Dispatch \/ Raise \/ UNCHANGED interrupts
    BY <1>2, <2>2 DEF Dispatch, Enter, Look, Leave, Search, UartHandler, TimerHandler, TimerReturns,
                      Raise, interrupts, boot, Readied
  <2> QED BY <1>2, <2>1, <2>2 DEF IrqNext
<1>3. IrqInv /\ Readied => BootedWell
  <2>1. Len(Boot) = 23 BY Lengths, Zenon
  <2>2. InMain => pc > 23 BY <2>1, Zenon DEF InMain
  <2>3. pc \in 1 .. 25 => (pc > 23 => pc > 21) OBVIOUS
  <2>4. IrqInv /\ InMain => pc > 21 /\ pc > 23 BY <2>2, <2>3, Zenon DEF IrqInv, IrqTypes
  <2> QED BY <2>4, Zenon DEF Readied, BootedWell
<1> QED BY <1>1, <1>2, <1>3, IrqInvariant, PTL DEF IrqSpec

(* The timer's line is enabled before the other one; when it has been       *)
(* overtaken, the next look at the pending lines sees it.                   *)
Prompt ==
  /\ pc > 9 => TIMER_IRQ \in alt_irq_active
  /\ pc > 10 => TIMER_IRQ \in ienable
  /\ overtaken \in 0 .. 1
  /\ overtaken = 1 =>
       level # "program" /\ TIMER_IRQ \in ipending /\ (level = "search" => TIMER_IRQ \in active)

LEMMA PromptProgram == ASSUME IrqInv, Prompt, ProgramStep PROVE Prompt'
<1>1. pc \in 1 .. 25 /\ level = "program" /\ overtaken' = overtaken
      /\ pc' = IF pc = 25 THEN 24 ELSE pc + 1
  BY Lengths DEF IrqInv, IrqTypes, ProgramStep
<1>2. overtaken' = 0 BY <1>1 DEF Prompt
<1>3. ProcessorStep(MainProgram[pc]) \/ UNCHANGED cpu BY DEF ProgramStep
<1>4. pc > 8 => TIMER_IRQ \in alt_irq_active'
  <2>1. CASE pc = 9 BY <1>3, <2>1, Steps DEF ProgramStep, ProcessorStep, DriverStep
  <2>2. CASE pc # 9 BY <1>1, <1>3, <2>2 DEF Prompt, ProcessorStep, cpu
  <2> QED BY <2>1, <2>2
<1>5. pc > 9 => TIMER_IRQ \in ienable'
  <2>1. CASE pc \in {10, 18}
    <3>1. MainProgram[pc] = <<"ienable">> BY <2>1, Steps
    <3>2. ienable' = alt_irq_active BY <3>1 DEF ProgramStep, ProcessorStep, DriverStep
    <3> QED BY <2>1, <3>2 DEF Prompt
  <2>2. CASE pc > 10 /\ pc # 18
    <3>1. ienable' = ienable BY <1>1, <1>3, <2>2, Ops DEF ProcessorStep, cpu
    <3> QED BY <2>2, <3>1 DEF Prompt
  <2> QED BY <1>1, <2>1, <2>2
<1> QED BY <1>1, <1>2, <1>4, <1>5 DEF Prompt

LEMMA PromptDispatch ==
  ASSUME TIMER_IRQ < JTAG_UART_IRQ, IrqInv, Prompt, Dispatch PROVE Prompt'
<1>1. UNCHANGED <<pc, ienable, alt_irq_active>>
  BY DEF Dispatch, Enter, Look, Leave, Search, UartHandler, TimerHandler, TimerReturns, cpu
<1>2. SUFFICES /\ overtaken' \in 0 .. 1
               /\ overtaken' = 1 => level' # "program" /\ TIMER_IRQ \in ipending'
                                    /\ (level' = "search" => TIMER_IRQ \in active')
  BY <1>1 DEF Prompt
<1>3. CASE Enter BY <1>3 DEF Enter, Prompt
<1>4. CASE Look BY <1>4 DEF Look, Prompt, ipending, cpu
<1>5. CASE Leave BY <1>5 DEF Leave, Leaves, Prompt
<1>6. CASE Search
  <2>1. level = "search" /\ level' = "called" /\ UNCHANGED <<cpu, lines>> /\ irq' = Lowest(active)
        /\ overtaken' = IF TIMER_IRQ \in lines /\ irq' # TIMER_IRQ /\ overtaken < 2 THEN overtaken + 1
                        ELSE overtaken
    BY <1>6 DEF Search
  <2>2. active \subseteq ienable /\ active # {} /\ pc > 2
    BY <2>1 DEF IrqInv, Taken, Nested
  <2>3. active \subseteq {TIMER_IRQ, JTAG_UART_IRQ} /\ ienable \subseteq alt_irq_active
    <3>1. pc \in 1 .. 25 BY DEF IrqInv, IrqTypes
    <3>2. pc >= 2 BY <2>2, <3>1
    <3>3. ienable \subseteq alt_irq_active /\ alt_irq_active \subseteq {TIMER_IRQ, JTAG_UART_IRQ}
      BY <3>2 DEF IrqInv, Table
    <3> QED BY <2>2, <3>3
  <2>4. active \subseteq Nat BY <2>3, InterruptsAssumption
  <2>5. irq' \in active /\ \A m \in active : irq' <= m
    <3>1. \E n \in active : \A m \in active : n <= m BY <2>2, <2>4, LeastElement
    <3> QED BY <2>1, <3>1 DEF Lowest
  <2>6. TIMER_IRQ \in active => irq' = TIMER_IRQ BY <2>3, <2>4, <2>5, InterruptsAssumption
  <2>7. CASE irq' = TIMER_IRQ BY <2>1, <2>7 DEF Prompt, ipending, cpu
  <2>8. CASE irq' # TIMER_IRQ
    <3>1. overtaken = 0 BY <2>1, <2>6, <2>8 DEF Prompt
    <3>2. JTAG_UART_IRQ \in alt_irq_active BY <2>2, <2>3, <2>5, <2>8
    <3>3. TIMER_IRQ \in ienable
      <4>1. pc \in 1 .. 25 /\ pc > 17 BY <3>2 DEF IrqInv, IrqTypes, Table
      <4>2. pc > 10 BY <4>1
      <4> QED BY <4>2 DEF Prompt
    <3> QED BY <2>1, <3>1, <3>3 DEF ipending, cpu
  <2> QED BY <2>7, <2>8
<1>7. CASE UartHandler
  BY <1>7, InterruptsAssumption DEF UartHandler, Prompt, ipending, cpu
<1>8. CASE TimerHandler BY <1>8 DEF TimerHandler
<1>9. CASE TimerReturns BY <1>9 DEF TimerReturns, Prompt, ipending
<1> QED BY <1>3, <1>4, <1>5, <1>6, <1>7, <1>8, <1>9 DEF Dispatch

(* At most one other handler comes before the timer's: its line is the      *)
(* lowest (system.h), and the pending lines are read anew for each call.    *)
THEOREM TimerWaitsForOne == ASSUME TIMER_IRQ < JTAG_UART_IRQ PROVE IrqSpec => []TimerIsNext
<1>1. IrqInit => Prompt BY DEF IrqInit, Prompt
<1>2. ASSUME IrqInv, Prompt, Raise PROVE Prompt'
  BY <1>2 DEF Raise, Prompt, ipending, cpu
<1>3. ASSUME Prompt, UNCHANGED interrupts PROVE Prompt'
  BY <1>3 DEF interrupts, Prompt, ipending, cpu
<1>4. IrqInv /\ Prompt /\ [IrqNext]_interrupts => Prompt'
  BY <1>2, <1>3, PromptProgram, PromptDispatch DEF IrqNext
<1>5. Prompt => TimerIsNext BY DEF Prompt, TimerIsNext
<1> QED BY <1>1, <1>4, <1>5, IrqInvariant, PTL DEF IrqSpec
=============================================================================
