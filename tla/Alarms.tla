------------------------------- MODULE Alarms -------------------------------
(***************************************************************************)
(* The alarms of the HAL: alt_alarm_start, alt_alarm_stop and alt_tick,    *)
(* which the handler of the system timer calls at every tick with the      *)
(* interrupts disabled.  The program calls them from its main loop, its    *)
(* callbacks from inside alt_tick.                                         *)
(*                                                                         *)
(* The list is the doubly linked one of alt_llist.h, pointer by pointer.   *)
(* The clock has 32 bits and comes round to 0: Word values here.           *)
(***************************************************************************)
EXTENDS Integers

CONSTANTS Alarm,
          alt_alarm_list,  \* the head of the list
          Word,            \* values of the clock
          Delays,          \* what alarms are started with
          Periods,         \* what callbacks return, 0 among them
          StopsOthers      \* TRUE: a callback may stop an alarm that is not its own

ASSUME AlarmsAssumption ==
  /\ alt_alarm_list \notin Alarm
  /\ Word \in Nat \ {0}
  /\ Delays \subseteq 0 .. Word - 1 /\ Periods \subseteq 0 .. Word - 1
  /\ StopsOthers \in BOOLEAN

VARIABLES
  next, previous,    \* the links; an alarm that is not in the list links to itself
  time, rollover,    \* of each alarm
  nticks,            \* _alt_nticks
  at,                \* idle; walk: alt_tick is between two alarms; called: in a callback
  alarm, saved,      \* its locals alarm and next
  togo               \* ticks until each alarm is due, counted without a width

links == <<next, previous>>
alarms == <<links, time, rollover, nticks, at, alarm, saved, togo>>

Node == Alarm \cup {alt_alarm_list}
Registered(a) == next[a] # a

(* The links of an alarm that was never started are null and no code stops  *)
(* it; here every alarm has been started and stopped before.                *)
AlarmsInit ==
  /\ next = [x \in Node |-> x] /\ previous = [x \in Node |-> x]
  /\ time = [a \in Alarm |-> 0] /\ rollover = [a \in Alarm |-> FALSE]
  /\ nticks = 0 /\ at = "idle" /\ alarm = alt_alarm_list /\ saved = alt_alarm_list
  /\ togo = [a \in Alarm |-> 0]

-----------------------------------------------------------------------------
(* alt_llist_insert at the head, and alt_llist_remove.                      *)
Insert(a) ==
  /\ previous' = [previous EXCEPT ![next[alt_alarm_list]] = a, ![a] = alt_alarm_list]
  /\ next' = [next EXCEPT ![a] = next[alt_alarm_list], ![alt_alarm_list] = a]

(* Seeded fault: the removed entry keeps its links. *)
RemoveKeeping(a) ==
  /\ previous' = [previous EXCEPT ![next[a]] = previous[a]]
  /\ next' = [next EXCEPT ![previous[a]] = next[a]]
Remove(a) ==
  /\ previous' = [x \in Node |-> IF x = a THEN a ELSE IF x = next[a] THEN previous[a] ELSE previous[x]]
  /\ next' = [x \in Node |-> IF x = a THEN a ELSE IF x = previous[a] THEN next[a] ELSE next[x]]

(* alt_alarm_start: an alarm that is not registered.  At least n whole      *)
(* ticks go by, so it is due at the one after them.                         *)
Start(a, n) ==
  /\ ~Registered(a)
  /\ time' = [time EXCEPT ![a] = (n + nticks + 1) % Word]
  /\ rollover' = [rollover EXCEPT ![a] = (n + nticks + 1) % Word < nticks]
  /\ togo' = [togo EXCEPT ![a] = n + 1]
  /\ Insert(a)

(* alt_alarm_stop, of any alarm; of one that is not registered it is harmless. *)
Stop(a) ==
  /\ Remove(a)
  /\ togo' = [togo EXCEPT ![a] = 0]
  /\ UNCHANGED <<time, rollover>>

Program ==
  /\ at = "idle"
  /\ \E a \in Alarm : Stop(a) \/ \E n \in Delays : Start(a, n)
  /\ UNCHANGED <<nticks, at, alarm, saved>>

-----------------------------------------------------------------------------
(* alt_tick.                                                                *)
Tick ==
  /\ at = "idle" /\ at' = "walk"
  /\ nticks' = (nticks + 1) % Word
  /\ alarm' = next[alt_alarm_list]
  /\ togo' = [a \in Alarm |-> IF Registered(a) THEN togo[a] - 1 ELSE togo[a]]
  /\ UNCHANGED <<links, time, rollover, saved>>

Clears(a) == rollover[a] /\ nticks = 0

(* Seeded fault: the flag is not looked at. *)
ExpiredEarly(a) == time[a] <= nticks
Expired(a) == time[a] <= nticks /\ (~rollover[a] \/ Clears(a))

Visit ==
  /\ at = "walk" /\ alarm # alt_alarm_list
  /\ saved' = next[alarm]
  /\ rollover' = [rollover EXCEPT ![alarm] = @ /\ ~Clears(alarm)]
  /\ IF Expired(alarm) THEN at' = "called" /\ UNCHANGED alarm
                       ELSE alarm' = next[alarm] /\ UNCHANGED at
  /\ UNCHANGED <<links, time, nticks, togo>>

(* The callback may stop its alarm, or another, or start another before it  *)
(* returns; its own goes on with what it returns.                           *)
Callback ==
  /\ at = "called"
  /\ \E a \in Alarm : \/ (StopsOthers \/ a = alarm) /\ Stop(a)
                      \/ a # alarm /\ \E n \in Delays : Start(a, n)
  /\ UNCHANGED <<nticks, at, alarm, saved>>

Again(a, p) == (time[a] + p) % Word

RollsOver(a, p) == Again(a, p) < nticks \/ rollover[a]

Onward == saved

CallbackReturns ==
  /\ at = "called" /\ at' = "walk"
  /\ \E p \in Periods :
       IF p = 0
       THEN Stop(alarm)
       ELSE /\ time' = [time EXCEPT ![alarm] = Again(alarm, p)]
            /\ rollover' = [rollover EXCEPT ![alarm] = RollsOver(alarm, p)]
            /\ togo' = [togo EXCEPT ![alarm] = IF Registered(alarm) THEN @ + p ELSE @]
            /\ UNCHANGED links
  /\ alarm' = Onward
  /\ UNCHANGED <<nticks, saved>>

TickEnd ==
  /\ at = "walk" /\ alarm = alt_alarm_list /\ at' = "idle"
  /\ UNCHANGED <<links, time, rollover, nticks, alarm, saved, togo>>

AlarmsNext == Program \/ Tick \/ Visit \/ Callback \/ CallbackReturns \/ TickEnd

(* Ticks come, and the callbacks return. *)
AlarmsFairness == WF_alarms(Tick) /\ WF_alarms(Visit) /\ WF_alarms(CallbackReturns) /\ WF_alarms(TickEnd)

AlarmsSpec == AlarmsInit /\ [][AlarmsNext]_alarms /\ AlarmsFairness

-----------------------------------------------------------------------------
(* Every variable has its type. *)
AlarmsTypeOK ==
  /\ next \in [Node -> Node] /\ previous \in [Node -> Node]
  /\ time \in [Alarm -> 0 .. Word - 1] /\ rollover \in [Alarm -> BOOLEAN]
  /\ nticks \in 0 .. Word - 1
  /\ at \in {"idle", "walk", "called"} /\ alarm \in Node /\ saved \in Node
  /\ at = "called" => alarm \in Alarm
  /\ togo \in [Alarm -> Int]

(* The list is doubly linked at every moment, between any calls of the      *)
(* program and the callbacks: each neighbour of an entry links back to it.  *)
Linked == \A x \in Node : previous[next[x]] = x /\ next[previous[x]] = x

(* No callback before its time, nor after it, wherever the clock comes      *)
(* round to 0.                                                              *)
OnTime == [][(at = "walk" /\ at' = "called") => togo[alarm] = 0]_alarms

(* When a tick is over, no registered alarm has been passed over.           *)
NotMissed == at = "idle" => \A a \in Alarm : Registered(a) => togo[a] > 0

(* The walk over the list ends although callbacks change it on the way.     *)
TickEnds == at # "idle" ~> at = "idle"

(* alt_alarm.h:73: alt_alarm_stop unregisters a callback: it is not called. *)
StoppedIsSilent == [][(at = "walk" /\ at' = "called") => Registered(alarm)]_alarms
=============================================================================
