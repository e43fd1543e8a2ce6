---------------------------- MODULE DriverProofs ----------------------------
(***************************************************************************)
(* The waits on the clock (UsbTime.tla), the probes (HidProbe.tla), the    *)
(* accesses to the chip (MaxSpi.tla) and the panel (Panel.tla), as         *)
(* MCDriver.tla instantiates them: for words of any width, ticks of any    *)
(* frequency, configurations, buffers and accesses of any length, and      *)
(* devices that report any codes and displacements.                        *)
(***************************************************************************)
EXTENDS MCDriver, SequenceTheorems, TLAPS

(* The waits on the clock.                                                  *)
(* Multiplication, division and remainder, as far as the clock needs them.  *)
LEMMA Times == ASSUME NEW H \in Nat, NEW p \in Int, NEW q \in Int, p <= q PROVE H * p <= H * q
<1>1. q - p \in Nat /\ H * (q - p) >= 0 OBVIOUS
<1>2. H * (q - p) = H * q - H * p OBVIOUS
<1>3. H * p \in Int /\ H * q \in Int OBVIOUS
<1> QED BY <1>1, <1>2, <1>3

LEMMA Divided ==
  ASSUME NEW H \in Nat \ {0}, NEW v \in Nat
  PROVE  /\ v \div H \in Nat /\ v % H \in 0 .. H - 1
         /\ v = H * (v \div H) + (v % H)
OBVIOUS

(* One divisor more is one more in the quotient, at most.                   *)
LEMMA OneMore ==
  ASSUME NEW H \in Nat \ {0}, NEW v \in Nat, NEW w \in Nat, w <= v + H
  PROVE  w \div H <= v \div H + 1
<1> DEFINE p == w \div H
           q == v \div H
<1>1. p \in Nat /\ q \in Nat /\ v % H < H /\ v % H \in Nat /\ w % H \in Nat
      /\ w = H * p + (w % H) /\ v = H * q + (v % H)
  BY Divided
<1> HIDE DEF p, q
<1>2. SUFFICES ASSUME p >= q + 2 PROVE FALSE BY <1>1 DEF p, q
<1>3. H * (q + 2) <= H * p BY <1>1, <1>2, Times
<1>4. H * (q + 2) = H * q + 2 * H BY <1>1
<1>5. H * p \in Nat /\ H * q \in Nat BY <1>1
<1> QED BY <1>1, <1>3, <1>4, <1>5

LEMMA Monotone ==
  ASSUME NEW H \in Nat \ {0}, NEW v \in Nat, NEW w \in Nat, w <= v
  PROVE  w \div H <= v \div H
<1> DEFINE p == w \div H
           q == v \div H
<1>1. p \in Nat /\ q \in Nat /\ v % H \in 0 .. H - 1 /\ w % H \in 0 .. H - 1
      /\ w = H * p + (w % H) /\ v = H * q + (v % H)
  BY Divided
<1> HIDE DEF p, q
<1>2. SUFFICES ASSUME p >= q + 1 PROVE FALSE BY <1>1 DEF p, q
<1>3. H * (q + 1) <= H * p BY <1>1, <1>2, Times
<1>4. H * (q + 1) = H * q + H BY <1>1
<1>5. H * p \in Nat /\ H * q \in Nat BY <1>1
<1> QED BY <1>1, <1>3, <1>4, <1>5

(* A sum that wraps is not above the sum.                                   *)
LEMMA WrapAdd ==
  ASSUME NEW W \in Nat \ {0}, NEW v \in Nat, NEW u \in Nat
  PROVE  (v + u) % W <= (v % W) + u
<1> DEFINE p == (v + u) \div W
           q == v \div W
<1>1. v + u \in Nat OBVIOUS
<1>2. p \in Nat /\ q \in Nat /\ v % W \in 0 .. W - 1 /\ (v + u) % W \in 0 .. W - 1
      /\ v + u = W * p + ((v + u) % W) /\ v = W * q + (v % W)
  BY <1>1, Divided
<1> HIDE DEF p, q
<1>3. W * p \in Nat /\ W * q \in Nat BY <1>2
<1>4. CASE q <= p
  <2>1. W * q <= W * p BY <1>2, <1>4, Times
  <2> QED BY <1>2, <1>3, <2>1
<1>5. CASE p + 1 <= q
  <2>1. W * (p + 1) <= W * q BY <1>2, <1>5, Times
  <2>2. W * (p + 1) = W * p + W BY <1>2
  <2> QED BY <1>2, <1>3, <2>1, <2>2
<1> QED BY <1>2, <1>4, <1>5

(* Quotient and remainder are what they are in one way only.                *)
LEMMA Unique ==
  ASSUME NEW W \in Nat \ {0}, NEW v \in Nat, NEW q \in Nat, NEW r \in 0 .. W - 1, v = W * q + r
  PROVE  v % W = r /\ v \div W = q
<1> DEFINE p == v \div W
           s == v % W
<1>1. p \in Nat /\ s \in 0 .. W - 1 /\ v = W * p + s BY Divided
<1>2. W * p \in Nat /\ W * q \in Nat BY <1>1
<1> HIDE DEF p, s
<1>3. ~(q + 1 <= p)
  <2> SUFFICES ASSUME q + 1 <= p PROVE FALSE OBVIOUS
  <2>1. W * (q + 1) <= W * p BY <1>1, Times
  <2>2. W * (q + 1) = W * q + W OBVIOUS
  <2> QED BY <1>1, <1>2, <2>1, <2>2
<1>4. ~(p + 1 <= q)
  <2> SUFFICES ASSUME p + 1 <= q PROVE FALSE OBVIOUS
  <2>1. W * (p + 1) <= W * q BY <1>1, Times
  <2>2. W * (p + 1) = W * p + W BY <1>1
  <2> QED BY <1>1, <1>2, <2>1, <2>2
<1>5. p = q BY <1>1, <1>3, <1>4
<1>6. s = r BY <1>1, <1>2, <1>5
<1> QED BY <1>5, <1>6 DEF p, s

(* A wait begins at limit - TimeOf(wait), and a tick adds a millisecond of  *)
(* this clock at most, whatever wraps.                                      *)
Awaited ==
  wait # "none" =>
    /\ limit \in Nat
    /\ elapsed >= Time!TimeOf(wait) \/ Time!Now <= limit - Time!TimeOf(wait) + elapsed

TimeInv ==
  /\ nticks \in 0 .. Word - 1 /\ elapsed \in Nat /\ wait \in {"none", "settle", "transfer"}
  /\ Awaited

(* What the constants say of the clock and its limits.                      *)
LEMMA Clock ==
  /\ Word \in Nat \ {0} /\ Hz \in Nat \ {0}
  /\ \A w : Time!TimeOf(w) \in Nat /\ Time!TimeOf(w) + 1 < Time!MostElapsed
  /\ \A w : Time!LastNow + Time!TimeOf(w) < Word
  /\ Time!LastNow \in Nat /\ Time!MostElapsed \in Nat
<1>1. Hz \in Nat \ {0} /\ SettleTime \in Nat \ {0} /\ USB_XFER_TIMEOUT \in Nat \ {0}
      /\ Word \in Nat /\ Word > Time!LastNow + SettleTime + USB_XFER_TIMEOUT
  BY DriverAssumption DEF Time!UsbTimeAssumption, Time!LastNow
<1>2. Word # 0
  <2> SUFFICES ASSUME Word = 0 PROVE FALSE OBVIOUS
  <2>1. 0 - 1 = -1 /\ Time!LastNow = (-1) \div Hz BY DEF Time!LastNow
  <2>2. \A h \in Nat \ {0} : (-1) \div h = -1 OBVIOUS
  <2> QED BY <1>1, <2>1, <2>2
<1>3. Time!LastNow \in Nat BY <1>1, <1>2, Divided DEF Time!LastNow
<1>4. \A w : Time!TimeOf(w) \in Nat /\ Time!TimeOf(w) <= SettleTime + USB_XFER_TIMEOUT
  BY <1>1 DEF Time!TimeOf
<1>5. \A w : Time!LastNow + Time!TimeOf(w) < Word BY <1>1, <1>3, <1>4
<1>6. SettleTime + USB_XFER_TIMEOUT \in Nat /\ Time!MostElapsed = SettleTime + USB_XFER_TIMEOUT + 2
  BY <1>1 DEF Time!MostElapsed
<1> HIDE DEF Time!TimeOf
<1>7. \A w : Time!TimeOf(w) + 1 < Time!MostElapsed BY <1>4, <1>6
<1> QED BY <1>1, <1>2, <1>3, <1>4, <1>5, <1>6, <1>7

LEMMA NowType == ASSUME NEW n \in Nat PROVE ((n * Hz) % Word) \div Hz \in 0 .. Time!LastNow
<1>1. n * Hz \in Nat /\ Word \in Nat \ {0} /\ Hz \in Nat \ {0} BY Clock
<1>2. (n * Hz) % Word \in 0 .. Word - 1 BY <1>1, Divided
<1> DEFINE y == (n * Hz) % Word
<1>3. y \in Nat /\ Word - 1 \in Nat /\ y <= Word - 1 BY <1>1, <1>2
<1> HIDE DEF y
<1>4. y \div Hz \in Nat /\ y \div Hz <= (Word - 1) \div Hz BY <1>1, <1>3, Divided, Monotone
<1>5. Time!LastNow \in Nat /\ y \div Hz <= Time!LastNow BY <1>4, Clock DEF Time!LastNow
<1>6. y \div Hz \in 0 .. Time!LastNow BY <1>4, <1>5
<1> QED BY <1>6 DEF y

(* A tick takes the clock forward by one, or back.                          *)
LEMMA NowSteps ==
  ASSUME nticks \in 0 .. Word - 1, nticks' = (nticks + 1) % Word
  PROVE  Time!Now' <= Time!Now + 1
<1>1. Word \in Nat \ {0} /\ Hz \in Nat \ {0} /\ nticks \in Nat BY Clock
<1>2. CASE nticks = Word - 1
  <2>1. nticks' = 0
    <3>1. \A W \in Nat \ {0} : ((W - 1) + 1) % W = 0 OBVIOUS
    <3> QED BY <1>1, <1>2, <3>1
  <2>2. 0 * Hz = 0 /\ 0 % Word = 0 /\ 0 \div Hz = 0
    <3>1. \A W \in Nat \ {0} : 0 % W = 0 /\ 0 \div W = 0 OBVIOUS
    <3> QED BY <1>1, <3>1
  <2>3. Time!Now' = 0 BY <2>1, <2>2 DEF Time!Now
  <2> QED BY <1>1, <2>3, NowType DEF Time!Now
<1>3. CASE nticks # Word - 1
  <2>1. nticks + 1 \in 0 .. Word - 1 BY <1>1, <1>3
  <2>2. nticks' = nticks + 1
    <3>1. \A v \in 0 .. Word - 1 : v % Word = v BY <1>1
    <3> QED BY <2>1, <3>1
  <2> DEFINE x == nticks * Hz
  <2>3. x \in Nat /\ (nticks + 1) * Hz = x + Hz BY <1>1
  <2> HIDE DEF x
  <2>4. (x + Hz) % Word <= (x % Word) + Hz BY <1>1, <2>3, WrapAdd
  <2>5. (x + Hz) % Word \in Nat /\ x % Word \in Nat
    <3>1. x + Hz \in Nat BY <1>1, <2>3
    <3> QED BY <1>1, <2>3, <3>1, Divided
  <2>6. ((x + Hz) % Word) \div Hz <= (x % Word) \div Hz + 1 BY <1>1, <2>4, <2>5, OneMore
  <2> QED BY <2>2, <2>3, <2>6 DEF Time!Now, x
<1> QED BY <1>2, <1>3

(* Below the wrap of the product every tick is a millisecond of this clock. *)
LEMMA NowCounts ==
  ASSUME nticks \in 0 .. Word - 1, nticks' = (nticks + 1) % Word, Time!Now < Time!LastNow - 1
  PROVE  Time!Now' = Time!Now + 1
<1> DEFINE x == nticks * Hz
           y == x % Word
           q == x \div Word
<1>1. Word \in Nat \ {0} /\ Hz \in Nat \ {0} /\ nticks \in Nat /\ x \in Nat BY Clock
<1>2. y \in 0 .. Word - 1 /\ q \in Nat /\ x = Word * q + y BY <1>1, Divided
<1>3. (nticks + 1) * Hz = x + Hz BY <1>1
<1>4. (Word - 1) * Hz = Word * (Hz - 1) + (Word - Hz) BY <1>1
<1>5. nticks = Word - 1 => x = Word * (Hz - 1) + (Word - Hz) BY <1>4
<1>6. Time!Now = y \div Hz /\ Time!LastNow = (Word - 1) \div Hz /\ Time!LastNow \in Nat
  BY Clock DEF Time!Now, Time!LastNow
<1> HIDE DEF x, y, q
<1>7. y \div Hz \in Nat /\ y = Hz * (y \div Hz) + (y % Hz) /\ y % Hz \in 0 .. Hz - 1
  <2>1. y \in Nat BY <1>1, <1>2
  <2> QED BY <1>1, <2>1, Divided
<1>8. y + Hz <= Word - 1
  <2> SUFFICES ASSUME Word - 1 <= y + Hz PROVE y + Hz <= Word - 1 /\ FALSE
    BY <1>1, <1>2
  <2>1. (Word - 1) \div Hz <= y \div Hz + 1
    <3>1. Word - 1 \in Nat /\ y \in Nat BY <1>1, <1>2
    <3> QED BY <1>1, <3>1, OneMore
  <2> QED BY <1>6, <1>7, <2>1
<1>9. nticks' = nticks + 1
  <2>1. nticks # Word - 1
    <3> SUFFICES ASSUME nticks = Word - 1 PROVE FALSE OBVIOUS
    <3>1. Hz - 1 \in Nat /\ Word - Hz \in 0 .. Word - 1 BY <1>1, <1>2, <1>8
    <3>2. x = Word * (Hz - 1) + (Word - Hz) BY <1>5
    <3> DEFINE h == Hz - 1
               t == Word - Hz
    <3>3. x % Word = t
      <4>1. h \in Nat /\ t \in 0 .. Word - 1 /\ x = Word * h + t BY <3>1, <3>2
      <4> HIDE DEF h, t
      <4> QED BY <1>1, <4>1, Unique
    <3>4. y = Word - Hz BY <3>3 DEF y
    <3> QED BY <1>1, <1>8, <3>4
  <2>2. nticks + 1 \in 0 .. Word - 1 BY <1>1, <2>1
  <2>3. \A v \in 0 .. Word - 1 : v % Word = v BY <1>1
  <2> QED BY <2>2, <2>3
<1>10. (x + Hz) % Word = y + Hz
  <2>1. y + Hz \in 0 .. Word - 1 /\ x + Hz \in Nat BY <1>1, <1>2, <1>8
  <2>2. x + Hz = Word * q + (y + Hz) BY <1>1, <1>2
  <2> QED BY <1>1, <1>2, <2>1, <2>2, Unique
<1>11. (y + Hz) \div Hz = y \div Hz + 1
  <2> DEFINE d == y \div Hz
             r == y % Hz
  <2>1. d \in Nat /\ r \in 0 .. Hz - 1 /\ y = Hz * d + r BY <1>7
  <2> HIDE DEF d, r
  <2>2. y + Hz = Hz * (d + 1) + r /\ y + Hz \in Nat /\ d + 1 \in Nat BY <1>1, <1>2, <2>1
  <2>3. (y + Hz) \div Hz = d + 1 BY <1>1, <2>1, <2>2, Unique
  <2> QED BY <2>3 DEF d
<1>12. Time!Now' = ((x + Hz) % Word) \div Hz BY <1>3, <1>9 DEF Time!Now
<1> QED BY <1>6, <1>10, <1>11, <1>12

LEMMA TimeStarts == Time!Init => TimeInv
BY DEF Time!Init, TimeInv, Awaited

LEMMA TimeKeeps == ASSUME TimeInv, [Time!Next]_(Time!vars) PROVE TimeInv'
<1>1. nticks \in 0 .. Word - 1 /\ elapsed \in Nat /\ wait \in {"none", "settle", "transfer"} /\ Awaited
  BY DEF TimeInv
<1>2. Time!Now \in Nat /\ Time!Now <= Time!LastNow BY <1>1, NowType, Clock DEF Time!Now
<1>3. ASSUME NEW w \in {"settle", "transfer"}, Time!Begin(w) PROVE TimeInv'
  <2>1. limit' = (Time!Now + Time!TimeOf(w)) % Word /\ wait' = w /\ elapsed' = 0 /\ nticks' = nticks
    BY <1>3 DEF Time!Begin, Time!Limit
  <2>2. limit' = Time!Now + Time!TimeOf(w)
    <3>1. Time!Now + Time!TimeOf(w) \in 0 .. Word - 1 BY <1>2, Clock
    <3>2. \A v \in 0 .. Word - 1 : v % Word = v BY Clock
    <3> QED BY <2>1, <3>1, <3>2
  <2>3. Time!Now' = Time!Now BY <2>1 DEF Time!Now
  <2>4. limit' \in Nat /\ Time!Now' <= limit' - Time!TimeOf(w) + elapsed'
    BY <1>2, <2>1, <2>2, <2>3, Clock
  <2> QED BY <1>1, <1>3, <2>1, <2>4 DEF TimeInv, Awaited, Time!TimeOf
<1>4. CASE Time!Look \/ Time!Answered
  BY <1>1, <1>4 DEF Time!Look, Time!Answered, TimeInv, Awaited, Time!Now, Time!TimeOf
<1>5. CASE Time!Tick
  <2>1. nticks' = (nticks + 1) % Word /\ UNCHANGED <<wait, limit>>
        /\ elapsed' = IF elapsed < Time!MostElapsed THEN elapsed + 1 ELSE elapsed
    BY <1>5 DEF Time!Tick
  <2>2. nticks' \in 0 .. Word - 1
    <3>1. nticks + 1 \in Nat BY <1>1
    <3> QED BY <2>1, <3>1, Clock, Divided
  <2>3. Time!Now' <= Time!Now + 1 /\ Time!Now' \in Nat
    BY <1>1, <2>1, <2>2, NowSteps, NowType, Clock DEF Time!Now
  <2>4. wait # "none" =>
          /\ limit' \in Nat
          /\ \/ elapsed' >= Time!TimeOf(wait)
             \/ Time!Now' <= limit' - Time!TimeOf(wait) + elapsed'
    BY <1>1, <1>2, <2>1, <2>3, Clock DEF Awaited
  <2> QED BY <1>1, <2>1, <2>2, <2>4 DEF TimeInv, Awaited, Time!TimeOf
<1>6. CASE UNCHANGED Time!vars
  BY <1>1, <1>6 DEF Time!vars, TimeInv, Awaited, Time!Now, Time!TimeOf
<1> QED BY <1>3, <1>4, <1>5, <1>6 DEF Time!Next

(* A wait that finds its limit passed has lasted its time, at any frequency *)
(* of the tick and on whatever side of the wrap of nticks, or of its        *)
(* product with Hz, it began.                                               *)
THEOREM NoWaitCutShort == Time!Spec => NotEarly
<1>1. ASSUME TimeInv, [Time!Next]_(Time!vars)
      PROVE  [(Time!Look /\ wait' = "none") => elapsed >= Time!TimeOf(wait)]_(Time!vars)
  <2> SUFFICES ASSUME Time!Look, wait' = "none" PROVE elapsed >= Time!TimeOf(wait)
    OBVIOUS
  <2>1. wait \in {"settle", "transfer"} /\ Time!Over BY <1>1 DEF Time!Look, TimeInv
  <2>2. Time!Now >= limit BY <1>1, <2>1, NowType, Clock DEF Time!Over, TimeInv, Awaited, Time!Now
  <2> QED BY <1>1, <2>1, <2>2, NowType, Clock DEF TimeInv, Awaited, Time!Now
<1> QED BY <1>1, TimeStarts, TimeKeeps, PTL DEF Time!Spec, NotEarly, Time!NotEarly

(* A limit in reach is come to tick by tick, and the loop looks at each.    *)
Approached ==
  (wait # "none" /\ Time!InReach) =>
    /\ Time!Now = limit - Time!TimeOf(wait) + elapsed
    /\ elapsed <= Time!TimeOf(wait) + 1
    /\ looked => ~Time!Over

LEMMA ApproachKeeps == ASSUME TimeInv, Approached, [Time!Next]_(Time!vars) PROVE Approached'
<1>1. nticks \in 0 .. Word - 1 /\ elapsed \in Nat /\ wait \in {"none", "settle", "transfer"} /\ Awaited
  BY DEF TimeInv
<1>2. Time!Now \in Nat /\ Time!Now <= Time!LastNow BY <1>1, NowType, Clock DEF Time!Now
<1>3. ASSUME NEW w \in {"settle", "transfer"}, Time!Begin(w) PROVE Approached'
  <2>1. /\ limit' = (Time!Now + Time!TimeOf(w)) % Word /\ wait' = w
        /\ elapsed' = 0 /\ nticks' = nticks /\ looked' = FALSE
    BY <1>3 DEF Time!Begin, Time!Limit
  <2>2. limit' = Time!Now + Time!TimeOf(w)
    <3>1. Time!Now + Time!TimeOf(w) \in 0 .. Word - 1 BY <1>2, Clock
    <3>2. \A v \in 0 .. Word - 1 : v % Word = v BY Clock
    <3> QED BY <2>1, <3>1, <3>2
  <2>3. Time!Now' = Time!Now /\ Time!TimeOf(wait)' = Time!TimeOf(w) BY <2>1 DEF Time!Now, Time!TimeOf
  <2>4. Time!Now' = limit' - Time!TimeOf(w) + elapsed' /\ elapsed' <= Time!TimeOf(w) + 1
    <3>1. Time!TimeOf(w) \in Nat BY Clock
    <3>2. Time!Now' = Time!Now BY <2>3
    <3> QED BY <1>2, <2>1, <2>2, <3>1, <3>2
  <2> QED BY <2>1, <2>3, <2>4 DEF Approached
<1>4. CASE Time!Look
  BY <1>4 DEF Time!Look, Approached, Time!InReach, Time!Now, Time!TimeOf, Time!Over
<1>5. CASE Time!Answered BY <1>5 DEF Time!Answered, Approached
<1>6. CASE Time!Tick
  <2>1. nticks' = (nticks + 1) % Word /\ UNCHANGED <<wait, limit>> /\ looked' = FALSE
        /\ elapsed' = (IF elapsed < Time!MostElapsed THEN elapsed + 1 ELSE elapsed)
        /\ (wait = "none" \/ looked)
    BY <1>6 DEF Time!Tick
  <2>2. ASSUME wait # "none", Time!InReach
        PROVE  Time!Now' = limit - Time!TimeOf(wait) + elapsed' /\ elapsed' <= Time!TimeOf(wait) + 1
    <3>1. Time!Now = limit - Time!TimeOf(wait) + elapsed /\ Time!Now <= limit /\ limit \in Nat
      BY <1>1, <1>2, <2>1, <2>2 DEF Approached, Awaited, Time!Over
    <3>2. Time!Now < Time!LastNow - 1 BY <1>2, <2>2, <3>1, Clock DEF Time!InReach
    <3>3. Time!Now' = Time!Now + 1 BY <1>1, <2>1, <3>2, NowCounts
    <3>4. Time!TimeOf(wait) \in Nat /\ Time!TimeOf(wait) + 1 < Time!MostElapsed /\ Time!MostElapsed \in Nat
      BY Clock
    <3>5. elapsed <= Time!TimeOf(wait) BY <1>1, <1>2, <3>1, <3>4
    <3>6. elapsed' = elapsed + 1 BY <1>1, <2>1, <3>4, <3>5
    <3> QED BY <1>1, <1>2, <3>1, <3>3, <3>4, <3>5, <3>6
  <2> QED BY <2>1, <2>2 DEF Approached, Time!InReach, Time!TimeOf
<1>7. CASE UNCHANGED Time!vars
  BY <1>7 DEF Time!vars, Approached, Time!InReach, Time!Now, Time!TimeOf, Time!Over
<1> QED BY <1>3, <1>4, <1>5, <1>6, <1>7 DEF Time!Next

(* And one whose limit is in reach ends no more than a tick after its time. *)
THEOREM NoWaitOverdue == Time!Spec => []Time!NotLate
<1>1. Time!Init => Approached BY DEF Time!Init, Approached
<1>2. Approached => Time!NotLate BY DEF Approached, Time!NotLate
<1> QED BY <1>1, <1>2, TimeStarts, TimeKeeps, ApproachKeeps, PTL DEF Time!Spec

-----------------------------------------------------------------------------
(* The probes.                                                              *)
(* The first interface in the buffer: the device's own but for those it was *)
(* asked for and has not sent.                                              *)
Chosen(i, b, c, m, class) ==
  /\ i \in Probes!FirstOf(b) /\ class = b[i]
  /\ i >= m \/ (i \in Probes!FirstOf(c) /\ class = c[i])

(* What of the part that is walked over has come from the device.           *)
Read == \A s \in 1 .. total_length : s >= missing \/ (s <= Len(config) /\ bigbuf[s] = config[s])

Lengths ==
  /\ Len(config) \in Nat /\ Len(bigbuf) = BufSize
  /\ wTotalLength \in Nat /\ total_length \in 0 .. BufSize /\ missing \in Nat

(* How far the probe that runs has walked, and what it has found there.     *)
Walked ==
  /\ hpc \in {"walk", "endpoint"} => Read /\ at \in Nat \ {0}
  /\ hpc = "walk" => \A j \in 1 .. at - 1 : bigbuf[j] \notin Probes!Interfaces
  /\ hpc = "endpoint" => \E i \in 1 .. at - 1 : Chosen(i, bigbuf, config, missing, devclass)
  /\ hpc \in {"setconf", "setproto", "running"} =>
       /\ epinfo \in Nat /\ bigbuf[epinfo] = "endpoint"
       /\ epinfo >= missing \/ config[epinfo] = "endpoint"
       /\ \E i \in 1 .. epinfo - 1 : Chosen(i, bigbuf, config, missing, devclass)

Obeyed ==
  /\ configured \subseteq {"configuration", "boot protocol"}
  /\ hpc \in {"setproto", "running"} => "configuration" \in configured
  /\ hpc = "running" => "boot protocol" \in configured

ProbeInv == Lengths /\ Walked /\ Obeyed

(* A configuration has a length: it is one of the descriptors' sequences.   *)
LEMMA ConfigurationLength == \A d \in Probes!Configurations : Len(d) \in Nat
<1> SUFFICES ASSUME NEW n \in 0 .. MaxDescr - 1, NEW s \in [1 .. n -> Probes!Types]
             PROVE  Len(<<"config">> \o s) \in Nat
  BY DEF Probes!Configurations, Probes!Rest
<1> DEFINE U == Probes!Types \cup {"config"}
<1>1. n \in Nat BY DriverAssumption DEF Probes!HidProbeAssumption
<1>2. <<"config">> \in Seq(U) OBVIOUS
<1>3. s \in Seq(U) BY <1>1, SeqDef
<1> HIDE DEF U
<1>4. <<"config">> \o s \in Seq(U) BY <1>2, <1>3, ConcatProperties
<1> QED BY <1>4, LenProperties

(* The buffer keeps its length, whatever is written to it.                  *)
LEMMA BufferLength == ASSUME NEW f, f = [s \in 1 .. BufSize |-> f[s]] PROVE Len(f) = BufSize
<1> DEFINE U == {f[s] : s \in 1 .. BufSize}
<1>1. BufSize \in Nat BY DriverAssumption DEF Probes!HidProbeAssumption
<1>2. f \in [1 .. BufSize -> U] OBVIOUS
<1> HIDE DEF U
<1>3. f \in Seq(U) BY <1>1, <1>2, SeqDef
<1>4. DOMAIN f = 1 .. BufSize /\ DOMAIN f = 1 .. Len(f) /\ Len(f) \in Nat
  BY <1>2, <1>3, LenProperties
<1> QED BY <1>1, <1>4

LEMMA ReceivedFits ==
  ASSUME NEW n, Probes!Received(n), Lengths
  PROVE  Len(bigbuf') = BufSize /\ wTotalLength' \in Nat
<1> DEFINE b == [s \in 1 .. BufSize |-> IF s <= n THEN config[s] ELSE bigbuf[s]]
<1>1. bigbuf' = b BY DEF Probes!Received, Probes!Slots
<1>2. b = [s \in 1 .. BufSize |-> b[s]] OBVIOUS
<1> HIDE DEF b
<1>3. Len(b) = BufSize BY <1>2, BufferLength
<1> QED BY <1>1, <1>3 DEF Probes!Received, Lengths

LEMMA ProbeStarts == Probes!Init => ProbeInv
<1> SUFFICES ASSUME Probes!Init PROVE ProbeInv OBVIOUS
<1> DEFINE b == [s \in 1 .. BufSize |-> "zero"]
<1>1. b = [s \in 1 .. BufSize |-> b[s]] OBVIOUS
<1>2. bigbuf = b BY DEF Probes!Init, Probes!Slots
<1> HIDE DEF b
<1>3. Len(bigbuf) = BufSize BY <1>1, <1>2, BufferLength
<1>4. BufSize \in Nat BY DriverAssumption DEF Probes!HidProbeAssumption
<1>5. Lengths BY <1>3, <1>4 DEF Probes!Init, Lengths
<1> QED BY <1>5 DEF Probes!Init, ProbeInv, Walked, Obeyed

(* Another probe begins where one has given up.                             *)
LEMMA FailedKeeps ==
  ASSUME Lengths, Obeyed, Probes!NextProbe, UNCHANGED <<config, bigbuf, wTotalLength, configured>>
  PROVE  ProbeInv'
<1>1. BufSize \in Nat BY DriverAssumption DEF Probes!HidProbeAssumption
<1>2. Lengths' BY <1>1 DEF Probes!NextProbe, Lengths
<1> QED BY <1>2 DEF Probes!NextProbe, ProbeInv, Walked, Obeyed

(* As far as it has come from the device, what is first in the buffer is    *)
(* first in its configuration.                                              *)
LEMMA FirstIsOwn ==
  ASSUME Lengths, Read, at \in 1 .. total_length, bigbuf[at] \in Probes!Interfaces,
         \A j \in 1 .. at - 1 : bigbuf[j] \notin Probes!Interfaces
  PROVE  Chosen(at, bigbuf, config, missing, bigbuf[at])
<1>1. BufSize \in Nat BY DriverAssumption DEF Probes!HidProbeAssumption
<1>2. at \in Probes!FirstOf(bigbuf) BY <1>1 DEF Lengths, Probes!FirstOf
<1>3. ASSUME at < missing PROVE at \in Probes!FirstOf(config) /\ bigbuf[at] = config[at]
  <2>1. \A j \in 1 .. at : j < missing /\ j \in 1 .. total_length BY <1>1, <1>3 DEF Lengths
  <2>2. \A j \in 1 .. at : j <= Len(config) /\ bigbuf[j] = config[j] BY <1>1, <2>1 DEF Read, Lengths
  <2>3. at \in 1 .. Len(config) /\ bigbuf[at] = config[at] BY <2>2 DEF Lengths
  <2>4. \A j \in 1 .. at - 1 : config[j] \notin Probes!Interfaces BY <2>2, <1>1 DEF Lengths
  <2> QED BY <2>3, <2>4 DEF Probes!FirstOf
<1> QED BY <1>1, <1>2, <1>3 DEF Chosen, Lengths

LEMMA ProbeKeeps == ASSUME ProbeInv, [Probes!Next]_(Probes!vars) PROVE ProbeInv'
<1>0. BufSize \in Nat BY DriverAssumption DEF Probes!HidProbeAssumption
<1>1. Lengths /\ Walked /\ Obeyed BY DEF ProbeInv
<1>2. CASE Probes!Enumerate
  <2>1. Len(config') \in Nat BY <1>2, ConfigurationLength DEF Probes!Enumerate
  <2> QED BY <1>0, <1>1, <1>2, <2>1 DEF Probes!Enumerate, ProbeInv, Lengths, Walked, Obeyed
<1>3. CASE Probes!Unplug
  BY <1>0, <1>1, <1>3 DEF Probes!Unplug, ProbeInv, Lengths, Walked, Obeyed
<1>4. CASE Probes!TransferFails BY <1>1, <1>4, FailedKeeps DEF Probes!TransferFails
<1>5. CASE Probes!GetSize
  <2>1. PICK n : Probes!Received(n) BY <1>5 DEF Probes!GetSize
  <2>2. Len(bigbuf') = BufSize /\ wTotalLength' \in Nat BY <1>1, <2>1, ReceivedFits
  <2>3. total_length' \in 0 .. BufSize BY <1>0, <1>5, <2>2 DEF Probes!GetSize, Probes!Fits
  <2>4. Lengths' BY <1>1, <1>5, <2>2, <2>3 DEF Probes!GetSize, Lengths
  <2> QED BY <1>1, <1>5, <2>4 DEF Probes!GetSize, ProbeInv, Walked, Obeyed
<1>6. CASE Probes!GetWhole
  <2>1. PICK n \in 0 .. total_length :
          /\ n <= Len(config) /\ Probes!Received(n)
          /\ missing' = IF n < total_length THEN n + 1 ELSE BufSize + 1
    BY <1>6 DEF Probes!GetWhole, Probes!AsksWhole
  <2>2. UNCHANGED <<config, total_length, configured>> /\ at' = 1 /\ hpc' = "walk"
    BY <1>6 DEF Probes!GetWhole
  <2>3. Len(bigbuf') = BufSize /\ wTotalLength' \in Nat BY <1>1, <2>1, ReceivedFits
  <2>4. total_length \in 0 .. BufSize /\ n \in Nat BY <1>1, <2>1 DEF Lengths
  <2>5. Lengths' BY <1>0, <1>1, <2>1, <2>2, <2>3, <2>4 DEF Lengths
  <2>6. ASSUME NEW s \in 1 .. total_length, ~(s >= missing')
        PROVE  s <= Len(config) /\ bigbuf'[s] = config[s]
    <3>1. s <= n /\ s \in 1 .. BufSize BY <1>0, <2>1, <2>4, <2>6
    <3>2. bigbuf'[s] = config[s] BY <2>1, <3>1 DEF Probes!Received, Probes!Slots
    <3> QED BY <1>1, <2>1, <2>4, <3>1, <3>2 DEF Lengths
  <2>7. Read' BY <2>2, <2>6 DEF Read
  <2>8. Walked' BY <2>2, <2>7 DEF Walked
  <2> QED BY <1>1, <2>2, <2>5, <2>8 DEF ProbeInv, Obeyed
<1>7. CASE Probes!Skip
  <2>1. hpc \in {"walk", "endpoint"} /\ at <= total_length /\ Read /\ at \in Nat \ {0}
    BY <1>1, <1>7 DEF Probes!Skip, Walked
  <2>2. UNCHANGED <<hpc, probe, config, bigbuf, wTotalLength, total_length, missing, devclass,
                    epinfo, configured>>
        /\ (at' = at \/ at' = at + 1)
    BY <1>7 DEF Probes!Skip, Probes!SkipFrom
  <2>3. Read' /\ Lengths' BY <1>1, <2>1, <2>2 DEF Read, Lengths
  <2>4. ASSUME hpc = "walk", NEW j \in 1 .. at PROVE bigbuf[j] \notin Probes!Interfaces
    <3>1. bigbuf[at] \notin Probes!Interfaces BY <1>7, <2>4 DEF Probes!Skip, Probes!Wanted
    <3> QED BY <1>1, <2>1, <2>4, <3>1 DEF Walked
  <2>5. hpc = "endpoint" => \E i \in 1 .. at' - 1 : Chosen(i, bigbuf', config', missing', devclass')
    BY <1>1, <2>1, <2>2 DEF Walked
  <2>6. hpc = "walk" => \A j \in 1 .. at' - 1 : bigbuf'[j] \notin Probes!Interfaces
    BY <2>1, <2>2, <2>4
  <2>7. at' \in Nat \ {0} BY <2>1, <2>2
  <2>8. Walked' BY <2>1, <2>2, <2>3, <2>5, <2>6, <2>7 DEF Walked
  <2> QED BY <1>1, <2>1, <2>2, <2>3, <2>8 DEF ProbeInv, Obeyed
<1>8. CASE Probes!FirstInterface
  <2>1. hpc = "walk" /\ at <= total_length /\ Read /\ at \in Nat \ {0}
        /\ bigbuf[at] \in Probes!Interfaces
        /\ UNCHANGED <<config, bigbuf, wTotalLength, epinfo, configured>>
    BY <1>1, <1>8 DEF Probes!FirstInterface, Walked
  <2>2. CASE Probes!Matches(bigbuf[at])
    <3>1. hpc' = "endpoint" /\ devclass' = bigbuf[at] /\ UNCHANGED <<total_length, missing>>
          /\ at' = at + 1
      BY <1>8, <2>1, <2>2
      DEF Probes!FirstInterface, Probes!Matches, Probes!SkipFrom, Probes!Interfaces
    <3>2. \A j \in 1 .. at - 1 : bigbuf[j] \notin Probes!Interfaces BY <1>1, <2>1 DEF Walked
    <3>3. at \in 1 .. total_length BY <1>1, <2>1 DEF Lengths
    <3>4. Chosen(at, bigbuf, config, missing, bigbuf[at])
      BY <1>1, <2>1, <3>2, <3>3, FirstIsOwn
    <3>5. Chosen(at, bigbuf', config', missing', devclass') BY <2>1, <3>1, <3>4
    <3>6. Read' /\ Lengths' BY <1>1, <2>1, <3>1 DEF Read, Lengths
    <3>7. at' \in Nat \ {0} /\ at \in 1 .. at' - 1 BY <2>1, <3>1
    <3>8. Walked' BY <3>1, <3>5, <3>6, <3>7 DEF Walked
    <3> QED BY <1>1, <2>1, <3>1, <3>6, <3>8 DEF ProbeInv, Obeyed
  <2>3. CASE ~Probes!Matches(bigbuf[at])
    BY <1>1, <1>8, <2>3, FailedKeeps DEF Probes!FirstInterface
  <2> QED BY <2>2, <2>3
<1>9. CASE Probes!Endpoint
  <2>1. hpc = "endpoint" /\ at <= total_length /\ Read /\ at \in Nat \ {0} /\ bigbuf[at] = "endpoint"
        /\ UNCHANGED <<config, bigbuf, wTotalLength, total_length, missing, configured, devclass>>
        /\ epinfo' = at /\ hpc' = "setconf"
    BY <1>1, <1>9 DEF Probes!Endpoint, Walked
  <2>2. at >= missing \/ config[at] = "endpoint" BY <1>1, <2>1 DEF Read, Lengths
  <2>3. \E i \in 1 .. at - 1 : Chosen(i, bigbuf, config, missing, devclass)
    BY <1>1, <2>1 DEF Walked
  <2>4. Walked' BY <2>1, <2>2, <2>3 DEF Walked
  <2>5. Lengths' BY <1>1, <2>1 DEF Lengths
  <2> QED BY <1>1, <2>1, <2>4, <2>5 DEF ProbeInv, Obeyed
<1>10. CASE Probes!WalkedOff BY <1>1, <1>10, FailedKeeps DEF Probes!WalkedOff
<1>11. CASE Probes!SetConf
  <2>1. UNCHANGED <<config, bigbuf, wTotalLength, total_length, missing, devclass, epinfo>>
        /\ hpc = "setconf" /\ hpc' = "setproto"
    BY <1>11 DEF Probes!SetConf
  <2>2. Walked' /\ Lengths' BY <1>1, <2>1 DEF Walked, Lengths
  <2> QED BY <1>1, <1>11, <2>2 DEF Probes!SetConf, ProbeInv, Obeyed
<1>12. CASE Probes!SetProto
  <2>1. UNCHANGED <<config, bigbuf, wTotalLength, missing, devclass, epinfo>>
        /\ total_length' = 0 /\ hpc = "setproto" /\ hpc' = "running"
    BY <1>12 DEF Probes!SetProto
  <2>2. Walked' /\ Lengths' BY <1>0, <1>1, <2>1 DEF Walked, Lengths
  <2> QED BY <1>1, <1>12, <2>2 DEF Probes!SetProto, ProbeInv, Obeyed
<1>13. CASE UNCHANGED Probes!vars
  BY <1>1, <1>13 DEF Probes!vars, ProbeInv, Lengths, Walked, Obeyed, Read
<1> QED BY <1>2, <1>3, <1>4, <1>5, <1>6, <1>7, <1>8, <1>9, <1>10, <1>11, <1>12, <1>13
        DEF Probes!Next, Probes!Probing, Probes!Walk

LEMMA ProbeInvariant == Probes!Spec => []ProbeInv
BY ProbeStarts, ProbeKeeps, PTL DEF Probes!Spec

(* As far as the device answers what it is asked, a probe compares a byte   *)
(* of its configuration, whatever an earlier device left in bigbuf and      *)
(* wherever its requests failed: nothing behind the part that was asked for *)
(* is walked over.                                                          *)
THEOREM OwnBytesOnly == Probes!Spec => []OwnBytes
<1>1. ProbeInv => OwnBytes
  <2> SUFFICES ASSUME ProbeInv, hpc \in {"walk", "endpoint"}, at <= total_length
               PROVE  at >= missing \/ bigbuf[at] = config[at]
    BY DEF OwnBytes, Probes!OwnBytes
  <2>1. Read /\ at \in Nat \ {0} /\ total_length \in Nat BY DEF ProbeInv, Walked, Lengths
  <2> QED BY <2>1 DEF Read
<1> QED BY <1>1, ProbeInvariant, PTL

(* A device that runs has the class of the first interface in the buffer,   *)
(* an endpoint behind that interface, and has been given its configuration  *)
(* and its protocol.  Both are the device's own, its first interface and an *)
(* endpoint of it, but for what it was asked for and has not sent.          *)
THEOREM RunsInItsClass == Probes!Spec => []RunsAsItIs
<1>1. ProbeInv => RunsAsItIs
  <2> SUFFICES ASSUME ProbeInv, hpc = "running"
               PROVE  /\ \E i \in Probes!FirstOf(bigbuf) :
                           /\ i < epinfo /\ devclass = bigbuf[i]
                           /\ i >= missing \/ (i \in Probes!FirstOf(config) /\ devclass = config[i])
                      /\ bigbuf[epinfo] = "endpoint"
                      /\ epinfo >= missing \/ config[epinfo] = "endpoint"
                      /\ configured = {"configuration", "boot protocol"}
    BY DEF RunsAsItIs, Probes!RunsAsItIs
  <2>1. configured = {"configuration", "boot protocol"} BY DEF ProbeInv, Obeyed
  <2>2. /\ epinfo \in Nat /\ bigbuf[epinfo] = "endpoint"
        /\ epinfo >= missing \/ config[epinfo] = "endpoint"
    BY DEF ProbeInv, Walked
  <2>3. PICK i \in 1 .. epinfo - 1 : Chosen(i, bigbuf, config, missing, devclass)
    BY DEF ProbeInv, Walked
  <2>4. i < epinfo BY <2>2, <2>3
  <2> QED BY <2>1, <2>2, <2>3, <2>4 DEF Chosen
<1> QED BY <1>1, ProbeInvariant, PTL

(* The probes end: each step that changes anything takes one off what is    *)
(* left, which is bounded for buffers and configurations of any length; the *)
(* walk that stays at a descriptor of length 0 changes nothing.  The probe  *)
(* of the mice still has that of the keyboards before it.                   *)
StepsOfProbe ==
  CASE hpc = "size"                  -> BufSize + 6
    [] hpc = "whole"                 -> BufSize + 5
    [] hpc \in {"walk", "endpoint"}  -> BufSize + 4 - at
    [] hpc = "setconf"               -> 2
    [] hpc = "setproto"              -> 1
    [] OTHER                         -> 0
ProbeStepsLeft ==
  StepsOfProbe + (IF probe = "HID_M" /\ hpc \notin {"off", "running", "error"} THEN BufSize + 7 ELSE 0)

ProbeProgress ==
  [][Probes!Probing => ProbeStepsLeft' \in Nat /\ ProbeStepsLeft' < ProbeStepsLeft]_(Probes!vars)

(* The walk stops right behind the last descriptor it looks at.             *)
ProbeBounds ==
  /\ hpc \in {"off", "size", "whole", "walk", "endpoint", "setconf", "setproto", "running", "error"}
  /\ probe \in {"HID_M", "HID_K"}
  /\ hpc \in {"walk", "endpoint"} => at \in 1 .. total_length + 1

LEMMA BoundsKeep ==
  ASSUME ProbeInv, ProbeBounds, [Probes!Next]_(Probes!vars)
  PROVE  ProbeBounds'
<1> USE DEF ProbeBounds
<1>0. total_length \in Nat BY DEF ProbeInv, Lengths
<1>1. CASE Probes!Enumerate BY <1>1 DEF Probes!Enumerate
<1>2. CASE Probes!Unplug BY <1>2 DEF Probes!Unplug
<1>3. CASE Probes!TransferFails \/ Probes!WalkedOff
  BY <1>3 DEF Probes!TransferFails, Probes!WalkedOff, Probes!NextProbe
<1>4. CASE Probes!GetSize \/ Probes!Endpoint \/ Probes!SetConf \/ Probes!SetProto
  BY <1>4 DEF Probes!GetSize, Probes!Endpoint, Probes!SetConf, Probes!SetProto
<1>5. CASE Probes!GetWhole
  <2>1. hpc' = "walk" /\ at' = 1 /\ UNCHANGED <<total_length, probe>>
    BY <1>5 DEF Probes!GetWhole
  <2> QED BY <1>0, <2>1
<1>6. CASE Probes!Skip
  <2>1. hpc \in {"walk", "endpoint"} /\ at <= total_length
        /\ UNCHANGED <<hpc, total_length, probe>> /\ at' \in {at, at + 1}
    BY <1>6 DEF Probes!Skip, Probes!SkipFrom
  <2> QED BY <1>0, <2>1
<1>7. CASE Probes!FirstInterface
  <2>1. hpc = "walk" /\ at <= total_length BY <1>7 DEF Probes!FirstInterface
  <2>2. CASE Probes!Matches(bigbuf[at])
    <3>1. hpc' = "endpoint" /\ UNCHANGED <<total_length, probe>> /\ at' \in {at, at + 1}
      BY <1>7, <2>2 DEF Probes!FirstInterface, Probes!SkipFrom
    <3> QED BY <1>0, <2>1, <3>1
  <2>3. CASE ~Probes!Matches(bigbuf[at])
    BY <1>7, <2>1, <2>3 DEF Probes!FirstInterface, Probes!NextProbe
  <2> QED BY <2>2, <2>3
<1>8. CASE UNCHANGED Probes!vars BY <1>8 DEF Probes!vars
<1> QED BY <1>1, <1>2, <1>3, <1>4, <1>5, <1>6, <1>7, <1>8
        DEF Probes!Next, Probes!Probing, Probes!Walk

(* The next probe has less to do than the one that gives up.                *)
LEMMA NextHasLess ==
  ASSUME Probes!NextProbe, BufSize \in Nat, StepsOfProbe \in Nat \ {0},
         hpc \notin {"off", "running", "error"}, probe \in {"HID_M", "HID_K"}
  PROVE  ProbeStepsLeft' \in Nat /\ ProbeStepsLeft' < ProbeStepsLeft
<1>1. CASE probe = "HID_M"
  <2>1. ProbeStepsLeft = StepsOfProbe + (BufSize + 7) BY <1>1 DEF ProbeStepsLeft
  <2>2. ProbeStepsLeft' = BufSize + 6
    BY <1>1 DEF Probes!NextProbe, ProbeStepsLeft, StepsOfProbe
  <2> QED BY <2>1, <2>2
<1>2. CASE probe = "HID_K"
  <2>1. ProbeStepsLeft = StepsOfProbe BY <1>2 DEF ProbeStepsLeft
  <2>2. ProbeStepsLeft' = 0
    BY <1>2 DEF Probes!NextProbe, ProbeStepsLeft, StepsOfProbe
  <2> QED BY <2>1, <2>2
<1> QED BY <1>1, <1>2

LEMMA ProbeStepCounts ==
  ASSUME ProbeInv, ProbeBounds, Probes!Probing, ~UNCHANGED Probes!vars
  PROVE  ProbeStepsLeft' \in Nat /\ ProbeStepsLeft' < ProbeStepsLeft
<1>1. BufSize \in Nat BY DriverAssumption DEF Probes!HidProbeAssumption
<1>2. total_length \in Nat /\ total_length <= BufSize
      /\ (hpc \in {"walk", "endpoint"} => at \in 1 .. total_length + 1)
  BY <1>1 DEF ProbeInv, Lengths, ProbeBounds
<1>3. hpc \notin {"off", "running", "error"} => StepsOfProbe \in Nat \ {0}
  <2>1. hpc \in {"walk", "endpoint"} => BufSize + 4 - at \in Nat \ {0} BY <1>1, <1>2
  <2> QED BY <1>1, <2>1 DEF StepsOfProbe, ProbeBounds
(* The walk stands still at a descriptor of length 0, and only there. *)
<1>4. ASSUME Probes!Skip PROVE at' = at + 1
  <2>1. UNCHANGED <<hpc, probe, config, bigbuf, wTotalLength, total_length, devclass, epinfo,
                    configured, missing>>
        /\ (at' = at \/ at' = at + 1)
    BY <1>4 DEF Probes!Skip, Probes!SkipFrom
  <2>2. at' = at => UNCHANGED Probes!vars BY <2>1 DEF Probes!vars
  <2> QED BY <2>1, <2>2
(* A step within a probe is counted off by that probe. *)
<1>5. ASSUME hpc \notin {"off", "running", "error"}, UNCHANGED probe,
             StepsOfProbe' \in Nat, StepsOfProbe' < StepsOfProbe
      PROVE  ProbeStepsLeft' \in Nat /\ ProbeStepsLeft' < ProbeStepsLeft
  <2> DEFINE x == IF probe = "HID_M" THEN BufSize + 7 ELSE 0
             y == IF probe = "HID_M" /\ hpc' \notin {"off", "running", "error"} THEN BufSize + 7 ELSE 0
  <2>1. x \in Nat /\ y \in Nat /\ y <= x BY <1>1
  <2>2. ProbeStepsLeft = StepsOfProbe + x BY <1>5 DEF ProbeStepsLeft
  <2>3. ProbeStepsLeft' = StepsOfProbe' + y BY <1>5 DEF ProbeStepsLeft
  <2> DEFINE r == StepsOfProbe
             q == StepsOfProbe'
  <2>4. r \in Nat /\ q \in Nat /\ q < r BY <1>3, <1>5
  <2>5. ProbeStepsLeft = r + x /\ ProbeStepsLeft' = q + y BY <2>2, <2>3
  <2> HIDE DEF x, y, r, q
  <2>6. q + y \in Nat /\ q + y < r + x BY <2>1, <2>4
  <2> QED BY <2>5, <2>6
<1>6. CASE Probes!TransferFails \/ Probes!WalkedOff
  <2>1. Probes!NextProbe /\ hpc \notin {"off", "running", "error"}
    BY <1>6 DEF Probes!TransferFails, Probes!WalkedOff
  <2> QED BY <1>1, <1>3, <2>1, NextHasLess DEF ProbeBounds
<1>7. CASE Probes!GetSize
  <2>1. hpc = "size" /\ hpc' = "whole" /\ UNCHANGED probe BY <1>7 DEF Probes!GetSize
  <2>2. StepsOfProbe = BufSize + 6 /\ StepsOfProbe' = BufSize + 5 BY <2>1 DEF StepsOfProbe
  <2> QED BY <1>1, <1>5, <2>1, <2>2
<1>8. CASE Probes!GetWhole
  <2>1. hpc = "whole" /\ hpc' = "walk" /\ UNCHANGED probe /\ at' = 1 BY <1>8 DEF Probes!GetWhole
  <2>2. StepsOfProbe = BufSize + 5 /\ StepsOfProbe' = BufSize + 3 BY <1>1, <2>1 DEF StepsOfProbe
  <2> QED BY <1>1, <1>5, <2>1, <2>2
<1>9. CASE Probes!Skip
  <2>1. hpc \in {"walk", "endpoint"} /\ at <= total_length /\ UNCHANGED <<hpc, probe>>
    BY <1>9 DEF Probes!Skip
  <2>2. at' = at + 1 BY <1>4, <1>9
  <2>3. StepsOfProbe = BufSize + 4 - at /\ StepsOfProbe' = BufSize + 4 - at'
    BY <2>1 DEF StepsOfProbe
  <2>4. BufSize + 4 - at' \in Nat /\ BufSize + 4 - at' < BufSize + 4 - at BY <1>1, <1>2, <2>1, <2>2
  <2> QED BY <1>5, <2>1, <2>3, <2>4
<1>10. CASE Probes!FirstInterface
  <2>1. hpc = "walk" /\ at <= total_length BY <1>10 DEF Probes!FirstInterface
  <2>2. CASE Probes!Matches(bigbuf[at])
    <3>1. hpc' = "endpoint" /\ UNCHANGED probe /\ at' = at + 1
      BY <1>10, <2>1, <2>2
      DEF Probes!FirstInterface, Probes!Matches, Probes!SkipFrom, Probes!Interfaces
    <3>2. StepsOfProbe = BufSize + 4 - at /\ StepsOfProbe' = BufSize + 4 - at'
      BY <2>1, <3>1 DEF StepsOfProbe
    <3>3. BufSize + 4 - at' \in Nat /\ BufSize + 4 - at' < BufSize + 4 - at BY <1>1, <1>2, <2>1, <3>1
    <3> QED BY <1>5, <2>1, <3>1, <3>2, <3>3
  <2>3. CASE ~Probes!Matches(bigbuf[at])
    <3>1. Probes!NextProbe BY <1>10, <2>3 DEF Probes!FirstInterface
    <3> QED BY <1>1, <1>3, <2>1, <3>1, NextHasLess DEF ProbeBounds
  <2> QED BY <2>2, <2>3
<1>11. CASE Probes!Endpoint
  <2>1. hpc = "endpoint" /\ hpc' = "setconf" /\ UNCHANGED probe /\ at <= total_length
    BY <1>11 DEF Probes!Endpoint
  <2>2. StepsOfProbe = BufSize + 4 - at /\ StepsOfProbe' = 2 BY <2>1 DEF StepsOfProbe
  <2>3. 2 < BufSize + 4 - at BY <1>1, <1>2, <2>1
  <2> QED BY <1>5, <2>1, <2>2, <2>3
<1>12. CASE Probes!SetConf
  <2>1. hpc = "setconf" /\ hpc' = "setproto" /\ UNCHANGED probe BY <1>12 DEF Probes!SetConf
  <2>2. StepsOfProbe = 2 /\ StepsOfProbe' = 1 BY <2>1 DEF StepsOfProbe
  <2> QED BY <1>5, <2>1, <2>2
<1>13. CASE Probes!SetProto
  <2>1. hpc = "setproto" /\ hpc' = "running" /\ UNCHANGED probe BY <1>13 DEF Probes!SetProto
  <2>2. StepsOfProbe = 1 /\ StepsOfProbe' = 0 BY <2>1 DEF StepsOfProbe
  <2> QED BY <1>5, <2>1, <2>2
<1> QED BY <1>6, <1>7, <1>8, <1>9, <1>10, <1>11, <1>12, <1>13 DEF Probes!Probing, Probes!Walk

(* What ProbesEnd needs for its end: no device keeps the probes walking,    *)
(* whatever fails and however little it answers, but for one that leaves    *)
(* them at a descriptor of length 0.                                        *)
THEOREM ProbesComeCloser == Probes!Spec => ProbeProgress
<1>1. Probes!Init => ProbeBounds BY DEF Probes!Init, ProbeBounds
<1>2. ProbeInv /\ ProbeBounds /\ [Probes!Next]_(Probes!vars) => ProbeBounds' BY BoundsKeep
<1>3. ProbeInv /\ ProbeBounds /\ [Probes!Next]_(Probes!vars) =>
        [Probes!Probing => ProbeStepsLeft' \in Nat /\ ProbeStepsLeft' < ProbeStepsLeft]_(Probes!vars)
  BY ProbeStepCounts
<1> QED BY <1>1, <1>2, <1>3, ProbeInvariant, PTL DEF Probes!Spec, ProbeProgress

-----------------------------------------------------------------------------
(* The accesses to the chip.                                                *)
(* Where the last byte that was sent is, while its credit is out; chip      *)
(* counts the bytes that have been through the shift register.              *)
OneUnderWay ==
  \/ /\ credits = 1 /\ txdata = Spi!Empty /\ shift = Spi!Empty /\ rxdata = Spi!Empty
     /\ chip = sent
  \/ /\ credits = 0 /\ sent > 0
     /\ \/ txdata = sent /\ shift = Spi!Empty /\ rxdata = Spi!Empty /\ chip = sent - 1
        \/ txdata = Spi!Empty /\ shift = sent /\ rxdata = Spi!Empty /\ chip = sent - 1
        \/ txdata = Spi!Empty /\ shift = Spi!Empty /\ rxdata = sent /\ chip = sent

(* What has been sent and received adds up to the access; received is one   *)
(* behind while a byte is under way.                                        *)
Accounts ==
  /\ asked.writes \in Nat /\ asked.reads \in Nat
  /\ toWrite \in Nat /\ write_zeros \in Nat /\ read_ignore \in Nat /\ toRead \in Nat
  /\ sent \in Nat /\ sent + toWrite + write_zeros = asked.writes + asked.reads
  /\ credits + sent + read_ignore + toRead = asked.writes + asked.reads + 1

Answers ==
  /\ got \in Seq(Int) /\ Len(got) + toRead = asked.reads
  /\ read_ignore > 0 => Len(got) = 0
  /\ \A i \in 1 .. Len(got) : got[i] = asked.writes + i

SpiInv ==
  /\ spc \in {"idle", "select"} => txdata = Spi!Empty /\ shift = Spi!Empty
  /\ spc = "select" =>
       /\ asked.writes \in Nat /\ asked.reads \in Nat /\ asked.writes + asked.reads > 0
       /\ toWrite = asked.writes /\ write_zeros = asked.reads /\ credits = 1
       /\ read_ignore = asked.writes /\ toRead = asked.reads /\ got = <<>> /\ sent = 0
  /\ spc \in {"loop", "send", "take", "drain"} => OneUnderWay /\ Accounts /\ Answers /\ SSO = TRUE
  /\ spc \in {"loop", "send", "take"} => read_ignore + toRead > 0
  /\ spc \in {"send", "take"} => (rrdy => rxdata # Spi!Empty)
  /\ spc = "drain" => credits = 1 /\ read_ignore = 0 /\ toRead = 0
  /\ spc \in {"idle", "select", "loop", "send", "take", "drain"}

LEMMA SpiStarts == Spi!Init => SpiInv
BY DEF Spi!Init, SpiInv

LEMMA SpiAccess == ASSUME SpiInv, Spi!Access PROVE SpiInv'
<1>1. \E w \in Nat, r \in Nat : w + r > 0 /\ Spi!Command(w, r)
  <2>1. \A n \in Sizes : n \in Nat /\ n + 1 \in Nat /\ n + 1 + 0 > 0 /\ 1 + n > 0
    BY DriverAssumption DEF Spi!SpiAssumption
  <2>2. 2 + 0 > 0 /\ 1 + 1 > 0 OBVIOUS
  <2> QED
    BY <2>1, <2>2 DEF Spi!Access, Spi!MAXreg_wr, Spi!MAXreg_rd, Spi!MAXbytes_wr, Spi!MAXbytes_rd
<1>2. PICK w \in Nat, r \in Nat : w + r > 0 /\ Spi!Command(w, r) BY <1>1
<1> QED BY <1>2 DEF Spi!Command, Spi!master, SpiInv

LEMMA SpiSelect == ASSUME SpiInv, Spi!Select PROVE SpiInv'
<1>1. spc' = "loop" /\ SSO' = TRUE /\ chip' = 0 /\ rxdata' = Spi!Empty
      /\ UNCHANGED <<toWrite, write_zeros, read_ignore, credits, toRead, got, asked, sent, txdata, shift>>
  BY DEF Spi!Select, Spi!Forced, Spi!Discard, Spi!command
<1>2. spc = "select" BY DEF Spi!Select
<1>3. OneUnderWay' BY <1>1, <1>2 DEF SpiInv, OneUnderWay
<1>4. Accounts' BY <1>1, <1>2 DEF SpiInv, Accounts
<1>5. Answers' BY <1>1, <1>2 DEF SpiInv, Answers
<1>6. read_ignore' + toRead' > 0 BY <1>1, <1>2 DEF SpiInv
<1> QED BY <1>1, <1>3, <1>4, <1>5, <1>6 DEF SpiInv

LEMMA SpiReads == ASSUME SpiInv, Spi!ReadStatus PROVE SpiInv'
<1>1. UNCHANGED <<toWrite, write_zeros, read_ignore, credits, toRead, got, asked, sent, txdata, shift,
                  rxdata, SSO, chip>>
      /\ spc = "loop" /\ spc' = "send" /\ rrdy' = (rxdata # Spi!Empty)
  BY DEF Spi!ReadStatus, Spi!command, Spi!master, Spi!RRDY
<1> QED BY <1>1 DEF SpiInv, OneUnderWay, Accounts, Answers

LEMMA SpiSends == ASSUME SpiInv, Spi!Send PROVE SpiInv'
<1>1. UNCHANGED <<read_ignore, toRead, got, asked, trdy, rrdy, shift, rxdata, SSO, chip>>
      /\ spc = "send" /\ spc' = "take"
  BY DEF Spi!Send, Spi!status
<1>2. OneUnderWay /\ Accounts /\ Answers /\ SSO = TRUE /\ read_ignore + toRead > 0
      /\ (rrdy => rxdata # Spi!Empty)
  BY <1>1 DEF SpiInv
<1>3. CASE ~(trdy /\ credits > 0)
  BY <1>1, <1>2, <1>3 DEF Spi!Send, SpiInv, OneUnderWay, Accounts, Answers
<1>4. CASE trdy /\ credits > 0
  <2>1. credits = 1 /\ txdata = Spi!Empty /\ shift = Spi!Empty /\ rxdata = Spi!Empty /\ chip = sent
    BY <1>2, <1>4 DEF OneUnderWay
  <2>2. toWrite > 0 \/ write_zeros > 0 BY <1>2, <2>1 DEF Accounts
  <2>3. txdata' = sent + 1 /\ sent' = sent + 1 /\ credits' = 0
        /\ toWrite' = (IF toWrite > 0 THEN toWrite - 1 ELSE 0)
        /\ write_zeros' = IF toWrite > 0 THEN write_zeros ELSE write_zeros - 1
    BY <1>4, <2>1, <2>2 DEF Spi!Send, Spi!Spends
  <2>4. OneUnderWay' BY <1>1, <1>2, <2>1, <2>3 DEF OneUnderWay, Accounts
  <2>5. Accounts' BY <1>1, <1>2, <2>1, <2>2, <2>3 DEF Accounts
  <2>6. Answers' BY <1>1, <1>2 DEF Answers
  <2> QED BY <1>1, <1>2, <2>4, <2>5, <2>6 DEF SpiInv
<1> QED BY <1>3, <1>4

LEMMA SpiTakes == ASSUME SpiInv, Spi!Take PROVE SpiInv'
<1>1. UNCHANGED <<toWrite, write_zeros, asked, sent, trdy, rrdy, txdata, shift, SSO, chip>> /\ spc = "take"
  BY DEF Spi!Take, Spi!status
<1>2. OneUnderWay /\ Accounts /\ Answers /\ SSO = TRUE /\ read_ignore + toRead > 0
      /\ (rrdy => rxdata # Spi!Empty)
  BY <1>1 DEF SpiInv
<1>3. CASE ~rrdy
  BY <1>1, <1>2, <1>3 DEF Spi!Take, SpiInv, OneUnderWay, Accounts, Answers
<1>4. CASE rrdy
  <2>1. credits = 0 /\ rxdata = sent /\ txdata = Spi!Empty /\ shift = Spi!Empty /\ chip = sent /\ sent > 0
    BY <1>2, <1>4 DEF OneUnderWay
  <2>2. rxdata' = Spi!Empty /\ credits' = 1
        /\ spc' = IF read_ignore' = 0 /\ toRead' = 0 THEN "drain" ELSE "loop"
    BY <1>4, <2>1 DEF Spi!Take
  <2>3. OneUnderWay' BY <1>1, <2>1, <2>2 DEF OneUnderWay
  <2>4. CASE read_ignore = 0
    <3>1. got' = Append(got, sent) /\ toRead' = toRead - 1 /\ read_ignore' = read_ignore
      BY <1>4, <2>1, <2>4 DEF Spi!Take, Spi!Stores
    <3>2. Accounts' BY <1>1, <1>2, <2>1, <2>2, <2>4, <3>1 DEF Accounts
    <3>3. sent = asked.writes + Len(got) + 1 /\ sent \in Int
      <4> DEFINE n == Len(got)
      <4>1. n \in Nat /\ n + toRead = asked.reads BY <1>2 DEF Answers
      <4> HIDE DEF n
      <4>2. sent = asked.writes + n + 1 /\ sent \in Int BY <1>2, <2>1, <2>4, <4>1 DEF Accounts
      <4> QED BY <4>2 DEF n
    <3>4. got' \in Seq(Int) /\ Len(got') = Len(got) + 1 /\ got'[Len(got) + 1] = sent
          /\ \A i \in 1 .. Len(got) : got'[i] = got[i]
      BY <1>2, <3>1, <3>3 DEF Answers
    <3>5. Len(got') + toRead' = asked'.reads
      BY <1>1, <1>2, <3>1, <3>4 DEF Answers, Accounts
    <3>6. ASSUME NEW i \in 1 .. Len(got') PROVE got'[i] = asked'.writes + i
      <4>1. CASE i \in 1 .. Len(got) BY <1>1, <1>2, <3>4, <4>1 DEF Answers
      <4>2. CASE i = Len(got) + 1
        <5> DEFINE n == Len(got)
        <5>1. asked' = asked /\ asked.writes \in Nat BY <1>1, <1>2 DEF Accounts
        <5>2. n \in Nat BY <1>2 DEF Answers
        <5>3. got'[i] = sent /\ i = n + 1 /\ sent = asked.writes + n + 1 BY <3>3, <3>4, <4>2
        <5> HIDE DEF n
        <5>4. \A a \in Nat, m \in Nat : a + m + 1 = a + (m + 1) OBVIOUS
        <5>5. asked.writes + n + 1 = asked.writes + (n + 1) BY <5>1, <5>2, <5>4
        <5>6. got'[i] = asked.writes + i BY <5>3, <5>5, Zenon
        <5> QED BY <5>1, <5>6, Zenon
      <4>3. Len(got) \in Nat BY <1>2 DEF Answers
      <4> QED BY <3>4, <4>1, <4>2, <4>3
    <3>7. ~(read_ignore' > 0) BY <2>4, <3>1
    <3>8. Answers' BY <3>4, <3>5, <3>6, <3>7 DEF Answers
    <3> QED BY <1>1, <1>2, <2>2, <2>3, <2>4, <3>1, <3>2, <3>8 DEF SpiInv, Accounts
  <2>5. CASE read_ignore # 0
    <3>1. read_ignore' = read_ignore - 1 /\ UNCHANGED <<got, toRead>>
      BY <1>4, <2>5 DEF Spi!Take, Spi!Stores
    <3>2. Accounts' BY <1>1, <1>2, <2>1, <2>2, <2>5, <3>1 DEF Accounts
    <3>3. Answers' BY <1>1, <1>2, <2>5, <3>1 DEF Answers, Accounts
    <3> QED BY <1>1, <1>2, <2>2, <2>3, <2>5, <3>1, <3>2, <3>3 DEF SpiInv, Accounts
  <2> QED BY <2>4, <2>5
<1> QED BY <1>3, <1>4

LEMMA SpiMaster == ASSUME SpiInv, Spi!Load \/ Spi!Shift PROVE SpiInv'
<1>1. UNCHANGED <<spc, toWrite, write_zeros, read_ignore, credits, toRead, got, asked, sent, trdy, rrdy, SSO>>
      /\ (txdata # Spi!Empty \/ shift # Spi!Empty)
  BY DEF Spi!Load, Spi!Shift, Spi!command, Spi!status
<1>2. spc \in {"loop", "send", "take", "drain"} BY <1>1 DEF SpiInv
<1>3. OneUnderWay /\ Accounts /\ Answers /\ SSO = TRUE BY <1>2 DEF SpiInv
<1>4. spc # "drain" BY <1>1, <1>3 DEF SpiInv, OneUnderWay
<1>5. OneUnderWay'
  <2>1. CASE Spi!Load BY <1>1, <1>3, <2>1 DEF Spi!Load, OneUnderWay
  <2>2. CASE Spi!Shift BY <1>1, <1>3, <2>2 DEF Spi!Shift, OneUnderWay, Accounts
  <2> QED BY <2>1, <2>2
<1>6. Accounts' /\ Answers' BY <1>1, <1>3 DEF Accounts, Answers
<1>7. rxdata # Spi!Empty => rxdata' # Spi!Empty
  BY <1>1, <1>3 DEF Spi!Load, Spi!Shift, OneUnderWay
<1> QED BY <1>1, <1>2, <1>3, <1>4, <1>5, <1>6, <1>7 DEF SpiInv

LEMMA SpiKeeps == ASSUME SpiInv, [Spi!Next]_(Spi!vars) PROVE SpiInv'
<1>1. CASE Spi!Returned
  BY <1>1 DEF Spi!Returned, Spi!Release, Spi!command, Spi!master, Spi!status, SpiInv, OneUnderWay
<1>2. CASE Spi!PinDown \/ Spi!PinUp \/ Spi!Oscillator \/ UNCHANGED Spi!vars
  <2>1. UNCHANGED <<spc, toWrite, write_zeros, read_ignore, credits, toRead, got, asked, sent, trdy, rrdy, txdata,
                    shift, rxdata, SSO, chip>>
    BY <1>2 DEF Spi!PinDown, Spi!PinUp, Spi!Oscillator, Spi!vars, Spi!command, Spi!status, Spi!master
  <2> QED BY <2>1 DEF SpiInv, OneUnderWay, Accounts, Answers
<1> QED BY <1>1, <1>2, SpiAccess, SpiSelect, SpiReads, SpiSends, SpiTakes, SpiMaster
        DEF Spi!Next, Spi!Program, Spi!Driver

LEMMA SpiInvariant == Spi!Spec => []SpiInv
BY SpiStarts, SpiKeeps, PTL DEF Spi!Spec

(* What an access stores at read_data is the chip's answer to its own       *)
(* positions: none of an earlier access, none twice, none missing, for      *)
(* commands of any length.                                                  *)
THEOREM AnswersItsOwn == Spi!Spec => []OwnAnswer
<1>1. SpiInv => OwnAnswer
  <2> SUFFICES ASSUME SpiInv, spc = "drain" PROVE got = [i \in 1 .. asked.reads |-> asked.writes + i]
    BY DEF OwnAnswer, Spi!OwnAnswer
  <2> DEFINE a == [i \in 1 .. asked.reads |-> asked.writes + i]
  <2>1. Accounts /\ Answers /\ toRead = 0 BY DEF SpiInv
  <2>2. Len(got) = asked.reads /\ got \in Seq(Int) BY <2>1 DEF Accounts, Answers
  <2>3. a \in Seq(Int) /\ Len(a) = asked.reads BY <2>1 DEF Accounts
  <2>4. \A i \in 1 .. Len(got) : got[i] = a[i] BY <2>1, <2>2 DEF Answers
  <2> HIDE DEF a
  <2>5. got = a BY <2>2, <2>3, <2>4, SeqEqual
  <2> QED BY <2>5 DEF a
<1> QED BY <1>1, SpiInvariant, PTL

(* No byte arrives on one that has not been read: the credit allows one     *)
(* byte under way.                                                          *)
THEOREM NeverOverruns == Spi!Spec => []Spi!NoOverrun
<1>1. SpiInv => Spi!NoOverrun BY DEF SpiInv, OneUnderWay, Accounts, Spi!NoOverrun, Spi!Empty
<1> QED BY <1>1, SpiInvariant, PTL

(* The chip is released after it has seen every byte of the access and      *)
(* nothing more.                                                            *)
THEOREM AccessInOnePiece == Spi!Spec => Spi!OnePiece
<1>1. ASSUME SpiInv, [Spi!Next]_(Spi!vars)
      PROVE [spc = "drain" /\ spc' = "idle" => chip = asked.writes + asked.reads]_(Spi!vars)
  <2> SUFFICES ASSUME spc = "drain" PROVE chip = asked.writes + asked.reads
    OBVIOUS
  <2> QED BY <1>1 DEF SpiInv, OneUnderWay, Accounts
<1> QED BY <1>1, SpiInvariant, PTL DEF Spi!Spec, Spi!OnePiece

-----------------------------------------------------------------------------
(* The panel.                                                               *)
(* The bits of a decimal digit.                                             *)
BitOf(q, k) == ((q % 256) \div 2^k) % 2

LEMMA DigitBits ==
  ASSUME NEW q \in 0 .. 9
  PROVE  /\ \A c \in 4 .. 7 : BitOf(q, c) # 1
         /\ \A c \in 0 .. 3 : BitOf(q, c) \in {0, 1}
         /\ BitOf(q, 0) + 2 * BitOf(q, 1) + 4 * BitOf(q, 2) + 8 * BitOf(q, 3) = q
<1>1. 2^0 = 1 /\ 2^1 = 2 /\ 2^2 = 4 /\ 2^3 = 8 /\ 2^4 = 16 /\ 2^5 = 32 /\ 2^6 = 64 /\ 2^7 = 128
  OBVIOUS
<1>2. q % 256 = q OBVIOUS
<1>3. BitOf(q, 0) = q % 2 /\ BitOf(q, 1) = (q \div 2) % 2
      /\ BitOf(q, 2) = (q \div 4) % 2 /\ BitOf(q, 3) = (q \div 8) % 2
  BY <1>1, <1>2 DEF BitOf
<1>4. BitOf(q, 4) = (q \div 16) % 2 /\ BitOf(q, 5) = (q \div 32) % 2
      /\ BitOf(q, 6) = (q \div 64) % 2 /\ BitOf(q, 7) = (q \div 128) % 2
  BY <1>1, <1>2 DEF BitOf
<1>5. (q \div 16) % 2 # 1 /\ (q \div 32) % 2 # 1 /\ (q \div 64) % 2 # 1 /\ (q \div 128) % 2 # 1
  OBVIOUS
<1>6. BitOf(q, 4) # 1 /\ BitOf(q, 5) # 1 /\ BitOf(q, 6) # 1 /\ BitOf(q, 7) # 1 BY <1>4, <1>5
<1>7. \A c \in 4 .. 7 : BitOf(q, c) # 1
  <2>1. \A c \in 4 .. 7 : c = 4 \/ c = 5 \/ c = 6 \/ c = 7 OBVIOUS
  <2> QED BY <1>6, <2>1
<1>8. BitOf(q, 0) \in {0, 1} /\ BitOf(q, 1) \in {0, 1} /\ BitOf(q, 2) \in {0, 1} /\ BitOf(q, 3) \in {0, 1}
  BY <1>3
<1>9. \A c \in 0 .. 3 : BitOf(q, c) \in {0, 1}
  <2>1. \A c \in 0 .. 3 : c = 0 \/ c = 1 \/ c = 2 \/ c = 3 OBVIOUS
  <2> QED BY <1>8, <2>1
<1>10. (q % 2) + 2 * ((q \div 2) % 2) + 4 * ((q \div 4) % 2) + 8 * ((q \div 8) % 2) = q
  OBVIOUS
<1>11. BitOf(q, 0) + 2 * BitOf(q, 1) + 4 * BitOf(q, 2) + 8 * BitOf(q, 3) = q BY <1>3, <1>10
<1> QED BY <1>7, <1>9, <1>11

LEMMA InShifted ==
  ASSUME NEW q \in 0 .. 9, NEW n \in Nat
  PROVE  /\ Panels!Shifted(q, n) \subseteq n .. n + 3
         /\ \A k \in 0 .. 3 : n + k \in Panels!Shifted(q, n) <=> BitOf(q, k) = 1
<1> DEFINE ones == {c \in 0 .. 7 : BitOf(q, c) = 1}
<1>1. Panels!Shifted(q, n) = {b + n : b \in ones} BY DEF Panels!Shifted, BitOf
<1>2. \A c \in 4 .. 7 : BitOf(q, c) # 1 BY DigitBits
<1>3. ones \subseteq 0 .. 3 BY <1>2
<1>4. \A k \in 0 .. 3 : k \in ones <=> BitOf(q, k) = 1 OBVIOUS
<1> HIDE DEF ones
<1>5. Panels!Shifted(q, n) \subseteq n .. n + 3 BY <1>1, <1>3
<1>6. \A k \in 0 .. 3 : n + k \in Panels!Shifted(q, n) <=> k \in ones BY <1>1, <1>3
<1> QED BY <1>4, <1>5, <1>6

(* Four bits that hold a digit's bits show the digit.                       *)
LEMMA DigitBack ==
  ASSUME NEW q \in 0 .. 9, NEW n \in Nat, NEW bits,
         \A k \in 0 .. 3 : n + k \in bits <=> n + k \in Panels!Shifted(q, n)
  PROVE  Panels!Digit(bits, n) = q
<1>1. \A k \in 0 .. 3 : n + k \in bits <=> BitOf(q, k) = 1 BY InShifted
<1>2. \A k \in 0 .. 3 : BitOf(q, k) \in {0, 1} BY DigitBits
<1>3. (n + 0 \in bits <=> BitOf(q, 0) = 1) /\ (n + 1 \in bits <=> BitOf(q, 1) = 1)
      /\ (n + 2 \in bits <=> BitOf(q, 2) = 1) /\ (n + 3 \in bits <=> BitOf(q, 3) = 1)
  BY <1>1
<1>4. BitOf(q, 0) + 2 * BitOf(q, 1) + 4 * BitOf(q, 2) + 8 * BitOf(q, 3) = q BY DigitBits
<1> QED BY <1>2, <1>3, <1>4 DEF Panels!Digit

(* The parts of a number.                                                   *)
Hundreds(v) == Panels!Quotient(Panels!Magnitude(v), 100)
Rest(v) == Panels!Remainder(Panels!Magnitude(v), 100)
Tens(v) == Panels!Quotient(Rest(v), 10)
OnesOf(v) == Panels!Remainder(Rest(v), 10)

LEMMA ByTen ==
  ASSUME NEW r \in 0 .. 99
  PROVE  r \div 10 \in 0 .. 9 /\ r - 10 * (r \div 10) \in 0 .. 9
OBVIOUS

LEMMA Parts ==
  ASSUME NEW v \in -127 .. 127
  PROVE  /\ Hundreds(v) \in {0, 1} /\ Tens(v) \in 0 .. 9 /\ OnesOf(v) \in 0 .. 9
         /\ v = (IF v < 0 THEN -1 ELSE 1) * (100 * Hundreds(v) + 10 * Tens(v) + OnesOf(v))
<1> DEFINE m == Panels!Magnitude(v)
           r == Rest(v)
<1>1. m \in 0 .. 127 /\ v = (IF v < 0 THEN -1 ELSE 1) * m
  BY DEF Panels!Magnitude, Panels!SignedChar
<1> HIDE DEF m
<1>2. Hundreds(v) = m \div 100 BY <1>1 DEF Hundreds, Panels!Quotient, m
<1>3. r = m - 100 * (m \div 100) BY <1>1, <1>2 DEF Rest, Hundreds, Panels!Remainder, m
<1>4. r \in 0 .. 99 /\ m \div 100 \in {0, 1} /\ m = 100 * (m \div 100) + r BY <1>1, <1>3
<1>5. Tens(v) = r \div 10 BY <1>4 DEF Tens, Panels!Quotient
<1>6. OnesOf(v) = r - 10 * (r \div 10) BY <1>4, <1>5 DEF OnesOf, Tens, Panels!Remainder
<1> HIDE DEF r
<1>7. r \div 10 \in 0 .. 9 /\ r - 10 * (r \div 10) \in 0 .. 9 BY <1>4, ByTen
<1>8. m = 100 * Hundreds(v) + 10 * Tens(v) + OnesOf(v)
  <2> DEFINE h == m \div 100
             d == r \div 10
  <2>1. h \in {0, 1} /\ d \in 0 .. 9 /\ m = 100 * h + r BY <1>4, <1>7
  <2>2. Hundreds(v) = h /\ Tens(v) = d /\ OnesOf(v) = r - 10 * d BY <1>2, <1>5, <1>6
  <2> HIDE DEF h, d
  <2> QED BY <1>4, <2>1, <2>2
<1> QED BY <1>1, <1>2, <1>4, <1>5, <1>6, <1>7, <1>8

(* The two digits that are shown of a number.                               *)
Digits(bits, n) == <<Panels!Digit(bits, Panels!Ones(n) + 4), Panels!Digit(bits, Panels!Ones(n))>>

LEMMA DigitsFit ==
  ASSUME NEW v \in -127 .. 127, NEW n \in {0, 1}
  PROVE  /\ Panels!DigitsOf(n, v) \subseteq Panels!Ones(n) .. Panels!Ones(n) + 7
         /\ \A bits : (\A k \in 0 .. 7 : Panels!Ones(n) + k \in bits
                                           <=> Panels!Ones(n) + k \in Panels!DigitsOf(n, v))
                        => Digits(bits, n) = <<Tens(v), OnesOf(v)>>
<1> DEFINE p == Panels!Ones(n)
           high == Panels!Shifted(Tens(v), p + 4)
           low == Panels!Shifted(OnesOf(v), p)
<1>1. p \in Nat BY DEF Panels!Ones
<1>2. Panels!DigitsOf(n, v) = high \cup low
  BY DEF Panels!DigitsOf, Tens, OnesOf, Rest
<1>3. high \subseteq p + 4 .. p + 7
  <2>1. p + 4 \in Nat /\ (p + 4) + 3 = p + 7 BY <1>1
  <2> HIDE DEF p
  <2> QED BY <2>1, Parts, InShifted
<1>4. low \subseteq p .. p + 3 BY <1>1, Parts, InShifted
<1> HIDE DEF p, high, low
<1>5. Panels!DigitsOf(n, v) \subseteq p .. p + 7 BY <1>1, <1>2, <1>3, <1>4
<1>6. ASSUME NEW bits,
             \A k \in 0 .. 7 : p + k \in bits <=> p + k \in Panels!DigitsOf(n, v)
      PROVE  Digits(bits, n) = <<Tens(v), OnesOf(v)>>
  <2>1. \A k \in 0 .. 3 : p + k \in bits <=> p + k \in low
    <3> TAKE k \in 0 .. 3
    <3>1. p + k \in bits <=> p + k \in Panels!DigitsOf(n, v) BY <1>6
    <3>2. p + k \notin p + 4 .. p + 7 BY <1>1
    <3> QED BY <1>2, <1>3, <3>1, <3>2
  <2>2. \A k \in 0 .. 3 : (p + 4) + k \in bits <=> (p + 4) + k \in high
    <3> TAKE k \in 0 .. 3
    <3> DEFINE j == k + 4
    <3>0. j \in 0 .. 7 /\ (p + 4) + k = p + j BY <1>1
    <3> HIDE DEF j
    <3>1. p + j \in bits <=> p + j \in Panels!DigitsOf(n, v) BY <1>6, <3>0
    <3>2. (p + 4) + k \notin p .. p + 3 BY <1>1
    <3> QED BY <1>2, <1>4, <3>0, <3>1, <3>2
  <2>3. Panels!Digit(bits, p) = OnesOf(v) BY <1>1, <2>1, Parts, DigitBack DEF low
  <2>4. Panels!Digit(bits, p + 4) = Tens(v)
    <3>1. p + 4 \in Nat BY <1>1
    <3> QED BY <3>1, <2>2, Parts, DigitBack DEF high
  <2> QED BY <2>3, <2>4 DEF Digits, p
<1> QED BY <1>5, <1>6 DEF p

(* What one report leaves on the panel is its two numbers.                  *)
LEMMA ShowShows ==
  ASSUME NEW v0 \in -127 .. 127, NEW v1 \in -127 .. 127, NEW buttons \in SUBSET (0 .. 2),
         NEW old, Panels!Show(v0, v1, buttons, old)
  PROVE  PanelShows'
<1> DEFINE d0 == Panels!DigitsOf(0, v0)
           d1 == Panels!DigitsOf(1, v1)
<1>1. d0 \subseteq 8 .. 15 /\ d1 \subseteq 0 .. 7 
  <2>1. Panels!Ones(0) .. Panels!Ones(0) + 7 = 8 .. 15
        /\ Panels!Ones(1) .. Panels!Ones(1) + 7 = 0 .. 7
    BY DEF Panels!Ones
  <2> QED BY <2>1, DigitsFit
<1>2. hex' = (0 .. 15) \cap ((((hex \cap (0 .. 7)) \cup d0) \cap (8 .. 15)) \cup d1)
  BY DEF Panels!Show, Panels!Keeps
<1>3. LED' = (LED \ (Panels!NumberLEDs \cup old))
               \cup Panels!Lit(0, v0) \cup Panels!Lit(1, v1) \cup buttons
      /\ shown' = <<v0, v1>>
  BY DEF Panels!Show
<1>4. \A k \in 0 .. 7 : 8 + k \in hex' <=> 8 + k \in d0
  <2> HIDE DEF d0, d1
  <2> TAKE k \in 0 .. 7
  <2>1. 8 + k \in 0 .. 15 /\ 8 + k \in 8 .. 15 /\ 8 + k \notin 0 .. 7 OBVIOUS
  <2> QED BY <1>1, <1>2, <2>1
<1>5. \A k \in 0 .. 7 : 0 + k \in hex' <=> 0 + k \in d1
  <2> HIDE DEF d0, d1
  <2> TAKE k \in 0 .. 7
  <2>1. 0 + k \in 0 .. 15 /\ 0 + k \notin 8 .. 15 /\ 0 + k \in 0 .. 7 OBVIOUS
  <2> QED BY <1>1, <1>2, <2>1
<1>6. Panels!Ones(0) = 8 /\ Panels!Ones(1) = 0 BY DEF Panels!Ones
<1>7. Digits(hex', 0) = <<Tens(v0), OnesOf(v0)>> BY <1>4, <1>6, DigitsFit
<1>8. Digits(hex', 1) = <<Tens(v1), OnesOf(v1)>> BY <1>5, <1>6, DigitsFit
<1>9. /\ 11 \in LED' <=> v0 < 0
      /\ 13 \in LED' <=> Hundreds(v0) # 0
      /\ 10 \in LED' <=> v1 < 0
      /\ 12 \in LED' <=> Hundreds(v1) # 0
  <2>1. 10 \notin buttons /\ 11 \notin buttons /\ 12 \notin buttons /\ 13 \notin buttons OBVIOUS
  <2> QED BY <1>3, <2>1 DEF Panels!NumberLEDs, Panels!Lit, Panels!SignLED, Panels!HundredsLED, Hundreds
<1>10. Panels!Reads(0)' = (IF v0 < 0 THEN -1 ELSE 1) * (100 * Hundreds(v0) + 10 * Tens(v0) + OnesOf(v0))
  <2>1. Panels!Digit(hex', Panels!Ones(0) + 4) = Tens(v0)
        /\ Panels!Digit(hex', Panels!Ones(0)) = OnesOf(v0)
    BY <1>7 DEF Digits
  <2>2. Panels!Reads(0)' = (IF 11 \in LED' THEN -1 ELSE 1)
          * ((IF 13 \in LED' THEN 100 ELSE 0) + 10 * Tens(v0) + OnesOf(v0))
    BY <2>1 DEF Panels!Reads, Panels!SignLED, Panels!HundredsLED
  <2>3. (IF 13 \in LED' THEN 100 ELSE 0) = 100 * Hundreds(v0)
    <3> DEFINE d == Hundreds(v0)
    <3>1. d \in {0, 1} BY Parts
    <3>2. 13 \in LED' <=> d # 0 BY <1>9
    <3> HIDE DEF d
    <3>3. (IF 13 \in LED' THEN 100 ELSE 0) = 100 * d BY <3>1, <3>2
    <3> QED BY <3>3 DEF d
  <2> QED BY <1>9, <2>2, <2>3
<1>11. Panels!Reads(1)' = (IF v1 < 0 THEN -1 ELSE 1) * (100 * Hundreds(v1) + 10 * Tens(v1) + OnesOf(v1))
  <2>1. Panels!Digit(hex', Panels!Ones(1) + 4) = Tens(v1)
        /\ Panels!Digit(hex', Panels!Ones(1)) = OnesOf(v1)
    BY <1>8 DEF Digits
  <2>2. Panels!Reads(1)' = (IF 10 \in LED' THEN -1 ELSE 1)
          * ((IF 12 \in LED' THEN 100 ELSE 0) + 10 * Tens(v1) + OnesOf(v1))
    BY <2>1 DEF Panels!Reads, Panels!SignLED, Panels!HundredsLED
  <2>3. (IF 12 \in LED' THEN 100 ELSE 0) = 100 * Hundreds(v1)
    <3> DEFINE d == Hundreds(v1)
    <3>1. d \in {0, 1} BY Parts
    <3>2. 12 \in LED' <=> d # 0 BY <1>9
    <3> HIDE DEF d
    <3>3. (IF 12 \in LED' THEN 100 ELSE 0) = 100 * d BY <3>1, <3>2
    <3> QED BY <3>3 DEF d
  <2> QED BY <1>9, <2>2, <2>3
<1> QED BY <1>3, <1>10, <1>11, Parts DEF PanelShows, Panels!PanelShows

(* -128 is its own negation: its digits have bits outside of their own four.*)
(* Without it, every number a device reports comes back.                    *)
NoExtreme == 128 \notin Keys /\ 128 \notin Displacements
PanelInv == down \in Panels!Report /\ PanelShows

LEMMA Signed ==
  ASSUME NoExtreme
  PROVE  /\ \A v \in Displacements : Panels!SignedChar(v) \in -127 .. 127
         /\ \A r \in Panels!Report, n \in {1, 2} : Panels!SignedChar(Panels!Byte(r, n)) \in -127 .. 127
<1>1. \A v \in (0 .. 255) \ {128} : Panels!SignedChar(v) \in -127 .. 127
  BY DEF Panels!SignedChar
<1>2. Keys \subseteq (0 .. 255) \ {128} /\ Displacements \subseteq (0 .. 255) \ {128}
  BY DriverAssumption DEF Panels!PanelAssumption, NoExtreme
<1>3. \A r \in Panels!Report, n \in {1, 2} : Panels!Byte(r, n) \in (0 .. 255) \ {128}
  <2> TAKE r \in Panels!Report, n \in {1, 2}
  <2>1. PICK k \in 0 .. 3 : r \in [1 .. k -> Keys] BY DEF Panels!Report
  <2>2. Panels!Byte(r, n) = 0 \/ Panels!Byte(r, n) \in Keys BY <2>1 DEF Panels!Byte
  <2>3. 0 \in (0 .. 255) \ {128} OBVIOUS
  <2> DEFINE b == Panels!Byte(r, n)
             S == (0 .. 255) \ {128}
  <2>4. Keys \subseteq S /\ (b = 0 \/ b \in Keys) /\ 0 \in S BY <1>2, <2>2, <2>3
  <2> HIDE DEF b, S
  <2>5. b \in S BY <2>4
  <2> QED BY <2>5 DEF b, S
<1>4. \A v \in Displacements : Panels!SignedChar(v) \in -127 .. 127 BY <1>1, <1>2
<1>5. ASSUME NEW r \in Panels!Report, NEW n \in {1, 2}
      PROVE  Panels!SignedChar(Panels!Byte(r, n)) \in -127 .. 127
  <2> DEFINE b == Panels!Byte(r, n)
  <2>1. b \in (0 .. 255) \ {128} BY <1>3
  <2> HIDE DEF b
  <2>2. Panels!SignedChar(b) \in -127 .. 127 BY <1>1, <2>1
  <2> QED BY <2>2 DEF b
<1> QED BY <1>4, <1>5

LEMMA NoKeys == <<>> \in Panels!Report
<1>1. <<>> \in [1 .. 0 -> Keys] OBVIOUS
<1>2. 0 \in 0 .. 3 OBVIOUS
<1> QED BY <1>1, <1>2 DEF Panels!Report

LEMMA PanelStarts == Panels!Init => PanelInv
<1> SUFFICES ASSUME Panels!Init PROVE PanelInv OBVIOUS
<1>1. down = <<>> /\ LED = {} /\ hex = {} /\ shown = <<0, 0>> BY DEF Panels!Init
<1>2. down \in Panels!Report BY <1>1, NoKeys
<1>3. \A n : Panels!Digit(hex, n) = 0 BY <1>1 DEF Panels!Digit
<1>4. Panels!Reads(0) = 0 /\ Panels!Reads(1) = 0 BY <1>1, <1>3 DEF Panels!Reads
<1> QED BY <1>1, <1>2, <1>4 DEF PanelInv, PanelShows, Panels!PanelShows

(* LEDs beside those of the numbers change without them.                    *)
LEMMA OtherLEDs ==
  ASSUME PanelShows, hex' = hex, shown' = shown, \A n \in 10 .. 13 : n \in LED' <=> n \in LED
  PROVE  PanelShows'
<1>1. (10 \in LED' <=> 10 \in LED) /\ (11 \in LED' <=> 11 \in LED)
      /\ (12 \in LED' <=> 12 \in LED) /\ (13 \in LED' <=> 13 \in LED)
  OBVIOUS
<1>2. Panels!SignLED(0) = 11 /\ Panels!SignLED(1) = 10
      /\ Panels!HundredsLED(0) = 13 /\ Panels!HundredsLED(1) = 12
  BY DEF Panels!SignLED, Panels!HundredsLED
<1>3. Panels!Reads(0)' = Panels!Reads(0) /\ Panels!Reads(1)' = Panels!Reads(1)
  BY <1>1, <1>2 DEF Panels!Reads
<1> QED BY <1>3 DEF PanelShows, Panels!PanelShows

LEMMA PanelKeeps ==
  ASSUME NoExtreme, PanelInv, [Panels!Next]_(Panels!vars)
  PROVE  PanelInv'
<1>1. CASE Panels!KeyReport
  <2>1. Panels!Show(Panels!SignedChar(Panels!Byte(down, 1)),
                    Panels!SignedChar(Panels!Byte(down, 2)), {}, {})
        /\ down' = down
    BY <1>1 DEF Panels!KeyReport, Panels!Pass
  <2> QED BY <2>1, Signed, ShowShows DEF PanelInv
<1>2. CASE Panels!MouseReport
  <2>1. PICK x \in Displacements, y \in Displacements, button \in Presses :
          Panels!Show(Panels!SignedChar(x), Panels!SignedChar(y), button, 0 .. 2)
    BY <1>2 DEF Panels!MouseReport
  <2>2. down' = down BY <1>2 DEF Panels!MouseReport, Panels!Pass
  <2>3. button \in SUBSET (0 .. 2) BY DriverAssumption DEF Panels!PanelAssumption
  <2> QED BY <2>1, <2>2, <2>3, Signed, ShowShows DEF PanelInv
<1>3. CASE Panels!FirstLook \/ Panels!ErrorState \/ Panels!NotRunning \/ Panels!NoReport
  <2>1. /\ hex' = hex /\ shown' = shown /\ down' = down
        /\ LED' = LED \/ LED' = LED \cup {9} \/ LED' = LED \ {9}
    BY <1>3 DEF Panels!FirstLook, Panels!ErrorState, Panels!NotRunning, Panels!NoReport,
       Panels!Pass, Panels!clearLED
  <2>2. \A n \in 10 .. 13 : n \in LED' <=> n \in LED BY <2>1
  <2> QED BY <2>1, <2>2, OtherLEDs DEF PanelInv
<1>4. CASE Panels!Press \/ Panels!Plug \/ Panels!Unplug \/ Panels!Notice \/ Panels!Enumerate
           \/ UNCHANGED Panels!vars
  <2>1. hex' = hex /\ shown' = shown /\ LED' = LED
    BY <1>4 DEF Panels!Press, Panels!Plug, Panels!Unplug, Panels!Notice,
       Panels!Enumerate, Panels!Outside, Panels!pio, Panels!vars
  <2>2. down' \in Panels!Report
    <3>1. down' = down \/ down' \in Panels!Report \/ down' = <<>>
      BY <1>4 DEF Panels!Press, Panels!Plug, Panels!Unplug, Panels!Notice,
         Panels!Enumerate, Panels!bus, Panels!vars
    <3> QED BY <3>1, NoKeys DEF PanelInv
  <2> QED BY <2>1, <2>2, OtherLEDs DEF PanelInv
<1> QED BY <1>1, <1>2, <1>3, <1>4 DEF Panels!Next, Panels!main

(* The panel always shows both numbers of the last report, whatever is      *)
(* plugged, pressed and moved in whatever order: neither routine spoils the *)
(* other's digits or LEDs in the two registers that they share.             *)
THEOREM PanelAlwaysShows == ASSUME NoExtreme PROVE Panels!Spec => []PanelShows
<1>1. PanelInv => PanelShows BY DEF PanelInv
<1>2. PanelInv /\ [Panels!Next]_(Panels!vars) => PanelInv' BY PanelKeeps
<1> QED BY <1>1, <1>2, PanelStarts, PTL DEF Panels!Spec

(* What main's flags say of its last pass.                                  *)
FlagsKnow ==
  /\ Panels!LED9
  /\ errorflag => before = "error"
  /\ runningdebugflag => before = "running"
  /\ state = "running" => ~errorflag
  /\ state = "error" => ~runningdebugflag

LEMMA FlagsKeep == ASSUME FlagsKnow, [Panels!Next]_(Panels!vars) PROVE FlagsKnow'
<1> USE DEF Panels!LED9
<1>1. CASE Panels!KeyReport
  <2>1. LED' \cap {9} = LED \cap {9}
    BY <1>1 DEF Panels!KeyReport, Panels!Show, Panels!NumberLEDs, Panels!Lit, Panels!SignLED, Panels!HundredsLED
  <2>2. /\ state = "running" /\ runningdebugflag /\ before' = state
        /\ UNCHANGED <<state, runningdebugflag, errorflag>>
    BY <1>1 DEF Panels!KeyReport, Panels!Polls, Panels!Pass, Panels!flags
  <2> QED BY <2>1, <2>2 DEF FlagsKnow
<1>2. CASE Panels!MouseReport
  <2>1. LED' \cap {9} = LED \cap {9}
    <3>1. PICK x \in Displacements, y \in Displacements, button \in Presses :
            Panels!Show(Panels!SignedChar(x), Panels!SignedChar(y), button, 0 .. 2)
      BY <1>2 DEF Panels!MouseReport
    <3>2. 9 \notin button /\ 9 \notin 0 .. 2 BY DriverAssumption DEF Panels!PanelAssumption
    <3> QED BY <3>1, <3>2 DEF Panels!Show, Panels!NumberLEDs, Panels!Lit, Panels!SignLED, Panels!HundredsLED
  <2>2. /\ state = "running" /\ runningdebugflag /\ before' = state
        /\ UNCHANGED <<state, runningdebugflag, errorflag>>
    BY <1>2 DEF Panels!MouseReport, Panels!Polls, Panels!Pass, Panels!flags
  <2> QED BY <2>1, <2>2 DEF FlagsKnow
<1>3. CASE Panels!FirstLook \/ Panels!ErrorState \/ Panels!NotRunning \/ Panels!NoReport
  BY <1>3 DEF FlagsKnow, Panels!FirstLook, Panels!ErrorState, Panels!NotRunning, Panels!NoReport,
     Panels!Pass, Panels!flags, Panels!clearLED
<1>4. CASE Panels!Press \/ Panels!Plug \/ Panels!Unplug \/ Panels!Notice \/ UNCHANGED Panels!vars
  BY <1>4 DEF FlagsKnow, Panels!Press, Panels!Plug, Panels!Unplug, Panels!Notice, Panels!Outside,
     Panels!flags, Panels!pio, Panels!vars
<1>5. CASE Panels!Enumerate
  BY <1>5 DEF FlagsKnow, Panels!Enumerate, Panels!Outside, Panels!flags, Panels!pio
<1> QED BY <1>1, <1>2, <1>3, <1>4, <1>5 DEF Panels!Next, Panels!main

(* LED 9 is lit when the last pass of main found a running device, and only *)
(* then, although two flags decide which passes write it: no error leaves   *)
(* it lit, no restart leaves it dark.                                       *)
THEOREM LED9Follows == Panels!Spec => []Panels!LED9
<1>1. Panels!Init => FlagsKnow BY DEF Panels!Init, FlagsKnow, Panels!LED9
<1>2. FlagsKnow => Panels!LED9 BY DEF FlagsKnow
<1> QED BY <1>1, <1>2, FlagsKeep, PTL DEF Panels!Spec
=============================================================================
