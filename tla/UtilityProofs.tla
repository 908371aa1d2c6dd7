---------------------------- MODULE UtilityProofs ----------------------------
(***************************************************************************)
(* Proofs about what one thread uses at a time, and about two lists that    *)
(* threads share: the array list keeps the pointers it holds and the room   *)
(* it counts, the timer counts what a stopwatch shows, the nodes of MTQueue *)
(* are the sequence of its contents, the rectangles are sets of points, the *)
(* linked list is a sequence for all the threads that walk along it, and    *)
(* the hash table is a dictionary whose walk meets every entry once.        *)
(***************************************************************************)
EXTENDS MCUtilities, SequenceTheorems, WellFoundedInduction, FiniteSetTheorems, TLAPS

-----------------------------------------------------------------------------
(* Division.                                                                *)
LEMMA Divided ==
  ASSUME NEW a \in Nat, NEW b \in Nat \ {0}
  PROVE  a \div b \in Nat /\ a % b \in 0..b - 1 /\ a = b * (a \div b) + (a % b)
<1>1. a \div b \in Nat
  OBVIOUS
<1>2. b * (a \div b) <= a
  OBVIOUS
<1>3. a < b * (a \div b) + b
  OBVIOUS
<1> DEFINE r == a - b * (a \div b)
<1>4. b * (a \div b) \in Nat
  BY <1>1
<1>5. r \in 0..b - 1 /\ a = b * (a \div b) + r
  BY <1>2, <1>3, <1>4
<1> HIDE DEF r
<1>6. a % b = r
  BY <1>1, <1>5
<1>7. b * (a \div b) + r = b * (a \div b) + (a % b)
  BY <1>6, Zenon
<1>8. a % b \in 0..b - 1
  BY <1>5, <1>6, Zenon
<1>9. a = b * (a \div b) + (a % b)
  BY <1>5, <1>7, Zenon
<1> QED BY <1>1, <1>8, <1>9, Zenon

LEMMA DividedOnce ==
  ASSUME NEW b \in Nat \ {0}, NEW k \in Nat, NEW r \in 0..b - 1
  PROVE  (b * k + r) \div b = k /\ (b * k + r) % b = r
OBVIOUS

\* A quotient is less than n if what is divided is less than n times as much.
LEMMA DividedBelow ==
  ASSUME NEW a \in Nat, NEW b \in Nat \ {0}, NEW n \in Nat, a < b * n
  PROVE  a \div b < n
<1>1. a \div b \in Nat /\ a % b \in 0..b - 1 /\ a = b * (a \div b) + (a % b)
  BY Divided
<1> DEFINE q == a \div b
<1>2. q \in Nat /\ b * q <= a
  BY <1>1
<1> HIDE DEF q
<1>3. ASSUME q >= n PROVE FALSE
  <2>1. PICK d \in Nat : q = n + d
    <3>1. q - n \in Nat /\ q = n + (q - n)
      BY <1>2, <1>3
    <3> QED BY <3>1
  <2>2. b * q = b * n + b * d /\ b * d \in Nat /\ b * n \in Nat
    BY <2>1
  <2> QED BY <1>2, <2>2
<1> QED BY <1>2, <1>3 DEF q

-----------------------------------------------------------------------------
(* The timer.                                                               *)

\* The states of the timer.
Timers == [started : BOOLEAN, paused : BOOLEAN, start : Nat, stop : Nat, count : Nat,
           minTime : Nat, maxTime : Nat, totalTime : Nat]

\* A lap begins where the stopwatch does, and not later than now; the total
\* is what the stopwatch has counted also while the timer runs.
TimerInv ==
    /\ self \in Timers
    /\ clock \in 0..ClockLimit
    /\ ran \in [total : Nat, since : Nat] /\ inPause \in [before : Nat, twice : Nat]
    /\ self.started => ran.since = self.start /\ self.start \in 0..clock
    /\ self.totalTime = ran.total - inPause.before + inPause.twice
    /\ IF self.totalTime = 0 THEN self.minTime = Infinite
       ELSE self.minTime \in 1..self.maxTime
    /\ self.maxTime <= self.totalTime /\ self.maxTime <= ClockLimit

\* The times that a call sets, and those it leaves alone.
Kept(new, old) ==
    /\ new \in Timers /\ new.minTime = old.minTime /\ new.maxTime = old.maxTime
    /\ new.totalTime = old.totalTime

LEMMA TimesSet ==
  ASSUME NEW r \in Timers, NEW from \in Nat, NEW to \in Nat, NEW n \in Nat
  PROVE  /\ LET new == [r EXCEPT !.start = from, !.started = TRUE, !.paused = FALSE]
            IN  Kept(new, r) /\ new.start = from
         /\ LET new == [r EXCEPT !.start = from, !.stop = to, !.paused = FALSE]
            IN  Kept(new, r) /\ new.start = from
         /\ LET new == [r EXCEPT !.stop = to, !.paused = TRUE]
            IN  /\ Kept(new, r) /\ new.stop = to /\ new.start = r.start /\ new.count = r.count
                /\ new.started = r.started
         /\ LET new == [r EXCEPT !.stop = to, !.started = FALSE, !.paused = FALSE, !.count = n]
            IN  /\ Kept(new, r) /\ new.stop = to /\ new.start = r.start /\ new.count = n
                /\ ~new.started
<1> USE DEF Timers, Kept
<1>1. LET new == [r EXCEPT !.start = from, !.started = TRUE, !.paused = FALSE]
      IN  Kept(new, r) /\ new.start = from
  OBVIOUS
<1>2. LET new == [r EXCEPT !.start = from, !.stop = to, !.paused = FALSE]
      IN  Kept(new, r) /\ new.start = from
  OBVIOUS
<1>3. LET new == [r EXCEPT !.stop = to, !.paused = TRUE]
      IN  /\ Kept(new, r) /\ new.stop = to /\ new.start = r.start /\ new.count = r.count
          /\ new.started = r.started
  OBVIOUS
<1> DEFINE new == [r EXCEPT !.stop = to, !.started = FALSE, !.paused = FALSE, !.count = n]
<1>4. new \in Timers
  OBVIOUS
<1>5. /\ new.stop = to /\ new.start = r.start /\ new.count = n /\ ~new.started
      /\ new.minTime = r.minTime /\ new.maxTime = r.maxTime /\ new.totalTime = r.totalTime
  OBVIOUS
<1>6. Kept(new, r) /\ new.stop = to /\ new.start = r.start /\ new.count = n /\ ~new.started
  <2> HIDE DEF new, Timers
  <2> QED BY <1>4, <1>5
<1> HIDE DEF Kept
<1> QED BY <1>1, <1>2, <1>3, <1>6

\* What the time of a lap adds, field by field.
LEMMA Counted ==
  ASSUME NEW r \in Timers, r.start <= r.stop
  PROVE  LET elapsed == r.stop - r.start
             new     == RTTimer_updateStatistics(r)
         IN  /\ new \in Timers
             /\ new.started = r.started /\ new.start = r.start
             /\ IF r.count = 0 \/ elapsed = 0
                THEN /\ new.minTime = r.minTime /\ new.maxTime = r.maxTime
                     /\ new.totalTime = r.totalTime
                ELSE /\ new.minTime = IF elapsed < r.minTime THEN elapsed ELSE r.minTime
                     /\ new.maxTime = IF r.maxTime > elapsed THEN r.maxTime ELSE elapsed
                     /\ new.totalTime = r.totalTime + elapsed
<1> DEFINE elapsed == r.stop - r.start
           total == r.totalTime + elapsed
           most  == IF r.maxTime > elapsed THEN r.maxTime ELSE elapsed
           least == IF elapsed < r.minTime THEN elapsed ELSE r.minTime
           new   == RTTimer_updateStatistics(r)
<1>1. RTTimer_getElapsed(r) = IF r.count > 0 THEN elapsed ELSE 0
  BY DEF RTTimer_getElapsed
<1>2. elapsed \in Nat /\ r.count \in Nat
  BY DEF Timers
<1>3. CASE r.count = 0 \/ elapsed = 0
  <2>1. RTTimer_getElapsed(r) = 0
    BY <1>1, <1>2, <1>3
  <2>2. new = r
    BY <2>1 DEF RTTimer_updateStatistics
  <2> QED BY <1>3, <2>2 DEF Timers
<1>4. CASE ~(r.count = 0 \/ elapsed = 0)
  <2>1. RTTimer_getElapsed(r) = elapsed /\ elapsed # 0
    BY <1>1, <1>2, <1>4
  <2>2. total \in Nat /\ most \in Nat /\ least \in Nat
    BY <1>2 DEF Timers
  <2>3. new = [r EXCEPT !.totalTime = total, !.maxTime = most, !.minTime = least]
    BY <2>1 DEF RTTimer_updateStatistics, Larger
  <2> HIDE DEF total, most, least
  <2>4. /\ new \in Timers /\ new.started = r.started /\ new.start = r.start
        /\ new.minTime = least /\ new.maxTime = most /\ new.totalTime = total
    BY <2>2, <2>3 DEF Timers
  <2> QED BY <1>4, <2>4 DEF total, most, least
<1> QED BY <1>3, <1>4

LEMMA TimerBegins == TimerInit => TimerInv
BY TimerAssumption DEF TimerInit, TimerInv, Timers, RTTimer_reset, Infinite

LEMMA TimerGoesOn == TimerInv /\ [TimerNext]_timerVars => TimerInv'
<1> SUFFICES ASSUME TimerInv, [TimerNext]_timerVars PROVE TimerInv'
  OBVIOUS
<1>1. self \in Timers /\ clock \in Nat /\ \A t \in 0..clock : t \in Nat
  BY TimerAssumption DEF TimerInv
<1> USE TimerAssumption DEF TimerInv, Timers
<1>2. CASE UNCHANGED timerVars
  BY <1>2 DEF timerVars
<1>3. CASE Tick
  BY <1>3 DEF Tick, Infinite
<1>4. CASE RTTimer_start
  <2>1. Kept(self', self) /\ self'.start = clock
    BY <1>1, <1>4, TimesSet DEF RTTimer_start
  <2>2. /\ ran' \in [total : Nat, since : Nat] /\ ran'.total = ran.total /\ ran'.since = clock
        /\ inPause' = inPause /\ clock' = clock
    BY <1>4 DEF RTTimer_start
  <2> QED BY <2>1, <2>2 DEF Kept, Infinite
<1>5. CASE RTTimer_pause
  <2> DEFINE r == [self EXCEPT !.stop = clock, !.paused = TRUE]
             elapsed == clock - self.start
  <2>1. self.start \in 0..clock /\ ran.since = self.start /\ elapsed \in 0..ClockLimit
    BY <1>5 DEF RTTimer_pause, Running
  <2>2. /\ Kept(r, self) /\ r.stop = clock /\ r.start = self.start /\ r.count = self.count
        /\ r.started = self.started
    BY <1>1, TimesSet
  <2>3. self' = RTTimer_updateStatistics(r) /\ clock' = clock
    BY <1>5 DEF RTTimer_pause
  <2>4. /\ ran' \in [total : Nat, since : Nat] /\ ran'.total = ran.total + elapsed
        /\ ran'.since = ran.since
    BY <1>5, <2>1 DEF RTTimer_pause, Lap
  <2>5. /\ inPause' \in [before : Nat, twice : Nat] /\ inPause'.twice = inPause.twice
        /\ inPause'.before = inPause.before + IF self.count = 0 THEN elapsed ELSE 0
    BY <1>5, <2>1 DEF RTTimer_pause, Lap
  <2> HIDE DEF r
  <2>6. /\ self' \in Timers /\ self'.started = self.started /\ self'.start = self.start
        /\ IF self.count = 0 \/ elapsed = 0
           THEN /\ self'.minTime = self.minTime /\ self'.maxTime = self.maxTime
                /\ self'.totalTime = self.totalTime
           ELSE /\ self'.minTime = IF elapsed < self.minTime THEN elapsed ELSE self.minTime
                /\ self'.maxTime = IF self.maxTime > elapsed THEN self.maxTime ELSE elapsed
                /\ self'.totalTime = self.totalTime + elapsed
    BY <2>1, <2>2, <2>3, Counted DEF Kept
  <2> HIDE DEF elapsed
  <2>7. CASE self.count = 0 \/ elapsed = 0
    BY <2>1, <2>3, <2>4, <2>5, <2>6, <2>7 DEF Infinite
  <2>8. CASE ~(self.count = 0 \/ elapsed = 0)
    <3>1. /\ self.totalTime \in Nat /\ self.minTime \in Nat /\ self.maxTime \in Nat
          /\ elapsed \in 1..ClockLimit
      BY <2>1, <2>8
    <3>2. /\ self'.totalTime # 0
          /\ self'.totalTime = ran'.total - inPause'.before + inPause'.twice
      BY <2>4, <2>5, <2>6, <2>8, <3>1
    <3>3. /\ self'.minTime \in 1..self'.maxTime /\ self'.maxTime <= self'.totalTime
          /\ self'.maxTime <= ClockLimit
      BY <2>6, <2>8, <3>1 DEF Infinite
    <3> QED BY <2>1, <2>3, <2>4, <2>5, <2>6, <3>2, <3>3
  <2> QED BY <2>7, <2>8
<1>6. CASE RTTimer_continue
  <2>1. Kept(self', self) /\ self'.start = clock
    BY <1>1, <1>6, TimesSet DEF RTTimer_continue
  <2>2. /\ ran' \in [total : Nat, since : Nat] /\ ran'.total = ran.total /\ ran'.since = clock
        /\ inPause' = inPause /\ clock' = clock
    BY <1>6 DEF RTTimer_continue
  <2> QED BY <2>1, <2>2 DEF Kept, Infinite
<1>7. CASE RTTimer_stop
  <2> DEFINE laps == self.count + 1
             r == [self EXCEPT !.stop = clock, !.started = FALSE, !.paused = FALSE, !.count = laps]
             elapsed == clock - self.start
  <2>1. /\ self.start \in 0..clock /\ ran.since = self.start /\ elapsed \in 0..ClockLimit
        /\ laps \in Nat \ {0}
    BY <1>7 DEF RTTimer_stop
  <2>2. self' = RTTimer_updateStatistics(r) /\ clock' = clock
    BY <1>7 DEF RTTimer_stop
  <2> HIDE DEF laps
  <2>3. Kept(r, self) /\ r.stop = clock /\ r.start = self.start /\ r.count = laps /\ ~r.started
    BY <1>1, <2>1, TimesSet
  <2>4. /\ ran' \in [total : Nat, since : Nat] /\ ran'.since = ran.since
        /\ ran'.total = ran.total + IF self.paused THEN 0 ELSE elapsed
    BY <1>7, <2>1 DEF RTTimer_stop, Lap
  <2>5. /\ inPause' \in [before : Nat, twice : Nat] /\ inPause'.before = inPause.before
        /\ inPause'.twice = inPause.twice + IF self.paused THEN elapsed ELSE 0
    BY <1>7, <2>1 DEF RTTimer_stop, Lap
  <2> HIDE DEF r
  <2>6. /\ self' \in Timers /\ ~self'.started
        /\ IF elapsed = 0
           THEN /\ self'.minTime = self.minTime /\ self'.maxTime = self.maxTime
                /\ self'.totalTime = self.totalTime
           ELSE /\ self'.minTime = IF elapsed < self.minTime THEN elapsed ELSE self.minTime
                /\ self'.maxTime = IF self.maxTime > elapsed THEN self.maxTime ELSE elapsed
                /\ self'.totalTime = self.totalTime + elapsed
    BY <2>1, <2>2, <2>3, Counted DEF Kept
  <2> HIDE DEF elapsed
  <2>7. CASE elapsed = 0
    BY <2>1, <2>2, <2>4, <2>5, <2>6, <2>7 DEF Infinite
  <2>8. CASE elapsed # 0
    <3>1. /\ self.totalTime \in Nat /\ self.minTime \in Nat /\ self.maxTime \in Nat
          /\ elapsed \in 1..ClockLimit
      BY <2>1, <2>8
    <3>2. /\ self'.totalTime # 0
          /\ self'.totalTime = ran'.total - inPause'.before + inPause'.twice
      BY <2>4, <2>5, <2>6, <2>8, <3>1
    <3>3. /\ self'.minTime \in 1..self'.maxTime /\ self'.maxTime <= self'.totalTime
          /\ self'.maxTime <= ClockLimit
      BY <2>6, <2>8, <3>1 DEF Infinite
    <3> QED BY <2>1, <2>2, <2>4, <2>5, <2>6, <3>2, <3>3
  <2> QED BY <2>7, <2>8
<1>8. CASE Reset
  <2>1. /\ self' = RTTimer_reset /\ ran' = [total |-> 0, since |-> 0]
        /\ inPause' = [before |-> 0, twice |-> 0] /\ clock' = clock
    BY <1>8 DEF Reset
  <2> QED BY <2>1 DEF RTTimer_reset, Infinite
<1>9. ASSUME NEW t \in 0..clock, RTTimer_copyStart(t) PROVE TimerInv'
  <2>1. Kept(self', self) /\ self'.start = t
    BY <1>1, <1>9, TimesSet DEF RTTimer_copyStart
  <2>2. /\ ran' \in [total : Nat, since : Nat] /\ ran'.total = ran.total /\ ran'.since = t
        /\ inPause' = inPause /\ clock' = clock
    BY <1>9 DEF RTTimer_copyStart
  <2> QED BY <2>1, <2>2 DEF Kept, Infinite
<1> QED BY <1>2, <1>3, <1>4, <1>5, <1>6, <1>7, <1>8, <1>9 DEF TimerNext

\* A time that is taken apart, for any units.
LEMMA TakenApart ==
  ASSUME NEW time \in Nat
  PROVE  LET s == RTTimer_micro2RTTimerSpec(time)
         IN  /\ s.microsecond < Units[1] /\ s.second < Units[2]
             /\ s.minute < Units[3] /\ s.hour < Units[4]
             /\ time = s.microsecond + Units[1] * (s.second + Units[2] *
                          (s.minute + Units[3] * (s.hour + Units[4] * s.day)))
<1> DEFINE a == Units[1]  M == Units[2]  u == Units[3]  v == Units[4]
           H == M * u  V == H * v
           secs == time \div a
           d == secs \div V
           rest == secs % V
           h == rest \div H
           q == rest % H
           m == q \div M
           s == q % M
           us == time - secs * a
<1>1. a \in Nat \ {0} /\ M \in Nat \ {0} /\ u \in Nat \ {0} /\ v \in Nat \ {0}
  BY TimerAssumption
<1>2. RTTimer_micro2RTTimerSpec(time) =
        [microsecond |-> us, day |-> d, hour |-> h, minute |-> (secs % H) \div M,
         second |-> secs % M]
  BY DEF RTTimer_micro2RTTimerSpec
<1> HIDE DEF a, M, u, v
<1>3. H \in Nat \ {0} /\ V \in Nat \ {0}
  <2>1. H \in Nat \ {0}
    BY <1>1
  <2> HIDE DEF H
  <2> QED BY <1>1, <2>1
<1>4. secs \in Nat /\ us \in 0..a - 1 /\ time = a * secs + us
  <2>1. secs \in Nat /\ time % a \in 0..a - 1 /\ time = a * secs + (time % a)
    BY <1>1, Divided
  <2> HIDE DEF secs
  <2>2. secs * a = a * secs /\ a * secs \in Nat
    BY <1>1, <2>1
  <2>3. time % a = time - secs * a
    <3> DEFINE w == time % a
    <3>1. w \in Nat /\ time = a * secs + w
      BY <1>1, <2>1
    <3> HIDE DEF w
    <3>2. w = time - secs * a
      BY <1>1, <2>1, <2>2, <3>1
    <3> QED BY <3>2 DEF w
  <2> QED BY <2>1, <2>3
<1>5. d \in Nat /\ rest \in 0..V - 1 /\ secs = V * d + rest
  <2> HIDE DEF secs, V
  <2> QED BY <1>3, <1>4, Divided
<1>6. h \in Nat /\ q \in 0..H - 1 /\ rest = H * h + q /\ h < v
  <2> HIDE DEF rest, H
  <2>1. rest \in Nat /\ rest < H * v
    BY <1>3, <1>5
  <2> QED BY <1>1, <1>3, <2>1, Divided, DividedBelow
<1>7. m \in Nat /\ s \in 0..M - 1 /\ q = M * m + s /\ m < u
  <2> HIDE DEF q
  <2>1. q \in Nat /\ q < M * u
    BY <1>1, <1>3, <1>6
  <2> QED BY <1>1, <2>1, Divided, DividedBelow
<1> HIDE DEF secs, d, rest, h, q, m, s, us
<1>8. secs % H = q
  <2>1. secs = H * (v * d + h) + q
    <3>1. (H * v) * d = H * (v * d) /\ H * (v * d) + H * h = H * (v * d + h)
      <4> HIDE DEF H
      <4> QED BY <1>1, <1>3, <1>5, <1>6
    <3> HIDE DEF H
    <3> QED BY <1>1, <1>3, <1>5, <1>6, <3>1
  <2>2. v * d + h \in Nat
    BY <1>1, <1>5, <1>6
  <2> HIDE DEF H
  <2> QED BY <1>3, <1>6, <2>1, <2>2, DividedOnce
<1>9. secs = M * (m + u * (h + v * d)) + s /\ m + u * (h + v * d) \in Nat
  <2> DEFINE w == h + v * d
  <2>1. w \in Nat
    BY <1>1, <1>5, <1>6
  <2>2. V * d + H * h = H * w
    <3>1. V * d = H * (v * d) /\ H * (v * d) + H * h = H * w
      <4> HIDE DEF H
      <4> QED BY <1>1, <1>3, <1>5, <1>6
    <3> QED BY <3>1
  <2> HIDE DEF w
  <2>3. H * w = M * (u * w) /\ M * (u * w) + M * m = M * (m + u * w) /\ m + u * w \in Nat
    BY <1>1, <1>7, <2>1
  <2>4. secs = M * (m + u * w) + s
    <3>1. V * d \in Nat /\ H * h \in Nat /\ M * m \in Nat /\ H * w \in Nat
      <4> HIDE DEF H, V
      <4> QED BY <1>1, <1>3, <1>5, <1>6, <1>7, <2>1
    <3> HIDE DEF H, V
    <3> QED BY <1>4, <1>5, <1>6, <1>7, <2>2, <2>3, <3>1
  <2> QED BY <2>3, <2>4 DEF w
<1>10. secs % M = s
  <2> DEFINE w == m + u * (h + v * d)
  <2>1. w \in Nat /\ secs = M * w + s
    BY <1>9
  <2> HIDE DEF w
  <2> QED BY <1>1, <1>7, <2>1, DividedOnce
<1>11. RTTimer_micro2RTTimerSpec(time) =
         [microsecond |-> us, day |-> d, hour |-> h, minute |-> m, second |-> s]
  BY <1>2, <1>8, <1>10 DEF m
<1>12. time = us + a * (s + M * (m + u * (h + v * d)))
  <2> DEFINE w == M * (m + u * (h + v * d))
  <2>1. secs = s + w
    <3>1. w \in Nat
      BY <1>1, <1>9
    <3> HIDE DEF w
    <3> QED BY <1>7, <1>9, <3>1 DEF w
  <2> HIDE DEF w
  <2>2. a * secs \in Nat
    BY <1>1, <1>4
  <2>3. time = us + a * secs
    BY <1>4, <2>2
  <2> QED BY <2>1, <2>3 DEF w
<1> QED BY <1>1, <1>4, <1>6, <1>7, <1>11, <1>12 DEF a, M, u, v

-----------------------------------------------------------------------------
(* For any units and any end of the clock the total is what a stopwatch    *)
(* shows, but for the two departures; the statistics bound it; and a time  *)
(* is taken apart without a rest.                                          *)
THEOREM TimerStaysRight == TimerInit /\ [][TimerNext]_timerVars => []TimerIsRight
<1>1. TimerInv => TotalIsWhatRan
  BY DEF TimerInv, Timers, TotalIsWhatRan
<1>2. TimerInv => StatisticsFit
  BY TimerAssumption DEF TimerInv, Timers, StatisticsFit, RTTimer_getMinTime, Infinite
<1>3. SpecIsWhole
  BY TakenApart DEF SpecIsWhole
<1>4. TimerInv => TimerIsRight
  BY <1>1, <1>2, <1>3 DEF TimerIsRight
<1> QED BY <1>4, TimerBegins, TimerGoesOn, PTL

-----------------------------------------------------------------------------
(* The array list.                                                          *)

\* What the buffer is made of, and the struct.
Byte == {<<item, b>> : item \in Items \cup {"null", "unknown"}, b \in 0..PtrSize}
Lists == [free : Nat, count : Nat, buffer : Seq(Byte)]

ListInv == list \in Lists /\ Len(list.buffer) = (list.count + list.free) * PtrSize

LEMMA LeastOfNumbers ==
  ASSUME NEW set \in SUBSET Nat, set # {}
  PROVE  \E least \in set : \A x \in set : least <= x
<1>1. PICK least \in set : \A x \in set : ~(<<x, least>> \in OpToRel(<, Nat))
  BY NatLessThanWellFounded, WFMin
<1>2. ASSUME NEW x \in set PROVE least <= x
  <2>1. x \in Nat /\ least \in Nat /\ ~(x < least)
    BY <1>1 DEF OpToRel
  <2> QED BY <2>1
<1> QED BY <1>2

LEMMA Products ==
  ASSUME NEW m \in Nat, NEW n \in Nat, m <= n
  PROVE  /\ m * PtrSize \in Nat /\ n * PtrSize \in Nat /\ m * PtrSize <= n * PtrSize
         /\ (m + 1) * PtrSize = m * PtrSize + PtrSize
<1>1. PtrSize \in Nat
  BY ArrayListAssumption
<1>2. PICK d \in Nat : n = m + d
  <2>1. n - m \in Nat /\ n = m + (n - m)
    OBVIOUS
  <2> QED BY <2>1
<1>3. n * PtrSize = m * PtrSize + d * PtrSize /\ d * PtrSize \in Nat /\ m * PtrSize \in Nat
  BY <1>1, <1>2
<1>4. (m + 1) * PtrSize = m * PtrSize + PtrSize
  BY <1>1
<1> QED BY <1>3, <1>4

\* Buffers that agree on the bytes of the lowest n pointers.
LEMMA SameLowest ==
  ASSUME NEW s \in Seq(Byte), NEW t \in Seq(Byte), NEW n \in Nat, n <= Len(s), n <= Len(t),
         \A k \in 1..n : s[k] = t[k]
  PROVE  SubSeq(s, 1, n) = SubSeq(t, 1, n)
OBVIOUS

LEMMA BytesTyped ==
  /\ \A item \in Items : Bytes(item) \in [1..PtrSize -> Byte]
  /\ NullPtr \in [1..PtrSize -> Byte] /\ Unknown \in Byte
<1>1. PtrSize \in Nat /\ \A b \in 1..PtrSize : b \in 0..PtrSize
  BY ArrayListAssumption
<1>2. ASSUME NEW item \in Items \cup {"null"} PROVE Bytes(item) \in [1..PtrSize -> Byte]
  BY <1>1 DEF Bytes, Byte
<1>3. Unknown \in Byte
  BY <1>1 DEF Unknown, Byte
<1> QED BY <1>2, <1>3 DEF NullPtr

LEMMA Allocated ==
  ASSUME NEW l \in Lists, l.free = 0, Len(l.buffer) = l.count * PtrSize
  PROVE  LET new == ArrayList_allocate(l)
         IN  /\ new \in Lists /\ new.count = l.count /\ new.free > 0
             /\ Len(new.buffer) = (new.count + new.free) * PtrSize
             /\ \A k \in 1..l.count * PtrSize : new.buffer[k] = l.buffer[k]
<1> DEFINE size == IF l.count = 0 THEN FirstSize ELSE l.count * 2
           room == size - l.count
           zeros == Zeros(size)
           buf == [k \in DOMAIN zeros |-> IF k <= l.count * PtrSize THEN l.buffer[k] ELSE zeros[k]]
           new == ArrayList_allocate(l)
<1>1. l.count \in Nat /\ l.buffer \in Seq(Byte)
  BY DEF Lists
<1>2. size \in Nat /\ room \in Nat \ {0} /\ l.count + room = size /\ l.count <= size
  <2>1. CASE l.count = 0
    BY <1>1, <2>1, ArrayListAssumption
  <2>2. CASE l.count # 0
    <3>1. size = l.count * 2 /\ l.count \in Nat /\ l.count >= 1
      BY <1>1, <2>2
    <3> QED BY <3>1
  <2> QED BY <2>1, <2>2
<1>3. new = [l EXCEPT !.buffer = buf, !.free = room]
  BY DEF ArrayList_allocate
<1> HIDE DEF size, room, new
<1>4. size * PtrSize \in Nat /\ l.count * PtrSize \in Nat /\ l.count * PtrSize <= size * PtrSize
  BY <1>1, <1>2, Products
<1>5. zeros \in [1..size * PtrSize -> Byte]
  <2>1. ASSUME NEW k \in 1..size * PtrSize PROVE ((k - 1) % PtrSize) + 1 \in 1..PtrSize
    <3>1. PtrSize \in Nat \ {0} /\ k - 1 \in Nat
      BY <1>4, ArrayListAssumption
    <3>2. (k - 1) % PtrSize \in 0..PtrSize - 1
      BY <3>1
    <3> QED BY <3>1, <3>2
  <2> QED BY <2>1, BytesTyped DEF Zeros
<1>6. buf \in Seq(Byte) /\ Len(buf) = size * PtrSize
  <2>1. ASSUME NEW k \in 1..size * PtrSize, k <= l.count * PtrSize PROVE l.buffer[k] \in Byte
    BY <1>1, <1>4, <2>1
  <2>2. buf \in [1..size * PtrSize -> Byte]
    BY <1>5, <2>1
  <2> HIDE DEF buf
  <2> QED BY <1>4, <2>2
<1>7. \A k \in 1..l.count * PtrSize : buf[k] = l.buffer[k]
  BY <1>4, <1>5
<1> HIDE DEF buf
<1>8. new \in Lists /\ new.count = l.count /\ new.free = room /\ new.buffer = buf
  BY <1>2, <1>3, <1>6 DEF Lists
<1> QED BY <1>2, <1>6, <1>7, <1>8 DEF new

\* A pointer is put into a buffer that has room for it.
LEMMA PutIn ==
  ASSUME NEW buf \in Seq(Byte), NEW i \in Nat, NEW item \in Items, (i + 1) * PtrSize <= Len(buf)
  PROVE  /\ Put(buf, i, item) \in Seq(Byte) /\ Len(Put(buf, i, item)) = Len(buf)
         /\ \A k \in 1..i * PtrSize : Put(buf, i, item)[k] = buf[k]
<1>1. PtrSize \in Nat /\ i * PtrSize \in Nat /\ (i + 1) * PtrSize = i * PtrSize + PtrSize
  BY ArrayListAssumption, Products
<1>2. DOMAIN buf = 1..Len(buf) /\ \A k \in 1..Len(buf) : buf[k] \in Byte
  OBVIOUS
<1> DEFINE base == i * PtrSize
           end == (i + 1) * PtrSize
           bytes == Bytes(item)
           new == [k \in DOMAIN buf |-> IF k \in base + 1..end THEN bytes[k - base] ELSE buf[k]]
<1>3. bytes \in [1..PtrSize -> Byte]
  BY BytesTyped
<1> HIDE DEF base, end, bytes
<1>4. base \in Nat /\ end = base + PtrSize /\ end <= Len(buf)
  BY <1>1 DEF base, end
<1>5. \A k \in base + 1..end : bytes[k - base] \in Byte
  <2> SUFFICES ASSUME NEW k \in base + 1..end PROVE bytes[k - base] \in Byte
    OBVIOUS
  <2>1. k - base \in 1..PtrSize
    BY <1>1, <1>4
  <2> QED BY <1>3, <2>1
<1>6. new \in [1..Len(buf) -> Byte]
  BY <1>2, <1>5
<1>7. \A k \in 1..base : new[k] = buf[k]
  BY <1>1, <1>2, <1>4
<1> HIDE DEF new
<1>8. new \in Seq(Byte) /\ Len(new) = Len(buf)
  BY <1>6
<1>9. new = Put(buf, i, item)
  BY DEF new, base, end, bytes, Put
<1> QED BY <1>7, <1>8, <1>9 DEF base

\* The bytes that Any_memmove moves are those from the pointer on.
LEMMA MovedIn ==
  ASSUME NEW buf \in Seq(Byte), NEW i \in Nat, NEW n \in Nat
  PROVE  /\ Moved(buf, i, n) \in Seq(Byte) /\ Len(Moved(buf, i, n)) = Len(buf)
         /\ \A k \in 1..i * PtrSize : k <= Len(buf) => Moved(buf, i, n)[k] = buf[k]
<1>1. i * PtrSize \in Nat /\ PtrSize \in Nat
  BY ArrayListAssumption, Products
<1>2. DOMAIN buf = 1..Len(buf) /\ Unknown \in Byte
  BY BytesTyped
<1>3. Moved(buf, i, n) \in [1..Len(buf) -> Byte]
  BY <1>1, <1>2 DEF Moved
<1>4. \A k \in 1..i * PtrSize : k <= Len(buf) => Moved(buf, i, n)[k] = buf[k]
  BY <1>1, <1>2 DEF Moved
<1>5. Moved(buf, i, n) \in Seq(Byte) /\ Len(Moved(buf, i, n)) = Len(buf)
  BY <1>3
<1> QED BY <1>4, <1>5

PointersStay ==
    \/ list'.count >= list.count /\ Lowest(list.count)
    \/ ArrayList_pop /\ Lowest(list'.count)
    \/ \E item \in Items : IndicesOf(item) # {} /\ ArrayList_remove(item)
          /\ \A i \in IndicesOf(item) : (\A j \in IndicesOf(item) : i <= j) => Lowest(i)
    \/ list'.count = 0

LEMMA ListBegins == ListInit => ListInv
BY ArrayListAssumption DEF ListInit, NewList, ListInv, Lists

LEMMA PushKeeps ==
  ASSUME ListInv, NEW item \in Items, ArrayList_push(item)
  PROVE  ListInv' /\ PointersStay
<1> DEFINE l == IF list.free <= 0 THEN ArrayList_allocate(list) ELSE list
<1>1. list \in Lists /\ list.count \in Nat /\ list.free \in Nat /\ list.buffer \in Seq(Byte)
      /\ Len(list.buffer) = (list.count + list.free) * PtrSize
  BY DEF ListInv, Lists
<1>2. /\ l \in Lists /\ l.count = list.count /\ l.free > 0
      /\ Len(l.buffer) = (l.count + l.free) * PtrSize
      /\ \A k \in 1..list.count * PtrSize : l.buffer[k] = list.buffer[k]
  <2>1. CASE list.free <= 0
    <3>1. list.free = 0 /\ list.count + list.free = list.count
      BY <1>1, <2>1
    <3> QED BY <1>1, <2>1, <3>1, Allocated
  <2>2. CASE ~(list.free <= 0)
    BY <1>1, <2>2
  <2> QED BY <2>1, <2>2
<1> DEFINE buf == Put(l.buffer, l.count, item)
           n == l.count + 1
           room == l.free - 1
<1>3. list' = [l EXCEPT !.buffer = buf, !.count = n, !.free = room]
  BY DEF ArrayList_push
<1> HIDE DEF l
<1>4. l.buffer \in Seq(Byte) /\ l.count \in Nat /\ l.free \in Nat /\ n \in Nat /\ room \in Nat
      /\ n + room = l.count + l.free /\ n <= l.count + l.free
  BY <1>2 DEF Lists
<1>5. n * PtrSize <= Len(l.buffer) /\ list.count * PtrSize <= Len(l.buffer)
      /\ list.count * PtrSize \in Nat /\ list.count * PtrSize <= Len(list.buffer)
  <2> DEFINE all == l.count + l.free
             was == list.count + list.free
  <2>1. all \in Nat /\ was \in Nat /\ n <= all /\ list.count <= all /\ list.count <= was
    <3> HIDE DEF buf, n, room
    <3>1. l.count = list.count
      BY <1>2
    <3> QED BY <1>1, <1>4, <3>1
  <2> HIDE DEF all, was, n
  <2>2. n * PtrSize <= all * PtrSize /\ list.count * PtrSize <= all * PtrSize
        /\ list.count * PtrSize \in Nat /\ list.count * PtrSize <= was * PtrSize
    BY <1>1, <1>4, <2>1, Products
  <2>3. Len(l.buffer) = all * PtrSize /\ Len(list.buffer) = was * PtrSize
    BY <1>1, <1>2 DEF all, was
  <2> QED BY <2>2, <2>3
<1>6. /\ buf \in Seq(Byte) /\ Len(buf) = Len(l.buffer)
      /\ \A k \in 1..l.count * PtrSize : buf[k] = l.buffer[k]
  BY <1>4, <1>5, PutIn
<1> HIDE DEF buf, n, room
<1>7. list' \in Lists /\ list'.buffer = buf /\ list'.count = n /\ list'.free = room
  BY <1>2, <1>3, <1>4, <1>6 DEF Lists
<1>8. ListInv'
  BY <1>2, <1>4, <1>6, <1>7 DEF ListInv
<1>9. list'.count >= list.count
  BY <1>2, <1>4, <1>7 DEF n
<1>10. Lowest(list.count)
  <2>1. \A k \in 1..list.count * PtrSize : buf[k] = list.buffer[k]
    BY <1>2, <1>6
  <2> QED BY <1>1, <1>2, <1>5, <1>6, <1>7, <2>1, SameLowest DEF Lowest
<1> QED BY <1>8, <1>9, <1>10 DEF PointersStay

LEMMA RemoveKeeps ==
  ASSUME ListInv, NEW item \in Items, ArrayList_remove(item)
  PROVE  ListInv' /\ PointersStay
<1>1. list \in Lists /\ list.count \in Nat /\ list.free \in Nat /\ list.buffer \in Seq(Byte)
      /\ Len(list.buffer) = (list.count + list.free) * PtrSize
  BY DEF ListInv, Lists
<1>2. CASE IndicesOf(item) = {}
  <2>1. list' = list
    BY <1>2 DEF ArrayList_remove
  <2> QED BY <1>1, <2>1 DEF ListInv, PointersStay, Lowest
<1>3. CASE IndicesOf(item) # {}
  <2> DEFINE Least(x) == x \in IndicesOf(item) /\ \A y \in IndicesOf(item) : x <= y
             at == CHOOSE x \in IndicesOf(item) : \A y \in IndicesOf(item) : x <= y
             buf == Moved(list.buffer, at, list.count - at)
             n == list.count - 1
             room == list.free + 1
  <2>1. \A x \in IndicesOf(item) : x \in 0..list.count - 1
    BY DEF IndicesOf
  <2>2. at \in IndicesOf(item) /\ \A y \in IndicesOf(item) : at <= y
    <3>1. IndicesOf(item) \subseteq Nat
      BY <1>1, <2>1
    <3>2. PICK x \in IndicesOf(item) : \A y \in IndicesOf(item) : x <= y
      BY <1>3, <3>1, LeastOfNumbers
    <3> QED BY <3>2
  <2>3. list' = [list EXCEPT !.buffer = buf, !.count = n, !.free = room]
    BY <1>3 DEF ArrayList_remove
  <2> HIDE DEF at
  <2>4. at \in Nat /\ at <= list.count /\ n \in Nat /\ room \in Nat
        /\ list.count - at \in Nat /\ n + room = list.count + list.free
    BY <1>1, <2>1, <2>2
  <2>5. /\ buf \in Seq(Byte) /\ Len(buf) = Len(list.buffer)
        /\ \A k \in 1..at * PtrSize : k <= Len(list.buffer) => buf[k] = list.buffer[k]
    BY <1>1, <2>4, MovedIn
  <2> HIDE DEF buf, n, room
  <2>6. list' \in Lists /\ list'.buffer = buf /\ list'.count = n /\ list'.free = room
    BY <1>1, <2>3, <2>4, <2>5 DEF Lists
  <2>7. ListInv'
    BY <1>1, <2>4, <2>5, <2>6 DEF ListInv
  <2>8. Lowest(at)
    <3>1. at * PtrSize \in Nat /\ at * PtrSize <= Len(list.buffer)
      <4> DEFINE all == list.count + list.free
      <4>1. all \in Nat /\ at <= all
        BY <1>1, <2>4
      <4> HIDE DEF all
      <4>2. at * PtrSize \in Nat /\ at * PtrSize <= all * PtrSize
        BY <2>4, <4>1, Products
      <4> QED BY <1>1, <4>2 DEF all
    <3>2. \A k \in 1..at * PtrSize : buf[k] = list.buffer[k]
      BY <2>5, <3>1
    <3> QED BY <1>1, <2>5, <2>6, <3>1, <3>2, SameLowest DEF Lowest
  <2>9. ASSUME NEW i \in IndicesOf(item), \A j \in IndicesOf(item) : i <= j PROVE Lowest(i)
    <3>1. i = at
      BY <1>1, <2>1, <2>2, <2>9
    <3> QED BY <2>8, <3>1
  <2> QED BY <1>3, <2>7, <2>9 DEF PointersStay
<1> QED BY <1>2, <1>3

LEMMA ListGoesOn == ListInv /\ [ListNext]_listVars => ListInv' /\ [PointersStay]_listVars
<1> SUFFICES ASSUME ListInv, [ListNext]_listVars PROVE ListInv' /\ [PointersStay]_listVars
  OBVIOUS
<1>1. list \in Lists /\ list.count \in Nat /\ list.free \in Nat /\ list.buffer \in Seq(Byte)
      /\ Len(list.buffer) = (list.count + list.free) * PtrSize
  BY DEF ListInv, Lists
<1>2. CASE list' = list
  BY <1>1, <1>2 DEF ListInv, PointersStay, Lowest
<1>3. ASSUME NEW item \in Items, ArrayList_push(item) PROVE ListInv' /\ PointersStay
  BY <1>3, PushKeeps
<1>4. ASSUME NEW item \in Items, ArrayList_remove(item) PROVE ListInv' /\ PointersStay
  BY <1>4, RemoveKeeps
<1>5. CASE ArrayList_pop /\ list.count > 0
  <2> DEFINE n == list.count - 1
             room == list.free + 1
  <2>1. list' = [list EXCEPT !.count = n, !.free = room]
    BY <1>5 DEF ArrayList_pop
  <2>2. n \in Nat /\ room \in Nat /\ n + room = list.count + list.free
    BY <1>1, <1>5
  <2> HIDE DEF n, room
  <2>3. list' \in Lists /\ list'.buffer = list.buffer /\ list'.count = n /\ list'.free = room
    BY <1>1, <2>1, <2>2 DEF Lists
  <2>4. ListInv'
    BY <1>1, <2>2, <2>3 DEF ListInv
  <2>5. Lowest(list'.count)
    BY <2>3 DEF Lowest
  <2> QED BY <1>5, <2>4, <2>5 DEF PointersStay
<1>6. CASE ArrayList_reset
  <2> DEFINE room == list.free + list.count
  <2>1. list' = [list EXCEPT !.free = room, !.count = 0]
    BY <1>6 DEF ArrayList_reset
  <2>2. room \in Nat /\ 0 + room = list.count + list.free
    BY <1>1
  <2> HIDE DEF room
  <2>3. list' \in Lists /\ list'.buffer = list.buffer /\ list'.count = 0 /\ list'.free = room
    BY <1>1, <2>1, <2>2 DEF Lists
  <2>4. ListInv'
    BY <1>1, <2>2, <2>3 DEF ListInv
  <2> QED BY <2>3, <2>4 DEF PointersStay
<1>7. CASE ArrayList_clear
  <2>1. list' = NewList
    BY <1>7 DEF ArrayList_clear
  <2>2. list' \in Lists /\ Len(list'.buffer) = 0 /\ list'.count = 0 /\ list'.free = 0
    BY <2>1 DEF NewList, Lists
  <2> QED BY <2>2, ArrayListAssumption DEF ListInv, PointersStay
<1>8. CASE ArrayList_pop /\ ~(list.count > 0)
  BY <1>2, <1>8 DEF ArrayList_pop
<1>9. ASSUME NEW i \in -1..MaxItems, ArrayList_get(i) PROVE list' = list
  BY <1>9 DEF ArrayList_get
<1>10. CASE UNCHANGED listVars
  BY <1>2, <1>10 DEF listVars
<1> QED BY <1>2, <1>3, <1>4, <1>5, <1>6, <1>7, <1>8, <1>9, <1>10 DEF ListNext

(* Whatever the sizes and however many items, the room of an array list is  *)
(* what it counts, so that no pointer is written outside the buffer, and    *)
(* no call disturbs the pointers below the one it is about.                 *)
THEOREM PointersStayKept == ListSpec => PointersAreKept
<1>1. ListInv => RoomIsCounted
  BY DEF ListInv, Lists, RoomIsCounted
<1>2. ListSpec => []RoomIsCounted
  BY <1>1, ListBegins, ListGoesOn, PTL DEF ListSpec
<1>3. PointersBelowStay <=> [][PointersStay]_listVars
  BY PTL DEF PointersBelowStay, PointersStay
<1>4. ListSpec => [][PointersStay]_listVars
  BY ListBegins, ListGoesOn, PTL DEF ListSpec
<1> QED BY <1>2, <1>3, <1>4, PTL DEF PointersAreKept

-----------------------------------------------------------------------------
(* The nodes of a queue.                                                    *)

\* A set of numbers that has 0 and the successor of each of its numbers.
LEMMA AllNumbers ==
  ASSUME NEW set \in SUBSET Nat, 0 \in set, \A n \in set : n + 1 \in set
  PROVE  set = Nat
<1>1. SUFFICES ASSUME Nat \ set # {} PROVE FALSE
  OBVIOUS
<1>2. PICK least \in Nat \ set : \A x \in Nat \ set : least <= x
  <2>1. Nat \ set \in SUBSET Nat
    OBVIOUS
  <2> QED BY <1>1, <2>1, LeastOfNumbers
<1>3. least # 0
  BY <1>2
<1>4. least - 1 \in Nat /\ least = (least - 1) + 1 /\ ~(least <= least - 1)
  BY <1>2, <1>3
<1> QED BY <1>2, <1>4


\* The walk along next from node h, as a function of the nodes passed.
Walk(h, nx) ==
    CHOOSE f : f = [i \in Nat |->
        IF i <= 1 THEN h
        ELSE LET before == f[i - 1] IN IF before = NoNode THEN NoNode ELSE nx[before]]

\* What follows at place i of a walk f.
Following(f, h, nx, i) ==
    IF i <= 1 THEN h ELSE IF f[i - 1] = NoNode THEN NoNode ELSE nx[f[i - 1]]
Begins(f, h, nx, n) == f = [i \in 0..n |-> Following(f, h, nx, i)]

LEMMA BeginningsAgree ==
  ASSUME NEW h, NEW nx, NEW n \in Nat, NEW m \in Nat, NEW f, NEW g,
         Begins(f, h, nx, n), Begins(g, h, nx, m), n <= m
  PROVE  \A i \in 0..n : f[i] = g[i]
<1> DEFINE same == {i \in Nat : i <= n => f[i] = g[i]}
<1>1. \A i \in 0..n : f[i] = Following(f, h, nx, i)
  BY DEF Begins
<1>2. \A i \in 0..n : g[i] = Following(g, h, nx, i)
  BY DEF Begins
<1>3. 0 \in same
  BY <1>1, <1>2 DEF Following
<1>4. ASSUME NEW i \in same PROVE i + 1 \in same
  <2>1. CASE i + 1 <= n
    <3>1. f[i] = g[i] /\ i + 1 \in 0..n /\ (i + 1) - 1 = i
      BY <1>4, <2>1
    <3>2. f[i + 1] = Following(f, h, nx, i + 1) /\ g[i + 1] = Following(g, h, nx, i + 1)
      BY <1>1, <1>2, <3>1
    <3>3. Following(f, h, nx, i + 1) = Following(g, h, nx, i + 1)
      BY <3>1 DEF Following
    <3> QED BY <3>2, <3>3
  <2> QED BY <2>1
<1> HIDE DEF same
<1>5. same = Nat
  <2>1. same \subseteq Nat
    BY DEF same
  <2> QED BY <1>3, <1>4, <2>1, AllNumbers
<1> QED BY <1>5 DEF same

LEMMA BeginningExists ==
  ASSUME NEW h, NEW nx
  PROVE  \A n \in Nat : \E f : Begins(f, h, nx, n)
<1> DEFINE some == {n \in Nat : \E f : Begins(f, h, nx, n)}
<1>1. 0 \in some
  <2> DEFINE f == [i \in 0..0 |-> h]
  <2>1. f = [i \in 0..0 |-> Following(f, h, nx, i)]
    BY DEF Following
  <2> QED BY <2>1 DEF Begins
<1>2. ASSUME NEW n \in some PROVE n + 1 \in some
  <2>1. PICK f : Begins(f, h, nx, n)
    BY <1>2
  <2>2. \A i \in 0..n : f[i] = Following(f, h, nx, i)
    BY <2>1 DEF Begins
  <2> DEFINE g == [i \in 0..n + 1 |-> IF i <= n THEN f[i] ELSE Following(f, h, nx, n + 1)]
  <2>3. \A i \in 0..n : g[i] = f[i]
    OBVIOUS
  <2>4. g[n + 1] = Following(f, h, nx, n + 1)
    OBVIOUS
  <2> HIDE DEF g
  <2>5. \A i \in 0..n + 1 : g[i] = Following(g, h, nx, i)
    <3>1. ASSUME NEW i \in 0..n + 1, i <= n PROVE g[i] = Following(g, h, nx, i)
      <4>1. CASE i <= 1
        BY <2>2, <2>3, <3>1, <4>1 DEF Following
      <4>2. CASE i > 1
        <5>1. i - 1 \in 0..n /\ i \in 0..n /\ ~(i <= 1)
          BY <3>1, <4>2
        <5>2. g[i - 1] = f[i - 1] /\ g[i] = f[i] /\ f[i] = Following(f, h, nx, i)
          BY <2>2, <2>3, <5>1
        <5> QED BY <5>1, <5>2 DEF Following
      <4> QED BY <3>1, <4>1, <4>2
    <3>2. g[n + 1] = Following(g, h, nx, n + 1)
      <4>1. (n + 1) - 1 = n /\ n \in 0..n
        OBVIOUS
      <4> QED BY <2>3, <2>4, <4>1 DEF Following
    <3> QED BY <3>1, <3>2
  <2>6. g = [i \in 0..n + 1 |-> g[i]]
    BY DEF g
  <2>7. Begins(g, h, nx, n + 1)
    BY <2>5, <2>6 DEF Begins
  <2> QED BY <2>7
<1> HIDE DEF some
<1>3. some = Nat
  <2>1. some \subseteq Nat
    BY DEF some
  <2> QED BY <1>1, <1>2, <2>1, AllNumbers
<1> QED BY <1>3 DEF some

LEMMA WalkIs ==
  ASSUME NEW h, NEW nx
  PROVE  \A i \in Nat : Walk(h, nx)[i] = Following(Walk(h, nx), h, nx, i)
<1> DEFINE up(n) == CHOOSE f : Begins(f, h, nx, n)
           w == [n \in Nat |-> up(n)[n]]
<1>1. \A n \in Nat : Begins(up(n), h, nx, n)
  BY BeginningExists
<1> HIDE DEF up
<1>2. ASSUME NEW i \in Nat PROVE w[i] = Following(w, h, nx, i)
  <2>1. up(i)[i] = Following(up(i), h, nx, i)
    <3>1. Begins(up(i), h, nx, i)
      BY <1>1
    <3> QED BY <3>1 DEF Begins
  <2>2. CASE i <= 1
    BY <2>1, <2>2 DEF Following
  <2>3. CASE i > 1
    <3>1. i - 1 \in Nat /\ i - 1 <= i /\ i - 1 \in 0..i - 1
      BY <2>3
    <3>2. up(i - 1)[i - 1] = up(i)[i - 1]
      <4>1. Begins(up(i - 1), h, nx, i - 1) /\ Begins(up(i), h, nx, i)
        BY <1>1, <3>1
      <4> QED BY <3>1, <4>1, BeginningsAgree
    <3>3. w[i - 1] = up(i)[i - 1] /\ w[i] = up(i)[i]
      BY <3>1, <3>2
    <3> HIDE DEF w
    <3> QED BY <2>1, <3>3 DEF Following
  <2> QED BY <2>2, <2>3
<1>3. w = [i \in Nat |-> Following(w, h, nx, i)]
  <2>1. w = [i \in Nat |-> w[i]]
    OBVIOUS
  <2> HIDE DEF w
  <2> QED BY <1>2, <2>1
<1> HIDE DEF w
<1>4. Walk(h, nx) = CHOOSE f : f = [i \in Nat |-> Following(f, h, nx, i)]
  BY DEF Walk, Following
<1>5. Walk(h, nx) = [i \in Nat |-> Following(Walk(h, nx), h, nx, i)]
  BY <1>3, <1>4
<1> QED BY <1>5
\* The places of w are those of the walk along nx from h.
Links(w, h, nx) ==
    /\ w[1] = h
    /\ \A i \in Nat : i > 0 => w[i + 1] = IF w[i] = NoNode THEN NoNode ELSE nx[w[i]]

LEMMA WalkLinks ==
  ASSUME NEW h, NEW nx
  PROVE  Links(Walk(h, nx), h, nx)
<1> DEFINE w == Walk(h, nx)
<1>1. \A i \in Nat : w[i] = Following(w, h, nx, i)
  BY WalkIs
<1> HIDE DEF w
<1>2. w[1] = h
  BY <1>1 DEF Following
<1>3. ASSUME NEW i \in Nat, i > 0
      PROVE  w[i + 1] = IF w[i] = NoNode THEN NoNode ELSE nx[w[i]]
  <2>1. i + 1 \in Nat /\ ~(i + 1 <= 1) /\ (i + 1) - 1 = i
    BY <1>3
  <2> QED BY <1>1, <2>1 DEF Following
<1>4. Links(w, h, nx)
  BY <1>2, <1>3 DEF Links
<1> QED BY <1>4 DEF w

\* Place i + 1 of a walk follows place i along nx, which is not the NULL pointer.
LEMMA OneLink ==
  ASSUME NEW w, NEW h, NEW nx, Links(w, h, nx), NEW i \in Nat, i > 0, w[i] # NoNode
  PROVE  w[i + 1] = nx[w[i]]
BY DEF Links

\* Two walks that go the same way from place d + 1 of v and place 1 of w on.
SameWay(v, w, d, n) ==
    /\ w[1] = v[1 + d]
    /\ \A i \in Nat : 0 < i /\ i < n /\ w[i] = v[i + d] => w[i + 1] = v[(i + 1) + d]

LEMMA SameWalk ==
  ASSUME NEW v, NEW w, NEW d \in Nat, NEW n \in Nat, n > 0 => SameWay(v, w, d, n)
  PROVE  \A i \in 1..n : w[i] = v[i + d]
<1>1. CASE n = 0
  BY <1>1
<1>2. CASE n > 0
  <2> DEFINE same == {i \in Nat : i + 1 <= n => w[i + 1] = v[(i + 1) + d]}
  <2>1. w[1] = v[1 + d] /\ \A i \in Nat :
           0 < i /\ i < n /\ w[i] = v[i + d] => w[i + 1] = v[(i + 1) + d]
    BY <1>2 DEF SameWay
  <2>2. 0 \in same
    BY <2>1
  <2>3. ASSUME NEW i \in same PROVE i + 1 \in same
    <3>1. CASE (i + 1) + 1 <= n
      <4> DEFINE j == i + 1
      <4>1. w[j] = v[j + d] /\ j \in Nat /\ 0 < j /\ j < n
        BY <2>3, <3>1
      <4> HIDE DEF j
      <4>2. w[j + 1] = v[(j + 1) + d]
        BY <2>1, <4>1
      <4>3. w[(i + 1) + 1] = v[((i + 1) + 1) + d]
        BY <4>2 DEF j
      <4> QED BY <3>1, <4>3
    <3> QED BY <2>3, <3>1
  <2>4. same = Nat
    <3>1. same \subseteq Nat
      OBVIOUS
    <3> HIDE DEF same
    <3> QED BY <2>2, <2>3, <3>1, AllNumbers
  <2>5. ASSUME NEW i \in 1..n PROVE w[i] = v[i + d]
    <3>1. i - 1 \in same /\ (i - 1) + 1 = i /\ i <= n
      BY <2>4
    <3>2. (i - 1) + 1 <= n => w[(i - 1) + 1] = v[((i - 1) + 1) + d]
      BY <3>1
    <3>3. w[(i - 1) + 1] = v[((i - 1) + 1) + d]
      BY <3>1, <3>2
    <3> QED BY <3>1, <3>3
  <2> QED BY <2>5
<1> QED BY <1>1, <1>2

\* The walk w from h along nx passes the n nodes of set a, each once, and ends at t.
Over(w, a, nx, h, t, n) ==
    /\ Links(w, h, nx)
    /\ \A i \in 1..n : w[i] \in a
    /\ \A x \in a : \E i \in 1..n : w[i] = x
    /\ \A i, j \in 1..n : w[i] = w[j] => i = j
    /\ IF n = 0 THEN h = NoNode /\ t = NoNode ELSE t = w[n] /\ nx[t] = NoNode

\* A walk that passes nodes begins and ends at one of them.
LEMMA EndsOver ==
  ASSUME NEW w, NEW a \in SUBSET Nodes, NEW nx, NEW h, NEW t, NEW n \in Nat,
         NoNode \notin Nodes, Over(w, a, nx, h, t, n), n > 0
  PROVE  h \in a /\ t \in a /\ h # NoNode /\ t # NoNode /\ w[1] = h /\ w[n] = t
<1>1. 1 \in 1..n /\ n \in 1..n /\ n # 0
  OBVIOUS
<1>2. w[1] = h /\ w[n] = t
  BY <1>1 DEF Over, Links
<1>3. w[1] \in a /\ w[n] \in a
  BY <1>1 DEF Over
<1> QED BY <1>2, <1>3

\* The n places of v are those of w, or the ones of w from the second on.
Same(v, w, n) == \A i \in 1..n : w[i] = v[i]
Shifted(v, w, n) == \A i \in 1..n : v[i] = w[i + 1]

\* What the links are when e is the last node (MTQueue_addTail).
LastLinks(my, nx, a, e, t, h, k, n) ==
    /\ my[e] = NoNode
    /\ \A x \in a : x # t => my[x] = nx[x]
    /\ n > 0 => my[t] = e /\ k = h
    /\ n = 0 => k = e

IsBehind(w, v, a, nx, h, t, n, e, my, k) ==
    /\ a \in SUBSET Nodes /\ n \in Nat /\ NoNode \notin Nodes /\ e \in Nodes \ a
    /\ Over(v, a, nx, h, t, n) /\ LastLinks(my, nx, a, e, t, h, k, n) /\ Links(w, k, my)

LEMMA OverBehind ==
  ASSUME NEW w, NEW v, NEW a, NEW nx, NEW h, NEW t, NEW n, NEW e, NEW my, NEW k,
         IsBehind(w, v, a, nx, h, t, n, e, my, k)
  PROVE  Over(w, a \cup {e}, my, k, e, n + 1) /\ w[n + 1] = e /\ Same(v, w, n)
<1>1. /\ a \in SUBSET Nodes /\ n \in Nat /\ NoNode \notin Nodes /\ e \in Nodes \ a
      /\ Over(v, a, nx, h, t, n) /\ LastLinks(my, nx, a, e, t, h, k, n) /\ Links(w, k, my)
  BY DEF IsBehind
<1> USE <1>1
<1>2. /\ \A i \in 1..n : v[i] \in a
      /\ \A x \in a : \E i \in 1..n : v[i] = x
      /\ \A i, j \in 1..n : v[i] = v[j] => i = j
      /\ Links(v, h, nx)
  BY DEF Over
<1>3. n > 0 => h \in a /\ t \in a /\ h # NoNode /\ t # NoNode /\ v[1] = h /\ v[n] = t
  BY EndsOver
<1>4. w[1] = k
  BY DEF Links
<1>5. \A i \in 1..n : w[i] = v[i]
  <2>1. ASSUME n > 0 PROVE SameWay(v, w, 0, n)
    <3>1. w[1] = v[1 + 0]
      BY <1>3, <1>4, <2>1 DEF LastLinks
    <3>2. ASSUME NEW i \in Nat, 0 < i, i < n, w[i] = v[i + 0]
          PROVE  w[i + 1] = v[(i + 1) + 0]
      <4>1. i \in 1..n /\ n \in 1..n /\ i # n /\ w[i] = v[i]
        BY <2>1, <3>2
      <4>2. v[i] \in a /\ v[i] # t /\ v[i] # NoNode
        BY <1>2, <1>3, <2>1, <4>1
      <4>3. w[i + 1] = my[w[i]]
        BY <3>2, <4>1, <4>2, OneLink
      <4>4. v[i + 1] = nx[v[i]]
        BY <1>2, <3>2, <4>2, OneLink
      <4> QED BY <4>1, <4>2, <4>3, <4>4 DEF LastLinks
    <3> QED BY <3>1, <3>2 DEF SameWay
  <2>2. \A i \in 1..n : w[i] = v[i + 0]
    BY <2>1, SameWalk
  <2> QED BY <2>2
<1>6. w[n + 1] = e
  <2>1. CASE n = 0
    BY <1>4, <2>1 DEF LastLinks
  <2>2. CASE n > 0
    <3>1. w[n] = t /\ n \in 1..n
      BY <1>3, <1>5, <2>2
    <3>2. w[n + 1] = my[w[n]]
      BY <1>3, <2>2, <3>1, OneLink
    <3> QED BY <2>2, <3>1, <3>2 DEF LastLinks
  <2> QED BY <2>1, <2>2
<1>7. \A i \in 1..n + 1 : w[i] \in a \cup {e}
  BY <1>2, <1>5, <1>6
<1>8. \A x \in a \cup {e} : \E i \in 1..n + 1 : w[i] = x
  <2>1. ASSUME NEW x \in a PROVE \E i \in 1..n + 1 : w[i] = x
    BY <1>2, <1>5
  <2> QED BY <1>6, <2>1
<1>9. \A i, j \in 1..n + 1 : w[i] = w[j] => i = j
  BY <1>2, <1>5, <1>6
<1>10. e = w[n + 1] /\ my[e] = NoNode /\ n + 1 # 0
  BY <1>6 DEF LastLinks
<1>11. Over(w, a \cup {e}, my, k, e, n + 1)
  BY <1>7, <1>8, <1>9, <1>10 DEF Over
<1> QED BY <1>5, <1>6, <1>11 DEF Same

\* What the links are when e is the first node (MTQueue_addHead).
FirstLinks(my, nx, a, e, t, h, l, n) ==
    /\ my[e] = h
    /\ \A x \in a : my[x] = nx[x]
    /\ l = IF n = 0 THEN e ELSE t

IsBefore(w, v, a, nx, h, t, n, e, my, l) ==
    /\ a \in SUBSET Nodes /\ n \in Nat /\ NoNode \notin Nodes /\ e \in Nodes \ a
    /\ Over(v, a, nx, h, t, n) /\ FirstLinks(my, nx, a, e, t, h, l, n) /\ Links(w, e, my)

LEMMA OverBefore ==
  ASSUME NEW w, NEW v, NEW a, NEW nx, NEW h, NEW t, NEW n, NEW e, NEW my, NEW l,
         IsBefore(w, v, a, nx, h, t, n, e, my, l)
  PROVE  Over(w, a \cup {e}, my, e, l, n + 1) /\ w[1] = e /\ Shifted(v, w, n)
<1>1. /\ a \in SUBSET Nodes /\ n \in Nat /\ NoNode \notin Nodes /\ e \in Nodes \ a
      /\ Over(v, a, nx, h, t, n) /\ FirstLinks(my, nx, a, e, t, h, l, n) /\ Links(w, e, my)
  BY DEF IsBefore
<1> USE <1>1
<1>2. /\ \A i \in 1..n : v[i] \in a
      /\ \A x \in a : \E i \in 1..n : v[i] = x
      /\ \A i, j \in 1..n : v[i] = v[j] => i = j
      /\ Links(v, h, nx)
      /\ IF n = 0 THEN h = NoNode ELSE nx[t] = NoNode
  BY DEF Over
<1>3. n > 0 => h \in a /\ t \in a /\ h # NoNode /\ t # NoNode /\ v[1] = h /\ v[n] = t
  BY EndsOver
<1>4. w[1] = e /\ e # NoNode /\ w[1 + 1] = h
  <2>1. w[1] = e /\ e # NoNode
    BY DEF Links
  <2>2. w[1 + 1] = my[w[1]]
    BY <2>1, OneLink
  <2> QED BY <2>1, <2>2 DEF FirstLinks
<1>5. \A i \in 1..n : v[i] = w[i + 1]
  <2>1. ASSUME n > 0 PROVE SameWay(w, v, 1, n)
    <3>1. v[1] = w[1 + 1]
      BY <1>3, <1>4, <2>1
    <3>2. ASSUME NEW i \in Nat, 0 < i, i < n, v[i] = w[i + 1]
          PROVE  v[i + 1] = w[(i + 1) + 1]
      <4>1. i \in 1..n /\ i + 1 \in Nat /\ i + 1 > 0
        BY <3>2
      <4>2. v[i] \in a /\ v[i] # NoNode
        BY <1>2, <4>1
      <4>3. v[i + 1] = nx[v[i]]
        BY <1>2, <3>2, <4>2, OneLink
      <4>4. w[(i + 1) + 1] = my[w[i + 1]]
        BY <3>2, <4>1, <4>2, OneLink
      <4> QED BY <3>2, <4>2, <4>3, <4>4 DEF FirstLinks
    <3> QED BY <3>1, <3>2 DEF SameWay
  <2> QED BY <2>1, SameWalk
<1>6. \A i \in 1..n + 1 : i = 1 \/ (i - 1 \in 1..n /\ w[i] = v[i - 1])
  <2>1. ASSUME NEW i \in 1..n + 1, i # 1 PROVE i - 1 \in 1..n /\ w[i] = v[i - 1]
    <3>1. i - 1 \in 1..n /\ (i - 1) + 1 = i
      BY <2>1
    <3> QED BY <1>5, <3>1
  <2> QED BY <2>1
<1>7. \A i \in 1..n + 1 : w[i] \in a \cup {e}
  BY <1>2, <1>4, <1>6
<1>8. \A x \in a \cup {e} : \E i \in 1..n + 1 : w[i] = x
  <2>1. ASSUME NEW x \in a PROVE \E i \in 1..n + 1 : w[i] = x
    <3>1. PICK i \in 1..n : v[i] = x
      BY <1>2
    <3>2. i + 1 \in 1..n + 1 /\ w[i + 1] = x
      BY <1>5, <3>1
    <3> QED BY <3>2
  <2>2. 1 \in 1..n + 1
    OBVIOUS
  <2> QED BY <1>4, <2>1, <2>2
<1>9. \A i, j \in 1..n + 1 : w[i] = w[j] => i = j
  <2>1. \A i \in 1..n + 1 : i # 1 => w[i] # e
    BY <1>2, <1>6
  <2>2. ASSUME NEW i \in 1..n + 1, NEW j \in 1..n + 1, w[i] = w[j] PROVE i = j
    <3>1. CASE i = 1 \/ j = 1
      BY <1>4, <2>1, <2>2, <3>1
    <3>2. CASE i # 1 /\ j # 1
      <4>1. i - 1 \in 1..n /\ j - 1 \in 1..n /\ v[i - 1] = v[j - 1]
        BY <1>6, <2>2, <3>2
      <4>2. i - 1 = j - 1
        BY <1>2, <4>1
      <4> QED BY <4>2
    <3> QED BY <3>1, <3>2
  <2> QED BY <2>2
<1>10. l = w[n + 1] /\ my[l] = NoNode
  <2>1. CASE n = 0
    BY <1>2, <1>4, <2>1 DEF FirstLinks
  <2>2. CASE n > 0
    <3>1. n \in 1..n /\ n # 0
      BY <2>2
    <3> QED BY <1>2, <1>3, <1>5, <2>2, <3>1 DEF FirstLinks
  <2> QED BY <2>1, <2>2
<1>11. n + 1 # 0
  OBVIOUS
<1>12. Over(w, a \cup {e}, my, e, l, n + 1)
  BY <1>7, <1>8, <1>9, <1>10, <1>11 DEF Over
<1> QED BY <1>4, <1>5, <1>12 DEF Shifted

\* MTQueue_unlockedPop: what is left of m + 1 nodes without the first.
IsWithout(w, v, a, nx, h, t, n, m, k, l) ==
    /\ a \in SUBSET Nodes /\ m \in Nat /\ n = m + 1 /\ NoNode \notin Nodes
    /\ Over(v, a, nx, h, t, n) /\ Links(w, k, nx)
    /\ m = 0 => k = NoNode /\ l = NoNode
    /\ m > 0 => k = nx[h] /\ l = t

LEMMA OverWithout ==
  ASSUME NEW w, NEW v, NEW a, NEW nx, NEW h, NEW t, NEW n, NEW m, NEW k, NEW l,
         IsWithout(w, v, a, nx, h, t, n, m, k, l)
  PROVE  Over(w, a \ {h}, nx, k, l, m) /\ h \in a /\ Shifted(w, v, m)
<1>1. /\ a \in SUBSET Nodes /\ m \in Nat /\ n = m + 1 /\ NoNode \notin Nodes
      /\ Over(v, a, nx, h, t, n) /\ Links(w, k, nx)
      /\ m = 0 => k = NoNode /\ l = NoNode
      /\ m > 0 => k = nx[h] /\ l = t
  BY DEF IsWithout
<1> USE <1>1
<1>2. /\ \A i \in 1..n : v[i] \in a
      /\ \A x \in a : \E i \in 1..n : v[i] = x
      /\ \A i, j \in 1..n : v[i] = v[j] => i = j
      /\ Links(v, h, nx)
  BY DEF Over
<1>3. n \in Nat /\ n > 0 /\ n # 0 /\ Over(v, a, nx, h, t, n)
  OBVIOUS
<1>4. t = v[n] /\ nx[t] = NoNode
  BY DEF Over
<1>5. h \in a /\ t \in a /\ h # NoNode /\ t # NoNode /\ v[1] = h
  <2> QED BY <1>3, EndsOver
<1>6. \A i \in 1..m : i \in 1..n /\ i + 1 \in 1..n /\ i + 1 # 1
  OBVIOUS
<1>7. m > 0 => w[1] = v[1 + 1]
  <2>1. v[1 + 1] = nx[v[1]]
    BY <1>2, <1>5, OneLink
  <2> QED BY <1>5, <2>1 DEF Links
<1>8. \A i \in 1..m : w[i] = v[i + 1]
  <2>1. ASSUME m > 0 PROVE SameWay(v, w, 1, m)
    <3>1. ASSUME NEW i \in Nat, 0 < i, i < m, w[i] = v[i + 1]
          PROVE  w[i + 1] = v[(i + 1) + 1]
      <4>1. i \in 1..m /\ i + 1 \in Nat /\ i + 1 > 0
        BY <3>1
      <4>2. v[i + 1] \in a /\ v[i + 1] # NoNode
        BY <1>2, <1>6, <4>1
      <4>3. w[i + 1] = nx[w[i]]
        BY <3>1, <4>2, OneLink
      <4>4. v[(i + 1) + 1] = nx[v[i + 1]]
        BY <1>2, <4>1, <4>2, OneLink
      <4> QED BY <3>1, <4>3, <4>4
    <3> QED BY <1>7, <2>1, <3>1 DEF SameWay
  <2> QED BY <2>1, SameWalk
<1>9. \A i \in 1..m : w[i] \in a \ {h}
  <2>1. ASSUME NEW i \in 1..m PROVE w[i] \in a \ {h}
    <3>1. v[i + 1] \in a /\ v[i + 1] # v[1]
      <4>1. i + 1 \in 1..n /\ 1 \in 1..n /\ i + 1 # 1
        BY <1>6
      <4> QED BY <1>2, <4>1
    <3> QED BY <1>5, <1>8, <3>1
  <2> QED BY <2>1
<1>10. \A x \in a \ {h} : \E i \in 1..m : w[i] = x
  <2>1. ASSUME NEW x \in a \ {h} PROVE \E i \in 1..m : w[i] = x
    <3>1. PICK i \in 1..n : v[i] = x
      BY <1>2
    <3>2. i # 1
      BY <1>5, <2>1, <3>1
    <3>3. i - 1 \in 1..m /\ (i - 1) + 1 = i
      BY <3>2
    <3>4. w[i - 1] = x
      BY <1>8, <3>1, <3>3
    <3> QED BY <3>3, <3>4
  <2> QED BY <2>1
<1>11. \A i, j \in 1..m : w[i] = w[j] => i = j
  <2>1. ASSUME NEW i \in 1..m, NEW j \in 1..m, w[i] = w[j] PROVE i = j
    <3>1. i + 1 \in 1..n /\ j + 1 \in 1..n /\ v[i + 1] = v[j + 1]
      BY <1>6, <1>8, <2>1
    <3>2. i + 1 = j + 1
      <4> QED BY <1>2, <3>1
    <3> QED BY <3>2
  <2> QED BY <2>1
<1>12. IF m = 0 THEN k = NoNode /\ l = NoNode ELSE l = w[m] /\ nx[l] = NoNode
  <2>1. CASE m > 0
    <3>1. m \in 1..m
      BY <2>1
    <3> QED BY <1>4, <1>8, <2>1, <3>1
  <2> QED BY <2>1
<1>13. Over(w, a \ {h}, nx, k, l, m)
  BY <1>9, <1>10, <1>11, <1>12 DEF Over
<1> QED BY <1>5, <1>8, <1>13 DEF Shifted

-----------------------------------------------------------------------------
(* The contents of the queue of nodes.                                      *)

\* The contents, node by node, and what holds of the list in every state.
NodeData == [i \in 1..numElements |-> data[Q!NodeAt[i]]]

NodeTypes ==
    /\ allocated \in SUBSET Nodes
    /\ next \in [Nodes -> Nodes \cup {NoNode}]
    /\ data \in [Nodes -> Pushed]
    /\ head \in Nodes \cup {NoNode}
    /\ tail \in Nodes \cup {NoNode}
    /\ numElements \in Nat
    /\ Cardinality(allocated) = numElements
NodesInv == NodeTypes /\ Over(Q!NodeAt, allocated, next, head, tail, numElements)
PopperInv == type \in {"FIFO", "LIFO"} /\ quit \in BOOLEAN /\ popper \in [Poppers -> Q!Queue!PopperState]

LEMMA NodeLinks == Links(Q!NodeAt, head, next) /\ Links(Q!NodeAt, head, next)'
<1>1. Q!NodeAt = Walk(head, next) /\ Q!NodeAt' = Walk(head', next')
  BY DEF Q!NodeAt, Walk
<1>2. Links(Walk(head, next), head, next) /\ Links(Walk(head', next'), head', next')
  BY WalkLinks
<1>3. Links(Q!NodeAt', head', next')
  BY <1>1, <1>2
<1>4. Links(Q!NodeAt, head, next)' <=> Links(Q!NodeAt', head', next')
  BY DEF Links
<1> QED BY <1>1, <1>2, <1>3, <1>4

\* The list holds no more elements than there are addresses.
LEMMA ListIsBounded ==
  ASSUME NodeTypes
  PROVE  /\ IsFiniteSet(allocated) /\ numElements \in 0..Cardinality(Nodes)
         /\ \A e \in Nodes \ allocated :
              /\ numElements < Cardinality(Nodes)
              /\ Cardinality(allocated \cup {e}) = numElements + 1
         /\ \A e \in allocated : numElements > 0 /\ Cardinality(allocated \ {e}) = numElements - 1
<1>1. IsFiniteSet(Nodes) /\ allocated \subseteq Nodes /\ Cardinality(allocated) = numElements
  BY NodesAssumption DEF NodeTypes
<1>2. IsFiniteSet(allocated) /\ numElements <= Cardinality(Nodes) /\ Cardinality(Nodes) \in Nat
  BY <1>1, FS_Subset, FS_CardinalityType
<1>3. ASSUME NEW e \in Nodes \ allocated
      PROVE  numElements < Cardinality(Nodes) /\ Cardinality(allocated \cup {e}) = numElements + 1
  <2>1. Cardinality(allocated \cup {e}) = numElements + 1
    BY <1>1, <1>2, <1>3, FS_AddElement
  <2>2. allocated \cup {e} \subseteq Nodes
    BY <1>1, <1>3
  <2>3. Cardinality(allocated \cup {e}) <= Cardinality(Nodes)
    BY <1>1, <2>2, FS_Subset
  <2>4. numElements \in Nat
    BY DEF NodeTypes
  <2> QED BY <1>2, <2>1, <2>3, <2>4
<1>4. ASSUME NEW e \in allocated
      PROVE  numElements > 0 /\ Cardinality(allocated \ {e}) = numElements - 1
  <2>1. Cardinality(allocated \ {e}) = numElements - 1
    BY <1>1, <1>2, <1>4, FS_RemoveElement
  <2>2. Cardinality(allocated) # 0
    BY <1>2, <1>4, FS_EmptySet
  <2>3. numElements \in Nat
    BY DEF NodeTypes
  <2> QED BY <1>1, <2>1, <2>2, <2>3
<1>5. numElements \in Nat
  BY DEF NodeTypes
<1> QED BY <1>2, <1>3, <1>4, <1>5

\* Sequences place by place.
LEMMA PlacesAreASeq ==
  ASSUME NEW S, NEW n \in Nat, NEW f, NEW w, \A i \in 1..n : f[w[i]] \in S
  PROVE  [i \in 1..n |-> f[w[i]]] \in Seq(S) /\ Len([i \in 1..n |-> f[w[i]]]) = n
OBVIOUS

LEMMA AppendedIs ==
  ASSUME NEW S, NEW s \in Seq(S), NEW d \in S, NEW r \in Seq(S), Len(r) = Len(s) + 1,
         \A i \in 1..Len(s) : r[i] = s[i], r[Len(s) + 1] = d
  PROVE  r = Append(s, d)
<1>1. Append(s, d) \in Seq(S) /\ Len(Append(s, d)) = Len(r)
  BY AppendProperties
<1>2. \A i \in 1..Len(r) : r[i] = Append(s, d)[i]
  BY AppendProperties
<1> QED BY <1>1, <1>2, SeqEqual

LEMMA TailIs ==
  ASSUME NEW S, NEW s \in Seq(S), NEW r \in Seq(S), Len(s) = Len(r) + 1,
         \A i \in 1..Len(r) : r[i] = s[i + 1]
  PROVE  r = Tail(s) /\ s # <<>>
<1>1. s # <<>> /\ Len(r) \in Nat
  OBVIOUS
<1>2. Tail(s) \in Seq(S) /\ Len(Tail(s)) = Len(r)
  BY <1>1, HeadTailProperties
<1>3. \A i \in 1..Len(r) : r[i] = Tail(s)[i]
  BY <1>1, <1>2, HeadTailProperties
<1> QED BY <1>1, <1>2, <1>3, SeqEqual

LEMMA NodeDataIsASeq ==
  ASSUME NodesInv
  PROVE  NodeData \in Seq(Pushed) /\ Len(NodeData) = numElements
<1>1. \A i \in 1..numElements : data[Q!NodeAt[i]] \in Pushed
  BY DEF NodesInv, NodeTypes, Over
<1>2. numElements \in Nat
  BY DEF NodesInv, NodeTypes
<1> QED BY <1>1, <1>2, PlacesAreASeq DEF NodeData

\* A push takes a new node and links it behind the last one or before the first one.
Takes(e, d) ==
    /\ allocated' = allocated \cup {e}
    /\ data' = [data EXCEPT ![e] = d]
    /\ numElements' = numElements + 1
    /\ IF type = "FIFO" THEN Q!AddTail(e, d) ELSE Q!AddHead(e, d)

LEMMA AddTailKeeps ==
  ASSUME NodesInv, NEW e \in Nodes \ allocated, NEW d \in Pushed, Takes(e, d), type = "FIFO"
  PROVE  NodesInv' /\ NodeData' = Append(NodeData, d)
<1> DEFINE v == Q!NodeAt
           w == Q!NodeAt'
<1>1. /\ allocated' = allocated \cup {e} /\ data' = [data EXCEPT ![e] = d]
      /\ numElements' = numElements + 1
      /\ next' = (IF tail = NoNode THEN [next EXCEPT ![e] = NoNode]
                  ELSE [next EXCEPT ![e] = NoNode, ![tail] = e])
      /\ head' = (IF tail = NoNode THEN e ELSE head)
      /\ tail' = e
  BY DEF Takes, Q!AddTail
<1>2. /\ NodeTypes /\ Over(v, allocated, next, head, tail, numElements)
      /\ numElements \in Nat /\ allocated \in SUBSET Nodes /\ NoNode \notin Nodes
  BY NodesAssumption DEF NodesInv, NodeTypes
<1>3. Links(w, head', next')
  <2>1. Links(Q!NodeAt, head, next)' <=> Links(w, head', next')
    BY DEF Links
  <2> QED BY <2>1, NodeLinks
<1> HIDE DEF v, w
<1>4. numElements > 0 => head \in allocated /\ tail \in allocated
  BY <1>2, EndsOver
<1>5. numElements = 0 => tail = NoNode
  BY <1>2 DEF Over
<1>6. LastLinks(next', next, allocated, e, tail, head, head', numElements)
  <2>1. CASE numElements = 0
    BY <1>1, <1>2, <1>5, <2>1 DEF LastLinks, NodeTypes
  <2>2. CASE numElements > 0
    <3>1. tail \in Nodes /\ tail # NoNode /\ tail # e
      BY <1>2, <1>4, <2>2
    <3> QED BY <1>1, <1>2, <2>2, <3>1 DEF LastLinks, NodeTypes
  <2> QED BY <1>2, <2>1, <2>2
<1>7. /\ Over(w, allocated \cup {e}, next', head', e, numElements + 1)
      /\ w[numElements + 1] = e /\ Same(v, w, numElements)
  <2>1. e \in Nodes \ allocated
    OBVIOUS
  <2>2. IsBehind(w, v, allocated, next, head, tail, numElements, e, next', head')
    BY ONLY <1>2, <1>3, <1>6, <2>1 DEF IsBehind
  <2> QED BY ONLY <2>2, OverBehind
<1>8. NodeTypes'
  <2>1. Cardinality(allocated \cup {e}) = numElements + 1
    BY <1>2, ListIsBounded
  <2>2. next' \in [Nodes -> Nodes \cup {NoNode}] /\ head' \in Nodes \cup {NoNode}
    BY <1>1, <1>2, <1>4, <1>5 DEF NodeTypes
  <2>3. data' \in [Nodes -> Pushed]
    BY <1>1, <1>2 DEF NodeTypes
  <2> QED BY <1>1, <1>2, <2>1, <2>2, <2>3 DEF NodeTypes
<1>9. Over(w, allocated', next', head', tail', numElements')
  BY <1>1, <1>7
<1>10. Over(Q!NodeAt, allocated, next, head, tail, numElements)'
  <2>1. Over(Q!NodeAt, allocated, next, head, tail, numElements)'
          <=> Over(w, allocated', next', head', tail', numElements')
    BY DEF Over, Links, w
  <2> QED BY <1>9, <2>1
<1>11. NodesInv'
  BY <1>8, <1>10 DEF NodesInv
<1>12. NodeData \in Seq(Pushed) /\ Len(NodeData) = numElements
  BY NodeDataIsASeq
<1>13. \A i \in 1..numElements : data'[w[i]] = NodeData[i]
  <2>1. ASSUME NEW i \in 1..numElements PROVE data'[w[i]] = NodeData[i]
    <3>1. w[i] = v[i] /\ v[i] \in allocated
      BY <1>2, <1>7 DEF Over, Same
    <3>2. data'[v[i]] = data[v[i]]
      BY <1>1, <1>2, <3>1 DEF NodeTypes
    <3>3. NodeData[i] = data[v[i]]
      BY DEF NodeData, v
    <3> QED BY <3>1, <3>2, <3>3
  <2> QED BY <2>1
<1>14. data'[w[numElements + 1]] = d
  BY <1>1, <1>2, <1>7 DEF NodeTypes
<1>15. NodeData' = [i \in 1..numElements + 1 |-> data'[w[i]]]
  BY <1>1 DEF NodeData, w
<1>16. NodeData' \in Seq(Pushed) /\ Len(NodeData') = numElements + 1
  <2>1. \A i \in 1..numElements + 1 : data'[w[i]] \in Pushed
    BY <1>7, <1>8, <1>2 DEF Over, NodeTypes
  <2>2. numElements + 1 \in Nat
    BY <1>2
  <2> QED BY <1>15, <2>1, <2>2, PlacesAreASeq, SMTT(30)
<1>17. \A i \in 1..numElements : NodeData'[i] = NodeData[i]
  BY <1>2, <1>13, <1>15
<1>18. NodeData'[numElements + 1] = d
  BY <1>2, <1>14, <1>15
<1>19. NodeData' = Append(NodeData, d)
  BY <1>12, <1>16, <1>17, <1>18, AppendedIs
<1> QED BY <1>11, <1>19

LEMMA AddHeadKeeps ==
  ASSUME NodesInv, NEW e \in Nodes \ allocated, NEW d \in Pushed, Takes(e, d), type # "FIFO"
  PROVE  NodesInv' /\ NodeData' = <<d>> \o NodeData
<1> DEFINE v == Q!NodeAt
           w == Q!NodeAt'
<1>1. /\ allocated' = allocated \cup {e} /\ data' = [data EXCEPT ![e] = d]
      /\ numElements' = numElements + 1
      /\ next' = [next EXCEPT ![e] = head]
      /\ head' = e
      /\ tail' = (IF head = NoNode THEN e ELSE tail)
  BY DEF Takes, Q!AddHead
<1>2. /\ NodeTypes /\ Over(v, allocated, next, head, tail, numElements)
      /\ numElements \in Nat /\ allocated \in SUBSET Nodes /\ NoNode \notin Nodes
  BY NodesAssumption DEF NodesInv, NodeTypes
<1>3. Links(w, e, next')
  <2>1. Links(Q!NodeAt, head, next)' <=> Links(w, head', next')
    BY DEF Links
  <2> QED BY <1>1, <2>1, NodeLinks
<1> HIDE DEF v, w
<1>4. numElements > 0 => head \in allocated /\ tail \in allocated /\ head # NoNode
  BY <1>2, EndsOver
<1>5. numElements = 0 => head = NoNode
  BY <1>2 DEF Over
<1>6. FirstLinks(next', next, allocated, e, tail, head, tail', numElements)
  BY <1>1, <1>2, <1>4, <1>5 DEF FirstLinks, NodeTypes
<1>7. /\ Over(w, allocated \cup {e}, next', e, tail', numElements + 1)
      /\ w[1] = e /\ Shifted(v, w, numElements)
  <2>1. e \in Nodes \ allocated
    OBVIOUS
  <2>2. IsBefore(w, v, allocated, next, head, tail, numElements, e, next', tail')
    BY ONLY <1>2, <1>3, <1>6, <2>1 DEF IsBefore
  <2> QED BY ONLY <2>2, OverBefore
<1>8. NodeTypes'
  <2>1. Cardinality(allocated \cup {e}) = numElements + 1
    BY <1>2, ListIsBounded
  <2>2. next' \in [Nodes -> Nodes \cup {NoNode}] /\ tail' \in Nodes \cup {NoNode}
    BY <1>1, <1>2, <1>4, <1>5 DEF NodeTypes
  <2>3. data' \in [Nodes -> Pushed]
    BY <1>1, <1>2 DEF NodeTypes
  <2> QED BY <1>1, <1>2, <2>1, <2>2, <2>3 DEF NodeTypes
<1>9. Over(w, allocated', next', head', tail', numElements')
  BY <1>1, <1>7
<1>10. Over(Q!NodeAt, allocated, next, head, tail, numElements)'
  <2>1. Over(Q!NodeAt, allocated, next, head, tail, numElements)'
          <=> Over(w, allocated', next', head', tail', numElements')
    BY DEF Over, Links, w
  <2> QED BY <1>9, <2>1
<1>11. NodesInv'
  BY <1>8, <1>10 DEF NodesInv
<1>12. NodeData \in Seq(Pushed) /\ Len(NodeData) = numElements
  BY NodeDataIsASeq
<1>13. \A i \in 1..numElements : data'[w[i + 1]] = NodeData[i]
  <2>1. ASSUME NEW i \in 1..numElements PROVE data'[w[i + 1]] = NodeData[i]
    <3>1. w[i + 1] = v[i] /\ v[i] \in allocated
      BY <1>2, <1>7 DEF Over, Shifted
    <3>2. data'[v[i]] = data[v[i]]
      BY <1>1, <1>2, <3>1 DEF NodeTypes
    <3>3. NodeData[i] = data[v[i]]
      BY DEF NodeData, v
    <3> QED BY <3>1, <3>2, <3>3
  <2> QED BY <2>1
<1>14. data'[w[1]] = d
  BY <1>1, <1>2, <1>7 DEF NodeTypes
<1>15. NodeData' = [i \in 1..numElements + 1 |-> data'[w[i]]]
  BY <1>1 DEF NodeData, w
<1>16. \A i \in 1..numElements + 1 :
          data'[w[i]] = IF i = 1 THEN d ELSE NodeData[i - 1]
  <2>1. ASSUME NEW i \in 1..numElements + 1, i # 1 PROVE data'[w[i]] = NodeData[i - 1]
    <3>1. i - 1 \in 1..numElements /\ (i - 1) + 1 = i
      BY <1>2, <2>1
    <3> QED BY <1>13, <3>1
  <2> QED BY <1>14, <2>1
<1>17. NodeData' = <<d>> \o NodeData
  BY <1>2, <1>12, <1>15, <1>16
<1> QED BY <1>11, <1>17

LEMMA PopKeeps ==
  ASSUME NodesInv, Q!UnlockedPop
  PROVE  /\ NodesInv'
         /\ NodeData' = IF NodeData = <<>> THEN <<>> ELSE Tail(NodeData)
<1> DEFINE v == Q!NodeAt
           w == Q!NodeAt'
           m == numElements - 1
<1>1. /\ NodeTypes /\ Over(v, allocated, next, head, tail, numElements)
      /\ numElements \in Nat /\ allocated \in SUBSET Nodes /\ NoNode \notin Nodes
  BY NodesAssumption DEF NodesInv, NodeTypes
<1>2. NodeData \in Seq(Pushed) /\ Len(NodeData) = numElements
  BY NodeDataIsASeq
<1>3. Links(w, head', next')
  <2>1. Links(Q!NodeAt, head, next)' <=> Links(w, head', next')
    BY DEF Links
  <2> QED BY <2>1, NodeLinks
<1>4. CASE numElements > 0
  <2>1. /\ allocated' = allocated \ {head} /\ numElements' = m
        /\ head' = (IF numElements = 1 THEN NoNode ELSE next[head])
        /\ tail' = (IF numElements = 1 THEN NoNode ELSE tail)
        /\ next' = next /\ data' = data
    BY <1>4 DEF Q!UnlockedPop
  <2>2. m \in Nat /\ numElements = m + 1 /\ Over(v, allocated, next, head, tail, m + 1)
    BY <1>1, <1>4
  <2>3. (m = 0 => head' = NoNode /\ tail' = NoNode) /\ (m > 0 => head' = next[head] /\ tail' = tail)
    BY <2>1, <2>2
  <2> HIDE DEF v, w, m
  <2>4. Over(w, allocated \ {head}, next, head', tail', m) /\ head \in allocated
        /\ Shifted(w, v, m)
    <3>1. Links(w, head', next)
      BY <1>3, <2>1
    <3>2. allocated \in SUBSET Nodes /\ NoNode \notin Nodes
      BY <1>1
    <3>3. IsWithout(w, v, allocated, next, head, tail, numElements, m, head', tail')
      BY ONLY <1>1, <2>2, <2>3, <3>1, <3>2 DEF IsWithout
    <3> QED BY ONLY <3>3, OverWithout
  <2>5. NodeTypes'
    <3>1. Cardinality(allocated \ {head}) = m
      BY <1>1, <2>2, <2>4, ListIsBounded
    <3>2. tail \in Nodes \cup {NoNode} /\ head \in Nodes /\ next[head] \in Nodes \cup {NoNode}
      BY <1>1, <2>4 DEF NodeTypes
    <3> QED BY <1>1, <2>1, <2>2, <3>1, <3>2 DEF NodeTypes
  <2>6. Over(Q!NodeAt, allocated, next, head, tail, numElements)'
    <3>1. Over(w, allocated', next', head', tail', numElements')
      BY <2>1, <2>4
    <3>2. Over(Q!NodeAt, allocated, next, head, tail, numElements)'
            <=> Over(w, allocated', next', head', tail', numElements')
      BY DEF Over, Links, w
    <3> QED BY <3>1, <3>2
  <2>7. \A i \in 1..m : data'[w[i]] = NodeData[i + 1]
    BY <2>1, <2>2, <2>4 DEF NodeData, v, Shifted
  <2>8. NodeData' = [i \in 1..m |-> data'[w[i]]]
    BY <2>1 DEF NodeData, w
  <2>9. NodeData' \in Seq(Pushed) /\ Len(NodeData') = m
    <3>1. data' \in [Nodes -> Pushed] /\ allocated \subseteq Nodes
      BY <1>1, <2>1 DEF NodeTypes
    <3>2. \A i \in 1..m : w[i] \in Nodes
      BY <2>4, <3>1 DEF Over
    <3>3. \A i \in 1..m : data'[w[i]] \in Pushed
      BY <3>1, <3>2
    <3> QED BY <2>2, <2>8, <3>3, PlacesAreASeq
  <2>10. \A i \in 1..m : NodeData'[i] = NodeData[i + 1]
    BY <2>7, <2>8
  <2>11. NodeData' = Tail(NodeData) /\ NodeData # <<>>
    BY <1>2, <2>2, <2>9, <2>10, TailIs
  <2> QED BY <2>5, <2>6, <2>11 DEF NodesInv
<1>5. CASE numElements = 0
  <2>1. UNCHANGED Q!list
    BY <1>5 DEF Q!UnlockedPop
  <2>2. UNCHANGED <<allocated, next, data, head, tail, numElements>>
    BY <2>1 DEF Q!list
  <2>3. Q!NodeAt' = Q!NodeAt
    BY <2>2 DEF Q!NodeAt
  <2>4. NodesInv'
    BY <2>2, <2>3 DEF NodesInv, NodeTypes, Over, Links
  <2>5. NodeData' = NodeData /\ NodeData = <<>>
    BY <1>2, <1>5, <2>2, <2>3 DEF NodeData
  <2> QED BY <2>4, <2>5
<1> QED BY <1>1, <1>4, <1>5

LEMMA ListStays ==
  ASSUME NodesInv, UNCHANGED Q!list
  PROVE  NodesInv' /\ NodeData' = NodeData
<1>1. UNCHANGED <<allocated, next, data, head, tail, numElements>>
  BY DEF Q!list
<1>2. Q!NodeAt' = Q!NodeAt
  BY <1>1 DEF Q!NodeAt
<1> QED BY <1>1, <1>2 DEF NodesInv, NodeTypes, Over, Links, NodeData

\* The instance's own name for the number of elements of a set.
LEMMA SameCardinality == \A s : Q!Cardinality(s) = Cardinality(s)
BY DEF Q!Cardinality, Cardinality

LEMMA PushIsAPush ==
  ASSUME NodesInv, PopperInv, UNCHANGED type, NEW t \in Poppers, NEW d \in Pushed, Q!Push(t, d)
  PROVE  NodesInv' /\ PopperInv' /\ Q!Queue!Push(t, d)
<1>1. PICK e \in Nodes \ allocated : Takes(e, d)
  BY DEF Q!Push, Takes
<1>2. NodesInv' /\ NodeData' = IF type = "FIFO" THEN Append(NodeData, d) ELSE <<d>> \o NodeData
  BY <1>1, AddTailKeeps, AddHeadKeeps
<1>3. Len(NodeData) < Cardinality(Nodes)
  <2>1. Len(NodeData) = numElements
    BY NodeDataIsASeq
  <2>2. numElements < Cardinality(Nodes)
    BY <1>1, ListIsBounded DEF NodesInv
  <2> QED BY <2>1, <2>2
<1>4. popper[t] = "outside" /\ Q!Queue!SignalPush /\ UNCHANGED quit
  BY DEF Q!Push
<1>5. Q!Queue!Push(t, d)
  <2>1. Q!Queue!Push(t, d) <=>
          /\ popper[t] = "outside" /\ Len(NodeData) < Cardinality(Nodes)
          /\ NodeData' = (IF type = "FIFO" THEN Append(NodeData, d) ELSE <<d>> \o NodeData)
          /\ Q!Queue!SignalPush /\ UNCHANGED quit
    <3>1. Q!Queue!Added(d) = IF type = "FIFO" THEN Append(NodeData, d) ELSE <<d>> \o NodeData
      BY Zenon DEF Q!Queue!Added, NodeData
    <3>2. Q!Queue!Push(t, d) <=>
            /\ popper[t] = "outside" /\ Len(NodeData) < Cardinality(Nodes)
            /\ NodeData' = Q!Queue!Added(d)
            /\ Q!Queue!SignalPush /\ UNCHANGED quit
      BY SameCardinality, Zenon DEF Q!Queue!Push, NodeData
    <3> QED BY ONLY <3>1, <3>2
  <2> QED BY <1>2, <1>3, <1>4, <2>1
<1>6. PopperInv'
  BY <1>4 DEF PopperInv, Q!Queue!SignalPush, Q!Queue!PopperState
<1> QED BY <1>2, <1>5, <1>6

\* A step that keeps the list or takes its first node is what it is on its contents.
Popped == NodeData' = IF NodeData = <<>> THEN <<>> ELSE Tail(NodeData)

LEMMA UnlockedPopIs == Q!Queue!UnlockedPop <=> Popped
BY Zenon DEF Q!Queue!UnlockedPop, Popped, NodeData

LEMMA EmptyIs ==
  ASSUME NodesInv
  PROVE  numElements \in Nat /\ (NodeData = <<>> <=> numElements = 0)
<1>1. NodeData \in Seq(Pushed) /\ Len(NodeData) = numElements
  BY NodeDataIsASeq
<1> QED BY <1>1

LEMMA StepIsAStep ==
  ASSUME NodesInv, PopperInv, Q!Next
  PROVE  NodesInv' /\ PopperInv' /\ Q!Queue!Next
<1>1. Q!NodesStep /\ UNCHANGED type
  BY DEF Q!Next
<1> DEFINE Goal == NodesInv' /\ PopperInv' /\ Q!Queue!QueueStep
<1> HIDE DEF Goal
<1>2. ASSUME NEW t \in Poppers, NEW d \in Pushed, Q!Push(t, d) PROVE Goal
  <2>1. NodesInv' /\ PopperInv' /\ Q!Queue!Push(t, d)
    BY <1>1, <1>2, PushIsAPush
  <2>2. Q!Queue!QueueStep
    BY <2>1 DEF Q!Queue!QueueStep
  <2> QED BY <2>1, <2>2 DEF Goal
<1>3. ASSUME NEW t \in Poppers, Q!Pop(t) PROVE Goal
  <2>1. NodesInv' /\ Popped
    BY <1>3, PopKeeps DEF Q!Pop, Popped
  <2>2. Q!Queue!Pop(t)
    BY <1>3, <2>1, UnlockedPopIs DEF Q!Pop, Q!Queue!Pop
  <2>3. PopperInv'
    BY <1>1, <1>3 DEF Q!Pop, PopperInv
  <2>4. Q!Queue!QueueStep
    BY <2>2 DEF Q!Queue!QueueStep
  <2> QED BY <2>1, <2>3, <2>4 DEF Goal
<1>4. ASSUME NEW t \in Poppers, Q!PopWaitNow(t) PROVE Goal
  <2>1. NodesInv' /\ (IF quit THEN NodeData' = NodeData ELSE Popped)
    <3>1. CASE quit
      BY <1>4, <3>1, ListStays DEF Q!PopWaitNow
    <3>2. CASE ~quit
      BY <1>4, <3>2, PopKeeps DEF Q!PopWaitNow, Popped
    <3> QED BY <3>1, <3>2
  <2>2. popper[t] = "outside" /\ (quit \/ numElements > 0) /\ UNCHANGED <<quit, popper>>
    BY <1>4 DEF Q!PopWaitNow
  <2>3. quit \/ NodeData # <<>>
    BY <2>2, EmptyIs
  <2>4. Q!Queue!PopWaitNow(t)
    <3>1. Q!Queue!PopWaitNow(t) <=>
            /\ popper[t] = "outside" /\ (quit \/ NodeData # <<>>)
            /\ (IF quit THEN UNCHANGED NodeData ELSE Q!Queue!UnlockedPop)
            /\ UNCHANGED <<quit, popper>>
      BY Zenon DEF Q!Queue!PopWaitNow, NodeData
    <3> QED BY <2>1, <2>2, <2>3, <3>1, UnlockedPopIs
  <2>5. PopperInv'
    BY <1>1, <2>2 DEF PopperInv
  <2>6. Q!Queue!QueueStep
    BY <2>4 DEF Q!Queue!QueueStep
  <2> QED BY <2>1, <2>5, <2>6 DEF Goal
<1>5. ASSUME NEW t \in Poppers, Q!PopWaitSleep(t) PROVE Goal
  <2>1. NodesInv' /\ UNCHANGED NodeData
    BY <1>5, ListStays DEF Q!PopWaitSleep
  <2>2. NodeData = <<>>
    BY <1>5, EmptyIs DEF Q!PopWaitSleep
  <2>3. Q!Queue!PopWaitSleep(t)
    <3>1. Q!Queue!PopWaitSleep(t) <=>
            /\ popper[t] = "outside" /\ ~quit /\ NodeData = <<>>
            /\ popper' = [popper EXCEPT ![t] = "asleep"] /\ UNCHANGED NodeData /\ UNCHANGED quit
      BY Zenon DEF Q!Queue!PopWaitSleep, NodeData
    <3> QED BY <1>5, <2>1, <2>2, <3>1 DEF Q!PopWaitSleep
  <2>4. PopperInv'
    BY <1>1, <1>5 DEF PopperInv, Q!PopWaitSleep, Q!Queue!PopperState
  <2>5. Q!Queue!QueueStep
    BY <2>3 DEF Q!Queue!QueueStep
  <2> QED BY <2>1, <2>4, <2>5 DEF Goal
<1>6. ASSUME NEW t \in Poppers, Q!PopWaitResume(t) PROVE Goal
  <2>1. NodesInv' /\ Popped
    BY <1>6, PopKeeps DEF Q!PopWaitResume, Popped
  <2>2. Q!Queue!PopWaitResume(t)
    BY <1>6, <2>1, UnlockedPopIs DEF Q!PopWaitResume, Q!Queue!PopWaitResume
  <2>3. PopperInv'
    BY <1>1, <1>6 DEF PopperInv, Q!PopWaitResume, Q!Queue!PopperState
  <2>4. Q!Queue!QueueStep
    BY <2>2 DEF Q!Queue!QueueStep
  <2> QED BY <2>1, <2>3, <2>4 DEF Goal
<1>7. ASSUME NEW t \in Poppers, Q!WakeUnsignalled(t) PROVE Goal
  <2>1. NodesInv' /\ UNCHANGED NodeData
    BY <1>7, ListStays DEF Q!WakeUnsignalled
  <2>2. Q!Queue!WakeUnsignalled(t)
    <3>1. Q!Queue!WakeUnsignalled(t) <=>
            /\ popper[t] = "asleep" /\ popper' = [popper EXCEPT ![t] = "woken"]
            /\ UNCHANGED NodeData /\ UNCHANGED quit
      BY Zenon DEF Q!Queue!WakeUnsignalled, NodeData
    <3> QED BY <1>7, <2>1, <3>1 DEF Q!WakeUnsignalled
  <2>3. PopperInv'
    BY <1>1, <1>7 DEF PopperInv, Q!WakeUnsignalled, Q!Queue!PopperState
  <2>4. Q!Queue!QueueStep
    BY <2>2 DEF Q!Queue!QueueStep
  <2> QED BY <2>1, <2>3, <2>4 DEF Goal
<1>8. ASSUME NEW status \in BOOLEAN, Q!SetQuit(status) PROVE Goal
  <2>1. NodesInv' /\ UNCHANGED NodeData
    BY <1>8, ListStays DEF Q!SetQuit
  <2>2. Q!Queue!SetQuit(status)
    <3>1. Q!Queue!SetQuit(status) <=>
            quit' = status /\ UNCHANGED NodeData /\ UNCHANGED popper
      BY Zenon DEF Q!Queue!SetQuit, NodeData
    <3> QED BY <1>8, <2>1, <3>1 DEF Q!SetQuit
  <2>3. PopperInv'
    BY <1>1, <1>8 DEF PopperInv, Q!SetQuit
  <2>4. Q!Queue!QueueStep
    BY <2>2 DEF Q!Queue!QueueStep
  <2> QED BY <2>1, <2>3, <2>4 DEF Goal
<1>9. ASSUME Q!WakeUpAll PROVE Goal
  <2>1. NodesInv' /\ UNCHANGED NodeData
    BY <1>9, ListStays DEF Q!WakeUpAll
  <2>2. popper' = [t \in Poppers |-> IF t \in Q!Queue!Asleep THEN "woken" ELSE popper[t]]
    BY <1>9 DEF Q!WakeUpAll, Q!Queue!Asleep
  <2>3. Q!Queue!WakeUpAll
    <3>1. Q!Queue!WakeUpAll <=>
            /\ popper' = [t \in Poppers |-> IF t \in Q!Queue!Asleep THEN "woken" ELSE popper[t]]
            /\ UNCHANGED NodeData /\ UNCHANGED quit
      BY Zenon DEF Q!Queue!WakeUpAll, NodeData
    <3> QED BY <1>9, <2>1, <2>2, <3>1 DEF Q!WakeUpAll
  <2>4. PopperInv'
    BY <1>1, <1>9 DEF PopperInv, Q!WakeUpAll, Q!Queue!PopperState
  <2>5. Q!Queue!QueueStep
    BY <2>3 DEF Q!Queue!QueueStep
  <2> QED BY <2>1, <2>4, <2>5 DEF Goal
<1>10. Goal
  BY <1>1, <1>2, <1>3, <1>4, <1>5, <1>6, <1>7, <1>8, <1>9 DEF Q!NodesStep
<1> QED BY <1>1, <1>10 DEF Goal, Q!Queue!Next

LEMMA NodesStart ==
  ASSUME Q!Init
  PROVE  NodesInv /\ PopperInv /\ Q!Queue!Init
<1>1. /\ allocated = {} /\ next = [n \in Nodes |-> NoNode] /\ head = NoNode /\ tail = NoNode
      /\ numElements = 0 /\ type \in {"FIFO", "LIFO"} /\ quit = FALSE
      /\ popper = [t \in Poppers |-> "outside"]
      /\ data \in {[n \in Nodes |-> d] : d \in Pushed}
  BY DEF Q!Init
<1>2. data \in [Nodes -> Pushed]
  BY <1>1
<1>3. NodeTypes
  BY <1>1, <1>2, FS_EmptySet DEF NodeTypes
<1>4. NodesInv
  BY <1>1, <1>3, NodeLinks DEF NodesInv, Over
<1>5. NodeData = <<>>
  BY <1>1, <1>4, EmptyIs
<1>6. Q!Queue!Init
  <2>1. Q!Queue!Init <=>
          /\ type \in {"FIFO", "LIFO"} /\ NodeData = <<>> /\ quit = FALSE
          /\ popper = [t \in Poppers |-> "outside"]
    BY Zenon DEF Q!Queue!Init, NodeData
  <2> QED BY <1>1, <1>5, <2>1
<1>7. PopperInv
  BY <1>1 DEF PopperInv, Q!Queue!PopperState
<1> QED BY <1>4, <1>6, <1>7

LEMMA NothingHappens ==
  ASSUME NodesInv, PopperInv, UNCHANGED Q!vars
  PROVE  NodesInv' /\ PopperInv' /\ UNCHANGED Q!Queue!queueVars
<1>1. UNCHANGED Q!list /\ UNCHANGED <<type, quit, popper>>
  BY DEF Q!vars, Q!list
<1>2. NodesInv' /\ UNCHANGED NodeData
  BY <1>1, ListStays
<1>3. UNCHANGED Q!Queue!queueVars <=> UNCHANGED <<type, NodeData, quit, popper>>
  BY Zenon DEF Q!Queue!queueVars, NodeData
<1> QED BY <1>1, <1>2, <1>3 DEF PopperInv

\* In every state of the list the conjuncts of NodesAreAQueue hold.
LEMMA ListIsWellFormed ==
  ASSUME NodesInv, PopperInv
  PROVE  Q!TypeOK /\ Q!ListWellFormed
<1>1. Q!TypeOK
  <2>1. numElements \in 0..Cardinality(Nodes)
    BY ListIsBounded DEF NodesInv
  <2>2. allocated \subseteq Nodes
    BY DEF NodesInv, NodeTypes
  <2> QED BY <2>1, <2>2, SameCardinality DEF NodesInv, NodeTypes, PopperInv, Q!TypeOK
<1>2. {Q!NodeAt[i] : i \in 1..numElements} = allocated
  BY DEF NodesInv, Over
<1>3. Cardinality(allocated) = numElements
  BY DEF NodesInv, NodeTypes
<1>4. IF numElements = 0 THEN head = NoNode /\ tail = NoNode
      ELSE tail = Q!NodeAt[numElements] /\ next[tail] = NoNode
  BY DEF NodesInv, Over
<1>5. Q!ListWellFormed
  BY <1>2, <1>3, <1>4, SameCardinality, Zenon DEF Q!ListWellFormed
<1> QED BY <1>1, <1>5

(* The nodes of MTQueue are its queue: no pointer dangles, and whatever the  *)
(* threads call, what the nodes hold from head on is the sequence that       *)
(* module MTQueue pushes to and pops from, for any addresses and data.       *)
THEOREM NodesStayAQueue == Q!Spec => NodesAreAQueue
<1>1. Q!Init => (NodesInv /\ PopperInv) /\ Q!Queue!Init
  BY NodesStart
<1>2. (NodesInv /\ PopperInv) /\ [Q!Next]_(Q!vars)
        => (NodesInv /\ PopperInv)' /\ [Q!Queue!Next]_(Q!Queue!queueVars)
  BY StepIsAStep, NothingHappens
<1>3. NodesInv /\ PopperInv => Q!TypeOK /\ Q!ListWellFormed
  BY ListIsWellFormed
<1>4. Q!Spec => [](NodesInv /\ PopperInv)
  BY <1>1, <1>2, PTL DEF Q!Spec
<1>5. Q!Spec => Q!Queue!Spec
  BY <1>1, <1>2, <1>4, PTL DEF Q!Spec, Q!Queue!Spec
<1>6. Q!Spec => [](Q!TypeOK /\ Q!ListWellFormed)
  BY <1>3, <1>4, PTL
<1> QED BY <1>5, <1>6 DEF NodesAreAQueue, Q!ImplementsQueue

-----------------------------------------------------------------------------
(* Rectangles.                                                              *)

IntPoints == [x : Int, y : Int]
IntSizes  == [width : Int, height : Int]
IntRects  == [upperLeft : IntPoints, size : IntSizes]

LEMMA RectsAreInts == Points \subseteq IntPoints /\ Sizes \subseteq IntSizes /\ Rects \subseteq IntRects
<1>1. Xs \subseteq Int /\ Ys \subseteq Int /\ Sides \subseteq Int
  BY GeometryAssumption
<1>2. Points \subseteq IntPoints
  BY <1>1 DEF Points, Point, IntPoints
<1>3. Sizes \subseteq IntSizes
  BY <1>1 DEF Sizes, Size, IntSizes
<1> QED BY <1>2, <1>3 DEF Rects, IntRects

\* A point is inside when its coordinates are.
InsideAt(r, x, y) == /\ r.upperLeft.x <= x /\ x < r.upperLeft.x + r.size.width
                     /\ r.upperLeft.y <= y /\ y < r.upperLeft.y + r.size.height

LEMMA InsideIs ==
  ASSUME NEW r \in IntRects, NEW p \in IntPoints
  PROVE  Base2DRect_isPointInside(r, p) <=> InsideAt(r, p.x, p.y)
BY DEF Base2DRect_isPointInside, Base2DSize_isPointInside, InsideAt, Point, IntRects,
       IntPoints, IntSizes

\* A rectangle is valid when it has a point, its own corner if it has one at all.
LEMMA ValidHasPoints ==
  ASSUME NEW r \in IntRects
  PROVE  /\ Base2DRect_isValid(r) => InsideAt(r, r.upperLeft.x, r.upperLeft.y)
         /\ \A x, y \in Int : InsideAt(r, x, y) => Base2DRect_isValid(r)
BY DEF Base2DRect_isValid, Base2DSize_isValid, InsideAt, IntRects, IntPoints, IntSizes

LEMMA PointsAre ==
  ASSUME NEW r \in IntRects
  PROVE  /\ PointsOf(r) = {p \in Around : InsideAt(r, p.x, p.y)}
         /\ r.upperLeft \in Around => (Base2DRect_isValid(r) <=> PointsOf(r) # {})
<1>1. Around \subseteq IntPoints
  BY GeometryAssumption DEF Around, Point, IntPoints
<1>2. PointsOf(r) = {p \in Around : InsideAt(r, p.x, p.y)}
  BY <1>1, InsideIs DEF PointsOf
<1>3. \A p \in Around : p.x \in Int /\ p.y \in Int
  BY <1>1 DEF IntPoints
<1>4. ASSUME r.upperLeft \in Around
      PROVE  Base2DRect_isValid(r) <=> PointsOf(r) # {}
  BY <1>2, <1>3, <1>4, ValidHasPoints
<1> QED BY <1>2, <1>4

\* r is what a and b have in common.
Common(r, a, b) ==
    /\ r \in IntRects
    /\ \A x, y \in Int : InsideAt(r, x, y) <=> InsideAt(a, x, y) /\ InsideAt(b, x, y)
    /\ r.upperLeft.x \in {a.upperLeft.x, b.upperLeft.x}
    /\ r.upperLeft.y \in {a.upperLeft.y, b.upperLeft.y}

LEMMA AndIs ==
  ASSUME NEW a \in IntRects, NEW b \in IntRects
  PROVE  Common(Base2DRect_and_I(a, b), a, b)
<1> DEFINE r == Base2DRect_and_I(a, b)
<1>1. CASE Base2DRect_isValid(a) /\ Base2DRect_isValid(b)
  <2>1. r = Spanned(BASE_MATH_MAX(a.upperLeft.x, b.upperLeft.x),
                    BASE_MATH_MAX(a.upperLeft.y, b.upperLeft.y),
                    BASE_MATH_MIN(Right(a), Right(b)), BASE_MATH_MIN(Bottom(a), Bottom(b)))
    BY <1>1 DEF Base2DRect_and_I
  <2> HIDE DEF r
  <2>2. Common(r, a, b)
    BY <2>1 DEF Common, Spanned, Rect, Point, Size, BASE_MATH_MAX, BASE_MATH_MIN, Right, Bottom,
                InsideAt, IntRects, IntPoints, IntSizes
  <2> QED BY <2>2 DEF r
<1>2. CASE ~(Base2DRect_isValid(a) /\ Base2DRect_isValid(b))
  <2>1. r \in {a, b} /\ ~Base2DRect_isValid(r)
    BY <1>2 DEF Base2DRect_and_I
  <2> HIDE DEF r
  <2>2. \A x, y \in Int : ~InsideAt(r, x, y) /\ ~(InsideAt(a, x, y) /\ InsideAt(b, x, y))
    BY <1>2, <2>1, ValidHasPoints
  <2>3. Common(r, a, b)
    BY <2>1, <2>2 DEF Common
  <2> QED BY <2>3 DEF r
<1> QED BY <1>1, <1>2

\* The rectangle of a size at the origin.
AtOrigin(size) == [upperLeft |-> Point(0, 0), size |-> size]

LEMMA ClipIs ==
  ASSUME NEW a \in IntRects, NEW s \in IntSizes
  PROVE  Common(Base2DRect_clipToSize_I(a, s), a, AtOrigin(s)) /\ AtOrigin(s) \in IntRects
<1> DEFINE r == Base2DRect_clipToSize_I(a, s)
           o == AtOrigin(s)
<1>1. o \in IntRects /\ o.upperLeft.x = 0 /\ o.upperLeft.y = 0 /\ o.size = s
  BY DEF AtOrigin, Point, IntRects, IntPoints
<1>2. CASE Base2DRect_isValid(a) /\ Base2DSize_isValid(s)
  <2>1. r = Spanned(BASE_MATH_MAX(a.upperLeft.x, 0), BASE_MATH_MAX(a.upperLeft.y, 0),
                    BASE_MATH_MIN(Right(a), s.width), BASE_MATH_MIN(Bottom(a), s.height))
    BY <1>2 DEF Base2DRect_clipToSize_I
  <2> HIDE DEF r, o
  <2>2. Common(r, a, o)
    BY <1>1, <2>1 DEF Common, Spanned, Rect, Point, Size, BASE_MATH_MAX, BASE_MATH_MIN, Right,
                      Bottom, InsideAt, IntRects, IntPoints, IntSizes
  <2> QED BY <1>1, <2>2 DEF r, o
<1>3. CASE ~(Base2DRect_isValid(a) /\ Base2DSize_isValid(s))
  <2>1. r = [a EXCEPT !.size = Size(0, 0)]
    BY <1>3 DEF Base2DRect_clipToSize_I, Base2DRect_setInvalid
  <2> HIDE DEF r
  <2>2. r \in IntRects /\ r.upperLeft = a.upperLeft /\ ~Base2DRect_isValid(r)
    BY <2>1 DEF Size, IntRects, IntSizes, Base2DRect_isValid, Base2DSize_isValid
  <2>3. Base2DRect_isValid(o) <=> Base2DSize_isValid(s)
    BY <1>1 DEF Base2DRect_isValid
  <2> HIDE DEF o
  <2>4. \A x, y \in Int : ~InsideAt(r, x, y) /\ ~(InsideAt(a, x, y) /\ InsideAt(o, x, y))
    BY <1>1, <1>3, <2>2, <2>3, ValidHasPoints
  <2>5. Common(r, a, o)
    BY <1>1, <2>2, <2>4 DEF Common
  <2> QED BY <1>1, <2>5 DEF r, o
<1> QED BY <1>2, <1>3

\* What is left of two rectangles, whose corners are among those that are looked at.
LEMMA IntersectionIs ==
  ASSUME NEW r \in IntRects, NEW a \in IntRects, NEW b \in IntRects,
         \A x, y \in Int : InsideAt(r, x, y) <=> InsideAt(a, x, y) /\ InsideAt(b, x, y),
         r.upperLeft \in Around
  PROVE  /\ PointsOf(r) = PointsOf(a) \cap PointsOf(b)
         /\ Base2DRect_isValid(r) <=> PointsOf(r) # {}
<1>1. \A p \in Around : p.x \in Int /\ p.y \in Int
  <2>1. Coordinates \subseteq Int
    BY GeometryAssumption
  <2>2. \A x, y \in Coordinates : Point(x, y).x = x /\ Point(x, y).y = y
    BY DEF Point
  <2>3. ASSUME NEW p \in Around PROVE p.x \in Int /\ p.y \in Int
    BY ONLY <2>1, <2>2, <2>3 DEF Around
  <2> QED BY <2>3
<1>2. PointsOf(r) = PointsOf(a) \cap PointsOf(b)
  BY <1>1, PointsAre
<1> QED BY <1>2, PointsAre

\* r is the smallest rectangle around those of a set.
IsAround(r, set) ==
    /\ r \in IntRects
    /\ Base2DRect_isValid(r) <=> set # {}
    /\ \A q \in set : Base2DRect_isRectInside(r, q)
    /\ \A big \in IntRects :
         set # {} /\ (\A q \in set : Base2DRect_isRectInside(big, q))
           => Base2DRect_isRectInside(big, r)

LEMMA OrIs ==
  ASSUME NEW a \in IntRects, NEW b \in IntRects
  PROVE  IsAround(Base2DRect_or_I(a, b), {q \in {a, b} : Base2DRect_isValid(q)})
<1> DEFINE r == Base2DRect_or_I(a, b)
           both == {q \in {a, b} : Base2DRect_isValid(q)}
<1>1. CASE Base2DRect_isValid(a) /\ Base2DRect_isValid(b)
  <2>1. r = Spanned(BASE_MATH_MIN(a.upperLeft.x, b.upperLeft.x),
                    BASE_MATH_MIN(a.upperLeft.y, b.upperLeft.y),
                    BASE_MATH_MAX(Right(a), Right(b)), BASE_MATH_MAX(Bottom(a), Bottom(b)))
    BY <1>1 DEF Base2DRect_or_I
  <2> HIDE DEF r
  <2>2. /\ r \in IntRects /\ Base2DRect_isValid(r)
        /\ Base2DRect_isRectInside(r, a) /\ Base2DRect_isRectInside(r, b)
    BY <1>1, <2>1 DEF Spanned, Rect, Point, Size, BASE_MATH_MAX, BASE_MATH_MIN, Right, Bottom,
         Base2DRect_isValid, Base2DSize_isValid, Base2DRect_isRectInside, IntRects, IntPoints,
         IntSizes
  <2>3. ASSUME NEW big \in IntRects, Base2DRect_isRectInside(big, a),
               Base2DRect_isRectInside(big, b)
        PROVE  Base2DRect_isRectInside(big, r)
    BY <2>1, <2>3 DEF Spanned, Rect, Point, Size, BASE_MATH_MAX, BASE_MATH_MIN, Right, Bottom,
         Base2DRect_isRectInside, IntRects, IntPoints, IntSizes
  <2>4. both = {a, b}
    BY <1>1
  <2> HIDE DEF both
  <2>5. IsAround(r, both)
    BY <2>2, <2>3, <2>4 DEF IsAround
  <2> QED BY <2>5 DEF r, both
<1>2. CASE ~(Base2DRect_isValid(a) /\ Base2DRect_isValid(b))
  <2>1. /\ r \in {a, b}
        /\ both = IF Base2DRect_isValid(r) THEN {r} ELSE {}
    BY <1>2 DEF Base2DRect_or_I
  <2> HIDE DEF r, both
  <2>2. Base2DRect_isRectInside(r, r)
    BY <2>1 DEF Base2DRect_isRectInside, Right, Bottom, IntRects, IntPoints, IntSizes
  <2>3. IsAround(r, both)
    BY <2>1, <2>2 DEF IsAround
  <2> QED BY <2>3 DEF r, both
<1> QED BY <1>1, <1>2

\* In place or with a result of its own.
Alike(a, b) == a = b \/ (~Base2DRect_isValid(a) /\ ~Base2DRect_isValid(b))

LEMMA InPlaceIsAlike ==
  ASSUME NEW a \in IntRects, NEW b \in IntRects, NEW s \in IntSizes
  PROVE  /\ Alike(Base2DRect_and_I(a, b), Base2DRect_and(b, a, b))
         /\ Alike(Base2DRect_or_I(a, b), Base2DRect_or(b, a, b))
         /\ Alike(Base2DRect_clipToSize_I(a, s), Base2DRect_clipToSize(a, a, s))
<1>1. Alike(Base2DRect_and_I(a, b), Base2DRect_and(b, a, b))
  <2>1. CASE Base2DRect_isValid(a) /\ Base2DRect_isValid(b)
    BY <2>1 DEF Alike, Base2DRect_and_I, Base2DRect_and
  <2>2. CASE ~(Base2DRect_isValid(a) /\ Base2DRect_isValid(b))
    <3>1. Base2DRect_and_I(a, b) \in {a, b} /\ ~Base2DRect_isValid(Base2DRect_and_I(a, b))
      BY <2>2 DEF Base2DRect_and_I
    <3>2. Base2DRect_and(b, a, b) = [b EXCEPT !.size = Size(0, 0)]
      BY <2>2 DEF Base2DRect_and, Base2DRect_setInvalid
    <3>3. ~Base2DRect_isValid(Base2DRect_and(b, a, b))
      BY <3>2 DEF Size, IntRects, Base2DRect_isValid, Base2DSize_isValid
    <3> QED BY <3>1, <3>3 DEF Alike
  <2> QED BY <2>1, <2>2
<1>2. Alike(Base2DRect_or_I(a, b), Base2DRect_or(b, a, b))
  <2>1. CASE Base2DRect_isValid(a) /\ Base2DRect_isValid(b)
    BY <2>1 DEF Alike, Base2DRect_or_I, Base2DRect_or
  <2>2. CASE ~Base2DRect_isValid(a) /\ ~Base2DRect_isValid(b)
    BY <2>2 DEF Alike, Base2DRect_or_I, Base2DRect_or
  <2>3. CASE Base2DRect_isValid(a) /\ ~Base2DRect_isValid(b)
    BY <2>3 DEF Alike, Base2DRect_or_I, Base2DRect_or
  <2>4. CASE ~Base2DRect_isValid(a) /\ Base2DRect_isValid(b)
    BY <2>4 DEF Alike, Base2DRect_or_I, Base2DRect_or
  <2> QED BY <2>1, <2>2, <2>3, <2>4
<1>3. Alike(Base2DRect_clipToSize_I(a, s), Base2DRect_clipToSize(a, a, s))
  <2>1. CASE Base2DRect_isValid(a) /\ Base2DSize_isValid(s)
    <3>1. /\ BASE_MATH_MAX(a.upperLeft.x, 0) = BASE_MATH_MAX(0, a.upperLeft.x)
          /\ BASE_MATH_MAX(a.upperLeft.y, 0) = BASE_MATH_MAX(0, a.upperLeft.y)
      BY DEF BASE_MATH_MAX, IntRects, IntPoints
    <3> QED BY <2>1, <3>1 DEF Alike, Base2DRect_clipToSize_I, Base2DRect_clipToSize
  <2>2. CASE ~(Base2DRect_isValid(a) /\ Base2DSize_isValid(s))
    BY <2>2 DEF Alike, Base2DRect_clipToSize_I, Base2DRect_clipToSize
  <2> QED BY <2>1, <2>2
<1> QED BY <1>1, <1>2, <1>3

\* Sizes are rectangles at the origin.
SizeLikeRect(s, b) ==
    /\ Base2DSize_isRectInside(s, b) <=> Base2DRect_isRectInside(AtOrigin(s), b)
    /\ Base2DSize_isSizeInside(s, b.size)
          <=> Base2DRect_isRectInside(AtOrigin(s), AtOrigin(b.size))
    /\ Base2DSize_isValid(s) /\ Base2DRect_isValid(b) =>
         /\ AtOrigin(Base2DSize_and(s, b.size))
               = Base2DRect_and_I(AtOrigin(s), AtOrigin(b.size))
         /\ AtOrigin(Base2DSize_or(s, b.size))
               = Base2DRect_or_I(AtOrigin(s), AtOrigin(b.size))
         /\ Base2DPoint_clipToSize(b.upperLeft, s)
               = Base2DPoint_clipToRect(b.upperLeft, AtOrigin(s))

LEMMA SizesAreLikeRects ==
  ASSUME NEW b \in IntRects, NEW s \in IntSizes
  PROVE  SizeLikeRect(s, b)
<1> DEFINE o == AtOrigin(s)
           q == AtOrigin(b.size)
<1>1. /\ o.upperLeft = Point(0, 0) /\ o.upperLeft.x = 0 /\ o.upperLeft.y = 0 /\ o.size = s
      /\ q.upperLeft = Point(0, 0) /\ q.upperLeft.x = 0 /\ q.upperLeft.y = 0 /\ q.size = b.size
      /\ b.size \in IntSizes /\ b.upperLeft \in IntPoints
  BY DEF AtOrigin, Point, IntRects
<1>2. /\ s.width \in Int /\ s.height \in Int /\ b.size.width \in Int /\ b.size.height \in Int
      /\ b.upperLeft.x \in Int /\ b.upperLeft.y \in Int
  BY <1>1 DEF IntSizes, IntPoints
<1>3. /\ Right(o) = s.width /\ Bottom(o) = s.height
      /\ Right(q) = b.size.width /\ Bottom(q) = b.size.height
  BY <1>1, <1>2 DEF Right, Bottom
<1>4. Base2DRect_isValid(o) <=> Base2DSize_isValid(s)
  BY <1>1 DEF Base2DRect_isValid
<1>5. Base2DRect_isValid(q) <=> Base2DRect_isValid(b)
  BY <1>1 DEF Base2DRect_isValid
<1>6. AtOrigin(Size(BASE_MATH_MIN(s.width, b.size.width), BASE_MATH_MIN(s.height, b.size.height)))
        = Spanned(0, 0, BASE_MATH_MIN(s.width, b.size.width), BASE_MATH_MIN(s.height, b.size.height))
  BY <1>2 DEF AtOrigin, Spanned, Rect, Size, BASE_MATH_MIN
<1>7. AtOrigin(Size(BASE_MATH_MAX(s.width, b.size.width), BASE_MATH_MAX(s.height, b.size.height)))
        = Spanned(0, 0, BASE_MATH_MAX(s.width, b.size.width), BASE_MATH_MAX(s.height, b.size.height))
  BY <1>2 DEF AtOrigin, Spanned, Rect, Size, BASE_MATH_MAX
<1> HIDE DEF o, q
<1>8. BASE_MATH_MIN(0, 0) = 0 /\ BASE_MATH_MAX(0, 0) = 0
  BY DEF BASE_MATH_MIN, BASE_MATH_MAX
<1>9. Base2DSize_isRectInside(s, b) <=> Base2DRect_isRectInside(o, b)
  BY <1>1, <1>3 DEF Base2DSize_isRectInside, Base2DRect_isRectInside
<1>10. Base2DSize_isSizeInside(s, b.size) <=> Base2DRect_isRectInside(o, q)
  BY <1>1, <1>3 DEF Base2DSize_isSizeInside, Base2DRect_isRectInside
<1>11. ASSUME Base2DSize_isValid(s), Base2DRect_isValid(b)
       PROVE  /\ AtOrigin(Base2DSize_and(s, b.size)) = Base2DRect_and_I(o, q)
              /\ AtOrigin(Base2DSize_or(s, b.size)) = Base2DRect_or_I(o, q)
  BY <1>1, <1>3, <1>4, <1>5, <1>6, <1>7, <1>8, <1>11
     DEF Base2DSize_and, Base2DSize_or, Base2DRect_and_I, Base2DRect_or_I
<1>12. Base2DPoint_clipToSize(b.upperLeft, s) = Base2DPoint_clipToRect(b.upperLeft, o)
  BY <1>1, <1>3 DEF Base2DPoint_clipToSize, Base2DPoint_clipToRect
<1> QED BY <1>9, <1>10, <1>11, <1>12 DEF SizeLikeRect, o, q

\* The nearest coordinate of an interval.
Distance(n) == IF n < 0 THEN -n ELSE n
Nearest(p, low, end) == BASE_MATH_MIN(BASE_MATH_MAX(p, low), end - 1)

LEMMA NearestIs ==
  ASSUME NEW p \in Int, NEW low \in Int, NEW end \in Int, low < end
  PROVE  /\ Nearest(p, low, end) \in Int
         /\ low <= Nearest(p, low, end) /\ Nearest(p, low, end) < end
         /\ \A x \in Int : low <= x /\ x < end => Distance(Nearest(p, low, end) - p) <= Distance(x - p)
BY DEF Nearest, Distance, BASE_MATH_MIN, BASE_MATH_MAX

Far(p, q) == Distance(p.x - q.x) + Distance(p.y - q.y)

LEMMA ClipPointIs ==
  ASSUME NEW r \in IntRects, NEW p \in IntPoints, Base2DRect_isValid(r)
  PROVE  /\ Base2DPoint_clipToRect(p, r) \in IntPoints
         /\ Base2DRect_isPointInside(r, Base2DPoint_clipToRect(p, r))
         /\ \A x \in PointsOf(r) : Far(Base2DPoint_clipToRect(p, r), p) <= Far(x, p)
         /\ Base2DRect_isPointInside(r, Base2DRect_getCenterPoint(r))
<1>1. /\ r.upperLeft.x \in Int /\ r.upperLeft.y \in Int /\ p.x \in Int /\ p.y \in Int
      /\ Right(r) \in Int /\ Bottom(r) \in Int /\ r.size.width \in Int /\ r.size.height \in Int
      /\ r.upperLeft.x < Right(r) /\ r.upperLeft.y < Bottom(r)
      /\ r.size.width > 0 /\ r.size.height > 0
  BY DEF IntRects, IntPoints, IntSizes, Right, Bottom, Base2DRect_isValid, Base2DSize_isValid
<1> DEFINE a == Nearest(p.x, r.upperLeft.x, Right(r))
           b == Nearest(p.y, r.upperLeft.y, Bottom(r))
           c == Base2DPoint_clipToRect(p, r)
<1>2. c = Point(a, b)
  BY DEF Base2DPoint_clipToRect, Nearest
<1>3. /\ a \in Int /\ r.upperLeft.x <= a /\ a < Right(r)
      /\ \A x \in Int : r.upperLeft.x <= x /\ x < Right(r) => Distance(a - p.x) <= Distance(x - p.x)
  BY <1>1, NearestIs
<1>4. /\ b \in Int /\ r.upperLeft.y <= b /\ b < Bottom(r)
      /\ \A x \in Int : r.upperLeft.y <= x /\ x < Bottom(r) => Distance(b - p.y) <= Distance(x - p.y)
  BY <1>1, NearestIs
<1> HIDE DEF a, b, c
<1>5. c \in IntPoints /\ c.x = a /\ c.y = b
  BY <1>2, <1>3, <1>4 DEF Point, IntPoints
<1>6. InsideAt(r, c.x, c.y)
  BY <1>3, <1>4, <1>5 DEF InsideAt, Right, Bottom
<1>7. ASSUME NEW q \in PointsOf(r) PROVE Far(c, p) <= Far(q, p)
  <2>1. q.x \in Int /\ q.y \in Int /\ InsideAt(r, q.x, q.y)
    <3>1. q \in Around /\ InsideAt(r, q.x, q.y)
      BY <1>7, PointsAre
    <3> QED BY <3>1, GeometryAssumption DEF Around, Point
  <2>2. Distance(a - p.x) <= Distance(q.x - p.x)
    BY <1>3, <2>1 DEF InsideAt, Right
  <2>3. Distance(b - p.y) <= Distance(q.y - p.y)
    BY <1>4, <2>1 DEF InsideAt, Bottom
  <2>4. /\ Distance(a - p.x) \in Int /\ Distance(q.x - p.x) \in Int
        /\ Distance(b - p.y) \in Int /\ Distance(q.y - p.y) \in Int
    BY <1>1, <1>3, <1>4, <2>1 DEF Distance
  <2> QED BY <1>5, <2>2, <2>3, <2>4 DEF Far
<1>8. Base2DRect_isPointInside(r, Base2DRect_getCenterPoint(r))
  <2> DEFINE m == Base2DRect_getCenterPoint(r)
  <2>1. m = Point(r.upperLeft.x + r.size.width \div 2, r.upperLeft.y + r.size.height \div 2)
    BY <1>1 DEF Base2DRect_getCenterPoint, BASE_MATH_CENTER
  <2> HIDE DEF m
  <2>2. m \in IntPoints /\ InsideAt(r, m.x, m.y)
    BY <1>1, <2>1 DEF Point, IntPoints, InsideAt
  <2> QED BY <2>2, InsideIs DEF m
<1>9. Base2DRect_isPointInside(r, c)
  BY <1>5, <1>6, InsideIs
<1> QED BY <1>5, <1>7, <1>8, <1>9 DEF c

\* A side that is scaled down does not grow, and one that is scaled up does not shrink.
LEMMA RoundIs ==
  ASSUME NEW a \in Nat, NEW s \in Scales
  PROVE  /\ BASE_MATH_ROUND(a, s) \in Nat
         /\ s[1] <= s[2] => BASE_MATH_ROUND(a, s) <= a
         /\ s[1] > s[2] => BASE_MATH_ROUND(a, s) >= a
<1> DEFINE n == s[1]  d == s[2]  e == a * n
           q == (2 * e + d) \div (2 * d)
<1>1. n \in Nat \ {0} /\ d \in Nat \ {0}
  BY GeometryAssumption
<1> HIDE DEF n, d
<1>2. e \in Nat /\ a * d \in Nat
  BY <1>1
<1>3. BASE_MATH_ROUND(a, s) = q
  BY <1>2 DEF BASE_MATH_ROUND, n, d
<1>4. (n <= d => e <= a * d) /\ (n > d => e >= a * d)
  <2>1. ASSUME n <= d PROVE e <= a * d
    <3>1. d - n \in Nat /\ d = n + (d - n)
      BY <1>1, <2>1
    <3>2. PICK k \in Nat : d = n + k
      BY <3>1
    <3>3. a * d = a * n + a * k /\ a * k \in Nat
      BY <1>1, <3>2
    <3> QED BY <1>2, <3>3
  <2>2. ASSUME n > d PROVE e >= a * d
    <3>1. n - d \in Nat /\ n = d + (n - d)
      BY <1>1, <2>2
    <3>2. PICK k \in Nat : n = d + k
      BY <3>1
    <3>3. a * n = a * d + a * k /\ a * k \in Nat
      BY <1>1, <3>2
    <3> QED BY <1>2, <3>3
  <2> QED BY <2>1, <2>2
<1> HIDE DEF e
<1>5. 2 * e + d \in Nat /\ 2 * d \in Nat \ {0}
  BY <1>1, <1>2
<1>6. q \in Nat /\ (2 * e + d) % (2 * d) \in 0 .. 2 * d - 1
      /\ 2 * e + d = (2 * d) * q + ((2 * e + d) % (2 * d))
  BY <1>5, Divided
<1> HIDE DEF q
<1>7. (2 * d) * q = 2 * (d * q) /\ d * q \in Nat
  BY <1>1, <1>6
<1>8. 2 * (d * q) <= 2 * e + d /\ 2 * e + d < 2 * (d * q) + 2 * d
  BY <1>1, <1>2, <1>6, <1>7
<1>9. a * d = d * a
  BY <1>1
<1>10. ASSUME n <= d, q > a PROVE FALSE
  <2>1. q - (a + 1) \in Nat /\ q = (a + 1) + (q - (a + 1))
    BY <1>6, <1>10
  <2>2. PICK k \in Nat : q = (a + 1) + k
    BY <2>1
  <2>3. d * q = d * a + d + d * k /\ d * k \in Nat
    BY <1>1, <2>2
  <2> QED BY <1>1, <1>2, <1>4, <1>7, <1>8, <1>9, <1>10, <2>3
<1>11. ASSUME n > d, q < a PROVE FALSE
  <2>1. a - (q + 1) \in Nat /\ a = (q + 1) + (a - (q + 1))
    BY <1>6, <1>11
  <2>2. PICK k \in Nat : a = (q + 1) + k
    BY <2>1
  <2>3. d * a = d * q + d + d * k /\ d * k \in Nat
    BY <1>1, <1>6, <2>2
  <2> QED BY <1>1, <1>2, <1>4, <1>7, <1>8, <1>9, <1>11, <2>3
<1>12. (n <= d => q <= a) /\ (n > d => q >= a)
  BY <1>6, <1>10, <1>11
<1> QED BY <1>3, <1>6, <1>12 DEF n, d

\* Where a side is when it has become w long around its centre.
Centred(x, from, w) == x + BASE_MATH_CENTER(from - w)

LEMMA CentreStays ==
  ASSUME NEW x \in Int, NEW from \in Nat, NEW w \in Nat
  PROVE  /\ Centred(x, from, w) \in Int
         /\ w <= from => x <= Centred(x, from, w) /\ Centred(x, from, w) + w <= x + from
         /\ w >= from => Centred(x, from, w) <= x /\ x + from <= Centred(x, from, w) + w
         /\ (x + BASE_MATH_CENTER(from)) - (Centred(x, from, w) + BASE_MATH_CENTER(w)) \in -1 .. 1
<1>1. CASE w <= from
  <2>1. Centred(x, from, w) = x + (from - w) \div 2
    BY <1>1 DEF Centred, BASE_MATH_CENTER
  <2> QED BY <1>1, <2>1 DEF BASE_MATH_CENTER
<1>2. CASE w > from
  <2>1. Centred(x, from, w) = x - (w - from) \div 2
    BY <1>2 DEF Centred, BASE_MATH_CENTER
  <2> QED BY <1>2, <2>1 DEF BASE_MATH_CENTER
<1> QED BY <1>1, <1>2

\* A rectangle with a side and a coordinate changed.
Has(r, x, y, w, h) == r = [upperLeft |-> Point(x, y), size |-> Size(w, h)]
WithWidth(r, x, w) == [r EXCEPT !.size.width = w, !.upperLeft.x = x]
WithHeight(r, y, h) == [r EXCEPT !.size.height = h, !.upperLeft.y = y]

LEMMA Widened ==
  ASSUME NEW r, NEW x, NEW y, NEW w, NEW h, NEW k, NEW u, Has(r, x, y, w, h)
  PROVE  WithWidth(r, k, u) = [upperLeft |-> Point(k, y), size |-> Size(u, h)]
<1> DEFINE q == [r EXCEPT !.size.width = u]
<1>1. WithWidth(r, k, u) = [q EXCEPT !.upperLeft.x = k]
  BY DEF WithWidth
<1>2. q = [upperLeft |-> Point(x, y), size |-> Size(u, h)]
  BY DEF Size, Has
<1> HIDE DEF q
<1>3. [q EXCEPT !.upperLeft.x = k] = [upperLeft |-> Point(k, y), size |-> Size(u, h)]
  BY <1>2 DEF Point
<1> QED BY <1>1, <1>3, Zenon

LEMMA Heightened ==
  ASSUME NEW r, NEW x, NEW y, NEW w, NEW h, NEW k, NEW u, Has(r, x, y, w, h)
  PROVE  WithHeight(r, k, u) = [upperLeft |-> Point(x, k), size |-> Size(w, u)]
<1> DEFINE q == [r EXCEPT !.size.height = u]
<1>1. WithHeight(r, k, u) = [q EXCEPT !.upperLeft.y = k]
  BY DEF WithHeight
<1>2. q = [upperLeft |-> Point(x, y), size |-> Size(w, u)]
  BY DEF Size, Has
<1> HIDE DEF q
<1>3. [q EXCEPT !.upperLeft.y = k] = [upperLeft |-> Point(x, k), size |-> Size(w, u)]
  BY <1>2 DEF Point
<1> QED BY <1>1, <1>3, Zenon

\* b and what becomes of it around its centre.
Scaled(r, b, s) ==
    LET c == Base2DRect_getCenterPoint(b)
        d == Base2DRect_getCenterPoint(r)
    IN  /\ IF s[1] <= s[2] THEN Base2DRect_isRectInside(b, r) ELSE Base2DRect_isRectInside(r, b)
        /\ c.x - d.x \in -1 .. 1 /\ c.y - d.y \in -1 .. 1
ByWidthAndHeight(r, b, s) ==
    /\ \/ r = Base2DRect_scaleCenterHeight(Base2DRect_scaleCenterWidth(b, s), s)
       \/ ~Base2DRect_isValid(Base2DRect_scaleCenterWidth(b, s))
    /\ Base2DRect_scale(b, s).size = r.size

LEMMA ScaleIs ==
  ASSUME NEW b \in IntRects, NEW s \in Scales
  PROVE  /\ Base2DRect_scaleCenter(b, s) \in IntRects
         /\ Base2DRect_isValid(b) => Scaled(Base2DRect_scaleCenter(b, s), b, s)
         /\ ByWidthAndHeight(Base2DRect_scaleCenter(b, s), b, s)
<1> DEFINE r == Base2DRect_scaleCenter(b, s)
           m == Base2DRect_scaleCenterWidth(b, s)
<1>1. CASE ~Base2DRect_isValid(b)
  BY <1>1 DEF Base2DRect_scaleCenter, Base2DRect_scaleCenterWidth, ByWidthAndHeight,
              Base2DRect_scale
<1>2. CASE Base2DRect_isValid(b)
  <2> DEFINE x == b.upperLeft.x  y == b.upperLeft.y  w == b.size.width  h == b.size.height
             u == BASE_MATH_ROUND(w, s)  v == BASE_MATH_ROUND(h, s)
  <2>1. /\ x \in Int /\ y \in Int /\ w \in Nat \ {0} /\ h \in Nat \ {0}
        /\ b = [upperLeft |-> Point(x, y), size |-> Size(w, h)] /\ Base2DSize_isValid(b.size)
    BY <1>2 DEF IntRects, IntPoints, IntSizes, Base2DRect_isValid, Base2DSize_isValid, Point, Size
  <2>2. r = [upperLeft |-> Point(Centred(x, w, u), Centred(y, h, v)), size |-> Size(u, v)]
    BY <1>2, <2>1 DEF Base2DRect_scaleCenter, Base2DSize_scale, Size, Centred
  <2>3. m = [upperLeft |-> Point(Centred(x, w, u), y), size |-> Size(u, h)]
    <3> DEFINE k == x + BASE_MATH_CENTER(w - u)
    <3>1. m = WithWidth(b, k, u)
      BY <1>2, <2>1 DEF Base2DRect_scaleCenterWidth, WithWidth
    <3>2. Has(b, x, y, w, h)
      BY <2>1, Zenon DEF Has
    <3> HIDE DEF k, u, m, x, y, w, h
    <3>3. WithWidth(b, k, u) = [upperLeft |-> Point(k, y), size |-> Size(u, h)]
      BY ONLY <3>2, Widened
    <3> QED BY <3>1, <3>3, Zenon DEF k, Centred
  <2>4. Base2DRect_scale(b, s).size = Size(u, v)
    BY <1>2, <2>1 DEF Base2DRect_scale, Base2DSize_scale, Size
  <2>5. /\ u \in Nat /\ (s[1] <= s[2] => u <= w) /\ (s[1] > s[2] => u >= w)
        /\ v \in Nat /\ (s[1] <= s[2] => v <= h) /\ (s[1] > s[2] => v >= h)
    BY <2>1, RoundIs
  <2>6. Base2DRect_isValid(m) => r = Base2DRect_scaleCenterHeight(m, s)
    <3>1. m.size.height = h /\ m.upperLeft.y = y
      BY <2>3 DEF Point, Size
    <3> DEFINE k == y + BASE_MATH_CENTER(h - v)
    <3>2. Base2DRect_isValid(m) => Base2DRect_scaleCenterHeight(m, s) =
             WithHeight(m, k, v)
      <4> HIDE DEF m, y, h
      <4> QED BY <3>1 DEF Base2DRect_scaleCenterHeight, WithHeight
    <3> DEFINE j == Centred(x, w, u)
    <3> HIDE DEF k, u, v, j, m, r, x, y, w, h
    <3>3. Has(m, j, y, u, h)
      BY <2>3, Zenon DEF Has, j
    <3>4. WithHeight(m, k, v) = [upperLeft |-> Point(j, k), size |-> Size(u, v)]
      BY ONLY <3>3, Heightened
    <3>5. r = [upperLeft |-> Point(j, k), size |-> Size(u, v)]
      BY <2>2 DEF j, k, Centred
    <3> QED BY <3>2, <3>4, <3>5, Zenon
  <2>7. /\ Centred(x, w, u) \in Int /\ Centred(y, h, v) \in Int
        /\ u <= w => x <= Centred(x, w, u) /\ Centred(x, w, u) + u <= x + w
        /\ u >= w => Centred(x, w, u) <= x /\ x + w <= Centred(x, w, u) + u
        /\ (x + BASE_MATH_CENTER(w)) - (Centred(x, w, u) + BASE_MATH_CENTER(u)) \in -1 .. 1
        /\ v <= h => y <= Centred(y, h, v) /\ Centred(y, h, v) + v <= y + h
        /\ v >= h => Centred(y, h, v) <= y /\ y + h <= Centred(y, h, v) + v
        /\ (y + BASE_MATH_CENTER(h)) - (Centred(y, h, v) + BASE_MATH_CENTER(v)) \in -1 .. 1
    BY <2>1, <2>5, CentreStays
  <2>8. s[1] \in Nat /\ s[2] \in Nat
    BY GeometryAssumption
  <2> HIDE DEF u, v, r, m
  <2>9. /\ r.upperLeft.x = Centred(x, w, u) /\ r.upperLeft.y = Centred(y, h, v)
        /\ r.size.width = u /\ r.size.height = v /\ r.size = Size(u, v)
    BY <2>2 DEF Point, Size
  <2>10. r \in IntRects
    BY <2>2, <2>5, <2>7 DEF Point, Size, IntRects, IntPoints, IntSizes
  <2> HIDE DEF x, y, w, h
  <2>11. /\ b.upperLeft.x = x /\ b.upperLeft.y = y /\ b.size.width = w /\ b.size.height = h
    BY DEF x, y, w, h
  <2>12. /\ Right(r) = Centred(x, w, u) + u /\ Bottom(r) = Centred(y, h, v) + v
         /\ Right(b) = x + w /\ Bottom(b) = y + h
    BY <2>9, <2>11 DEF Right, Bottom
  <2>13. IF s[1] <= s[2] THEN Base2DRect_isRectInside(b, r) ELSE Base2DRect_isRectInside(r, b)
    BY <2>5, <2>7, <2>8, <2>9, <2>11, <2>12 DEF Base2DRect_isRectInside
  <2>14. /\ Base2DRect_getCenterPoint(b).x = x + BASE_MATH_CENTER(w)
         /\ Base2DRect_getCenterPoint(b).y = y + BASE_MATH_CENTER(h)
         /\ Base2DRect_getCenterPoint(r).x = Centred(x, w, u) + BASE_MATH_CENTER(u)
         /\ Base2DRect_getCenterPoint(r).y = Centred(y, h, v) + BASE_MATH_CENTER(v)
    BY <2>9, <2>11 DEF Base2DRect_getCenterPoint, Point
  <2>15. Scaled(r, b, s)
    BY <2>7, <2>13, <2>14 DEF Scaled
  <2>16. ByWidthAndHeight(r, b, s)
    BY <2>4, <2>6, <2>9 DEF ByWidthAndHeight, m
  <2> QED BY <2>10, <2>15, <2>16 DEF r
<1> QED BY <1>1, <1>2

-----------------------------------------------------------------------------
\* What was called last, and what has come of it.
GeometryInv ==
    /\ rect \in IntRects
    /\ \/ gcall.name = "none"
       \/ gcall.name = "set" /\ rect \in Rects
       \/ /\ gcall.name \in {"and", "or"} /\ gcall.before \in Rects /\ gcall.other \in Rects
          /\ rect = IF gcall.name = "and" THEN Base2DRect_and_I(gcall.before, gcall.other)
                    ELSE Base2DRect_or_I(gcall.before, gcall.other)
       \/ /\ gcall.name = "clip" /\ gcall.before \in Rects /\ gcall.other \in Sizes
          /\ rect = Base2DRect_clipToSize_I(gcall.before, gcall.other)
       \/ /\ gcall.name = "point" /\ gcall.before \in Rects /\ gcall.other \in Points
          /\ Base2DRect_isValid(gcall.before)
          /\ rect.upperLeft = Base2DPoint_clipToRect(gcall.other, gcall.before)
       \/ /\ gcall.name = "scale" /\ gcall.before \in Rects /\ gcall.other \in Scales
          /\ rect = Base2DRect_scaleCenter(gcall.before, gcall.other)

LEMMA CornersAreAround ==
  ASSUME NEW a \in Rects, NEW r \in IntRects, NEW b,
         b \in Rects \/ (b.upperLeft.x = 0 /\ b.upperLeft.y = 0),
         r.upperLeft.x \in {a.upperLeft.x, b.upperLeft.x},
         r.upperLeft.y \in {a.upperLeft.y, b.upperLeft.y}
  PROVE  r.upperLeft \in Around
<1>1. \A q \in Rects : q.upperLeft.x \in Xs /\ q.upperLeft.y \in Ys
  BY DEF Rects, Points, Point
<1>2. r.upperLeft.x \in Coordinates /\ r.upperLeft.y \in Coordinates
  BY <1>1, GeometryAssumption
<1>3. r.upperLeft = Point(r.upperLeft.x, r.upperLeft.y)
  BY DEF IntRects, IntPoints, Point
<1> QED BY <1>2, <1>3 DEF Around

LEMMA GeometryTells == GeometryInv => RectanglesAreRight
<1> SUFFICES ASSUME GeometryInv PROVE RectanglesAreRight
  OBVIOUS
<1> DEFINE b == gcall.before
           o == gcall.other
<1>1. Points \subseteq IntPoints /\ Sizes \subseteq IntSizes /\ Rects \subseteq IntRects
  BY RectsAreInts
<1>2. Size(0, 0) \in IntSizes
  BY DEF Size, IntSizes
<1>3. AndIsIntersection
  <2>1. CASE gcall.name = "and"
    <3>1. b \in Rects /\ o \in Rects /\ rect = Base2DRect_and_I(b, o) /\ rect \in IntRects
      BY <2>1 DEF GeometryInv
    <3>2. Common(rect, b, o)
      BY <1>1, <3>1, AndIs
    <3>3. rect.upperLeft \in Around
      BY <3>1, <3>2, CornersAreAround DEF Common
    <3>4. PointsOf(rect) = PointsOf(b) \cap PointsOf(o) /\ (Base2DRect_isValid(rect) <=> PointsOf(rect) # {})
      BY <1>1, <3>1, <3>2, <3>3, IntersectionIs DEF Common
    <3> QED BY <2>1, <3>4 DEF AndIsIntersection
  <2>2. CASE gcall.name = "clip"
    <3>1. b \in Rects /\ o \in Sizes /\ rect = Base2DRect_clipToSize_I(b, o) /\ rect \in IntRects
      BY <2>2 DEF GeometryInv
    <3>2. Common(rect, b, AtOrigin(o)) /\ AtOrigin(o) \in IntRects
      BY <1>1, <3>1, ClipIs
    <3>3. AtOrigin(o).upperLeft.x = 0 /\ AtOrigin(o).upperLeft.y = 0
      BY DEF AtOrigin, Point
    <3>4. rect.upperLeft \in Around
      BY <3>1, <3>2, <3>3, CornersAreAround DEF Common
    <3>5. PointsOf(rect) = PointsOf(b) \cap PointsOf(AtOrigin(o))
          /\ (Base2DRect_isValid(rect) <=> PointsOf(rect) # {})
      BY <1>1, <3>1, <3>2, <3>4, IntersectionIs DEF Common
    <3> QED BY <2>2, <3>5 DEF AndIsIntersection, AtOrigin
  <2> QED BY <2>1, <2>2 DEF AndIsIntersection
<1>4. OrIsSmallest
  <2>1. ASSUME gcall.name = "or"
        PROVE  b \in Rects /\ o \in Rects /\ rect = Base2DRect_or_I(b, o)
    BY <2>1 DEF GeometryInv
  <2>2. gcall.name = "or" => IsAround(rect, {q \in {b, o} : Base2DRect_isValid(q)})
    BY <1>1, <2>1, OrIs
  <2> QED BY <1>1, <2>2 DEF OrIsSmallest, IsAround
<1>5. InPlaceAgrees
  <2>1. ASSUME gcall.name = "and" PROVE Alike(rect, Base2DRect_and(o, b, o))
    <3>1. b \in Rects /\ o \in Rects /\ rect = Base2DRect_and_I(b, o)
      BY <2>1 DEF GeometryInv
    <3> QED BY <1>1, <1>2, <3>1, InPlaceIsAlike
  <2>2. ASSUME gcall.name = "or" PROVE Alike(rect, Base2DRect_or(o, b, o))
    <3>1. b \in Rects /\ o \in Rects /\ rect = Base2DRect_or_I(b, o)
      BY <2>2 DEF GeometryInv
    <3> QED BY <1>1, <1>2, <3>1, InPlaceIsAlike
  <2>3. ASSUME gcall.name = "clip" PROVE Alike(rect, Base2DRect_clipToSize(b, b, o))
    <3>1. b \in Rects /\ o \in Sizes /\ rect = Base2DRect_clipToSize_I(b, o)
      BY <2>3 DEF GeometryInv
    <3> QED BY <1>1, <3>1, InPlaceIsAlike
  <2>4. ASSUME gcall.name = "scale" PROVE ByWidthAndHeight(rect, b, o)
    <3>1. b \in Rects /\ o \in Scales /\ rect = Base2DRect_scaleCenter(b, o)
      BY <2>4 DEF GeometryInv
    <3> QED BY <1>1, <3>1, ScaleIs
  <2> QED BY <2>1, <2>2, <2>3, <2>4 DEF InPlaceAgrees, Alike, ByWidthAndHeight
<1>6. SizesAreAtOrigin
  <2>1. gcall.name = "clip" => SizeLikeRect(o, b)
    <3>1. gcall.name = "clip" => b \in Rects /\ o \in Sizes
      BY DEF GeometryInv
    <3> QED BY <1>1, <3>1, SizesAreLikeRects
  <2> QED BY <2>1 DEF SizesAreAtOrigin, SizeLikeRect, AtOrigin
<1>7. ClipIsNearest
  <2>1. ASSUME gcall.name = "point"
        PROVE  b \in IntRects /\ o \in IntPoints /\ Base2DRect_isValid(b)
               /\ rect.upperLeft = Base2DPoint_clipToRect(o, b)
    BY <1>1, <2>1 DEF GeometryInv
  <2> HIDE DEF b, o
  <2>2. ASSUME gcall.name = "point"
        PROVE  /\ Base2DRect_isPointInside(b, rect.upperLeft)
               /\ \A x \in PointsOf(b) : Far(rect.upperLeft, o) <= Far(x, o)
               /\ Base2DRect_isPointInside(b, Base2DRect_getCenterPoint(b))
    BY <2>1, <2>2, ClipPointIs
  <2> QED BY <2>2 DEF ClipIsNearest, Far, Distance, b, o
<1>8. ScaleKeepsCentre
  <2>1. ASSUME gcall.name = "scale", Base2DRect_isValid(b) PROVE Scaled(rect, b, o)
    <3>1. b \in Rects /\ o \in Scales /\ rect = Base2DRect_scaleCenter(b, o)
      BY <2>1 DEF GeometryInv
    <3> QED BY <1>1, <2>1, <3>1, ScaleIs
  <2> QED BY <2>1 DEF ScaleKeepsCentre, Scaled
<1> QED BY <1>3, <1>4, <1>5, <1>6, <1>7, <1>8 DEF RectanglesAreRight

LEMMA GeometryBegins == GeometryInit => GeometryInv
BY DEF GeometryInit, GeometryInv, NoGCall, Rect, Point, Size, IntRects, IntPoints, IntSizes

LEMMA GeometryGoesOn == GeometryInv /\ [GeometryNext]_geometryVars => GeometryInv'
<1> SUFFICES ASSUME GeometryInv, [GeometryNext]_geometryVars PROVE GeometryInv'
  OBVIOUS
<1>1. Points \subseteq IntPoints /\ Sizes \subseteq IntSizes /\ Rects \subseteq IntRects
  BY RectsAreInts
<1>2. gcall.name = "set" => rect \in Rects
  BY DEF GeometryInv
<1>3. ASSUME NEW r \in Rects, SetRect(r) PROVE GeometryInv'
  BY <1>1, <1>3 DEF SetRect, GeometryInv
<1>4. ASSUME gcall.name = "set", NEW o \in Rects, Call("and", rect, o, Base2DRect_and_I(rect, o))
      PROVE  GeometryInv'
  <2>1. Base2DRect_and_I(rect, o) \in IntRects
    BY <1>1, <1>2, <1>4, AndIs DEF Common
  <2> QED BY <1>2, <1>4, <2>1 DEF Call, GeometryInv
<1>5. ASSUME gcall.name = "set", NEW o \in Rects, Call("or", rect, o, Base2DRect_or_I(rect, o))
      PROVE  GeometryInv'
  <2>1. Base2DRect_or_I(rect, o) \in IntRects
    BY <1>1, <1>2, <1>5, OrIs DEF IsAround
  <2> QED BY <1>2, <1>5, <2>1 DEF Call, GeometryInv
<1>6. ASSUME gcall.name = "set", NEW s \in Sizes,
             Call("clip", rect, s, Base2DRect_clipToSize_I(rect, s))
      PROVE  GeometryInv'
  <2>1. Base2DRect_clipToSize_I(rect, s) \in IntRects
    BY <1>1, <1>2, <1>6, ClipIs DEF Common
  <2> QED BY <1>2, <1>6, <2>1 DEF Call, GeometryInv
<1>7. ASSUME gcall.name = "set", NEW p \in Points, Base2DRect_isValid(rect),
             Call("point", rect, p,
                  [upperLeft |-> Base2DPoint_clipToRect(p, rect), size |-> rect.size])
      PROVE  GeometryInv'
  <2>1. Base2DPoint_clipToRect(p, rect) \in IntPoints
    BY <1>1, <1>2, <1>7, ClipPointIs
  <2>2. rect.size \in IntSizes
    BY DEF GeometryInv, IntRects
  <2>3. rect' \in IntRects /\ rect'.upperLeft = Base2DPoint_clipToRect(p, rect)
    BY <1>7, <2>1, <2>2 DEF Call, IntRects
  <2> QED BY <1>2, <1>7, <2>3 DEF Call, GeometryInv
<1>8. ASSUME gcall.name = "set", NEW s \in Scales,
             Call("scale", rect, s, Base2DRect_scaleCenter(rect, s))
      PROVE  GeometryInv'
  <2>1. Base2DRect_scaleCenter(rect, s) \in IntRects
    BY <1>1, <1>2, <1>8, ScaleIs
  <2> QED BY <1>2, <1>8, <2>1 DEF Call, GeometryInv
<1>9. CASE UNCHANGED geometryVars
  BY <1>9 DEF geometryVars, GeometryInv
<1> QED BY <1>3, <1>4, <1>5, <1>6, <1>7, <1>8, <1>9 DEF GeometryNext

(* Wherever the corners and points are, however long the sides, and whatever *)
(* the scale, the operations on rectangles are those of the sets of points   *)
(* they stand for.                                                           *)
THEOREM RectanglesStayRight == GeometryInit /\ [][GeometryNext]_geometryVars => []RectanglesAreRight
<1>1. GeometryInit /\ [][GeometryNext]_geometryVars => []GeometryInv
  BY GeometryBegins, GeometryGoesOn, PTL
<1> QED BY <1>1, GeometryTells, PTL

-----------------------------------------------------------------------------
(* The chain of the elements of a list.                                     *)

\* The elements el that are valid are those of c, linked one by one from f to l.
LinkedUp(c, f, l, el) ==
    /\ c \in Seq(Elems)
    /\ \A i, j \in 1..Len(c) : c[i] = c[j] => i = j
    /\ \A e \in Elems : el[e].state = "valid" <=> \E i \in 1..Len(c) : c[i] = e
    /\ f = IF c = <<>> THEN Nil ELSE c[1]
    /\ l = IF c = <<>> THEN Nil ELSE c[Len(c)]
    /\ \A i \in 1..Len(c) : el[c[i]].next = IF i = Len(c) THEN Nil ELSE c[i + 1]

\* What the walk along the elements el from f passes.
Passed(f, el) ==
    CHOOSE p : p = [k \in 0..MaxElems |->
        IF k = 0 THEN f
        ELSE LET before == p[k - 1] IN IF before = Nil THEN Nil ELSE el[before].next]
PassedNext(p, f, el, k) ==
    IF k = 0 THEN f ELSE IF p[k - 1] = Nil THEN Nil ELSE el[p[k - 1]].next
PassedLength(p) ==
    CHOOSE n \in 0..MaxElems + 1 : /\ \A k \in 0..n - 1 : p[k] # Nil
                                   /\ n <= MaxElems => p[n] = Nil
ChainAlong(p) == [i \in 1..PassedLength(p) |-> p[i - 1]]

LEMMA ChainIsPassed == Chain = ChainAlong(Passed(first, elem))
BY DEF Chain, Nth, Passed, PassedLength, ChainAlong

LEMMA NewChainIsPassed == Chain' = ChainAlong(Passed(first', elem'))
BY DEF Chain, Nth, Passed, PassedLength, ChainAlong

\* No more elements are in the chain than there are.
LEMMA ChainIsBounded ==
  ASSUME NEW c \in Seq(Elems), \A i, j \in 1..Len(c) : c[i] = c[j] => i = j
  PROVE  Len(c) <= MaxElems
<1>1. MaxElems \in Nat /\ Len(c) \in Nat
  BY MTListAssumption, LenProperties
<1>2. c \in [1..Len(c) -> Elems]
  BY LenProperties, ElementOfSeq
<1>3. c \in Injection(1..Len(c), Elems)
  BY <1>2, LenProperties DEF Injection, IsInjective
<1>4. /\ IsFiniteSet(1..Len(c)) /\ Cardinality(1..Len(c)) = Len(c)
      /\ IsFiniteSet(1..MaxElems) /\ Cardinality(1..MaxElems) = MaxElems
  <2>1. IsFiniteSet(1..Len(c)) /\ Cardinality(1..Len(c)) = IF 1 > Len(c) THEN 0 ELSE Len(c) - 1 + 1
    BY <1>1, FS_Interval
  <2>2. IsFiniteSet(1..MaxElems) /\ Cardinality(1..MaxElems) = IF 1 > MaxElems THEN 0 ELSE MaxElems - 1 + 1
    BY <1>1, FS_Interval
  <2> QED BY <1>1, <2>1, <2>2
<1>5. Cardinality(1..Len(c)) <= Cardinality(Elems)
  BY <1>3, <1>4, FS_Injection DEF Elems
<1> QED BY <1>4, <1>5 DEF Elems

LEMMA PassedIs ==
  ASSUME NEW c, NEW f, NEW l, NEW el, LinkedUp(c, f, l, el)
  PROVE  \A k \in 0..MaxElems : Passed(f, el)[k] = IF k < Len(c) THEN c[k + 1] ELSE Nil
<1> DEFINE g == [k \in 0..MaxElems |-> IF k < Len(c) THEN c[k + 1] ELSE Nil]
           p == Passed(f, el)
<1>1. /\ MaxElems \in Nat /\ Len(c) \in Nat /\ \A i \in 1..Len(c) : c[i] \in Elems
      /\ Nil \notin Elems
  BY MTListAssumption, LenProperties, ElementOfSeq DEF LinkedUp, Elems
<1>2. \A k \in 0..MaxElems : g[k] = PassedNext(g, f, el, k)
  <2>1. ASSUME NEW k \in 0..MaxElems, k = 0 PROVE g[k] = PassedNext(g, f, el, k)
    <3>1. f = IF Len(c) = 0 THEN Nil ELSE c[1]
      BY <1>1, EmptySeq DEF LinkedUp
    <3> QED BY <1>1, <2>1, <3>1 DEF PassedNext
  <2>2. ASSUME NEW k \in 0..MaxElems, k # 0 PROVE g[k] = PassedNext(g, f, el, k)
    <3>1. k - 1 \in 0..MaxElems /\ k \in 1..MaxElems
      BY <1>1, <2>2
    <3>2. g[k - 1] = IF k - 1 < Len(c) THEN c[k] ELSE Nil
      BY <3>1
    <3>3. g[k] = IF k < Len(c) THEN c[k + 1] ELSE Nil
      OBVIOUS
    <3> HIDE DEF g
    <3>4. CASE k \in 1..Len(c)
      <4>1. g[k - 1] = c[k] /\ c[k] # Nil
        BY <1>1, <3>1, <3>2, <3>4
      <4>2. el[c[k]].next = IF k = Len(c) THEN Nil ELSE c[k + 1]
        BY <3>4 DEF LinkedUp
      <4>3. PassedNext(g, f, el, k) = el[c[k]].next
        BY <2>2, <4>1 DEF PassedNext
      <4> QED BY <1>1, <3>3, <3>4, <4>2, <4>3
    <3>5. CASE k > Len(c)
      <4>1. g[k - 1] = Nil /\ g[k] = Nil
        BY <1>1, <3>1, <3>2, <3>3, <3>5
      <4> QED BY <2>2, <4>1 DEF PassedNext
    <3> QED BY <1>1, <3>1, <3>4, <3>5
  <2> QED BY <2>1, <2>2
<1>3. g = [k \in 0..MaxElems |-> PassedNext(g, f, el, k)]
  <2>1. g = [k \in 0..MaxElems |-> g[k]]
    OBVIOUS
  <2> HIDE DEF g
  <2> QED BY <1>2, <2>1
<1>4. p = [k \in 0..MaxElems |-> PassedNext(p, f, el, k)]
  <2> HIDE DEF g
  <2>1. p = CHOOSE q : q = [k \in 0..MaxElems |-> PassedNext(q, f, el, k)]
    BY DEF Passed, PassedNext
  <2> HIDE DEF p
  <2> QED BY <1>3, <2>1
<1> HIDE DEF p
<1> DEFINE same == {k \in Nat : k <= MaxElems => p[k] = g[k]}
<1>5. \A k \in 0..MaxElems : p[k] = PassedNext(p, f, el, k)
  BY <1>4
<1> HIDE DEF g
<1>6. 0 \in same
  <2>1. 0 \in 0..MaxElems
    BY <1>1
  <2>2. p[0] = f /\ g[0] = f
    BY <1>2, <1>5, <2>1 DEF PassedNext
  <2> QED BY <2>2
<1>7. ASSUME NEW k \in same PROVE k + 1 \in same
  <2>1. CASE k + 1 <= MaxElems
    <3>1. k + 1 \in 0..MaxElems /\ k <= MaxElems /\ (k + 1) - 1 = k /\ k + 1 # 0 /\ k \in Nat
      BY <1>1, <2>1
    <3>2. p[k] = g[k]
      BY <3>1
    <3>3. p[k + 1] = PassedNext(p, f, el, k + 1) /\ g[k + 1] = PassedNext(g, f, el, k + 1)
      BY <1>2, <1>5, <3>1
    <3>4. PassedNext(p, f, el, k + 1) = PassedNext(g, f, el, k + 1)
      BY <3>1, <3>2 DEF PassedNext
    <3>5. p[k + 1] = g[k + 1]
      BY <3>3, <3>4
    <3> QED BY <3>1, <3>5
  <2>2. CASE ~(k + 1 <= MaxElems)
    BY <2>2
  <2> QED BY <2>1, <2>2
<1> HIDE DEF same
<1>8. same = Nat
  <2>1. same \subseteq Nat
    BY DEF same
  <2> QED BY <1>6, <1>7, <2>1, AllNumbers
<1>9. \A k \in 0..MaxElems : p[k] = g[k]
  BY <1>1, <1>8 DEF same
<1> QED BY <1>9 DEF p, g

LEMMA ChainIs ==
  ASSUME NEW c, NEW f, NEW l, NEW el, LinkedUp(c, f, l, el)
  PROVE  ChainAlong(Passed(f, el)) = c
<1> DEFINE p == Passed(f, el)
           n == PassedLength(p)
<1>1. \A k \in 0..MaxElems : p[k] = IF k < Len(c) THEN c[k + 1] ELSE Nil
  BY PassedIs
<1> HIDE DEF p
<1>2. /\ MaxElems \in Nat /\ Len(c) \in Nat /\ \A i \in 1..Len(c) : c[i] \in Elems
      /\ Nil \notin Elems /\ Len(c) <= MaxElems /\ c = [i \in 1..Len(c) |-> c[i]]
  <2>1. c \in Seq(Elems) /\ \A i, j \in 1..Len(c) : c[i] = c[j] => i = j
    BY DEF LinkedUp
  <2>2. Len(c) \in Nat /\ (\A i \in 1..Len(c) : c[i] \in Elems) /\ c = [i \in 1..Len(c) |-> c[i]]
    BY ONLY <2>1, LenProperties, ElementOfSeq
  <2>3. Len(c) <= MaxElems
    BY <2>1, ChainIsBounded
  <2>4. MaxElems \in Nat /\ Nil \notin Elems
    BY MTListAssumption DEF Elems
  <2> QED BY <2>2, <2>3, <2>4
<1>3. /\ n \in 0..MaxElems + 1 /\ \A k \in 0..n - 1 : p[k] # Nil
      /\ n <= MaxElems => p[n] = Nil
  <2>1. Len(c) \in 0..MaxElems + 1 /\ \A k \in 0..Len(c) - 1 : p[k] # Nil
    BY <1>1, <1>2
  <2>2. Len(c) <= MaxElems => p[Len(c)] = Nil
    BY <1>1, <1>2
  <2> QED BY <2>1, <2>2 DEF PassedLength
<1> HIDE DEF n
<1>4. n = Len(c)
  <2>1. CASE n > Len(c)
    <3>1. Len(c) \in 0..n - 1 /\ Len(c) \in 0..MaxElems
      BY <1>2, <1>3, <2>1
    <3> QED BY <1>1, <1>3, <3>1
  <2>2. CASE n < Len(c)
    <3>1. n \in 0..MaxElems /\ n + 1 \in 1..Len(c)
      BY <1>2, <1>3, <2>2
    <3> QED BY <1>1, <1>2, <1>3, <2>2, <3>1
  <2> QED BY <1>2, <1>3, <2>1, <2>2
<1>5. ChainAlong(p) = [i \in 1..n |-> p[i - 1]]
  BY DEF ChainAlong, n
<1>6. \A i \in 1..Len(c) : p[i - 1] = c[i]
  BY <1>1, <1>2
<1>7. ChainAlong(p) = [i \in 1..Len(c) |-> c[i]]
  BY <1>4, <1>5, <1>6
<1> QED BY <1>2, <1>7 DEF p

-----------------------------------------------------------------------------
(* What holds of a list that threads share.                                 *)

Elements == [state : {"unused", "valid", "freed"}, next : Elems \cup {Nil},
             data : Data \cup {Nil}, readers : SUBSET Threads, writer : Threads \cup {Nil}]
Doings == [op : Walks \cup {"none"},
           at : {"idle", "walk", "inside", "store", "unlock", "result"},
           ptr : Elems \cup {Nil}, searched : Data \cup {Nil}, new : Data \cup {Nil}]

ListTyped ==
    /\ automatic \in BOOLEAN /\ elem \in [Elems -> Elements] /\ thread \in [Threads -> Doings]
    /\ given \in SUBSET Data

ChainStands == LinkedUp(Chain, first, last, elem) /\ numElement = Len(Chain)

\* Who holds which lock: a writer shares an element with no reader.
WithLock == {"walk", "inside", "store", "unlock"}
NoneBeside(el) == \A e \in Elems : el[e].writer # Nil => el[e].readers = {}
HasLock(t, r, el) ==
    r.at \in {"inside", "store"} =>
        IF r.op = "forWrite" THEN el[r.ptr].writer = t ELSE t \in el[r.ptr].readers

LocksHeld ==
    /\ readers = {t \in Threads : thread[t].at \in WithLock}
    /\ NoneBeside(elem)
    /\ \A t \in Threads : HasLock(t, thread[t], elem)

\* Where a thread may be on its way, and what it knows of its element.
GoodPlace(t, r, el) ==
    /\ r.at = "idle" <=> r.op = "none"
    /\ r.at \in {"walk", "inside", "store"} => r.ptr # Nil
    /\ r.at \in WithLock /\ r.ptr # Nil => el[r.ptr].state = "valid"
    /\ r.at = "store" => r.op = "set" /\ el[r.ptr].data = r.searched
    /\ r.at = "result" => r.op # "set"
    /\ r.op = "set" => t \in Setters /\ r.new \in Data /\ r.searched \in Data

OnTheWay == \A t \in Threads : GoodPlace(t, thread[t], elem)

\* The data of the elements, and the new ones of a set that has not stored them.
DataHeld == {elem[e].data : e \in {x \in Elems : elem[x].state = "valid"}}
NotYetStored(r) == r.op = "set" /\ (r.at # "unlock" \/ r.ptr = Nil)
DataNew == {thread[t].new : t \in {u \in Threads : NotYetStored(thread[u])}}

Apart(h, f, b, n) ==
    h \cap f = {} /\ h \cap b = {} /\ h \cap n = {} /\ f \cap b = {} /\ f \cap n = {} /\ b \cap n = {}

DataApart ==
    /\ \A e \in Elems : elem[e].state = "valid" => elem[e].data \in Data
    /\ \A e, f \in Elems :
         elem[e].state = "valid" /\ elem[f].state = "valid" /\ elem[e].data = elem[f].data => e = f
    /\ given = DataHeld \cup disposed \cup back \cup DataNew
    /\ Apart(DataHeld, disposed, back, DataNew)

MTListInv == ListTyped /\ ChainStands /\ LocksHeld /\ OnTheWay /\ DataApart

-----------------------------------------------------------------------------
(* How a chain changes.                                                     *)

ChainFacts(c) ==
    /\ Len(c) \in Nat /\ \A i \in 1..Len(c) : c[i] \in Elems
    /\ c = <<>> <=> Len(c) = 0

LEMMA NilIsNoElem == Nil \notin Elems /\ MaxElems \in Nat
BY MTListAssumption DEF Elems

LEMMA FactsOf ==
  ASSUME NEW c \in Seq(Elems)
  PROVE  ChainFacts(c)
BY LenProperties, ElementOfSeq, EmptySeq DEF ChainFacts

LEMMA LastIs ==
  ASSUME NEW c, NEW f, NEW l, NEW el, LinkedUp(c, f, l, el)
  PROVE  /\ c = <<>> <=> f = Nil
         /\ c = <<>> <=> l = Nil
         /\ f \in Elems \cup {Nil} /\ l \in Elems \cup {Nil}
         /\ \A i \in 1..Len(c) : c[i] = l <=> i = Len(c)
         /\ \A i \in 1..Len(c) : el[c[i]].state = "valid"
<1>1. ChainFacts(c) /\ Nil \notin Elems
  BY FactsOf, NilIsNoElem DEF LinkedUp
<1>2. ASSUME NEW i \in 1..Len(c) PROVE c[i] = l <=> i = Len(c)
  <2>1. l = c[Len(c)] /\ Len(c) \in 1..Len(c)
    BY <1>1, <1>2 DEF LinkedUp, ChainFacts
  <2> QED BY <2>1, <1>2 DEF LinkedUp
<1>3. ASSUME NEW i \in 1..Len(c) PROVE el[c[i]].state = "valid"
  BY <1>1, <1>3 DEF LinkedUp, ChainFacts
<1>4. ASSUME c # <<>> PROVE f = c[1] /\ l = c[Len(c)] /\ c[1] \in Elems /\ c[Len(c)] \in Elems
  BY <1>1, <1>4 DEF LinkedUp, ChainFacts
<1>5. ASSUME c = <<>> PROVE f = Nil /\ l = Nil
  BY <1>5 DEF LinkedUp
<1> QED BY <1>1, <1>2, <1>3, <1>4, <1>5

\* Neither the states nor the links change.
SameLinks(el, new) ==
    \A e \in Elems : new[e].state = el[e].state /\ new[e].next = el[e].next

LEMMA ChainUnchanged ==
  ASSUME NEW c, NEW f, NEW l, NEW el, NEW new, LinkedUp(c, f, l, el), SameLinks(el, new)
  PROVE  LinkedUp(c, f, l, new)
<1>1. ChainFacts(c)
  BY FactsOf DEF LinkedUp
<1>2. \A i \in 1..Len(c) : new[c[i]].next = IF i = Len(c) THEN Nil ELSE c[i + 1]
  BY <1>1 DEF LinkedUp, SameLinks, ChainFacts
<1>3. \A e \in Elems : new[e].state = "valid" <=> \E i \in 1..Len(c) : c[i] = e
  BY DEF LinkedUp, SameLinks
<1> QED BY <1>2, <1>3 DEF LinkedUp

\* A new element behind the last one.
LinkedBehind(el, new, e, l) ==
    /\ e \in Elems /\ el[e].state # "valid" /\ new[e].state = "valid" /\ new[e].next = Nil
    /\ \A x \in Elems \ {e} : /\ new[x].state = el[x].state
                              /\ new[x].next = IF x = l THEN e ELSE el[x].next

LEMMA ChainBehind ==
  ASSUME NEW c, NEW f, NEW l, NEW el, NEW new, NEW e, LinkedUp(c, f, l, el),
         LinkedBehind(el, new, e, l)
  PROVE  LinkedUp(Append(c, e), IF c = <<>> THEN e ELSE f, e, new)
<1> DEFINE a == Append(c, e)
<1>1. ChainFacts(c) /\ Nil \notin Elems /\ c \in Seq(Elems) /\ e \in Elems
  BY FactsOf, NilIsNoElem DEF LinkedUp, LinkedBehind
<1>2. /\ a \in Seq(Elems) /\ Len(a) = Len(c) + 1 /\ a # <<>>
      /\ \A i \in 1..Len(c) : a[i] = c[i]
      /\ a[Len(c) + 1] = e
  BY <1>1, AppendProperties DEF ChainFacts
<1> HIDE DEF a
<1>3. \A i \in 1..Len(c) : c[i] # e /\ c[i] \in Elems \ {e}
  BY <1>1, LastIs DEF LinkedBehind, ChainFacts
<1>4. ASSUME NEW i \in 1..Len(a), NEW j \in 1..Len(a), a[i] = a[j] PROVE i = j
  <2>1. Len(c) \in Nat /\ i \in Nat /\ j \in Nat /\ i <= Len(c) + 1 /\ j <= Len(c) + 1 /\ i >= 1 /\ j >= 1
    BY <1>1, <1>2 DEF ChainFacts
  <2>2. CASE i \in 1..Len(c) /\ j \in 1..Len(c)
    BY <1>2, <1>4, <2>2 DEF LinkedUp
  <2>3. CASE i \in 1..Len(c) /\ j = Len(c) + 1
    BY <1>2, <1>3, <1>4, <2>3
  <2>4. CASE i = Len(c) + 1 /\ j \in 1..Len(c)
    BY <1>2, <1>3, <1>4, <2>4
  <2> QED BY <2>1, <2>2, <2>3, <2>4
<1>5. ASSUME NEW x \in Elems PROVE new[x].state = "valid" <=> \E i \in 1..Len(a) : a[i] = x
  <2>1. Len(c) \in Nat /\ 1..Len(a) = 1..Len(c) \cup {Len(c) + 1}
    BY <1>1, <1>2 DEF ChainFacts
  <2>2. CASE x = e
    BY <1>2, <2>1, <2>2 DEF LinkedBehind
  <2>3. CASE x # e
    <3>1. new[x].state = "valid" <=> \E i \in 1..Len(c) : c[i] = x
      BY <2>3 DEF LinkedBehind, LinkedUp
    <3> QED BY <1>2, <2>1, <2>3, <3>1
  <2> QED BY <2>2, <2>3
<1>6. ASSUME NEW i \in 1..Len(a) PROVE new[a[i]].next = IF i = Len(a) THEN Nil ELSE a[i + 1]
  <2>1. Len(c) \in Nat /\ 1..Len(a) = 1..Len(c) \cup {Len(c) + 1}
    BY <1>1, <1>2 DEF ChainFacts
  <2>2. CASE i = Len(c) + 1
    BY <1>2, <2>2 DEF LinkedBehind
  <2>3. CASE i \in 1..Len(c)
    <3>1. new[c[i]].next = IF c[i] = l THEN e ELSE el[c[i]].next
      BY <1>3, <2>3 DEF LinkedBehind
    <3>2. c[i] = l <=> i = Len(c)
      BY <2>3, LastIs
    <3>3. el[c[i]].next = IF i = Len(c) THEN Nil ELSE c[i + 1]
      BY <2>3 DEF LinkedUp
    <3>4. a[i] = c[i] /\ i # Len(a) /\ (i # Len(c) => i + 1 \in 1..Len(c))
      BY <1>2, <2>1, <2>3
    <3> QED BY <1>2, <3>1, <3>2, <3>3, <3>4
  <2> QED BY <2>1, <2>2, <2>3
<1>7. (IF c = <<>> THEN e ELSE f) = IF a = <<>> THEN Nil ELSE a[1]
  <2>1. CASE c = <<>>
    BY <1>1, <1>2, <2>1 DEF ChainFacts
  <2>2. CASE c # <<>>
    <3>1. f = c[1] /\ 1 \in 1..Len(c)
      BY <1>1, <2>2 DEF LinkedUp, ChainFacts
    <3> QED BY <1>2, <2>2, <3>1
  <2> QED BY <2>1, <2>2
<1>8. e = IF a = <<>> THEN Nil ELSE a[Len(a)]
  BY <1>2
<1>9. LinkedUp(a, IF c = <<>> THEN e ELSE f, e, new)
  BY <1>2, <1>4, <1>5, <1>6, <1>7, <1>8 DEF LinkedUp
<1> QED BY <1>9 DEF a

\* A new element before the first one.
LinkedBefore(el, new, e, f) ==
    /\ e \in Elems /\ el[e].state # "valid" /\ new[e].state = "valid" /\ new[e].next = f
    /\ \A x \in Elems \ {e} : new[x].state = el[x].state /\ new[x].next = el[x].next

LEMMA ChainBefore ==
  ASSUME NEW c, NEW f, NEW l, NEW el, NEW new, NEW e, LinkedUp(c, f, l, el),
         LinkedBefore(el, new, e, f)
  PROVE  LinkedUp(<<e>> \o c, e, IF l = Nil THEN e ELSE l, new)
<1> DEFINE a == <<e>> \o c
<1>1. ChainFacts(c) /\ Nil \notin Elems /\ c \in Seq(Elems) /\ e \in Elems
  BY FactsOf, NilIsNoElem DEF LinkedUp, LinkedBefore
<1>2. /\ a \in Seq(Elems) /\ Len(a) = Len(c) + 1 /\ a # <<>>
      /\ \A i \in 1..Len(c) : a[i + 1] = c[i]
      /\ a[1] = e
  <2>1. <<e>> \in Seq(Elems) /\ Len(<<e>>) = 1 /\ <<e>>[1] = e
    BY <1>1
  <2>2. a \in Seq(Elems) /\ Len(a) = 1 + Len(c)
        /\ \A i \in 1..1 + Len(c) : a[i] = IF i <= 1 THEN <<e>>[i] ELSE c[i - 1]
    BY <1>1, <2>1, ConcatProperties
  <2> HIDE DEF a
  <2>3. ASSUME NEW i \in 1..Len(c) PROVE a[i + 1] = c[i]
    <3>1. i + 1 \in 1..1 + Len(c) /\ ~(i + 1 <= 1) /\ (i + 1) - 1 = i
      BY <1>1, <2>3 DEF ChainFacts
    <3> QED BY <2>2, <3>1
  <2>4. a[1] = e
    BY <1>1, <2>1, <2>2 DEF ChainFacts
  <2>5. a # <<>>
    BY <1>1, <2>2 DEF ChainFacts
  <2> QED BY <1>1, <2>2, <2>3, <2>4, <2>5 DEF ChainFacts
<1> HIDE DEF a
<1>3. \A i \in 1..Len(c) : c[i] # e /\ c[i] \in Elems \ {e}
  BY <1>1, LastIs DEF LinkedBefore, ChainFacts
<1>0. \A i \in 1..Len(a) : i = 1 \/ (i - 1 \in 1..Len(c) /\ a[i] = c[i - 1])
  <2>1. ASSUME NEW i \in 1..Len(a), i # 1 PROVE i - 1 \in 1..Len(c) /\ a[i] = c[i - 1]
    <3>1. i - 1 \in 1..Len(c) /\ (i - 1) + 1 = i
      BY <1>1, <1>2, <2>1 DEF ChainFacts
    <3> QED BY <1>2, <3>1
  <2> QED BY <2>1
<1>4. ASSUME NEW i \in 1..Len(a), NEW j \in 1..Len(a), a[i] = a[j] PROVE i = j
  <2>1. CASE i = 1 /\ j = 1
    BY <2>1
  <2>2. CASE i # 1 /\ j # 1
    <3> DEFINE x == i - 1  y == j - 1
    <3>1. x \in 1..Len(c) /\ y \in 1..Len(c) /\ a[i] = c[x] /\ a[j] = c[y]
      BY <1>0, <2>2
    <3>2. i \in Int /\ j \in Int /\ i = x + 1 /\ j = y + 1
      BY <1>1, <1>2 DEF ChainFacts
    <3> HIDE DEF x, y
    <3>3. \A k, m \in 1..Len(c) : c[k] = c[m] => k = m
      BY DEF LinkedUp
    <3>4. x = y
      BY ONLY <1>4, <3>1, <3>3
    <3> QED BY ONLY <3>2, <3>4
  <2>3. CASE i = 1 /\ j # 1
    BY <1>0, <1>2, <1>3, <1>4, <2>3
  <2>4. CASE i # 1 /\ j = 1
    BY <1>0, <1>2, <1>3, <1>4, <2>4
  <2> QED BY <2>1, <2>2, <2>3, <2>4
<1>5. ASSUME NEW x \in Elems PROVE new[x].state = "valid" <=> \E i \in 1..Len(a) : a[i] = x
  <2>1. CASE x = e
    <3>1. 1 \in 1..Len(a)
      BY <1>1, <1>2 DEF ChainFacts
    <3> QED BY <1>2, <2>1, <3>1 DEF LinkedBefore
  <2>2. CASE x # e
    <3>1. new[x].state = "valid" <=> \E i \in 1..Len(c) : c[i] = x
      BY <2>2 DEF LinkedBefore, LinkedUp
    <3>2. ASSUME NEW i \in 1..Len(c), c[i] = x PROVE \E j \in 1..Len(a) : a[j] = x
      <4>1. i + 1 \in 1..Len(a) /\ a[i + 1] = x
        BY <1>1, <1>2, <3>2 DEF ChainFacts
      <4> QED BY <4>1
    <3>3. ASSUME NEW j \in 1..Len(a), a[j] = x PROVE \E i \in 1..Len(c) : c[i] = x
      BY <1>0, <1>2, <2>2, <3>3
    <3> QED BY <3>1, <3>2, <3>3
  <2> QED BY <2>1, <2>2
<1>6. ASSUME NEW i \in 1..Len(a) PROVE new[a[i]].next = IF i = Len(a) THEN Nil ELSE a[i + 1]
  <2>1. CASE i = 1
    <3>1. new[a[i]].next = f
      BY <1>2, <2>1 DEF LinkedBefore
    <3>2. CASE c = <<>>
      BY <1>1, <1>2, <2>1, <3>1, <3>2 DEF LinkedUp, ChainFacts
    <3>3. CASE c # <<>>
      <4>1. f = c[1] /\ 1 \in 1..Len(c) /\ i # Len(a) /\ a[1 + 1] = c[1]
        BY <1>1, <1>2, <2>1, <3>3 DEF LinkedUp, ChainFacts
      <4> QED BY <2>1, <3>1, <4>1
    <3> QED BY <3>2, <3>3
  <2>2. CASE i # 1
    <3>1. i - 1 \in 1..Len(c) /\ a[i] = c[i - 1] /\ Len(c) \in Nat /\ i \in Nat
      BY <1>0, <1>1, <1>2, <2>2 DEF ChainFacts
    <3>2. new[a[i]].next = el[c[i - 1]].next
      BY <1>3, <3>1 DEF LinkedBefore
    <3>3. el[c[i - 1]].next = IF i - 1 = Len(c) THEN Nil ELSE c[(i - 1) + 1]
      BY <3>1 DEF LinkedUp
    <3>4. i - 1 = Len(c) <=> i = Len(a)
      BY <1>2, <3>1
    <3>5. (i - 1) + 1 = i /\ (i - 1 # Len(c) => i \in 1..Len(c))
      BY <3>1
    <3>6. i - 1 # Len(c) => a[i + 1] = c[i]
      BY <1>2, <3>5
    <3> QED BY <3>2, <3>3, <3>4, <3>5, <3>6
  <2> QED BY <2>1, <2>2
<1>7. e = IF a = <<>> THEN Nil ELSE a[1]
  BY <1>2
<1>8. (IF l = Nil THEN e ELSE l) = IF a = <<>> THEN Nil ELSE a[Len(a)]
  <2>1. c = <<>> <=> l = Nil
    BY LastIs
  <2>2. CASE c = <<>>
    BY <1>1, <1>2, <2>1, <2>2 DEF ChainFacts
  <2>3. CASE c # <<>>
    <3>1. l = c[Len(c)] /\ Len(c) \in 1..Len(c)
      BY <1>1, <2>3 DEF LinkedUp, ChainFacts
    <3> QED BY <1>2, <2>1, <2>3, <3>1
  <2> QED BY <2>2, <2>3
<1>9. LinkedUp(a, e, IF l = Nil THEN e ELSE l, new)
  BY <1>2, <1>4, <1>5, <1>6, <1>7, <1>8 DEF LinkedUp
<1> QED BY <1>9 DEF a

\* Element i of the chain is taken out; the one before it is linked to the one behind.
Omitting(c, i) == [k \in 1..Len(c) - 1 |-> IF k < i THEN c[k] ELSE c[k + 1]]
Preceding(c, i) == IF i = 1 THEN Nil ELSE c[i - 1]
Bypassed(el, new, c, i, l) ==
    /\ i \in 1..Len(c) /\ new[c[i]].state # "valid"
    /\ \A x \in Elems \ {c[i]} :
         /\ new[x].state = el[x].state
         /\ new[x].next = IF x = Preceding(c, i) THEN IF c[i] = l THEN Nil ELSE el[c[i]].next
                          ELSE el[x].next

LEMMA OmittingIs ==
  ASSUME NEW S, NEW c \in Seq(S), NEW i \in 1..Len(c)
  PROVE  /\ Omitting(c, i) \in Seq(S) /\ Len(Omitting(c, i)) = Len(c) - 1
         /\ \A k \in 1..Len(c) - 1 :
              Omitting(c, i)[k] = IF k < i THEN c[k] ELSE c[k + 1]
<1>1. Len(c) \in Nat /\ Len(c) - 1 \in Nat /\ \A k \in 1..Len(c) : c[k] \in S
  BY LenProperties, ElementOfSeq
<1>2. \A k \in 1..Len(c) - 1 : (IF k < i THEN c[k] ELSE c[k + 1]) \in S
  BY <1>1
<1>3. Omitting(c, i) \in [1..Len(c) - 1 -> S]
  BY <1>2 DEF Omitting
<1>4. \A n \in Nat : \A g \in [1..n -> S] : g \in Seq(S) /\ Len(g) = n
  OBVIOUS
<1>5. Omitting(c, i) \in Seq(S) /\ Len(Omitting(c, i)) = Len(c) - 1
  BY <1>1, <1>3, <1>4
<1> QED BY <1>5 DEF Omitting

LEMMA ChainOmitting ==
  ASSUME NEW c, NEW f, NEW l, NEW el, NEW new, NEW i, LinkedUp(c, f, l, el),
         Bypassed(el, new, c, i, l)
  PROVE  LinkedUp(Omitting(c, i), IF i = 1 THEN el[c[i]].next ELSE f,
                 IF c[i] = l THEN Preceding(c, i) ELSE l, new)
<1> DEFINE a == Omitting(c, i)
           f2 == IF i = 1 THEN el[c[i]].next ELSE f
           l2 == IF c[i] = l THEN Preceding(c, i) ELSE l
<1>1. /\ ChainFacts(c) /\ Nil \notin Elems /\ c \in Seq(Elems) /\ i \in 1..Len(c)
      /\ \A j \in 1..Len(c) : c[j] = l <=> j = Len(c)
      /\ \A j \in 1..Len(c) : el[c[j]].next = IF j = Len(c) THEN Nil ELSE c[j + 1]
      /\ \A j, k \in 1..Len(c) : c[j] = c[k] => j = k
  BY FactsOf, NilIsNoElem, LastIs DEF LinkedUp, Bypassed
<1>2. Len(c) \in Nat /\ Len(c) >= 1 /\ \A j \in 1..Len(c) : c[j] \in Elems
  <2>1. Len(c) \in Nat /\ \A j \in 1..Len(c) : c[j] \in Elems
    BY <1>1 DEF ChainFacts
  <2>2. i \in 1..Len(c)
    BY <1>1
  <2> QED BY ONLY <2>1, <2>2
<1>3. a \in Seq(Elems) /\ Len(a) = Len(c) - 1
      /\ \A k \in 1..Len(a) : a[k] = IF k < i THEN c[k] ELSE c[k + 1]
  <2>1. c \in Seq(Elems) /\ i \in 1..Len(c)
    BY <1>1
  <2>2. /\ a \in Seq(Elems) /\ Len(a) = Len(c) - 1
        /\ \A k \in 1..Len(c) - 1 : a[k] = IF k < i THEN c[k] ELSE c[k + 1]
    BY ONLY <2>1, OmittingIs
  <2> QED BY ONLY <2>2
<1> HIDE DEF a
<1>4. a = <<>> <=> Len(c) = 1
  <2>1. ChainFacts(a)
    BY <1>3, FactsOf
  <2>2. Len(c) \in Nat /\ Len(a) = Len(c) - 1
    BY <1>2, <1>3
  <2> QED BY ONLY <2>1, <2>2 DEF ChainFacts
\* Where the elements of the shorter chain stand in the longer one.
<1> DEFINE at(k) == IF k < i THEN k ELSE k + 1
<1>5. \A k \in 1..Len(a) : at(k) \in 1..Len(c) /\ at(k) # i /\ a[k] = c[at(k)]
  BY <1>1, <1>2, <1>3
<1>6. \A j \in 1..Len(c) : j # i => \E k \in 1..Len(a) : at(k) = j
  <2>1. ASSUME NEW j \in 1..Len(c), j < i PROVE \E k \in 1..Len(a) : at(k) = j
    <3>1. j \in 1..Len(a) /\ at(j) = j
      BY <1>1, <1>2, <1>3, <2>1
    <3> QED BY <3>1
  <2>2. ASSUME NEW j \in 1..Len(c), j > i PROVE \E k \in 1..Len(a) : at(k) = j
    <3>1. j - 1 \in 1..Len(a) /\ at(j - 1) = j
      BY <1>1, <1>2, <1>3, <2>2
    <3> QED BY <3>1
  <2> QED BY <1>1, <1>2, <2>1, <2>2
<1>7. \A k \in 1..Len(a) : a[k] \in Elems \ {c[i]}
  <2>1. ASSUME NEW k \in 1..Len(a) PROVE a[k] \in Elems \ {c[i]}
    <3> DEFINE j == at(k)
    <3>1. j \in 1..Len(c) /\ j # i /\ a[k] = c[j]
      BY <1>5
    <3> HIDE DEF j
    <3> QED BY <1>1, <1>2, <3>1
  <2> QED BY <2>1
<1>8. ASSUME NEW j \in 1..Len(a), NEW k \in 1..Len(a), a[j] = a[k] PROVE j = k
  <2>1. at(j) = at(k)
    <3> DEFINE x == at(j)  y == at(k)
    <3>1. x \in 1..Len(c) /\ y \in 1..Len(c) /\ a[j] = c[x] /\ a[k] = c[y]
      BY <1>5
    <3> HIDE DEF x, y
    <3>2. x = y
      BY <1>1, <1>8, <3>1
    <3> QED BY <3>2 DEF x, y
  <2> QED BY <1>1, <1>2, <1>3, <2>1
<1>9. ASSUME NEW x \in Elems PROVE new[x].state = "valid" <=> \E k \in 1..Len(a) : a[k] = x
  <2>1. CASE x = c[i]
    BY <1>7, <2>1 DEF Bypassed
  <2>2. CASE x # c[i]
    <3>1. new[x].state = "valid" <=> \E j \in 1..Len(c) : c[j] = x
      BY <2>2 DEF Bypassed, LinkedUp
    <3>2. ASSUME NEW j \in 1..Len(c), c[j] = x PROVE \E k \in 1..Len(a) : a[k] = x
      <4>1. PICK k \in 1..Len(a) : at(k) = j
        BY <1>6, <2>2, <3>2
      <4> QED BY <1>5, <3>2, <4>1
    <3>3. ASSUME NEW k \in 1..Len(a), a[k] = x PROVE \E j \in 1..Len(c) : c[j] = x
      <4> DEFINE j == at(k)
      <4>1. j \in 1..Len(c) /\ a[k] = c[j]
        BY <1>5
      <4> HIDE DEF j
      <4> QED BY <3>3, <4>1
    <3> QED BY <3>1, <3>2, <3>3
  <2> QED BY <2>1, <2>2
<1> HIDE DEF at
<1>10. ASSUME NEW k \in 1..Len(a) PROVE new[a[k]].next = IF k = Len(a) THEN Nil ELSE a[k + 1]
  <2>1. /\ k \in Nat /\ k >= 1 /\ k <= Len(c) - 1 /\ i \in Nat /\ i >= 1 /\ i <= Len(c)
    BY <1>1, <1>2, <1>3
  <2>2. new[a[k]].next = IF a[k] = Preceding(c, i) THEN IF c[i] = l THEN Nil ELSE el[c[i]].next
                         ELSE el[a[k]].next
    BY <1>7 DEF Bypassed
  <2>3. CASE k = i - 1
    <3>1. i # 1 /\ Preceding(c, i) = c[k] /\ a[k] = c[k] /\ k < i
      BY <1>3, <2>1, <2>3 DEF Preceding
    <3>2. new[a[k]].next = IF c[i] = l THEN Nil ELSE el[c[i]].next
      BY <2>2, <3>1
    <3>3. CASE i = Len(c)
      <4>1. c[i] = l /\ k = Len(a)
        BY <1>1, <1>3, <2>1, <2>3, <3>3
      <4> QED BY <3>2, <4>1
    <3>4. CASE i # Len(c)
      <4>1. c[i] # l /\ k # Len(a) /\ k + 1 = i /\ i \in 1..Len(a)
        BY <1>1, <1>2, <1>3, <2>1, <2>3, <3>4
      <4>2. a[i] = c[i + 1] /\ el[c[i]].next = c[i + 1]
        BY <1>1, <1>3, <3>4, <4>1
      <4> QED BY <3>2, <4>1, <4>2
    <3> QED BY <3>3, <3>4
  <2>4. CASE k < i - 1
    <3>1. a[k] = c[k] /\ k \in 1..Len(c) /\ k # Len(c) /\ k # Len(a) /\ a[k + 1] = c[k + 1]
      BY <1>3, <2>1, <2>4
    <3>2. a[k] # Preceding(c, i)
      <4>1. i # 1 /\ i - 1 \in 1..Len(c) /\ i - 1 # k
        BY <2>1, <2>4
      <4> QED BY <1>1, <3>1, <4>1 DEF Preceding
    <3> QED BY <1>1, <2>2, <3>1, <3>2
  <2>5. CASE k > i - 1
    <3>1. a[k] = c[k + 1] /\ k + 1 \in 1..Len(c) /\ (k + 1 = Len(c) <=> k = Len(a))
      BY <1>3, <2>1, <2>5
    <3>2. a[k] # Preceding(c, i)
      <4>1. CASE i = 1
        BY <1>2, <1>1, <3>1, <4>1 DEF Preceding
      <4>2. CASE i # 1
        <5>1. i - 1 \in 1..Len(c) /\ i - 1 # k + 1
          BY <2>1, <2>5, <4>2
        <5> QED BY <1>1, <3>1, <4>2, <5>1 DEF Preceding
      <4> QED BY <4>1, <4>2
    <3>3. el[c[k + 1]].next = IF k + 1 = Len(c) THEN Nil ELSE c[(k + 1) + 1]
      BY <1>1, <3>1
    <3>4. k # Len(a) => a[k + 1] = c[(k + 1) + 1]
      <4>1. ASSUME k # Len(a) PROVE k + 1 \in 1..Len(a) /\ ~(k + 1 < i)
        BY <1>3, <2>1, <2>5, <4>1
      <4> QED BY <1>3, <4>1
    <3> QED BY <2>2, <3>1, <3>2, <3>3, <3>4
  <2> QED BY <2>1, <2>3, <2>4, <2>5
<1>11. f2 = IF a = <<>> THEN Nil ELSE a[1]
  <2>1. f = c[1] /\ 1 \in 1..Len(c)
    BY <1>1, <1>2 DEF LinkedUp, ChainFacts
  <2>2. CASE i = 1
    <3>1. f2 = IF 1 = Len(c) THEN Nil ELSE c[1 + 1]
      BY <1>1, <2>2
    <3>2. Len(c) # 1 => 1 \in 1..Len(a) /\ ~(1 < i)
      BY <1>2, <1>3, <2>2
    <3> QED BY <1>3, <1>4, <3>1, <3>2
  <2>3. CASE i # 1
    <3>1. 1 < i /\ Len(c) # 1 /\ 1 \in 1..Len(a)
      BY <1>1, <1>2, <1>3, <2>3
    <3> QED BY <1>3, <1>4, <2>1, <2>3, <3>1
  <2> QED BY <2>2, <2>3
<1>12. l2 = IF a = <<>> THEN Nil ELSE a[Len(a)]
  <2>1. l = c[Len(c)]
    BY <1>1, <1>2 DEF LinkedUp, ChainFacts
  <2>2. CASE i = Len(c)
    <3>1. l2 = Preceding(c, i)
      BY <1>1, <2>2
    <3>2. CASE Len(c) = 1
      BY <1>4, <2>2, <3>1, <3>2 DEF Preceding
    <3>3. CASE Len(c) # 1
      <4>1. Len(a) \in 1..Len(a) /\ Len(a) < i /\ Len(a) = i - 1
        BY <1>2, <1>3, <2>2, <3>3
      <4> QED BY <1>3, <1>4, <2>2, <3>1, <3>3, <4>1 DEF Preceding
    <3> QED BY <3>2, <3>3
  <2>3. CASE i # Len(c)
    <3>1. l2 = l
      BY <1>1, <2>3
    <3>2. Len(a) \in 1..Len(a) /\ ~(Len(a) < i) /\ Len(a) + 1 = Len(c) /\ Len(c) # 1
      BY <1>1, <1>2, <1>3, <2>3
    <3> QED BY <1>3, <1>4, <2>1, <3>1, <3>2
  <2> QED BY <2>2, <2>3
<1> HIDE DEF f2, l2
<1>13. LinkedUp(a, f2, l2, new)
  BY <1>3, <1>8, <1>9, <1>10, <1>11, <1>12 DEF LinkedUp
<1> QED BY <1>13 DEF a, f2, l2

-----------------------------------------------------------------------------
(* What a step of one thread leaves as it is.                               *)

DataAlong(c, el) == [i \in 1..Len(c) |-> el[c[i]].data]

LEMMA NewChainIs ==
  ASSUME NEW c, LinkedUp(c, first', last', elem'), numElement' = Len(c)
  PROVE  ChainStands' /\ Chain' = c
<1>1. Chain' = c
  BY ChainIs, NewChainIsPassed
<1> QED BY <1>1 DEF ChainStands

LEMMA ContentsAre ==
  ASSUME ChainStands
  PROVE  contents = DataAlong(Chain, elem) /\ Held = DataHeld
<1>1. ChainFacts(Chain) /\ DOMAIN Chain = 1..Len(Chain)
  BY FactsOf, LenProperties DEF ChainStands, LinkedUp
<1>2. contents = DataAlong(Chain, elem)
  BY <1>1 DEF contents, DataAlong
<1>3. Held = {elem[Chain[i]].data : i \in 1..Len(Chain)}
  BY <1>1 DEF Held
<1>4. \A e \in Elems : elem[e].state = "valid" <=> \E i \in 1..Len(Chain) : Chain[i] = e
  BY DEF ChainStands, LinkedUp
<1>5. \A i \in 1..Len(Chain) : Chain[i] \in Elems
  BY <1>1 DEF ChainFacts
<1> QED BY <1>2, <1>3, <1>4, <1>5 DEF DataHeld

LEMMA NewContentsAre ==
  ASSUME ChainStands'
  PROVE  contents' = DataAlong(Chain', elem') /\ Held' = DataHeld'
<1>1. ChainFacts(Chain') /\ DOMAIN Chain' = 1..Len(Chain')
  BY FactsOf, LenProperties DEF ChainStands, LinkedUp
<1>2. contents' = DataAlong(Chain', elem')
  BY <1>1 DEF contents, DataAlong
<1>3. Held' = {elem'[Chain'[i]].data : i \in 1..Len(Chain')}
  BY <1>1 DEF Held
<1>4. \A e \in Elems : elem'[e].state = "valid" <=> \E i \in 1..Len(Chain') : Chain'[i] = e
  BY DEF ChainStands, LinkedUp
<1>5. \A i \in 1..Len(Chain') : Chain'[i] \in Elems
  BY <1>1 DEF ChainFacts
<1> QED BY <1>2, <1>3, <1>4, <1>5 DEF DataHeld

LEMMA LinksKept ==
  ASSUME ChainStands, UNCHANGED <<first, last, numElement>>, SameLinks(elem, elem')
  PROVE  ChainStands' /\ Chain' = Chain
<1>1. LinkedUp(Chain, first', last', elem')
  BY ChainUnchanged DEF ChainStands
<1> DEFINE c == Chain
<1>2. LinkedUp(c, first', last', elem') /\ numElement' = Len(c)
  BY <1>1 DEF ChainStands
<1> HIDE DEF c
<1>3. ChainStands' /\ Chain' = c
  BY <1>2, NewChainIs
<1> QED BY <1>3 DEF c

SameData(el, new) == \A e \in Elems : new[e].data = el[e].data

LEMMA DataKept ==
  ASSUME ChainStands, UNCHANGED <<first, last, numElement>>, SameLinks(elem, elem'),
         SameData(elem, elem')
  PROVE  contents' = contents /\ DataHeld' = DataHeld
<1>1. ChainStands' /\ Chain' = Chain
  BY LinksKept
<1>2. ChainFacts(Chain)
  BY FactsOf DEF ChainStands, LinkedUp
<1>3. contents = DataAlong(Chain, elem) /\ contents' = DataAlong(Chain', elem')
  BY <1>1, ContentsAre, NewContentsAre
<1>4. contents' = contents
  BY <1>1, <1>2, <1>3 DEF DataAlong, SameData, ChainFacts
<1>5. DataHeld' = DataHeld
  BY DEF DataHeld, SameLinks, SameData
<1> QED BY <1>4, <1>5

\* What thread t is doing becomes r, and of the elements only locks change.
Proceeds(t, r) ==
    /\ UNCHANGED <<first, last, numElement, automatic>>
    /\ thread' = [thread EXCEPT ![t] = r] /\ r \in Doings
    /\ elem' \in [Elems -> Elements] /\ SameLinks(elem, elem')
    /\ readers' = IF r.at \in WithLock THEN readers \cup {t} ELSE readers \ {t}
    /\ NoneBeside(elem')
    /\ \A e \in Elems, u \in Threads \ {t} :
         /\ u \in elem[e].readers => u \in elem'[e].readers
         /\ elem[e].writer = u => elem'[e].writer = u
    /\ \A u \in Threads \ {t} : thread[u].at = "store" =>
         elem'[thread[u].ptr].data = elem[thread[u].ptr].data
    /\ GoodPlace(t, r, elem') /\ HasLock(t, r, elem')

LEMMA ThreadIs ==
  ASSUME NEW t \in Threads, NEW r \in Doings, thread \in [Threads -> Doings],
         thread' = [thread EXCEPT ![t] = r]
  PROVE  /\ thread' \in [Threads -> Doings] /\ thread'[t] = r
         /\ \A u \in Threads \ {t} : thread'[u] = thread[u]
<1> HIDE DEF Doings
<1> QED OBVIOUS

LEMMA ProceedsKeeps ==
  ASSUME ListTyped, ChainStands, LocksHeld, OnTheWay, NEW t \in Threads, NEW r, Proceeds(t, r)
  PROVE  /\ thread' \in [Threads -> Doings] /\ elem' \in [Elems -> Elements]
         /\ automatic' \in BOOLEAN
         /\ ChainStands' /\ Chain' = Chain /\ LocksHeld' /\ OnTheWay'
<1>1. r \in Doings /\ thread \in [Threads -> Doings] /\ thread' = [thread EXCEPT ![t] = r]
  BY DEF Proceeds, ListTyped
<1>2. /\ thread' \in [Threads -> Doings] /\ thread'[t] = r
      /\ \A u \in Threads \ {t} : thread'[u] = thread[u]
  BY <1>1, ThreadIs
<1>3. ChainStands' /\ Chain' = Chain
  BY LinksKept DEF Proceeds
<1>4. elem' \in [Elems -> Elements] /\ automatic' \in BOOLEAN
  BY DEF Proceeds, ListTyped
<1>5. readers' = {u \in Threads : thread'[u].at \in WithLock}
  <2>1. readers = {u \in Threads : thread[u].at \in WithLock}
    BY DEF LocksHeld
  <2>2. readers' = IF r.at \in WithLock THEN readers \cup {t} ELSE readers \ {t}
    BY DEF Proceeds
  <2>3. \A u \in Threads : thread'[u].at \in WithLock <=>
          IF u = t THEN r.at \in WithLock ELSE thread[u].at \in WithLock
    BY <1>2
  <2> HIDE DEF WithLock
  <2> QED BY <2>1, <2>2, <2>3
<1>6. ASSUME NEW u \in Threads \ {t}
      PROVE  GoodPlace(u, thread'[u], elem') /\ HasLock(u, thread'[u], elem')
  <2> DEFINE s == thread[u]
  <2>1. thread'[u] = s /\ s \in Doings
    BY <1>1, <1>2
  <2>2. GoodPlace(u, s, elem) /\ HasLock(u, s, elem)
    BY DEF OnTheWay, LocksHeld
  <2>3. /\ \A e \in Elems : /\ elem'[e].state = elem[e].state
                            /\ u \in elem[e].readers => u \in elem'[e].readers
                            /\ elem[e].writer = u => elem'[e].writer = u
        /\ s.at = "store" => elem'[s.ptr].data = elem[s.ptr].data
    BY DEF Proceeds, SameLinks
  <2>4. s.ptr \in Elems \cup {Nil}
    BY <2>1 DEF Doings
  <2> HIDE DEF s
  <2>5. GoodPlace(u, s, elem')
    BY <2>2, <2>3, <2>4 DEF GoodPlace, WithLock
  <2>6. HasLock(u, s, elem')
    BY <2>2, <2>3, <2>4 DEF GoodPlace, HasLock
  <2> QED BY <2>1, <2>5, <2>6
<1>7. GoodPlace(t, thread'[t], elem') /\ HasLock(t, thread'[t], elem') /\ NoneBeside(elem')
  BY <1>2 DEF Proceeds
<1>8. \A u \in Threads : GoodPlace(u, thread'[u], elem') /\ HasLock(u, thread'[u], elem')
  BY <1>6, <1>7
<1>9. LocksHeld' /\ OnTheWay'
  BY <1>5, <1>7, <1>8 DEF LocksHeld, OnTheWay
<1> QED BY <1>2, <1>3, <1>4, <1>9

\* The new data that are not stored yet are those of the one thread that sets.
NewOf(r) == IF NotYetStored(r) THEN {r.new} ELSE {}

LEMMA DataNewIs ==
  ASSUME OnTheWay, NEW t \in Threads, NEW r \in Doings, thread \in [Threads -> Doings],
         thread' = [thread EXCEPT ![t] = r], r.op = "set" => t \in Setters
  PROVE  /\ DataNew' = (DataNew \ NewOf(thread[t])) \cup NewOf(r)
         /\ NewOf(thread[t]) \subseteq DataNew
         /\ \A u \in Setters : DataNew \subseteq {thread[u].new}
<1>1. thread'[t] = r /\ \A u \in Threads \ {t} : thread'[u] = thread[u]
  BY ThreadIs
<1>2. \A u \in Threads : NotYetStored(thread[u]) => u \in Setters
  BY DEF OnTheWay, GoodPlace, NotYetStored
<1>3. \A u, w \in Setters : u = w
  BY MTListAssumption
<1>4. NotYetStored(r) => t \in Setters
  BY DEF NotYetStored
<1>5. DataNew' = {thread'[u].new : u \in {w \in Threads : NotYetStored(thread'[w])}}
  BY DEF DataNew
<1>6. \A u \in Setters : DataNew \subseteq {thread[u].new}
  BY <1>2, <1>3 DEF DataNew
<1>7. NewOf(thread[t]) \subseteq DataNew
  BY DEF NewOf, DataNew
<1>8. DataNew' = (DataNew \ NewOf(thread[t])) \cup NewOf(r)
  <2> DEFINE rest == {thread[u].new : u \in {w \in Threads \ {t} : NotYetStored(thread[w])}}
  <2>1. DataNew' = rest \cup NewOf(r)
    BY <1>1, <1>5 DEF NewOf
  <2>2. DataNew = rest \cup NewOf(thread[t])
    BY DEF DataNew, NewOf
  <2>3. NotYetStored(thread[t]) => rest = {}
    BY <1>2, <1>3
  <2> HIDE DEF rest
  <2>4. rest = DataNew \ NewOf(thread[t])
    BY <2>2, <2>3 DEF NewOf
  <2> QED BY <2>1, <2>4
<1> QED BY <1>6, <1>7, <1>8

-----------------------------------------------------------------------------
(* The steps of the threads that walk along the list.                       *)

\* A step of the list is one of a sequence, or it cannot be seen.
ListMoves == MTListInv' /\ (contents' = contents \/ Shared!Next)

\* The thread may take new data, or get back those it could not store.
LEMMA QuietMove ==
  ASSUME MTListInv, NEW t \in Threads, NEW r, Proceeds(t, r), SameData(elem, elem'),
         UNCHANGED disposed,
         NewOf(r) \ NewOf(thread[t]) \subseteq Data \ given,
         given' = given \cup (NewOf(r) \ NewOf(thread[t])),
         back' = back \cup (NewOf(thread[t]) \ NewOf(r))
  PROVE  ListMoves
<1> DEFINE more == NewOf(r) \ NewOf(thread[t])
           less == NewOf(thread[t]) \ NewOf(r)
<1>1. /\ thread' \in [Threads -> Doings] /\ elem' \in [Elems -> Elements]
      /\ automatic' \in BOOLEAN
      /\ ChainStands' /\ Chain' = Chain /\ LocksHeld' /\ OnTheWay'
  BY ProceedsKeeps DEF MTListInv
<1>2. contents' = contents /\ DataHeld' = DataHeld
  BY DataKept DEF MTListInv, Proceeds
<1>3. DataNew' = (DataNew \ NewOf(thread[t])) \cup NewOf(r) /\ NewOf(thread[t]) \subseteq DataNew
  <2>1. /\ OnTheWay /\ r \in Doings /\ thread \in [Threads -> Doings]
        /\ thread' = [thread EXCEPT ![t] = r] /\ (r.op = "set" => t \in Setters)
    BY DEF MTListInv, ListTyped, Proceeds, GoodPlace
  <2> QED BY <2>1, DataNewIs
<1>4. DataNew' = (DataNew \ less) \cup more /\ less \subseteq DataNew
  BY <1>3
<1>5. /\ given' = given \cup more /\ back' = back \cup less /\ disposed' = disposed
      /\ more \subseteq Data \ given
  OBVIOUS
<1>6. given \subseteq Data /\ DataApart
  BY DEF MTListInv, ListTyped
<1> HIDE DEF more, less
<1>7. ListTyped'
  BY <1>1, <1>5, <1>6 DEF ListTyped
<1>8. given' = DataHeld' \cup disposed' \cup back' \cup DataNew'
  BY <1>2, <1>4, <1>5, <1>6 DEF DataApart
<1>9. Apart(DataHeld', disposed', back', DataNew')
  BY <1>2, <1>4, <1>5, <1>6 DEF DataApart, Apart
<1>10. /\ \A e \in Elems : elem'[e].state = "valid" => elem'[e].data \in Data
       /\ \A e, f \in Elems :
            elem'[e].state = "valid" /\ elem'[f].state = "valid"
              /\ elem'[e].data = elem'[f].data => e = f
  <2>1. \A e \in Elems : elem'[e].state = elem[e].state /\ elem'[e].data = elem[e].data
    BY DEF Proceeds, SameLinks, SameData
  <2> QED BY <2>1, <1>6 DEF DataApart
<1>11. DataApart'
  BY <1>8, <1>9, <1>10 DEF DataApart
<1> QED BY <1>1, <1>2, <1>7, <1>11 DEF MTListInv, ListMoves

\* The elements stay as they are.
LEMMA ElementsAsTheyAre ==
  ASSUME MTListInv, UNCHANGED elem
  PROVE  /\ elem' \in [Elems -> Elements] /\ SameLinks(elem, elem') /\ SameData(elem, elem')
         /\ NoneBeside(elem')
         /\ \A e \in Elems : elem'[e] = elem[e]
BY DEF MTListInv, ListTyped, SameLinks, SameData, LocksHeld

\* A step of a thread that touches no element.
LEMMA ThreadMoves ==
  ASSUME MTListInv, NEW t \in Threads, NEW r \in Doings, thread' = [thread EXCEPT ![t] = r],
         UNCHANGED <<chainVars, elem, disposed>>,
         readers' = IF r.at \in WithLock THEN readers \cup {t} ELSE readers \ {t},
         GoodPlace(t, r, elem), HasLock(t, r, elem),
         NewOf(r) \ NewOf(thread[t]) \subseteq Data \ given,
         given' = given \cup (NewOf(r) \ NewOf(thread[t])),
         back' = back \cup (NewOf(thread[t]) \ NewOf(r))
  PROVE  ListMoves
<1>1. /\ elem' \in [Elems -> Elements] /\ SameLinks(elem, elem') /\ SameData(elem, elem')
      /\ NoneBeside(elem') /\ elem' = elem
  BY ElementsAsTheyAre
<1>2. Proceeds(t, r)
  BY <1>1 DEF Proceeds, chainVars
<1> QED BY <1>1, <1>2, QuietMove

LEMMA ThreadFacts ==
  ASSUME MTListInv, NEW t \in Threads
  PROVE  /\ thread[t] \in Doings /\ GoodPlace(t, thread[t], elem) /\ HasLock(t, thread[t], elem)
         /\ t \in readers <=> thread[t].at \in WithLock
         /\ Idle \in Doings /\ NewOf(Idle) = {} /\ GoodPlace(t, Idle, elem) /\ HasLock(t, Idle, elem)
         /\ first \in Elems \cup {Nil} /\ (first # Nil => elem[first].state = "valid")
<1>1. thread[t] \in Doings /\ GoodPlace(t, thread[t], elem) /\ HasLock(t, thread[t], elem)
  BY DEF MTListInv, ListTyped, OnTheWay, LocksHeld
<1>2. t \in readers <=> thread[t].at \in WithLock
  BY DEF MTListInv, LocksHeld
<1>3. Idle \in Doings
  BY DEF Idle, Doings, Walks
<1>4. NewOf(Idle) = {} /\ GoodPlace(t, Idle, elem) /\ HasLock(t, Idle, elem)
  BY DEF Idle, NewOf, NotYetStored, GoodPlace, HasLock, WithLock
<1>5. first \in Elems \cup {Nil} /\ (first # Nil => elem[first].state = "valid")
  <2>1. LinkedUp(Chain, first, last, elem)
    BY DEF MTListInv, ChainStands
  <2>2. first \in Elems \cup {Nil} /\ (Chain = <<>> <=> first = Nil)
        /\ \A i \in 1..Len(Chain) : elem[Chain[i]].state = "valid"
    BY <2>1, LastIs
  <2>3. ChainFacts(Chain)
    BY <2>1, FactsOf DEF LinkedUp
  <2>4. first # Nil => 1 \in 1..Len(Chain) /\ first = Chain[1]
    BY <2>1, <2>2, <2>3 DEF LinkedUp, ChainFacts
  <2> QED BY <2>2, <2>4
<1> QED BY <1>1, <1>2, <1>3, <1>4, <1>5

LEMMA LockForWalkMoves ==
  ASSUME MTListInv, NEW t \in Threads, NEW op \in Walks, NEW d \in Data \cup {Nil},
         NEW new \in Data, LockForWalk(t, op, d, new)
  PROVE  ListMoves
<1> DEFINE r == [op |-> op, at |-> IF first = Nil THEN "unlock" ELSE "walk", ptr |-> first,
                 searched |-> d, new |-> IF op = "set" THEN new ELSE Nil]
<1>1. /\ thread[t].at = "idle" /\ (op = "set" => t \in Setters /\ new \notin given)
      /\ (d = Nil <=> op \in {"forRead", "forWrite"})
      /\ readers' = readers \cup {t} /\ thread' = [thread EXCEPT ![t] = r]
      /\ given' = (IF op = "set" THEN given \cup {new} ELSE given)
      /\ UNCHANGED <<chainVars, elem, back, disposed>>
  BY DEF LockForWalk, IsIdle
<1>2. /\ thread[t] \in Doings /\ GoodPlace(t, thread[t], elem)
      /\ first \in Elems \cup {Nil} /\ (first # Nil => elem[first].state = "valid")
  BY ThreadFacts
<1>3. NewOf(thread[t]) = {}
  BY <1>1, <1>2 DEF GoodPlace, NewOf, NotYetStored
<1>4. /\ r.op = op /\ r.at = (IF first = Nil THEN "unlock" ELSE "walk") /\ r.ptr = first
      /\ r.searched = d /\ r.new = (IF op = "set" THEN new ELSE Nil)
      /\ r \in Doings
  BY <1>2 DEF Doings
<1> HIDE DEF r
<1>5. NewOf(r) = IF op = "set" THEN {new} ELSE {}
  BY <1>4 DEF NewOf, NotYetStored
<1>6. GoodPlace(t, r, elem) /\ HasLock(t, r, elem) /\ r.at \in WithLock
  BY <1>1, <1>2, <1>4 DEF GoodPlace, HasLock, WithLock, Walks
<1>7. /\ NewOf(r) \ NewOf(thread[t]) \subseteq Data \ given
      /\ given' = given \cup (NewOf(r) \ NewOf(thread[t]))
      /\ back' = back \cup (NewOf(thread[t]) \ NewOf(r))
  BY <1>1, <1>3, <1>5
<1>8. readers' = IF r.at \in WithLock THEN readers \cup {t} ELSE readers \ {t}
  BY <1>1, <1>6
<1> QED BY <1>1, <1>4, <1>6, <1>7, <1>8, ThreadMoves

LEMMA NextIsValid ==
  ASSUME MTListInv, NEW e \in Elems, elem[e].state = "valid"
  PROVE  elem[e].next \in Elems \cup {Nil}
         /\ (elem[e].next # Nil => elem[elem[e].next].state = "valid")
<1>1. LinkedUp(Chain, first, last, elem)
  BY DEF MTListInv, ChainStands
<1>2. PICK i \in 1..Len(Chain) : Chain[i] = e
  BY <1>1 DEF LinkedUp
<1>3. elem[e].next = IF i = Len(Chain) THEN Nil ELSE Chain[i + 1]
  BY <1>1, <1>2 DEF LinkedUp
<1>4. ChainFacts(Chain)
  BY <1>1, FactsOf DEF LinkedUp
<1>5. i # Len(Chain) => i + 1 \in 1..Len(Chain)
  BY <1>4 DEF ChainFacts
<1>6. \A j \in 1..Len(Chain) : elem[Chain[j]].state = "valid" /\ Chain[j] \in Elems
  BY <1>1, <1>4, LastIs DEF ChainFacts
<1> QED BY <1>3, <1>5, <1>6

\* How a thread goes on or stops.
GoneOn(s, n) == [s EXCEPT !.ptr = n, !.at = IF n = Nil THEN "unlock" ELSE "walk"]
NowAt(s, place) == [s EXCEPT !.at = place]

LEMMA GoneOnIs ==
  ASSUME NEW s \in Doings, NEW n \in Elems \cup {Nil}
  PROVE  /\ GoneOn(s, n) \in Doings
         /\ GoneOn(s, n).op = s.op /\ GoneOn(s, n).ptr = n /\ GoneOn(s, n).new = s.new
         /\ GoneOn(s, n).searched = s.searched
         /\ GoneOn(s, n).at = IF n = Nil THEN "unlock" ELSE "walk"
BY DEF Doings, GoneOn

LEMMA NowAtIs ==
  ASSUME NEW s \in Doings,
         NEW place \in {"idle", "walk", "inside", "store", "unlock", "result"}
  PROVE  /\ NowAt(s, place) \in Doings
         /\ NowAt(s, place).op = s.op /\ NowAt(s, place).ptr = s.ptr
         /\ NowAt(s, place).new = s.new /\ NowAt(s, place).searched = s.searched
         /\ NowAt(s, place).at = place
BY DEF Doings, NowAt

LEMMA ThreadsAre ==
  ASSUME NEW t \in Threads, thread \in [Threads -> Doings], NEW place
  PROVE  /\ [thread EXCEPT ![t].at = place] = [thread EXCEPT ![t] = NowAt(thread[t], place)]
         /\ Stop(t) = [thread EXCEPT ![t] = NowAt(thread[t], "unlock")]
         /\ Onwards(t) = [thread EXCEPT ![t] = GoneOn(thread[t], elem[thread[t].ptr].next)]
BY DEF NowAt, GoneOn, Stop, Onwards

LEMMA CompareMoves ==
  ASSUME MTListInv, NEW t \in Threads, Compare(t)
  PROVE  ListMoves
<1> DEFINE s == thread[t]
           e == s.ptr
           n == elem[e].next
<1>1. /\ s \in Doings /\ GoodPlace(t, s, elem) /\ (t \in readers <=> s.at \in WithLock)
      /\ s.at = "walk" /\ s.op = "isPresent" /\ thread \in [Threads -> Doings]
  BY ThreadFacts DEF Compare, MTListInv, ListTyped
<1>2. e \in Elems /\ elem[e].state = "valid" /\ e # Nil
  BY <1>1, NilIsNoElem DEF GoodPlace, Doings, WithLock
<1>3. n \in Elems \cup {Nil} /\ (n # Nil => elem[n].state = "valid")
  BY <1>2, NextIsValid
<1>4. /\ thread' = [thread EXCEPT ![t] = NowAt(s, "unlock")]
         \/ thread' = [thread EXCEPT ![t] = GoneOn(s, n)]
      /\ UNCHANGED <<chainVars, elem, readers, dataVars>>
  BY <1>1, ThreadsAre DEF Compare
<1> HIDE DEF s, n
<1>5. ASSUME NEW r \in {NowAt(s, "unlock"), GoneOn(s, n)}, thread' = [thread EXCEPT ![t] = r]
      PROVE  ListMoves
  <2>1. /\ r \in Doings /\ r.op = "isPresent" /\ r.at \in {"walk", "unlock"}
        /\ (r.at = "walk" => r.ptr # Nil) /\ (r.ptr # Nil => elem[r.ptr].state = "valid")
    BY <1>1, <1>2, <1>3, <1>5, GoneOnIs, NowAtIs
  <2>2. GoodPlace(t, r, elem) /\ HasLock(t, r, elem) /\ r.at \in WithLock /\ t \in readers
    BY <1>1, <2>1 DEF GoodPlace, HasLock, WithLock
  <2>3. NewOf(r) = {} /\ NewOf(thread[t]) = {}
    BY <1>1, <2>1 DEF NewOf, NotYetStored, s
  <2>4. /\ NewOf(r) \ NewOf(thread[t]) \subseteq Data \ given
        /\ given' = given \cup (NewOf(r) \ NewOf(thread[t]))
        /\ back' = back \cup (NewOf(thread[t]) \ NewOf(r))
    BY <1>4, <2>3 DEF dataVars
  <2>5. /\ readers' = IF r.at \in WithLock THEN readers \cup {t} ELSE readers \ {t}
    BY <1>4, <2>2
  <2>6. UNCHANGED <<chainVars, elem, disposed>>
    BY <1>4 DEF dataVars
  <2> QED BY <1>5, <2>1, <2>2, <2>4, <2>5, <2>6, ThreadMoves
<1> QED BY <1>4, <1>5

LEMMA UnlockMoves ==
  ASSUME MTListInv, NEW t \in Threads, UnlockAfterWalk(t)
  PROVE  ListMoves
<1> DEFINE s == thread[t]
<1>1. /\ s \in Doings /\ GoodPlace(t, s, elem) /\ s.at = "unlock"
      /\ thread \in [Threads -> Doings]
      /\ Idle \in Doings /\ NewOf(Idle) = {} /\ GoodPlace(t, Idle, elem) /\ HasLock(t, Idle, elem)
  BY ThreadFacts DEF UnlockAfterWalk, MTListInv, ListTyped
<1>2. /\ \/ thread' = [thread EXCEPT ![t] = Idle]
         \/ thread' = [thread EXCEPT ![t] = NowAt(s, "result")] /\ s.op # "set"
      /\ readers' = readers \ {t} /\ back' = back \cup NotStored(t)
      /\ UNCHANGED <<chainVars, elem, given, disposed>>
  BY <1>1, ThreadsAre DEF UnlockAfterWalk
<1>3. NotStored(t) = NewOf(thread[t])
  BY <1>1 DEF NotStored, NewOf, NotYetStored
<1>4. ASSUME NEW r \in Doings, thread' = [thread EXCEPT ![t] = r], r.at \notin WithLock,
             NewOf(r) = {}, GoodPlace(t, r, elem), HasLock(t, r, elem)
      PROVE  ListMoves
  <2>1. /\ NewOf(r) \ NewOf(thread[t]) \subseteq Data \ given
        /\ given' = given \cup (NewOf(r) \ NewOf(thread[t]))
        /\ back' = back \cup (NewOf(thread[t]) \ NewOf(r))
    BY <1>2, <1>3, <1>4
  <2>2. readers' = IF r.at \in WithLock THEN readers \cup {t} ELSE readers \ {t}
    BY <1>2, <1>4
  <2>3. UNCHANGED <<chainVars, elem, disposed>>
    BY <1>2
  <2> QED BY <1>4, <2>1, <2>2, <2>3, ThreadMoves
<1>5. CASE thread' = [thread EXCEPT ![t] = Idle]
  <2>1. Idle.at \notin WithLock
    BY DEF Idle, WithLock
  <2> QED BY <1>1, <1>4, <1>5, <2>1
<1>6. CASE thread' = [thread EXCEPT ![t] = NowAt(s, "result")] /\ s.op # "set"
  <2> DEFINE r == NowAt(s, "result")
  <2>1. r \in Doings /\ r.op = s.op /\ r.at = "result" /\ r.ptr = s.ptr
    BY <1>1, NowAtIs
  <2>2. thread' = [thread EXCEPT ![t] = r]
    BY <1>6
  <2> HIDE DEF r, s
  <2>3. r.at \notin WithLock /\ NewOf(r) = {}
    BY <1>6, <2>1 DEF NewOf, NotYetStored, WithLock
  <2>4. GoodPlace(t, r, elem) /\ HasLock(t, r, elem)
    BY <1>1, <1>6, <2>1 DEF GoodPlace, HasLock, WithLock
  <2> QED BY <1>4, <2>1, <2>2, <2>3, <2>4
<1> QED BY <1>2, <1>5, <1>6

LEMMA ReadResultMoves ==
  ASSUME MTListInv, NEW t \in Threads, ReadResult(t)
  PROVE  ListMoves
<1>1. /\ thread[t] \in Doings /\ GoodPlace(t, thread[t], elem)
      /\ (t \in readers <=> thread[t].at \in WithLock)
      /\ Idle \in Doings /\ NewOf(Idle) = {} /\ GoodPlace(t, Idle, elem) /\ HasLock(t, Idle, elem)
  BY ThreadFacts
<1>2. /\ thread[t].at = "result" /\ thread' = [thread EXCEPT ![t] = Idle]
      /\ UNCHANGED <<chainVars, elem, readers, dataVars>>
  BY DEF ReadResult
<1>3. NewOf(thread[t]) = {} /\ t \notin readers
  BY <1>1, <1>2 DEF GoodPlace, NewOf, NotYetStored, WithLock
<1>4. /\ NewOf(Idle) \ NewOf(thread[t]) \subseteq Data \ given
      /\ given' = given \cup (NewOf(Idle) \ NewOf(thread[t]))
      /\ back' = back \cup (NewOf(thread[t]) \ NewOf(Idle))
  BY <1>1, <1>2, <1>3 DEF dataVars
<1>5. readers' = IF Idle.at \in WithLock THEN readers \cup {t} ELSE readers \ {t}
  <2>1. Idle.at \notin WithLock
    BY DEF Idle, WithLock
  <2> QED BY <1>2, <1>3, <2>1
<1>6. UNCHANGED <<chainVars, elem, disposed>>
  BY <1>2 DEF dataVars
<1> QED BY <1>1, <1>2, <1>4, <1>5, <1>6, ThreadMoves

LEMMA GetNextMoves ==
  ASSUME MTListInv, NEW t \in Threads, GetNextElement(t)
  PROVE  ListMoves
<1> DEFINE s == thread[t]
           n == IF s.ptr = Nil THEN first ELSE elem[s.ptr].next
           r == [s EXCEPT !.ptr = n]
<1>1. /\ s \in Doings /\ GoodPlace(t, s, elem) /\ first \in Elems \cup {Nil}
      /\ (t \in readers <=> s.at \in WithLock) /\ thread \in [Threads -> Doings]
      /\ elem \in [Elems -> Elements]
  BY ThreadFacts DEF MTListInv, ListTyped
<1>2. /\ s.at = "idle" /\ UNCHANGED <<chainVars, elem, readers, dataVars>>
      /\ thread' = [thread EXCEPT ![t].ptr = n]
  BY DEF GetNextElement, IsIdle
<1>3. n \in Elems \cup {Nil}
  BY <1>1 DEF Doings, Elements
<1>4. thread' = [thread EXCEPT ![t] = r]
  BY <1>1, <1>2
<1> HIDE DEF s, n
<1>5. r \in Doings /\ r.at = s.at /\ r.op = s.op
  BY <1>1, <1>3 DEF Doings
<1> HIDE DEF r
<1>6. s.op = "none" /\ r.at \notin WithLock /\ t \notin readers
  BY <1>1, <1>2, <1>5 DEF GoodPlace, WithLock
<1>7. GoodPlace(t, r, elem) /\ HasLock(t, r, elem)
  BY <1>2, <1>5, <1>6 DEF GoodPlace, HasLock
<1>8. NewOf(r) = {} /\ NewOf(thread[t]) = {}
  BY <1>5, <1>6 DEF NewOf, NotYetStored, s
<1>9. /\ NewOf(r) \ NewOf(thread[t]) \subseteq Data \ given
      /\ given' = given \cup (NewOf(r) \ NewOf(thread[t]))
      /\ back' = back \cup (NewOf(thread[t]) \ NewOf(r))
  BY <1>2, <1>8 DEF dataVars
<1>10. readers' = IF r.at \in WithLock THEN readers \cup {t} ELSE readers \ {t}
  BY <1>2, <1>6
<1>11. UNCHANGED <<chainVars, elem, disposed>>
  BY <1>2 DEF dataVars
<1> QED BY <1>4, <1>5, <1>7, <1>9, <1>10, <1>11, ThreadMoves

-----------------------------------------------------------------------------
(* The steps that take or release the lock of an element.                   *)

\* What an element is when only its locks change.
Relocked(el, e, r, w) == [el EXCEPT ![e] = [@ EXCEPT !.readers = r, !.writer = w]]

RelockedFrom(el, new, e, r, w) ==
    /\ new \in [Elems -> Elements] /\ SameLinks(el, new) /\ SameData(el, new)
    /\ new[e].readers = r /\ new[e].writer = w
    /\ \A x \in Elems \ {e} : new[x] = el[x]

LEMMA RelockedIs ==
  ASSUME NEW el \in [Elems -> Elements], NEW e \in Elems, NEW r \in SUBSET Threads,
         NEW w \in Threads \cup {Nil}
  PROVE  RelockedFrom(el, Relocked(el, e, r, w), e, r, w)
<1> DEFINE one == [el[e] EXCEPT !.readers = r]
           two == [one EXCEPT !.writer = w]
           new == [el EXCEPT ![e] = two]
<1>1. Relocked(el, e, r, w) = new
  BY DEF Relocked
<1>2. one \in Elements /\ one.state = el[e].state /\ one.next = el[e].next
      /\ one.data = el[e].data /\ one.readers = r
  BY DEF Elements
<1> HIDE DEF one
<1>3. two \in Elements /\ two.state = one.state /\ two.next = one.next
      /\ two.data = one.data /\ two.readers = one.readers /\ two.writer = w
  BY <1>2 DEF Elements
<1> HIDE DEF two, Elements
<1>4. new \in [Elems -> Elements] /\ new[e] = two /\ \A x \in Elems \ {e} : new[x] = el[x]
  BY <1>3
<1> HIDE DEF new
<1>5. SameLinks(el, new) /\ SameData(el, new)
  BY <1>2, <1>3, <1>4 DEF SameLinks, SameData
<1> QED BY <1>1, <1>2, <1>3, <1>4, <1>5 DEF RelockedFrom

LEMMA EnterMoves ==
  ASSUME MTListInv, NEW t \in Threads, EnterElement(t)
  PROVE  ListMoves
<1> DEFINE s == thread[t]
           e == s.ptr
           write == s.op = "forWrite"
           rs == IF write THEN elem[e].readers ELSE elem[e].readers \cup {t}
           w == IF write THEN t ELSE elem[e].writer
           r == NowAt(s, "inside")
<1>1. /\ s \in Doings /\ GoodPlace(t, s, elem) /\ (t \in readers <=> s.at \in WithLock)
      /\ s.at = "walk" /\ CanEnter(t, e) /\ thread \in [Threads -> Doings]
      /\ elem \in [Elems -> Elements] /\ NoneBeside(elem)
  BY ThreadFacts DEF EnterElement, MTListInv, ListTyped, LocksHeld
<1>2. e \in Elems /\ elem[e].state = "valid" /\ e # Nil
  BY <1>1, NilIsNoElem DEF GoodPlace, Doings, WithLock
<1>3. /\ thread' = [thread EXCEPT ![t] = r]
      /\ UNCHANGED <<chainVars, readers, dataVars>>
  BY <1>1, ThreadsAre DEF EnterElement
<1>4. elem[e].writer = Nil /\ (write => elem[e].readers = {})
      /\ rs \in SUBSET Threads /\ w \in Threads \cup {Nil}
  BY <1>1, <1>2 DEF CanEnter, Elements
<1>5. elem' = Relocked(elem, e, rs, w)
  <2>2. elem[e] \in Elements
    BY <1>1, <1>2
  <2>3. (IF write THEN [elem[e] EXCEPT !.writer = t]
         ELSE [elem[e] EXCEPT !.readers = @ \cup {t}])
        = [elem[e] EXCEPT !.readers = rs, !.writer = w]
    <3> HIDE DEF e, s
    <3>1. CASE write
      BY <2>2, <3>1 DEF Elements
    <3>2. CASE ~write
      BY <2>2, <3>2 DEF Elements
    <3> QED BY <3>1, <3>2
  <2> DEFINE inside == IF write THEN [elem[e] EXCEPT !.writer = t]
                       ELSE [elem[e] EXCEPT !.readers = @ \cup {t}]
  <2>4. elem' = [elem EXCEPT ![e] = inside]
    <3>1. CASE write
      BY <1>1, <1>2, <3>1 DEF EnterElement
    <3>2. CASE ~write
      BY <1>1, <1>2, <3>2 DEF EnterElement
    <3> QED BY <3>1, <3>2
  <2>5. inside = [elem[e] EXCEPT !.readers = rs, !.writer = w]
    BY <2>3
  <2> HIDE DEF write, rs, w, e, s, inside
  <2>6. Relocked(elem, e, rs, w) = [elem EXCEPT ![e] = inside]
    BY <2>5 DEF Relocked
  <2> QED BY <2>4, <2>6
<1>6. /\ r \in Doings /\ r.op = s.op /\ r.ptr = s.ptr /\ r.new = s.new
      /\ r.searched = s.searched /\ r.at = "inside"
  BY <1>1, NowAtIs
<1> HIDE DEF r
<1>7. /\ elem' \in [Elems -> Elements] /\ SameLinks(elem, elem') /\ SameData(elem, elem')
      /\ elem'[e].readers = rs /\ elem'[e].writer = w
      /\ \A x \in Elems \ {e} : elem'[x] = elem[x]
  <2> HIDE DEF e, rs, w
  <2>1. RelockedFrom(elem, Relocked(elem, e, rs, w), e, rs, w)
    BY <1>1, <1>2, <1>4, RelockedIs
  <2> QED BY <1>5, <2>1 DEF RelockedFrom
<1>8. NoneBeside(elem')
  BY <1>1, <1>4, <1>7 DEF NoneBeside
<1>9. \A x \in Elems, u \in Threads \ {t} :
         /\ u \in elem[x].readers => u \in elem'[x].readers
         /\ elem[x].writer = u => elem'[x].writer = u
  <2>1. Nil \notin Threads
    BY MTListAssumption
  <2> QED BY <1>4, <1>7, <2>1
<1>10. \A u \in Threads \ {t} : thread[u].at = "store" =>
         elem'[thread[u].ptr].data = elem[thread[u].ptr].data
  <2>1. \A u \in Threads : thread[u].at = "store" => thread[u].ptr \in Elems
    BY <1>1 DEF MTListInv, OnTheWay, GoodPlace, Doings
  <2> QED BY <1>7, <2>1 DEF SameData
<1>11. GoodPlace(t, r, elem') /\ HasLock(t, r, elem') /\ r.at \in WithLock /\ t \in readers
  <2>1. r.at \in WithLock /\ t \in readers
    BY <1>1, <1>6 DEF WithLock
  <2>2. HasLock(t, r, elem')
    BY <1>6, <1>7 DEF HasLock
  <2>3. GoodPlace(t, r, elem')
    BY <1>1, <1>2, <1>6, <1>7 DEF GoodPlace, SameLinks
  <2> QED BY <2>1, <2>2, <2>3
<1>12. readers' = IF r.at \in WithLock THEN readers \cup {t} ELSE readers \ {t}
  BY <1>3, <1>11
<1>13. Proceeds(t, r)
  BY <1>3, <1>6, <1>7, <1>8, <1>9, <1>10, <1>11, <1>12 DEF Proceeds, chainVars
<1>14. NewOf(r) = NewOf(thread[t])
  BY <1>1, <1>6 DEF NewOf, NotYetStored
<1>15. /\ NewOf(r) \ NewOf(thread[t]) \subseteq Data \ given
       /\ given' = given \cup (NewOf(r) \ NewOf(thread[t]))
       /\ back' = back \cup (NewOf(thread[t]) \ NewOf(r)) /\ UNCHANGED disposed
  BY <1>3, <1>14 DEF dataVars
<1> QED BY <1>7, <1>13, <1>15, QuietMove

\* Whoever leaves an element takes its own lock along, and nobody else's.
LEMMA LeftIs ==
  ASSUME MTListInv, NEW t \in Threads, NEW e \in Elems
  PROVE  LET new == Left(t, e)
         IN  /\ new \in [Elems -> Elements] /\ SameLinks(elem, new) /\ SameData(elem, new)
             /\ NoneBeside(new)
             /\ \A x \in Elems, u \in Threads \ {t} :
                  /\ u \in elem[x].readers => u \in new[x].readers
                  /\ elem[x].writer = u => new[x].writer = u
<1> DEFINE rs == elem[e].readers \ {t}
           w == IF elem[e].writer = t THEN Nil ELSE elem[e].writer
           new == Relocked(elem, e, rs, w)
<1>1. elem \in [Elems -> Elements] /\ NoneBeside(elem)
  BY DEF MTListInv, ListTyped, LocksHeld
<1>2. rs \in SUBSET Threads /\ w \in Threads \cup {Nil}
  BY <1>1 DEF Elements
<1>3. Left(t, e) = new
  <2>1. elem[e] \in Elements
    BY <1>1
  <2>2. Left(t, e) = [elem EXCEPT ![e] = [[elem[e] EXCEPT !.readers = rs] EXCEPT !.writer = w]]
    BY <1>1, <2>1 DEF Left, Elements
  <2> HIDE DEF rs, w
  <2> QED BY <2>2 DEF Relocked
<1>4. /\ new \in [Elems -> Elements] /\ SameLinks(elem, new) /\ SameData(elem, new)
      /\ new[e].readers = rs /\ new[e].writer = w
      /\ \A x \in Elems \ {e} : new[x] = elem[x]
  <2> HIDE DEF rs, w
  <2>1. RelockedFrom(elem, new, e, rs, w)
    BY <1>1, <1>2, RelockedIs
  <2> QED BY <2>1 DEF RelockedFrom
<1> HIDE DEF new
<1>5. NoneBeside(new)
  BY <1>1, <1>4 DEF NoneBeside
<1>6. \A x \in Elems, u \in Threads \ {t} :
        /\ u \in elem[x].readers => u \in new[x].readers
        /\ elem[x].writer = u => new[x].writer = u
  BY <1>4
<1> QED BY <1>3, <1>4, <1>5, <1>6

\* Where a thread may go from an element it was inside of.
LEMMA LeaveMoves ==
  ASSUME MTListInv, NEW t \in Threads, LeaveElement(t)
  PROVE  ListMoves
<1> DEFINE s == thread[t]
           e == s.ptr
           n == elem[e].next
<1>1. /\ s \in Doings /\ GoodPlace(t, s, elem) /\ HasLock(t, s, elem)
      /\ (t \in readers <=> s.at \in WithLock)
      /\ s.at = "inside" /\ thread \in [Threads -> Doings]
      /\ elem \in [Elems -> Elements] /\ NoneBeside(elem)
  BY ThreadFacts DEF LeaveElement, MTListInv, ListTyped, LocksHeld
<1>2. e \in Elems /\ elem[e].state = "valid" /\ e # Nil
  BY <1>1, NilIsNoElem DEF GoodPlace, Doings, WithLock
<1>3. n \in Elems \cup {Nil} /\ (n # Nil => elem[n].state = "valid")
  BY <1>2, NextIsValid
<1>4. /\ UNCHANGED <<chainVars, readers, dataVars>> /\ t \in readers
      /\ \/ /\ s.op = "set" /\ elem[e].data = s.searched
            /\ thread' = [thread EXCEPT ![t] = NowAt(s, "store")] /\ UNCHANGED elem
         \/ /\ thread' = [thread EXCEPT ![t] = GoneOn(s, n)] /\ elem' = Left(t, e)
         \/ /\ s.op # "set"
            /\ thread' = [thread EXCEPT ![t] = NowAt(s, "unlock")] /\ elem' = Left(t, e)
  BY <1>1, ThreadsAre DEF LeaveElement, WithLock
<1> HIDE DEF n
<1>5. CASE /\ s.op = "set" /\ elem[e].data = s.searched
           /\ thread' = [thread EXCEPT ![t] = NowAt(s, "store")] /\ UNCHANGED elem
  <2> DEFINE r == NowAt(s, "store")
  <2>1. /\ r \in Doings /\ r.op = s.op /\ r.ptr = s.ptr /\ r.new = s.new
        /\ r.searched = s.searched /\ r.at = "store" /\ thread' = [thread EXCEPT ![t] = r]
    BY <1>1, <1>5, NowAtIs
  <2> HIDE DEF r
  <2>2. GoodPlace(t, r, elem)
    BY <1>1, <1>2, <1>5, <2>1 DEF GoodPlace
  <2>3. HasLock(t, r, elem) /\ r.at \in WithLock
    BY <1>1, <2>1 DEF HasLock, WithLock
  <2>4. NewOf(r) = NewOf(thread[t])
    BY <1>1, <2>1 DEF NewOf, NotYetStored
  <2>5. /\ NewOf(r) \ NewOf(thread[t]) \subseteq Data \ given
        /\ given' = given \cup (NewOf(r) \ NewOf(thread[t]))
        /\ back' = back \cup (NewOf(thread[t]) \ NewOf(r))
        /\ UNCHANGED <<chainVars, elem, disposed>>
    BY <1>4, <1>5, <2>4 DEF dataVars
  <2>6. readers' = IF r.at \in WithLock THEN readers \cup {t} ELSE readers \ {t}
    BY <1>4, <2>3
  <2> QED BY <2>1, <2>2, <2>3, <2>5, <2>6, ThreadMoves
<1>6. ASSUME NEW r \in Doings, thread' = [thread EXCEPT ![t] = r], elem' = Left(t, e),
             r.op = s.op, r.new = s.new, r.searched = s.searched, r.at \in {"walk", "unlock"},
             r.at = "walk" => r.ptr # Nil, r.ptr # Nil => elem[r.ptr].state = "valid",
             r.op = "set" => r.at = "walk" \/ r.ptr = Nil
      PROVE  ListMoves
  <2>1. /\ elem' \in [Elems -> Elements] /\ SameLinks(elem, elem') /\ SameData(elem, elem')
        /\ NoneBeside(elem')
        /\ \A x \in Elems, u \in Threads \ {t} :
             /\ u \in elem[x].readers => u \in elem'[x].readers
             /\ elem[x].writer = u => elem'[x].writer = u
    BY <1>2, <1>6, LeftIs
  <2>2. \A u \in Threads \ {t} : thread[u].at = "store" =>
           elem'[thread[u].ptr].data = elem[thread[u].ptr].data
    <3>1. \A u \in Threads : thread[u].at = "store" => thread[u].ptr \in Elems
      BY <1>1 DEF MTListInv, OnTheWay, GoodPlace, Doings
    <3> QED BY <2>1, <3>1 DEF SameData
  <2>3. HasLock(t, r, elem') /\ r.at \in WithLock
    BY <1>6 DEF HasLock, WithLock
  <2>4. GoodPlace(t, r, elem')
    <3>1. r.ptr \in Elems \cup {Nil}
      BY <1>6 DEF Doings
    <3>2. r.ptr # Nil => elem'[r.ptr].state = "valid"
      BY <1>6, <2>1, <3>1 DEF SameLinks
    <3> QED BY <1>1, <1>6, <3>2 DEF GoodPlace
  <2>5. readers' = IF r.at \in WithLock THEN readers \cup {t} ELSE readers \ {t}
    BY <1>4, <2>3
  <2>6. Proceeds(t, r)
    BY <1>4, <1>6, <2>1, <2>2, <2>3, <2>4, <2>5 DEF Proceeds, chainVars
  <2>7. NewOf(r) = NewOf(thread[t])
    BY <1>1, <1>6 DEF NewOf, NotYetStored
  <2>8. /\ NewOf(r) \ NewOf(thread[t]) \subseteq Data \ given
        /\ given' = given \cup (NewOf(r) \ NewOf(thread[t]))
        /\ back' = back \cup (NewOf(thread[t]) \ NewOf(r)) /\ UNCHANGED disposed
    BY <1>4, <2>7 DEF dataVars
  <2> QED BY <2>1, <2>6, <2>8, QuietMove
<1>7. CASE thread' = [thread EXCEPT ![t] = GoneOn(s, n)] /\ elem' = Left(t, e)
  <2> DEFINE r == GoneOn(s, n)
  <2>1. /\ r \in Doings /\ r.op = s.op /\ r.ptr = n /\ r.new = s.new
        /\ r.searched = s.searched /\ r.at = IF n = Nil THEN "unlock" ELSE "walk"
    BY <1>1, <1>3, GoneOnIs
  <2>2. thread' = [thread EXCEPT ![t] = r] /\ elem' = Left(t, e)
    BY <1>7
  <2> HIDE DEF r, s
  <2> QED BY <1>3, <1>6, <2>1, <2>2
<1>8. CASE s.op # "set" /\ thread' = [thread EXCEPT ![t] = NowAt(s, "unlock")] /\ elem' = Left(t, e)
  <2> DEFINE r == NowAt(s, "unlock")
  <2>1. /\ r \in Doings /\ r.op = s.op /\ r.ptr = e /\ r.new = s.new
        /\ r.searched = s.searched /\ r.at = "unlock"
    BY <1>1, NowAtIs
  <2>2. thread' = [thread EXCEPT ![t] = r] /\ elem' = Left(t, e) /\ s.op # "set"
    BY <1>8
  <2> HIDE DEF r, s
  <2> QED BY <1>2, <1>6, <2>1, <2>2
<1> QED BY <1>4, <1>5, <1>7, <1>8

LEMMA StoreMoves ==
  ASSUME MTListInv, NEW t \in Threads, Store(t)
  PROVE  ListMoves
<1> DEFINE s == thread[t]
           e == s.ptr
           mid == Left(t, e)
           r == NowAt(s, "unlock")
<1>1. /\ s \in Doings /\ GoodPlace(t, s, elem)
      /\ (t \in readers <=> s.at \in WithLock)
      /\ s.at = "store" /\ thread \in [Threads -> Doings]
      /\ elem \in [Elems -> Elements] /\ DataApart /\ ChainStands /\ given \subseteq Data
      /\ OnTheWay /\ ListTyped /\ LocksHeld
  BY ThreadFacts DEF Store, MTListInv, ListTyped
<1>2. /\ e \in Elems /\ elem[e].state = "valid" /\ e # Nil /\ t \in Setters
      /\ s.new \in Data /\ s.op = "set" /\ elem[e].data = s.searched /\ t \in readers
  BY <1>1, NilIsNoElem DEF GoodPlace, Doings, WithLock
<1>3. /\ UNCHANGED <<chainVars, readers, given, disposed>>
      /\ thread' = [thread EXCEPT ![t] = r] /\ back' = back \cup {s.searched}
      /\ elem' = [mid EXCEPT ![e].data = s.new]
  BY <1>1, ThreadsAre DEF Store, ReplacedBy
<1>4. /\ mid \in [Elems -> Elements] /\ SameLinks(elem, mid) /\ SameData(elem, mid)
      /\ NoneBeside(mid)
      /\ \A x \in Elems, u \in Threads \ {t} :
           /\ u \in elem[x].readers => u \in mid[x].readers
           /\ elem[x].writer = u => mid[x].writer = u
  BY <1>2, LeftIs
<1>5. /\ r \in Doings /\ r.op = "set" /\ r.ptr = e /\ r.new = s.new
      /\ r.searched = s.searched /\ r.at = "unlock"
  BY <1>1, <1>2, NowAtIs
<1> HIDE DEF mid, r, e, s
<1>6. /\ elem' \in [Elems -> Elements]
      /\ \A x \in Elems : /\ elem'[x].state = mid[x].state /\ elem'[x].next = mid[x].next
                          /\ elem'[x].readers = mid[x].readers
                          /\ elem'[x].writer = mid[x].writer
                          /\ elem'[x].data = IF x = e THEN s.new ELSE mid[x].data
  <2> DEFINE m == [mid[e] EXCEPT !.data = s.new]
  <2>1. mid[e] \in Elements
    BY <1>2, <1>4
  <2>2. /\ m \in Elements /\ m.state = mid[e].state /\ m.next = mid[e].next
        /\ m.readers = mid[e].readers /\ m.writer = mid[e].writer /\ m.data = s.new
    BY <1>2, <2>1 DEF Elements
  <2>3. elem' = [mid EXCEPT ![e] = m]
    BY <1>3
  <2> HIDE DEF m, Elements
  <2>4. elem' \in [Elems -> Elements] /\ \A x \in Elems : elem'[x] = IF x = e THEN m ELSE mid[x]
    BY <1>2, <1>4, <2>2, <2>3
  <2> QED BY <2>2, <2>4
<1>7. /\ SameLinks(elem, elem') /\ NoneBeside(elem')
      /\ \A x \in Elems : elem'[x].data = IF x = e THEN s.new ELSE elem[x].data
  BY <1>4, <1>6 DEF SameLinks, SameData, NoneBeside
<1>8. \A u \in Threads \ {t} : thread[u].at # "store"
  <2>1. \A u \in Threads : thread[u].at = "store" => u \in Setters
    BY <1>1 DEF OnTheWay, GoodPlace
  <2>2. \A u, w \in Setters : u = w
    BY MTListAssumption
  <2> QED BY <1>2, <2>1, <2>2
<1>9. Proceeds(t, r)
  <2>1. GoodPlace(t, r, elem')
    <3>1. elem'[e].state = "valid" /\ s.searched \in Data
      BY <1>1, <1>2, <1>7 DEF SameLinks, GoodPlace
    <3> QED BY <1>2, <1>5, <3>1 DEF GoodPlace
  <2>2. HasLock(t, r, elem') /\ r.at \in WithLock
    BY <1>5 DEF HasLock, WithLock
  <2>3. readers' = IF r.at \in WithLock THEN readers \cup {t} ELSE readers \ {t}
    BY <1>2, <1>3, <2>2
  <2>4. \A x \in Elems, u \in Threads \ {t} :
           /\ u \in elem[x].readers => u \in elem'[x].readers
           /\ elem[x].writer = u => elem'[x].writer = u
    BY <1>4, <1>6
  <2> QED BY <1>3, <1>5, <1>6, <1>7, <1>8, <2>1, <2>2, <2>3, <2>4 DEF Proceeds, chainVars
<1>10. /\ thread' \in [Threads -> Doings] /\ elem' \in [Elems -> Elements]
       /\ automatic' \in BOOLEAN
       /\ ChainStands' /\ Chain' = Chain /\ LocksHeld' /\ OnTheWay'
  BY <1>1, <1>9, ProceedsKeeps
<1>11. DataNew = {s.new} /\ DataNew' = {}
  <2>1. /\ DataNew' = (DataNew \ NewOf(s)) \cup NewOf(r) /\ NewOf(s) \subseteq DataNew
        /\ DataNew \subseteq {s.new}
    BY <1>1, <1>2, <1>3, <1>5, DataNewIs DEF s
  <2>2. NewOf(s) = {s.new} /\ NewOf(r) = {}
    BY <1>1, <1>2, <1>5 DEF NewOf, NotYetStored
  <2> QED BY <2>1, <2>2
<1>12. s.new \notin DataHeld /\ s.searched \in DataHeld
  BY <1>1, <1>2, <1>11 DEF DataApart, Apart, DataHeld
<1>13. \A x \in Elems : elem[x].state = "valid" /\ x # e => elem[x].data # s.searched
  BY <1>1, <1>2 DEF DataApart
<1>14. \A x \in Elems : elem[x].state = "valid" => elem[x].data # s.new
  BY <1>12 DEF DataHeld
<1>15. DataHeld' = (DataHeld \ {s.searched}) \cup {s.new}
  <2>1. DataHeld' = {elem'[x].data : x \in {y \in Elems : elem'[y].state = "valid"}}
    BY DEF DataHeld
  <2>2. \A x \in Elems : elem'[x].state = elem[x].state
    BY <1>7 DEF SameLinks
  <2>3. DataHeld = {elem[x].data : x \in {y \in Elems : elem[y].state = "valid"}}
    BY DEF DataHeld
  <2> QED BY <1>2, <1>7, <1>13, <2>1, <2>2, <2>3
<1>16. DataApart'
  <2>1. given' = DataHeld' \cup disposed' \cup back' \cup DataNew'
    BY <1>1, <1>3, <1>11, <1>12, <1>15 DEF DataApart
  <2>2. Apart(DataHeld', disposed', back', DataNew')
    BY <1>1, <1>3, <1>11, <1>12, <1>15 DEF DataApart, Apart
  <2>3. \A x \in Elems : elem'[x].state = "valid" => elem'[x].data \in Data
    BY <1>1, <1>2, <1>7 DEF DataApart, SameLinks
  <2>4. \A x, y \in Elems :
          elem'[x].state = "valid" /\ elem'[y].state = "valid" /\ elem'[x].data = elem'[y].data
          => x = y
    <3>1. \A x \in Elems : elem'[x].state = elem[x].state
      BY <1>7 DEF SameLinks
    <3> QED BY <1>1, <1>7, <1>14, <3>1 DEF DataApart
  <2> QED BY <2>1, <2>2, <2>3, <2>4 DEF DataApart
<1>17. ListTyped'
  BY <1>3, <1>10, <1>1 DEF ListTyped
<1>18. Shared!Next
  <2>1. LinkedUp(Chain, first, last, elem)
    BY <1>1 DEF ChainStands
  <2>2. PICK i \in 1..Len(Chain) : Chain[i] = e
    BY <1>2, <2>1 DEF LinkedUp
  <2>3. contents = DataAlong(Chain, elem) /\ contents' = DataAlong(Chain, elem')
    BY <1>1, <1>10, ContentsAre, NewContentsAre
  <2>4. ChainFacts(Chain) /\ \A j \in 1..Len(Chain) : Chain[j] = e <=> j = i
    BY <2>1, <2>2, FactsOf DEF LinkedUp
  <2>5. DOMAIN contents = 1..Len(Chain) /\ contents[i] # s.new
    BY <1>14, <2>1, <2>2, <2>3, LastIs, <2>4 DEF DataAlong, ChainFacts
  <2>6. \A j \in 1..Len(Chain) :
          elem'[Chain[j]].data = IF j = i THEN s.new ELSE elem[Chain[j]].data
    BY <1>7, <2>4 DEF ChainFacts
  <2>7. contents' = [contents EXCEPT ![i] = s.new]
    BY <2>3, <2>6 DEF DataAlong
  <2>8. contents' # contents
    BY <2>5, <2>7
  <2>9. Shared!SetAt(i, s.new)
    BY <2>7 DEF Shared!SetAt, Shared!ReplaceAt
  <2> QED BY <1>2, <2>5, <2>8, <2>9 DEF Shared!Next
<1> QED BY <1>10, <1>16, <1>17, <1>18 DEF MTListInv, ListMoves

LEMMA PlacesAreSeq ==
  ASSUME NEW S, NEW n \in Nat, NEW f \in [1..n -> S]
  PROVE  f \in Seq(S) /\ Len(f) = n
OBVIOUS

-----------------------------------------------------------------------------
(* The calls that hold the lock of the list for writing.                    *)

LEMMA NobodyWalks ==
  ASSUME MTListInv, readers = {}, UNCHANGED <<readers, thread>>, NoneBeside(elem')
  PROVE  LocksHeld' /\ OnTheWay' /\ DataNew' = DataNew
<1>1. \A t \in Threads : thread[t].at \notin WithLock
  BY DEF MTListInv, LocksHeld
<1>2. readers' = {t \in Threads : thread'[t].at \in WithLock}
  BY DEF MTListInv, LocksHeld
<1>3. ASSUME NEW t \in Threads PROVE HasLock(t, thread'[t], elem') /\ GoodPlace(t, thread'[t], elem')
  <2>1. thread'[t] = thread[t] /\ thread[t].at \notin WithLock
    BY <1>1
  <2>2. GoodPlace(t, thread[t], elem)
    BY DEF MTListInv, OnTheWay
  <2>3. HasLock(t, thread[t], elem')
    BY <2>1 DEF HasLock, WithLock
  <2>4. GoodPlace(t, thread[t], elem')
    BY <2>1, <2>2 DEF GoodPlace, WithLock
  <2> QED BY <2>1, <2>3, <2>4
<1>4. LocksHeld' /\ OnTheWay'
  BY <1>2, <1>3 DEF LocksHeld, OnTheWay
<1>5. DataNew' = DataNew
  BY DEF DataNew
<1> QED BY <1>4, <1>5

\* One more element with new data.
LEMMA OneMoreHeld ==
  ASSUME MTListInv, NEW e \in Elems, NEW d \in Data \ given, elem[e].state # "valid",
         elem'[e].state = "valid", elem'[e].data = d,
         \A x \in Elems \ {e} : elem'[x].state = elem[x].state /\ elem'[x].data = elem[x].data,
         given' = given \cup {d}, UNCHANGED <<back, disposed>>, DataNew' = DataNew
  PROVE  DataApart' /\ given' \in SUBSET Data
<1>1. DataApart /\ given \subseteq Data
  BY DEF MTListInv, ListTyped
<1>2. DataHeld' = {elem'[x].data : x \in {y \in Elems : elem'[y].state = "valid"}}
      /\ DataHeld = {elem[x].data : x \in {y \in Elems : elem[y].state = "valid"}}
  BY DEF DataHeld
<1>3. DataHeld' = DataHeld \cup {d}
  BY <1>2
<1>4. d \notin DataHeld /\ d \notin disposed /\ d \notin back /\ d \notin DataNew
  BY <1>1 DEF DataApart
<1>5. \A x \in Elems : elem[x].state = "valid" => elem[x].data # d
  BY <1>4 DEF DataHeld
<1>6. given' = DataHeld' \cup disposed' \cup back' \cup DataNew'
  BY <1>1, <1>3 DEF DataApart
<1>7. Apart(DataHeld', disposed', back', DataNew')
  BY <1>1, <1>3, <1>4 DEF DataApart, Apart
<1>8. \A x \in Elems : elem'[x].state = "valid" => elem'[x].data \in Data
  BY <1>1 DEF DataApart
<1>9. \A x, y \in Elems :
        elem'[x].state = "valid" /\ elem'[y].state = "valid" /\ elem'[x].data = elem'[y].data
        => x = y
  BY <1>1, <1>5 DEF DataApart
<1> QED BY <1>1, <1>6, <1>7, <1>8, <1>9 DEF DataApart

LEMMA NewElement ==
  ASSUME MTListInv, NEW d \in Data, NEW n \in Elems \cup {Nil}
  PROVE  /\ Created(d, n) \in Elements /\ Created(d, n).state = "valid"
         /\ Created(d, n).next = n /\ Created(d, n).data = d
         /\ Created(d, n).readers = {} /\ Created(d, n).writer = Nil
BY DEF Created, Elements

LEMMA Relinked ==
  ASSUME NEW r \in Elements, NEW n \in Elems \cup {Nil}
  PROVE  LET new == [r EXCEPT !.next = n]
         IN  /\ new \in Elements /\ new.state = r.state /\ new.next = n /\ new.data = r.data
             /\ new.readers = r.readers /\ new.writer = r.writer
BY DEF Elements

LEMMA AddMoves ==
  ASSUME MTListInv, NEW t \in Threads, NEW d \in Data, Add(t, d)
  PROVE  ListMoves
<1> DEFINE c == Chain
<1>1. PICK e \in Elems :
        /\ IsIdle(t) /\ readers = {} /\ elem[e].state = "unused" /\ d \notin given
        /\ elem' = [x \in Elems |->
              IF x = e THEN Created(d, Nil)
              ELSE IF x = last /\ numElement # 0 THEN [elem[x] EXCEPT !.next = e]
              ELSE elem[x]]
        /\ first' = (IF numElement = 0 THEN e ELSE first) /\ last' = e
        /\ numElement' = numElement + 1 /\ given' = given \cup {d}
        /\ UNCHANGED <<automatic, readers, thread, back, disposed>>
  BY DEF Add, MayWriteLock, IsNew
<1>2. /\ ListTyped /\ ChainStands /\ elem \in [Elems -> Elements] /\ NoneBeside(elem)
      /\ automatic \in BOOLEAN /\ thread \in [Threads -> Doings]
  BY DEF MTListInv, ListTyped, LocksHeld
<1>3. LinkedUp(c, first, last, elem) /\ numElement = Len(c) /\ ChainFacts(c) /\ c \in Seq(Elems)
  BY <1>2, FactsOf DEF ChainStands, LinkedUp
<1>4. c = <<>> <=> last = Nil
  BY <1>3, LastIs
<1>5. numElement = 0 <=> c = <<>>
  BY <1>3 DEF ChainFacts
<1>6. /\ elem'[e] = Created(d, Nil)
      /\ \A x \in Elems \ {e} :
           elem'[x] = IF x = last THEN [elem[x] EXCEPT !.next = e] ELSE elem[x]
  BY <1>1, <1>4, <1>5, NilIsNoElem
<1>7. /\ Created(d, Nil) \in Elements /\ Created(d, Nil).state = "valid"
      /\ Created(d, Nil).next = Nil /\ Created(d, Nil).data = d
      /\ Created(d, Nil).readers = {} /\ Created(d, Nil).writer = Nil
  BY NewElement
<1>8. \A x \in Elems \ {e} :
        /\ elem'[x] \in Elements /\ elem'[x].state = elem[x].state
        /\ elem'[x].next = (IF x = last THEN e ELSE elem[x].next)
        /\ elem'[x].data = elem[x].data /\ elem'[x].readers = elem[x].readers
        /\ elem'[x].writer = elem[x].writer
  <2>1. ASSUME NEW x \in Elems \ {e}, x = last
        PROVE  /\ elem'[x] \in Elements /\ elem'[x].state = elem[x].state
               /\ elem'[x].next = e
               /\ elem'[x].data = elem[x].data /\ elem'[x].readers = elem[x].readers
               /\ elem'[x].writer = elem[x].writer
    <3>1. elem[x] \in Elements /\ elem'[x] = [elem[x] EXCEPT !.next = e]
      BY <1>2, <1>6, <2>1
    <3> QED BY <3>1, Relinked
  <2>2. ASSUME NEW x \in Elems \ {e}, x # last PROVE elem'[x] = elem[x] /\ elem[x] \in Elements
    BY <1>2, <1>6, <2>2
  <2> QED BY <2>1, <2>2
<1>9. elem' \in [Elems -> Elements]
  <2>1. elem' = [x \in Elems |-> elem'[x]]
    BY <1>1
  <2>2. \A x \in Elems : elem'[x] \in Elements
    BY <1>6, <1>7, <1>8
  <2> HIDE DEF Elements
  <2> QED BY <2>1, <2>2
<1>10. NoneBeside(elem')
  BY <1>2, <1>6, <1>7, <1>8 DEF NoneBeside
<1>11. LocksHeld' /\ OnTheWay' /\ DataNew' = DataNew
  BY <1>1, <1>10, NobodyWalks
<1>12. DataApart' /\ given' \in SUBSET Data
  BY <1>1, <1>6, <1>7, <1>8, <1>11, OneMoreHeld
<1>13. LinkedUp(Append(c, e), IF c = <<>> THEN e ELSE first, e, elem')
  <2>1. LinkedBehind(elem, elem', e, last)
    BY <1>1, <1>6, <1>7, <1>8 DEF LinkedBehind
  <2> QED BY <1>3, <2>1, ChainBehind
<1> DEFINE a == Append(c, e)
<1>14. a \in Seq(Elems) /\ Len(a) = Len(c) + 1 /\ a[Len(c) + 1] = e
       /\ \A i \in 1..Len(c) : a[i] = c[i]
  BY <1>3, AppendProperties DEF ChainFacts
<1>15. LinkedUp(a, first', last', elem') /\ numElement' = Len(a)
  <2>1. first' = IF c = <<>> THEN e ELSE first
    BY <1>1, <1>5
  <2> HIDE DEF c
  <2>2. last' = e /\ numElement' = Len(a)
    BY <1>1, <1>3, <1>14
  <2> QED BY <1>13, <2>1, <2>2
<1> HIDE DEF a, c
<1>16. ChainStands' /\ Chain' = a
  BY <1>15, NewChainIs
<1>17. Shared!Next
  <2>1. contents = DataAlong(c, elem) /\ contents' = DataAlong(a, elem')
    BY <1>2, <1>16, ContentsAre, NewContentsAre DEF c
  <2> DEFINE old == DataAlong(c, elem)
             new == DataAlong(a, elem')
  <2>2. /\ Len(c) \in Nat /\ \A i \in 1..Len(c) : c[i] \in Elems /\ elem[c[i]].state = "valid"
    BY <1>3, LastIs DEF ChainFacts
  <2>3. old \in [1..Len(c) -> Data \cup {Nil}]
    BY <1>2, <2>2 DEF DataAlong, Elements
  <2>4. old \in Seq(Data \cup {Nil}) /\ Len(old) = Len(c)
    BY <2>2, <2>3, PlacesAreSeq
  <2>5. \A i \in 1..Len(c) : new[i] = old[i]
    <3>1. ASSUME NEW i \in 1..Len(c) PROVE new[i] = old[i]
      <4>1. a[i] = c[i] /\ c[i] \in Elems \ {e} /\ i \in 1..Len(a)
        BY <1>1, <1>14, <2>2
      <4>2. elem'[c[i]].data = elem[c[i]].data
        BY <1>8, <4>1
      <4> QED BY <4>1, <4>2 DEF DataAlong
    <3> QED BY <3>1
  <2>6. new[Len(c) + 1] = d
    BY <1>6, <1>7, <1>14, <2>2 DEF DataAlong
  <2>7. new = [i \in 1..Len(c) + 1 |-> new[i]]
    BY <1>14 DEF DataAlong
  <2> HIDE DEF old, new
  <2>8. new = Append(old, d)
    <3>1. new \in [1..Len(c) + 1 -> Data \cup {Nil}]
      <4>1. \A i \in 1..Len(c) + 1 : new[i] \in Data \cup {Nil}
        BY <2>2, <2>3, <2>5, <2>6
      <4> QED BY <2>7, <4>1
    <3>2. new \in Seq(Data \cup {Nil}) /\ Len(new) = Len(old) + 1
      BY <2>2, <2>4, <3>1, PlacesAreSeq
    <3> QED BY <2>2, <2>4, <2>5, <2>6, <3>2, AppendedIs
  <2>9. contents' = Append(contents, d) /\ contents' # contents
    <3>1. Len(Append(old, d)) = Len(old) + 1 /\ Len(old) \in Nat
      BY <2>2, <2>4
    <3>2. Append(old, d) # old
      BY <3>1
    <3> QED BY <2>1, <2>8, <3>2 DEF old, new
  <2> QED BY <2>9 DEF Shared!Next, Shared!Add
<1>18. ListTyped'
  BY <1>1, <1>2, <1>9, <1>12 DEF ListTyped
<1> QED BY <1>11, <1>12, <1>16, <1>17, <1>18 DEF MTListInv, ListMoves

LEMMA DataAlongIs ==
  ASSUME NEW c \in Seq(Elems), NEW el \in [Elems -> Elements]
  PROVE  /\ DataAlong(c, el) \in Seq(Data \cup {Nil}) /\ Len(DataAlong(c, el)) = Len(c)
         /\ \A i \in 1..Len(c) : DataAlong(c, el)[i] = el[c[i]].data
<1>1. Len(c) \in Nat /\ \A i \in 1..Len(c) : c[i] \in Elems
  BY FactsOf DEF ChainFacts
<1>2. DataAlong(c, el) \in [1..Len(c) -> Data \cup {Nil}]
  BY <1>1 DEF DataAlong, Elements
<1>3. DataAlong(c, el) \in Seq(Data \cup {Nil}) /\ Len(DataAlong(c, el)) = Len(c)
  BY <1>1, <1>2, PlacesAreSeq
<1> QED BY <1>3 DEF DataAlong

LEMMA PrependedIs ==
  ASSUME NEW S, NEW s \in Seq(S), NEW d \in S, NEW r \in Seq(S), Len(r) = Len(s) + 1,
         \A i \in 1..Len(s) : r[i + 1] = s[i], r[1] = d
  PROVE  r = <<d>> \o s
<1>1. <<d>> \in Seq(S) /\ Len(<<d>>) = 1 /\ <<d>>[1] = d
  OBVIOUS
<1>2. /\ <<d>> \o s \in Seq(S) /\ Len(<<d>> \o s) = 1 + Len(s)
      /\ \A i \in 1..1 + Len(s) : (<<d>> \o s)[i] = IF i <= 1 THEN <<d>>[i] ELSE s[i - 1]
  BY <1>1, ConcatProperties
<1> DEFINE q == <<d>> \o s
<1>3. Len(s) \in Nat
  BY LenProperties
<1> HIDE DEF q
<1>4. ASSUME NEW i \in 1..Len(r) PROVE r[i] = q[i]
  <2>1. CASE i = 1
    BY <1>1, <1>2, <1>3, <2>1 DEF q
  <2>2. CASE i # 1
    <3>1. i - 1 \in 1..Len(s) /\ (i - 1) + 1 = i /\ i \in 1..1 + Len(s) /\ ~(i <= 1)
      BY <1>3, <2>2
    <3>2. r[i] = s[i - 1]
      BY <3>1
    <3>3. q[i] = s[i - 1]
      BY <1>2, <3>1 DEF q
    <3> QED BY <3>2, <3>3
  <2> QED BY <2>1, <2>2
<1>5. q \in Seq(S) /\ Len(q) = Len(r)
  BY <1>2, <1>3 DEF q
<1>6. r = q
  BY <1>4, <1>5, SeqEqual
<1> QED BY <1>6 DEF q

LEMMA InsertMoves ==
  ASSUME MTListInv, NEW t \in Threads, NEW d \in Data, Insert(t, d)
  PROVE  ListMoves
<1> DEFINE c == Chain
<1>1. PICK e \in Elems :
        /\ IsIdle(t) /\ readers = {} /\ elem[e].state = "unused" /\ d \notin given
        /\ elem' = [elem EXCEPT ![e] = Created(d, first)]
        /\ first' = e /\ last' = (IF last = Nil THEN e ELSE last)
        /\ numElement' = numElement + 1 /\ given' = given \cup {d}
        /\ UNCHANGED <<automatic, readers, thread, back, disposed>>
  BY DEF Insert, MayWriteLock, IsNew
<1>2. /\ ListTyped /\ ChainStands /\ elem \in [Elems -> Elements] /\ NoneBeside(elem)
      /\ automatic \in BOOLEAN /\ thread \in [Threads -> Doings]
      /\ first \in Elems \cup {Nil}
  BY ThreadFacts DEF MTListInv, ListTyped, LocksHeld
<1>3. LinkedUp(c, first, last, elem) /\ numElement = Len(c) /\ ChainFacts(c) /\ c \in Seq(Elems)
  BY <1>2, FactsOf DEF ChainStands, LinkedUp
<1>4. /\ Created(d, first) \in Elements /\ Created(d, first).state = "valid"
      /\ Created(d, first).next = first /\ Created(d, first).data = d
      /\ Created(d, first).readers = {} /\ Created(d, first).writer = Nil
  BY <1>2, NewElement
<1>5. /\ elem' \in [Elems -> Elements] /\ elem'[e] = Created(d, first)
      /\ \A x \in Elems \ {e} : elem'[x] = elem[x]
  <2> HIDE DEF Elements
  <2> QED BY <1>1, <1>2, <1>4
<1>6. NoneBeside(elem')
  BY <1>2, <1>4, <1>5 DEF NoneBeside
<1>7. LocksHeld' /\ OnTheWay' /\ DataNew' = DataNew
  BY <1>1, <1>6, NobodyWalks
<1>8. DataApart' /\ given' \in SUBSET Data
  BY <1>1, <1>4, <1>5, <1>7, OneMoreHeld
<1> DEFINE a == <<e>> \o c
<1>9. LinkedUp(a, first', last', elem')
  <2>1. LinkedBefore(elem, elem', e, first)
    BY <1>1, <1>4, <1>5 DEF LinkedBefore
  <2> QED BY <1>1, <1>3, <2>1, ChainBefore
<1>10. a \in Seq(Elems) /\ Len(a) = Len(c) + 1 /\ a[1] = e
       /\ \A i \in 1..Len(c) : a[i + 1] = c[i]
  <2>1. <<e>> \in Seq(Elems) /\ Len(<<e>>) = 1 /\ <<e>>[1] = e
    OBVIOUS
  <2>2. /\ a \in Seq(Elems) /\ Len(a) = 1 + Len(c)
        /\ \A i \in 1..1 + Len(c) : a[i] = IF i <= 1 THEN <<e>>[i] ELSE c[i - 1]
    BY <1>3, <2>1, ConcatProperties
  <2>3. Len(c) \in Nat
    BY <1>3 DEF ChainFacts
  <2> HIDE DEF a, c
  <2>4. ASSUME NEW i \in 1..Len(c) PROVE a[i + 1] = c[i]
    <3>1. i + 1 \in 1..1 + Len(c) /\ ~(i + 1 <= 1) /\ (i + 1) - 1 = i
      BY <2>3, <2>4
    <3> QED BY <2>2, <3>1
  <2> QED BY <2>1, <2>2, <2>3, <2>4
<1> HIDE DEF a, c
<1>11. ChainStands' /\ Chain' = a
  <2>1. numElement' = Len(a)
    BY <1>1, <1>3, <1>10
  <2> QED BY <1>9, <2>1, NewChainIs
<1>12. Shared!Next
  <2> DEFINE old == DataAlong(c, elem)
             new == DataAlong(a, elem')
  <2>1. contents = old /\ contents' = new
    BY <1>2, <1>11, ContentsAre, NewContentsAre DEF c
  <2>2. /\ Len(c) \in Nat /\ \A i \in 1..Len(c) : c[i] \in Elems /\ elem[c[i]].state = "valid"
    BY <1>3, LastIs DEF ChainFacts
  <2>3. /\ old \in Seq(Data \cup {Nil}) /\ Len(old) = Len(c)
        /\ \A i \in 1..Len(c) : old[i] = elem[c[i]].data
    BY <1>2, <1>3, DataAlongIs
  <2>4. /\ new \in Seq(Data \cup {Nil}) /\ Len(new) = Len(a)
        /\ \A i \in 1..Len(a) : new[i] = elem'[a[i]].data
    BY <1>5, <1>10, DataAlongIs
  <2> HIDE DEF old, new
  <2>5. new[1] = d
    BY <1>4, <1>5, <1>10, <2>2, <2>4
  <2>6. ASSUME NEW i \in 1..Len(c) PROVE new[i + 1] = old[i]
    <3>1. i + 1 \in 1..Len(a) /\ a[i + 1] = c[i] /\ c[i] \in Elems \ {e}
      BY <1>1, <1>10, <2>2
    <3> QED BY <1>5, <2>3, <2>4, <3>1
  <2>7. new = <<d>> \o old
    <3>1. Len(new) = Len(old) + 1 /\ d \in Data \cup {Nil}
      BY <1>10, <2>3, <2>4
    <3>2. \A i \in 1..Len(old) : new[i + 1] = old[i]
      BY <2>3, <2>6
    <3> QED BY <2>3, <2>4, <2>5, <3>1, <3>2, PrependedIs
  <2>8. new # old
    BY <1>10, <2>2, <2>3, <2>4
  <2> QED BY <2>1, <2>7, <2>8 DEF Shared!Next, Shared!Insert
<1>13. ListTyped'
  BY <1>1, <1>2, <1>5, <1>8 DEF ListTyped
<1> QED BY <1>7, <1>8, <1>11, <1>12, <1>13 DEF MTListInv, ListMoves

LEMMA SetDeleteModeMoves ==
  ASSUME MTListInv, NEW t \in Threads, SetDeleteMode(t)
  PROVE  ListMoves
<1>1. /\ readers = {} /\ automatic' = ~automatic
      /\ UNCHANGED <<first, last, numElement, elem, readers, thread, dataVars>>
  BY DEF SetDeleteMode, MayWriteLock
<1>2. /\ elem' \in [Elems -> Elements] /\ SameLinks(elem, elem') /\ SameData(elem, elem')
      /\ NoneBeside(elem')
  BY <1>1, ElementsAsTheyAre
<1>3. LocksHeld' /\ OnTheWay' /\ DataNew' = DataNew
  BY <1>1, <1>2, NobodyWalks
<1>4. ChainStands' /\ contents' = contents /\ DataHeld' = DataHeld
  BY <1>1, <1>2, LinksKept, DataKept DEF MTListInv
<1>5. DataApart'
  BY <1>1, <1>3, <1>4 DEF MTListInv, DataApart, dataVars
<1>6. ListTyped'
  BY <1>1 DEF MTListInv, ListTyped, dataVars
<1> QED BY <1>3, <1>4, <1>5, <1>6 DEF MTListInv, ListMoves

LEMMA ClearMoves ==
  ASSUME MTListInv, NEW t \in Threads, Clear(t)
  PROVE  ListMoves
<1>1. /\ \A u \in Threads : thread[u].at = "idle"
      /\ first # Nil
      /\ elem' = [x \in Elems |-> IF \E i \in DOMAIN Chain : Chain[i] = x
                                  THEN [Deleted(x) EXCEPT !.data = Nil] ELSE elem[x]]
      /\ first' = Nil /\ last' = Nil /\ numElement' = 0 /\ automatic' = TRUE
      /\ Dispose(ClearedData)
      /\ thread' = [u \in Threads |-> Idle]
      /\ UNCHANGED readers
  BY DEF Clear, IsIdle
<1>2. /\ ListTyped /\ ChainStands /\ elem \in [Elems -> Elements] /\ NoneBeside(elem)
      /\ LocksHeld /\ OnTheWay /\ DataApart /\ given \subseteq Data
  BY DEF MTListInv, ListTyped, LocksHeld
<1>3. LinkedUp(Chain, first, last, elem) /\ ChainFacts(Chain) /\ DOMAIN Chain = 1..Len(Chain)
  BY <1>2, FactsOf, LenProperties DEF ChainStands, LinkedUp
<1>4. ASSUME NEW x \in Elems
      PROVE  /\ elem'[x] \in Elements /\ elem'[x].state # "valid"
             /\ elem'[x].readers = elem[x].readers /\ elem'[x].writer = elem[x].writer
  <2>1. elem[x].state = "valid" <=> \E i \in DOMAIN Chain : Chain[i] = x
    BY <1>3 DEF LinkedUp
  <2>2. CASE elem[x].state = "valid"
    <3> DEFINE one == [elem[x] EXCEPT !.state = "freed"]
               two == [one EXCEPT !.next = Nil]
               three == [two EXCEPT !.data = Nil]
    <3>1. elem'[x] = three
      BY <1>1, <2>1, <2>2 DEF Deleted
    <3>2. one \in Elements /\ one.state = "freed" /\ one.readers = elem[x].readers
          /\ one.writer = elem[x].writer
      BY <1>2 DEF Elements
    <3> HIDE DEF one
    <3>3. two \in Elements /\ two.state = "freed" /\ two.readers = one.readers
          /\ two.writer = one.writer
      BY <3>2 DEF Elements
    <3> HIDE DEF two
    <3>4. three \in Elements /\ three.state = "freed" /\ three.readers = two.readers
          /\ three.writer = two.writer
      BY <3>3 DEF Elements
    <3> HIDE DEF three
    <3> QED BY <3>1, <3>2, <3>3, <3>4
  <2>3. CASE elem[x].state # "valid"
    BY <1>1, <1>2, <2>1, <2>3
  <2> QED BY <2>2, <2>3
<1>5. elem' \in [Elems -> Elements] /\ NoneBeside(elem')
  <2>1. elem' = [x \in Elems |-> elem'[x]]
    BY <1>1
  <2> HIDE DEF Elements
  <2> QED BY <1>2, <1>4, <2>1 DEF NoneBeside
<1>6. ChainStands' /\ Chain' = <<>>
  <2>1. <<>> \in Seq(Elems) /\ Len(<<>>) = 0
    BY EmptySeq
  <2>2. LinkedUp(<<>>, first', last', elem') /\ numElement' = Len(<<>>)
    <3> DEFINE none == <<>>
    <3>1. none \in Seq(Elems) /\ Len(none) = 0 /\ none = <<>> /\ 1..Len(none) = {}
      BY <2>1
    <3> HIDE DEF none
    <3>2. LinkedUp(none, first', last', elem')
      BY <1>1, <1>4, <3>1 DEF LinkedUp
    <3> QED BY <1>1, <3>1, <3>2
  <2> QED BY <2>2, NewChainIs
<1>7. ClearedData = DataHeld
  <2>1. ClearedData = Held
    BY DEF ClearedData, Held
  <2> QED BY <1>2, <2>1, ContentsAre
<1>8. DataHeld' = {} /\ DataNew = {} /\ DataNew' = {}
  <2>1. DataHeld' = {}
    BY <1>4 DEF DataHeld
  <2>2. DataNew = {}
    BY <1>1, <1>2 DEF DataNew, NotYetStored, OnTheWay, GoodPlace
  <2>3. DataNew' = {}
    BY <1>1 DEF DataNew, NotYetStored, Idle
  <2> QED BY <2>1, <2>2, <2>3
<1>9. DataApart'
  <2>1. /\ given' = given
        /\ disposed' = IF automatic THEN disposed \cup DataHeld ELSE disposed
        /\ back' = IF automatic THEN back ELSE back \cup DataHeld
    BY <1>1, <1>7 DEF Dispose
  <2>2. given = DataHeld \cup disposed \cup back \cup DataNew
    BY <1>2 DEF DataApart
  <2>3. given' = DataHeld' \cup disposed' \cup back' \cup DataNew'
    BY <1>8, <2>1, <2>2
  <2>4. Apart(DataHeld', disposed', back', DataNew')
    BY <1>2, <1>8, <2>1 DEF DataApart, Apart
  <2> QED BY <1>4, <2>3, <2>4 DEF DataApart
<1>10. \A u \in Threads : thread'[u] = Idle /\ Idle \in Doings
         /\ GoodPlace(u, Idle, elem') /\ HasLock(u, Idle, elem')
  BY <1>1 DEF Idle, Doings, Walks, GoodPlace, HasLock, WithLock
<1>11. LocksHeld' /\ OnTheWay'
  <2>1. readers' = {u \in Threads : thread'[u].at \in WithLock}
    BY <1>1, <1>2 DEF LocksHeld, WithLock, Idle
  <2> QED BY <1>5, <1>10, <2>1 DEF LocksHeld, OnTheWay
<1>12. ListTyped'
  <2>1. thread' \in [Threads -> Doings]
    <3> HIDE DEF Doings, Idle
    <3> QED BY <1>1, <1>10
  <2>2. given' = given
    BY <1>1 DEF Dispose
  <2> QED BY <1>1, <1>2, <1>5, <2>1, <2>2 DEF ListTyped
<1>13. Shared!Next
  <2>1. Chain # <<>> /\ Len(Chain) \in Nat /\ Len(Chain) # 0
    BY <1>1, <1>3, LastIs DEF ChainFacts
  <2>2. contents = DataAlong(Chain, elem) /\ contents' = DataAlong(<<>>, elem')
    BY <1>2, <1>6, ContentsAre, NewContentsAre
  <2>3. <<>> \in Seq(Elems) /\ Len(<<>>) = 0 /\ Chain \in Seq(Elems)
    BY <1>3, EmptySeq DEF LinkedUp
  <2>4. /\ contents \in Seq(Data \cup {Nil}) /\ Len(contents) = Len(Chain)
        /\ contents' \in Seq(Data \cup {Nil}) /\ Len(contents') = 0
    BY <1>2, <1>5, <2>2, <2>3, DataAlongIs
  <2>5. contents # <<>> /\ contents' = <<>>
    BY <2>1, <2>3, <2>4, EmptySeq
  <2> QED BY <2>5 DEF Shared!Next, Shared!Clear
<1> QED BY <1>6, <1>9, <1>11, <1>12, <1>13 DEF MTListInv, ListMoves

LEMMA RemovedAt ==
  ASSUME NEW S, NEW s \in Seq(S), NEW i \in 1..Len(s)
  PROVE  SubSeq(s, 1, i - 1) \o SubSeq(s, i + 1, Len(s)) = Omitting(s, i)
<1> DEFINE front == SubSeq(s, 1, i - 1)
           behind == SubSeq(s, i + 1, Len(s))
           q == front \o behind
           r == Omitting(s, i)
<1>1. Len(s) \in Nat /\ \A k \in 1..Len(s) : s[k] \in S
  BY LenProperties, ElementOfSeq
<1>2. i \in Int /\ 1 \in Int /\ i - 1 \in Int /\ i + 1 \in Int /\ Len(s) \in Int
      /\ i >= 1 /\ i <= Len(s)
  BY <1>1
<1>3. /\ front \in Seq(S) /\ Len(front) = i - 1
      /\ \A k \in 1..i - 1 : front[k] = s[k]
  <2>1. \A k \in 1..i - 1 : s[k] \in S
    BY <1>1, <1>2
  <2>2. /\ front \in Seq(S) /\ Len(front) = (IF 1 <= i - 1 THEN (i - 1) - 1 + 1 ELSE 0)
        /\ \A k \in 1..(i - 1) - 1 + 1 : front[k] = s[1 + k - 1]
    BY <1>2, <2>1, SubSeqProperties
  <2> HIDE DEF front
  <2>3. Len(front) = i - 1
    BY <1>2, <2>2
  <2>4. ASSUME NEW k \in 1..i - 1 PROVE front[k] = s[k]
    <3>1. k \in 1..(i - 1) - 1 + 1 /\ 1 + k - 1 = k
      BY <1>2
    <3>2. front[k] = s[1 + k - 1]
      BY <2>2, <3>1
    <3> QED BY <3>1, <3>2
  <2> QED BY <2>2, <2>3, <2>4
<1>4. /\ behind \in Seq(S) /\ Len(behind) = Len(s) - i
      /\ \A k \in 1..Len(s) - i : behind[k] = s[i + k]
  <2>1. \A k \in i + 1..Len(s) : s[k] \in S
    BY <1>1, <1>2
  <2> DEFINE m == i + 1
  <2>2. m \in Int /\ m = i + 1 /\ \A k \in m..Len(s) : s[k] \in S
    BY <1>2, <2>1
  <2> HIDE DEF m
  <2>3. /\ SubSeq(s, m, Len(s)) \in Seq(S)
        /\ Len(SubSeq(s, m, Len(s))) = (IF m <= Len(s) THEN Len(s) - m + 1 ELSE 0)
        /\ \A k \in 1..Len(s) - m + 1 : SubSeq(s, m, Len(s))[k] = s[m + k - 1]
    BY <1>2, <2>2, SubSeqProperties
  <2>4. behind = SubSeq(s, m, Len(s))
    BY <2>2
  <2> HIDE DEF behind
  <2>5. Len(behind) = Len(s) - i
    BY <1>2, <2>2, <2>3, <2>4
  <2>6. ASSUME NEW k \in 1..Len(s) - i PROVE behind[k] = s[i + k]
    <3>1. k \in 1..Len(s) - m + 1 /\ m + k - 1 = i + k
      BY <1>2, <2>2
    <3>2. behind[k] = s[m + k - 1]
      BY <2>3, <2>4, <3>1
    <3> QED BY <3>1, <3>2
  <2> QED BY <2>3, <2>4, <2>5, <2>6
<1>5. /\ r \in Seq(S) /\ Len(r) = Len(s) - 1
      /\ \A k \in 1..Len(s) - 1 : r[k] = IF k < i THEN s[k] ELSE s[k + 1]
  BY OmittingIs
<1> HIDE DEF front, behind, r
<1>6. /\ q \in Seq(S) /\ Len(q) = Len(front) + Len(behind)
      /\ \A k \in 1..Len(front) + Len(behind) :
           q[k] = IF k <= Len(front) THEN front[k] ELSE behind[k - Len(front)]
  BY <1>3, <1>4, ConcatProperties
<1> HIDE DEF q
<1>7. Len(q) = Len(r)
  BY <1>2, <1>3, <1>4, <1>5, <1>6
<1>8. ASSUME NEW k \in 1..Len(q) PROVE q[k] = r[k]
  <2>1. k \in 1..Len(front) + Len(behind) /\ k \in 1..Len(s) - 1 /\ k \in Int
    BY <1>2, <1>3, <1>4, <1>5, <1>6, <1>7, <1>8
  <2>2. CASE k < i
    <3>1. k <= Len(front) /\ k \in 1..i - 1
      BY <1>2, <1>3, <2>1, <2>2
    <3>2. q[k] = front[k] /\ front[k] = s[k]
      BY <1>3, <1>6, <2>1, <3>1
    <3>3. r[k] = s[k]
      BY <1>5, <2>1, <2>2
    <3> QED BY <3>2, <3>3
  <2>3. CASE ~(k < i)
    <3>1. ~(k <= Len(front)) /\ k - Len(front) \in 1..Len(s) - i /\ i + (k - Len(front)) = k + 1
      BY <1>2, <1>3, <2>1, <2>3
    <3>2. q[k] = behind[k - Len(front)] /\ behind[k - Len(front)] = s[i + (k - Len(front))]
      BY <1>4, <1>6, <2>1, <3>1
    <3>3. r[k] = s[k + 1]
      BY <1>5, <2>1, <2>3
    <3> QED BY <3>1, <3>2, <3>3
  <2> QED BY <2>2, <2>3
<1>9. q = r
  BY <1>5, <1>6, <1>7, <1>8, SeqEqual
<1> QED BY <1>9 DEF q, front, behind, r

\* One element fewer, whose data have been freed or are the caller's again.
LEMMA OneFewerHeld ==
  ASSUME MTListInv, NEW e \in Elems, elem[e].state = "valid", elem'[e].state # "valid",
         \A x \in Elems \ {e} : elem'[x].state = elem[x].state /\ elem'[x].data = elem[x].data,
         Dispose({elem[e].data}), DataNew' = DataNew
  PROVE  DataApart' /\ given' = given
<1> DEFINE d == elem[e].data
<1>1. DataApart
  BY DEF MTListInv
<1>2. /\ given' = given
      /\ disposed' = IF automatic THEN disposed \cup {d} ELSE disposed
      /\ back' = IF automatic THEN back ELSE back \cup {d}
  BY DEF Dispose
<1>3. \A x \in Elems : elem[x].state = "valid" /\ x # e => elem[x].data # d
  BY <1>1 DEF DataApart
<1>4. d \in DataHeld
  BY DEF DataHeld
<1>5. DataHeld' = {elem'[x].data : x \in {y \in Elems : elem'[y].state = "valid"}}
      /\ DataHeld = {elem[x].data : x \in {y \in Elems : elem[y].state = "valid"}}
  BY DEF DataHeld
<1> HIDE DEF d
<1>6. DataHeld' = DataHeld \ {d}
  <2>1. \A x \in Elems : elem'[x].state = "valid" =>
           x # e /\ elem[x].state = "valid" /\ elem'[x].data = elem[x].data
    OBVIOUS
  <2>2. \A x \in Elems : elem[x].state = "valid" /\ elem[x].data # d =>
           elem'[x].state = "valid" /\ elem'[x].data = elem[x].data
    BY DEF d
  <2> QED BY <1>3, <1>5, <2>1, <2>2
<1>7. given' = DataHeld' \cup disposed' \cup back' \cup DataNew'
  BY <1>1, <1>2, <1>4, <1>6 DEF DataApart
<1>8. Apart(DataHeld', disposed', back', DataNew')
  BY <1>1, <1>2, <1>4, <1>6 DEF DataApart, Apart
<1>9. \A x \in Elems : elem'[x].state = "valid" => elem'[x].data \in Data
  BY <1>1 DEF DataApart
<1>10. \A x, y \in Elems :
        elem'[x].state = "valid" /\ elem'[y].state = "valid" /\ elem'[x].data = elem'[y].data
        => x = y
  BY <1>1 DEF DataApart
<1> QED BY <1>2, <1>7, <1>8, <1>9, <1>10 DEF DataApart

LEMMA DeletedIs ==
  ASSUME NEW e, elem[e] \in Elements
  PROVE  /\ Deleted(e) \in Elements /\ Deleted(e).state = "freed"
         /\ Deleted(e).readers = elem[e].readers /\ Deleted(e).writer = elem[e].writer
<1> DEFINE one == [elem[e] EXCEPT !.state = "freed"]
           two == [one EXCEPT !.next = Nil]
<1>1. Deleted(e) = two
  BY DEF Deleted
<1>2. one \in Elements /\ one.state = "freed" /\ one.readers = elem[e].readers
      /\ one.writer = elem[e].writer
  BY DEF Elements
<1> HIDE DEF one
<1>3. two \in Elements /\ two.state = "freed" /\ two.readers = one.readers
      /\ two.writer = one.writer
  BY <1>2 DEF Elements
<1> QED BY <1>1, <1>2, <1>3

LEMMA RemoveMoves ==
  ASSUME MTListInv, NEW t \in Threads, NEW d \in Data, RemoveFound(t, d)
  PROVE  ListMoves
<1> DEFINE c == Chain
<1>1. PICK i \in DOMAIN c :
        /\ readers = {} /\ elem[c[i]].data = d
        /\ first' = (IF i = 1 THEN elem[c[i]].next ELSE first)
        /\ elem' = [x \in Elems |->
              IF x = c[i] THEN Deleted(c[i])
              ELSE IF x = Preceding(c, i)
                   THEN [elem[x] EXCEPT !.next = IF c[i] = last THEN Nil ELSE elem[c[i]].next]
                   ELSE elem[x]]
        /\ last' = (IF c[i] = last THEN Preceding(c, i) ELSE last)
        /\ numElement' = numElement - 1
        /\ Dispose({d})
        /\ UNCHANGED <<automatic, readers, thread>>
  BY DEF RemoveFound, RemoveLocked, MayWriteLock, LastAfterRemove, Preceding
<1>2. /\ ListTyped /\ ChainStands /\ elem \in [Elems -> Elements] /\ NoneBeside(elem)
      /\ automatic \in BOOLEAN /\ thread \in [Threads -> Doings]
  BY DEF MTListInv, ListTyped, LocksHeld
<1>3. LinkedUp(c, first, last, elem) /\ numElement = Len(c) /\ ChainFacts(c) /\ c \in Seq(Elems)
  BY <1>2, FactsOf DEF ChainStands, LinkedUp
<1>4. i \in 1..Len(c) /\ \A j \in 1..Len(c) : c[j] \in Elems /\ elem[c[j]].state = "valid"
  BY <1>1, <1>3, LenProperties, LastIs DEF ChainFacts
<1> DEFINE e == c[i]
           n == IF e = last THEN Nil ELSE elem[e].next
           a == Omitting(c, i)
<1>5. e \in Elems /\ elem[e].state = "valid" /\ n \in Elems \cup {Nil}
      /\ elem[e] \in Elements
  BY <1>2, <1>4 DEF Elements
<1>6. elem'[e] = Deleted(e) /\ Deleted(e) \in Elements /\ Deleted(e).state = "freed"
      /\ Deleted(e).readers = elem[e].readers /\ Deleted(e).writer = elem[e].writer
  BY <1>1, <1>5, DeletedIs
<1>7. ASSUME NEW x \in Elems \ {e}
      PROVE  /\ elem'[x] \in Elements /\ elem'[x].state = elem[x].state
             /\ elem'[x].next = (IF x = Preceding(c, i) THEN n ELSE elem[x].next)
             /\ elem'[x].data = elem[x].data /\ elem'[x].readers = elem[x].readers
             /\ elem'[x].writer = elem[x].writer
  <2>1. elem[x] \in Elements
        /\ elem'[x] = (IF x = Preceding(c, i) THEN [elem[x] EXCEPT !.next = n] ELSE elem[x])
    BY <1>1, <1>2
  <2> HIDE DEF n, c, e
  <2>2. CASE x = Preceding(c, i)
    <3>1. elem'[x] = [elem[x] EXCEPT !.next = n]
      BY <2>1, <2>2
    <3> QED BY <1>5, <2>1, <2>2, <3>1, Relinked
  <2>3. CASE x # Preceding(c, i)
    BY <2>1, <2>3
  <2> QED BY <2>2, <2>3
<1>8. elem' \in [Elems -> Elements] /\ NoneBeside(elem')
  <2>1. elem' = [x \in Elems |-> elem'[x]]
    BY <1>1
  <2> HIDE DEF Elements, n, e, c
  <2>2. elem' \in [Elems -> Elements]
    BY <1>6, <1>7, <2>1
  <2>3. NoneBeside(elem')
    BY <1>2, <1>6, <1>7 DEF NoneBeside
  <2> QED BY <2>2, <2>3
<1>9. LinkedUp(a, first', last', elem')
  <2>1. Bypassed(elem, elem', c, i, last)
    BY <1>4, <1>6, <1>7 DEF Bypassed
  <2>2. LinkedUp(a, IF i = 1 THEN elem[c[i]].next ELSE first,
                   IF c[i] = last THEN Preceding(c, i) ELSE last, elem')
    BY <1>3, <2>1, ChainOmitting
  <2> QED BY <1>1, <2>2
<1>10. a \in Seq(Elems) /\ Len(a) = Len(c) - 1
       /\ \A k \in 1..Len(c) - 1 : a[k] = IF k < i THEN c[k] ELSE c[k + 1]
  BY <1>3, <1>4, OmittingIs
<1>11. LocksHeld' /\ OnTheWay' /\ DataNew' = DataNew
  BY <1>1, <1>8, NobodyWalks
<1>12. DataApart' /\ given' = given
  <2>1. elem[e].data = d /\ elem'[e].state # "valid" /\ Dispose({elem[e].data})
    BY <1>1, <1>6
  <2>2. \A x \in Elems \ {e} : elem'[x].state = elem[x].state /\ elem'[x].data = elem[x].data
    BY <1>7
  <2> HIDE DEF e, c, n
  <2> QED BY <1>5, <1>11, <2>1, <2>2, OneFewerHeld
<1>13. \A j \in 1..Len(c) : j # i => c[j] # e
  BY <1>3, <1>4 DEF LinkedUp
<1> HIDE DEF n, a, c
<1>14. ChainStands' /\ Chain' = a
  <2>1. numElement' = Len(a)
    BY <1>1, <1>3, <1>10
  <2> QED BY <1>9, <2>1, NewChainIs
<1>15. Shared!Next
  <2> DEFINE old == DataAlong(c, elem)
             new == DataAlong(a, elem')
  <2>1. contents = old /\ contents' = new
    BY <1>2, <1>14, ContentsAre, NewContentsAre DEF c
  <2>2. /\ old \in Seq(Data \cup {Nil}) /\ Len(old) = Len(c)
        /\ \A j \in 1..Len(c) : old[j] = elem[c[j]].data
    BY <1>2, <1>3, DataAlongIs
  <2>3. /\ new \in Seq(Data \cup {Nil}) /\ Len(new) = Len(a)
        /\ \A j \in 1..Len(a) : new[j] = elem'[a[j]].data
    BY <1>8, <1>10, DataAlongIs
  <2> HIDE DEF old, new
  <2>4. Len(c) \in Nat /\ i \in 1..Len(c) /\ i \in 1..Len(old)
    BY <1>3, <1>4, <2>2 DEF ChainFacts
  <2>5. /\ Omitting(old, i) \in Seq(Data \cup {Nil}) /\ Len(Omitting(old, i)) = Len(old) - 1
        /\ \A k \in 1..Len(old) - 1 :
             Omitting(old, i)[k] = IF k < i THEN old[k] ELSE old[k + 1]
    BY ONLY <2>2, <2>4, OmittingIs
  <2>6. ASSUME NEW k \in 1..Len(a) PROVE new[k] = Omitting(old, i)[k]
    <3>1. k \in 1..Len(c) - 1 /\ k \in 1..Len(c) /\ k + 1 \in 1..Len(c)
      BY <1>10, <2>4
    <3>2. new[k] = elem'[a[k]].data
      BY <2>3
    <3>3. CASE k < i
      <4>1. a[k] = c[k] /\ c[k] \in Elems \ {e}
        BY <1>4, <1>10, <1>13, <2>4, <3>1, <3>3
      <4>2. new[k] = old[k]
        BY <1>7, <2>2, <3>1, <3>2, <4>1
      <4> QED BY <2>2, <2>5, <3>1, <3>3, <4>2
    <3>4. CASE ~(k < i)
      <4>1. a[k] = c[k + 1] /\ c[k + 1] \in Elems \ {e}
        BY <1>4, <1>10, <1>13, <2>4, <3>1, <3>4
      <4>2. new[k] = old[k + 1]
        BY <1>7, <2>2, <3>1, <3>2, <4>1
      <4> QED BY <2>2, <2>5, <3>1, <3>4, <4>2
    <3> QED BY <3>3, <3>4
  <2>7. new = Omitting(old, i)
    BY <1>10, <2>2, <2>3, <2>5, <2>6, SeqEqual
  <2>8. Omitting(old, i) = SubSeq(old, 1, i - 1) \o SubSeq(old, i + 1, Len(old))
    BY <1>4, <2>2, RemovedAt
  <2>9. new # old
    BY <1>10, <2>2, <2>3, <2>4
  <2>10. i \in DOMAIN old
    BY <2>2, <2>4, LenProperties
  <2> QED BY <2>1, <2>7, <2>8, <2>9, <2>10
          DEF Shared!Next, Shared!RemoveFrom, Shared!RemoveAt
<1>16. ListTyped'
  BY <1>1, <1>2, <1>8, <1>12 DEF ListTyped
<1> QED BY <1>11, <1>12, <1>14, <1>15, <1>16 DEF MTListInv, ListMoves

-----------------------------------------------------------------------------
(* The list is a sequence.                                                  *)

LEMMA EmptyListStands == Init => MTListInv /\ Shared!Init
<1> SUFFICES ASSUME Init PROVE MTListInv /\ Shared!Init
  OBVIOUS
<1> DEFINE unused == [state |-> "unused", next |-> Nil, data |-> Nil, readers |-> {},
                      writer |-> Nil]
<1>1. /\ first = Nil /\ last = Nil /\ numElement = 0 /\ automatic = TRUE
      /\ elem = [e \in Elems |-> unused] /\ readers = {}
      /\ thread = [t \in Threads |-> Idle] /\ given = {} /\ back = {} /\ disposed = {}
  BY DEF Init
<1>2. unused \in Elements /\ unused.state = "unused" /\ unused.writer = Nil
  BY DEF Elements
<1>3. Idle \in Doings /\ Idle.at = "idle" /\ Idle.op = "none"
  BY DEF Idle, Doings, Walks
<1> HIDE DEF unused
<1>4. \A e \in Elems : elem[e].state # "valid" /\ elem[e].writer = Nil
  BY <1>1, <1>2
<1>5. \A t \in Threads : thread[t] = Idle
  BY <1>1
<1>6. ListTyped
  <2> HIDE DEF Elements, Doings, Idle
  <2> QED BY <1>1, <1>2, <1>3 DEF ListTyped
<1>7. ChainStands /\ Chain = <<>>
  <2> DEFINE none == <<>>
  <2>1. none \in Seq(Elems) /\ Len(none) = 0 /\ none = <<>> /\ 1..Len(none) = {}
    BY EmptySeq
  <2> HIDE DEF none
  <2>2. LinkedUp(none, first, last, elem)
    BY <1>1, <1>4, <2>1 DEF LinkedUp
  <2>3. Chain = none
    BY <2>2, ChainIs, ChainIsPassed
  <2> QED BY <1>1, <2>1, <2>2, <2>3 DEF ChainStands
<1>8. LocksHeld
  <2>1. readers = {t \in Threads : thread[t].at \in WithLock}
    BY <1>1, <1>3, <1>5 DEF WithLock
  <2> QED BY <1>3, <1>4, <1>5, <2>1 DEF LocksHeld, NoneBeside, HasLock
<1>9. OnTheWay
  BY <1>3, <1>5 DEF OnTheWay, GoodPlace, WithLock
<1>10. DataHeld = {} /\ DataNew = {}
  BY <1>3, <1>4, <1>5 DEF DataHeld, DataNew, NotYetStored
<1>11. DataApart
  BY <1>1, <1>4, <1>10 DEF DataApart, Apart
<1>12. Shared!Init
  <2>1. contents = DataAlong(Chain, elem)
    BY <1>7, ContentsAre
  <2>2. <<>> \in Seq(Elems) /\ Len(<<>>) = 0 /\ elem \in [Elems -> Elements]
    BY <1>6, EmptySeq DEF ListTyped
  <2>3. contents \in Seq(Data \cup {Nil}) /\ Len(contents) = 0
    BY <1>7, <2>1, <2>2, DataAlongIs
  <2>4. contents = <<>>
    BY <2>3, EmptySeq
  <2> QED BY <2>4 DEF Shared!Init
<1> QED BY <1>6, <1>7, <1>8, <1>9, <1>11, <1>12 DEF MTListInv

LEMMA ListStepMoves == MTListInv /\ [Next]_vars => ListMoves
<1> SUFFICES ASSUME MTListInv, [Next]_vars PROVE ListMoves
  OBVIOUS
<1>1. ASSUME NEW t \in Threads, NEW d \in Data, Add(t, d) PROVE ListMoves
  BY <1>1, AddMoves
<1>2. ASSUME NEW t \in Threads, NEW d \in Data, Insert(t, d) PROVE ListMoves
  BY <1>2, InsertMoves
<1>3. ASSUME NEW t \in Threads, NEW d \in Data, RemoveFound(t, d) PROVE ListMoves
  BY <1>3, RemoveMoves
<1>4. ASSUME NEW t \in Threads, SetDeleteMode(t) PROVE ListMoves
  BY <1>4, SetDeleteModeMoves
<1>5. ASSUME NEW t \in Threads, Clear(t) PROVE ListMoves
  BY <1>5, ClearMoves
<1>6. ASSUME NEW t \in Threads, NEW op \in Walks, NEW d \in Data \cup {Nil}, NEW new \in Data,
             LockForWalk(t, op, d, new)
      PROVE  ListMoves
  BY <1>6, LockForWalkMoves
<1>7. ASSUME NEW t \in Threads, EnterElement(t) PROVE ListMoves
  BY <1>7, EnterMoves
<1>8. ASSUME NEW t \in Threads, LeaveElement(t) PROVE ListMoves
  BY <1>8, LeaveMoves
<1>9. ASSUME NEW t \in Threads, Store(t) PROVE ListMoves
  BY <1>9, StoreMoves
<1>10. ASSUME NEW t \in Threads, Compare(t) PROVE ListMoves
  BY <1>10, CompareMoves
<1>11. ASSUME NEW t \in Threads, UnlockAfterWalk(t) PROVE ListMoves
  BY <1>11, UnlockMoves
<1>12. ASSUME NEW t \in Threads, ReadResult(t) PROVE ListMoves
  BY <1>12, ReadResultMoves
<1>13. ASSUME NEW t \in Threads, GetNextElement(t) PROVE ListMoves
  BY <1>13, GetNextMoves
<1>14. CASE UNCHANGED vars
  <2>1. SameLinks(elem, elem') /\ SameData(elem, elem')
    BY <1>14 DEF vars, SameLinks, SameData
  <2>2. ChainStands' /\ contents' = contents
    BY <1>14, <2>1, LinksKept, DataKept DEF vars, MTListInv
  <2>3. ListTyped' /\ LocksHeld' /\ OnTheWay'
    BY <1>14 DEF vars, MTListInv, ListTyped, LocksHeld, OnTheWay
  <2>4. DataApart'
    BY <1>14 DEF vars, MTListInv, DataApart, DataHeld, DataNew
  <2> QED BY <2>2, <2>3, <2>4 DEF MTListInv, ListMoves
<1> QED BY <1>1, <1>2, <1>3, <1>4, <1>5, <1>6, <1>7, <1>8, <1>9, <1>10, <1>11, <1>12, <1>13,
           <1>14 DEF Next

ListIsSafe == TypeOK /\ ListWellFormed /\ WalksOnLiveElements /\ WriteIterationIsAlone /\ NoDataLost

LEMMA StandingListIsSafe == MTListInv => ListIsSafe
<1> SUFFICES ASSUME MTListInv PROVE ListIsSafe
  OBVIOUS
<1>1. ListTyped /\ ChainStands /\ LocksHeld /\ OnTheWay /\ DataApart
  BY DEF MTListInv
<1>2. LinkedUp(Chain, first, last, elem) /\ ChainFacts(Chain) /\ numElement = Len(Chain)
      /\ DOMAIN Chain = 1..Len(Chain) /\ Len(Chain) <= MaxElems
  BY <1>1, FactsOf, LenProperties, ChainIsBounded DEF ChainStands, LinkedUp
<1>3. TypeOK
  <2>1. {first, last} \subseteq Elems \cup {Nil}
    BY <1>2, LastIs
  <2>2. numElement \in 0..MaxElems
    BY <1>2, NilIsNoElem DEF ChainFacts
  <2>3. readers \subseteq Threads
    BY <1>1 DEF LocksHeld
  <2>4. given \subseteq Data /\ back \subseteq given /\ disposed \subseteq given
    BY <1>1 DEF ListTyped, DataApart
  <2> QED BY <1>1, <2>1, <2>2, <2>3, <2>4 DEF TypeOK, ListTyped, Elements, Doings
<1>4. ListWellFormed
  <2>1. {Chain[i] : i \in DOMAIN Chain} = {e \in Elems : elem[e].state = "valid"}
    BY <1>2 DEF LinkedUp, ChainFacts
  <2> QED BY <1>2, <2>1 DEF ListWellFormed, LinkedUp
<1>5. WalksOnLiveElements
  <2> SUFFICES ASSUME NEW t \in readers, thread[t].ptr # Nil
               PROVE  /\ elem[thread[t].ptr].state = "valid"
                      /\ elem[thread[t].ptr].data \notin disposed
    BY DEF WalksOnLiveElements
  <2>1. t \in Threads /\ thread[t].at \in WithLock /\ GoodPlace(t, thread[t], elem)
        /\ thread[t].ptr \in Elems
    BY <1>1 DEF LocksHeld, OnTheWay, ListTyped, Doings
  <2>2. elem[thread[t].ptr].state = "valid"
    BY <2>1 DEF GoodPlace
  <2>3. elem[thread[t].ptr].data \in DataHeld
    BY <2>1, <2>2 DEF DataHeld
  <2> QED BY <1>1, <2>2, <2>3 DEF DataApart, Apart
<1>6. WriteIterationIsAlone
  <2> SUFFICES ASSUME NEW t \in Threads, NEW u \in Threads, t # u, thread[t].at = "inside",
                      thread[t].op = "forWrite", thread[u].at \in {"inside", "store"},
                      thread[t].ptr = thread[u].ptr
               PROVE  FALSE
    BY DEF WriteIterationIsAlone
  <2>1. thread[t].ptr \in Elems
    BY <1>1 DEF OnTheWay, GoodPlace, ListTyped, Doings
  <2>2. HasLock(t, thread[t], elem) /\ HasLock(u, thread[u], elem) /\ NoneBeside(elem)
    BY <1>1 DEF LocksHeld
  <2>3. elem[thread[t].ptr].writer = t /\ t # Nil
    BY <2>2, MTListAssumption DEF HasLock
  <2>4. elem[thread[t].ptr].readers = {}
    BY <2>1, <2>2, <2>3 DEF NoneBeside
  <2> QED BY <2>2, <2>3, <2>4 DEF HasLock
<1>7. NoDataLost
  <2>1. Held = DataHeld
    BY <1>1, ContentsAre
  <2>2. UnderWay = DataNew
    BY DEF UnderWay, DataNew, NotYetStored
  <2> QED BY <1>1, <2>1, <2>2 DEF NoDataLost, DataApart, Apart
<1> QED BY <1>3, <1>4, <1>5, <1>6, <1>7 DEF ListIsSafe

(* ListIsASequence, whatever the threads, the data and the number of        *)
(* elements: MTList_set, MTList_remove and the walks never break the chain, *)
(* no callback works on a freed element, no pointer is lost or freed twice, *)
(* and every step changes the list as one operation on a sequence does.     *)
THEOREM ListStaysASequence == Spec => ListIsASequence
<1>1. Init => MTListInv /\ Shared!Init
  BY EmptyListStands
<1>2. MTListInv /\ [Next]_vars => MTListInv' /\ [Shared!Next]_contents
  BY ListStepMoves DEF ListMoves
<1>3. MTListInv =>
        TypeOK /\ ListWellFormed /\ WalksOnLiveElements /\ WriteIterationIsAlone /\ NoDataLost
  BY StandingListIsSafe DEF ListIsSafe
<1> QED BY <1>1, <1>2, <1>3, PTL DEF Spec, ListIsASequence, ImplementsSequence, Shared!Spec
-----------------------------------------------------------------------------
(* The chains of a hash table.                                              *)

TableEntry == [id : 1..MaxEntries, key : Keys, value : Values, hash : Nat]

InPlace(ch, size) ==
    \A b \in 0..size - 1 : \A i \in 1..Len(ch[b]) :
        ch[b][i].hash = Hash[ch[b][i].key] /\ b = IndexFor(size, ch[b][i].hash)
InOnePlace(ch, size) ==
    \A b, c \in 0..size - 1 : \A i \in 1..Len(ch[b]), j \in 1..Len(ch[c]) :
        ch[b][i].id = ch[c][j].id => b = c /\ i = j
ChainsStand(ch, size) ==
    /\ size \in Nat \ {0} /\ ch \in [0..size - 1 -> Seq(TableEntry)]
    /\ InPlace(ch, size) /\ InOnePlace(ch, size)

StandsIn(ch, size, e) == \E b \in 0..size - 1 : \E i \in 1..Len(ch[b]) : ch[b][i] = e
EntriesOf(ch, size) == {e \in TableEntry : StandsIn(ch, size, e)}
IdsIn(ch, size) == {e.id : e \in EntriesOf(ch, size)}

LEMMA ChainIsSeq ==
  ASSUME NEW ch, NEW size, ChainsStand(ch, size), NEW b \in 0..size - 1
  PROVE  /\ ch[b] \in Seq(TableEntry) /\ Len(ch[b]) \in Nat
         /\ \A i \in 1..Len(ch[b]) : ch[b][i] \in TableEntry /\ ch[b][i] \in EntriesOf(ch, size)
         /\ DOMAIN ch[b] = 1..Len(ch[b])
<1>1. ch[b] \in Seq(TableEntry)
  <2> HIDE DEF TableEntry
  <2> QED BY DEF ChainsStand
<1> DEFINE c == ch[b]
<1>2. c \in Seq(TableEntry)
  BY <1>1
<1>3. \A i \in 1..Len(c) : c[i] \in TableEntry
  <2> HIDE DEF TableEntry, c
  <2> QED BY <1>2, ElementOfSeq
<1>4. Len(c) \in Nat /\ DOMAIN c = 1..Len(c)
  <2> HIDE DEF TableEntry, c
  <2> QED BY <1>2, LenProperties
<1> QED BY <1>2, <1>3, <1>4 DEF EntriesOf, StandsIn

LEMMA ChainsAre ==
  ASSUME NEW h, NEW size, ChainsStand(h.chains, size)
  PROVE  /\ DOMAIN h.chains = 0..size - 1
         /\ Entries(h) = EntriesOf(h.chains, size) /\ LiveIds(h) = IdsIn(h.chains, size)
<1> DEFINE ch == h.chains
<1>1. DOMAIN ch = 0..size - 1
  <2> HIDE DEF TableEntry
  <2> QED BY DEF ChainsStand
<1>2. \A b \in 0..size - 1 : Range(ch[b]) = {ch[b][i] : i \in 1..Len(ch[b])}
  BY ChainIsSeq DEF Range
<1>3. \A b \in 0..size - 1 : \A i \in 1..Len(ch[b]) : ch[b][i] \in TableEntry
  BY ChainIsSeq
<1>4. Entries(h) = UNION {Range(ch[b]) : b \in 0..size - 1}
  BY <1>1 DEF Entries
<1> HIDE DEF ch, TableEntry
<1>5. Entries(h) = EntriesOf(ch, size)
  <2>1. ASSUME NEW e \in Entries(h) PROVE e \in EntriesOf(ch, size)
    <3>1. PICK b \in 0..size - 1 : e \in Range(ch[b])
      BY <1>4, <2>1
    <3>2. PICK i \in 1..Len(ch[b]) : e = ch[b][i]
      BY <1>2, <3>1
    <3>3. e \in TableEntry /\ StandsIn(ch, size, e)
      BY <1>3, <3>2 DEF StandsIn
    <3> QED BY <3>3 DEF EntriesOf
  <2>2. ASSUME NEW e \in EntriesOf(ch, size) PROVE e \in Entries(h)
    <3>1. PICK b \in 0..size - 1 : \E i \in 1..Len(ch[b]) : ch[b][i] = e
      BY <2>2 DEF EntriesOf, StandsIn
    <3>2. e \in Range(ch[b])
      BY <1>2, <3>1
    <3> QED BY <1>4, <3>2
  <2> QED BY <2>1, <2>2
<1> QED BY <1>1, <1>5 DEF ch, LiveIds, IdsIn

\* An entry is the only one with its identity.
LEMMA EntryIsAlone ==
  ASSUME NEW ch, NEW size, ChainsStand(ch, size), NEW d \in EntriesOf(ch, size),
         NEW e \in EntriesOf(ch, size), d.id = e.id
  PROVE  d = e
<1>1. PICK b \in 0..size - 1 : \E i \in 1..Len(ch[b]) : ch[b][i] = d
  BY DEF EntriesOf, StandsIn
<1>2. PICK i \in 1..Len(ch[b]) : ch[b][i] = d
  BY <1>1
<1>3. PICK c \in 0..size - 1 : \E j \in 1..Len(ch[c]) : ch[c][j] = e
  BY DEF EntriesOf, StandsIn
<1>4. PICK j \in 1..Len(ch[c]) : ch[c][j] = e
  BY <1>3
<1>5. b = c /\ i = j
  BY <1>2, <1>4 DEF ChainsStand, InOnePlace
<1> QED BY <1>2, <1>4, <1>5

LEMMA IdsAreFinite ==
  ASSUME NEW ch, NEW size, ChainsStand(ch, size)
  PROVE  /\ IdsIn(ch, size) \subseteq 1..MaxEntries /\ IsFiniteSet(IdsIn(ch, size))
         /\ Cardinality(IdsIn(ch, size)) \in 0..MaxEntries
         /\ (IdsIn(ch, size) = 1..MaxEntries) => Cardinality(IdsIn(ch, size)) = MaxEntries
<1>1. MaxEntries \in Nat \ {0}
  BY HashTableAssumption
<1>2. IdsIn(ch, size) \subseteq 1..MaxEntries
  BY DEF IdsIn, EntriesOf, TableEntry
<1>3. IsFiniteSet(1..MaxEntries) /\ Cardinality(1..MaxEntries) = MaxEntries
  <2>1. Cardinality(1..MaxEntries) = IF 1 > MaxEntries THEN 0 ELSE MaxEntries - 1 + 1
    BY <1>1, FS_Interval
  <2> QED BY <1>1, <2>1, FS_Interval
<1> HIDE DEF IdsIn
<1>4. /\ IsFiniteSet(IdsIn(ch, size)) /\ Cardinality(IdsIn(ch, size)) <= MaxEntries
      /\ (IdsIn(ch, size) = 1..MaxEntries) => Cardinality(IdsIn(ch, size)) = MaxEntries
  BY <1>2, <1>3, FS_Subset
<1>5. Cardinality(IdsIn(ch, size)) \in Nat
  BY <1>4, FS_CardinalityType
<1> QED BY <1>1, <1>2, <1>4, <1>5


LEMMA IndexIsAPlace ==
  ASSUME NEW size \in Nat \ {0}, NEW n \in Nat
  PROVE  IndexFor(size, n) \in 0..size - 1
BY DEF IndexFor

LEMMA InFront ==
  ASSUME NEW S, NEW c \in Seq(S), NEW e \in S
  PROVE  /\ <<e>> \o c \in Seq(S) /\ Len(<<e>> \o c) = Len(c) + 1 /\ (<<e>> \o c)[1] = e
         /\ \A i \in 1..Len(c) : (<<e>> \o c)[i + 1] = c[i]
<1>1. <<e>> \in Seq(S) /\ Len(<<e>>) = 1 /\ <<e>>[1] = e
  OBVIOUS
<1> DEFINE one == <<e>>
<1>2. one \in Seq(S) /\ Len(one) = 1 /\ one[1] = e
  BY <1>1
<1> HIDE DEF one
<1>3. /\ one \o c \in Seq(S) /\ Len(one \o c) = Len(one) + Len(c) /\ Len(c) \in Nat
      /\ \A i \in 1..Len(one) + Len(c) :
           (one \o c)[i] = IF i <= Len(one) THEN one[i] ELSE c[i - Len(one)]
  BY <1>2, ConcatProperties, LenProperties
<1>4. Len(one \o c) = Len(c) + 1
  BY <1>2, <1>3
<1>5. (one \o c)[1] = e
  BY <1>2, <1>3
<1>6. ASSUME NEW i \in 1..Len(c) PROVE (one \o c)[i + 1] = c[i]
  <2>1. i + 1 \in 1..Len(one) + Len(c) /\ ~(i + 1 <= Len(one)) /\ (i + 1) - Len(one) = i
    BY <1>2, <1>3
  <2> QED BY <1>3, <2>1
<1> QED BY <1>3, <1>4, <1>5, <1>6 DEF one

\* What stands in the chains when the entry comes in front of its own.
LEMMA PutFirstIs ==
  ASSUME NEW ch, NEW size, ChainsStand(ch, size), NEW e \in TableEntry,
         e.hash = Hash[e.key], e.id \notin IdsIn(ch, size)
  PROVE  /\ ChainsStand(PutFirst(ch, size, e), size)
         /\ EntriesOf(PutFirst(ch, size, e), size) = EntriesOf(ch, size) \cup {e}
<1> DEFINE at == IndexFor(size, e.hash)
           more == <<e>> \o ch[at]
           new == PutFirst(ch, size, e)
           Was(b, i) == IF b = at THEN i - 1 ELSE i
<1>1. size \in Nat \ {0} /\ ch \in [0..size - 1 -> Seq(TableEntry)] /\ e.hash \in Nat
      /\ InPlace(ch, size) /\ InOnePlace(ch, size)
  <2>1. e.hash \in Nat
    BY DEF TableEntry
  <2> HIDE DEF TableEntry
  <2> QED BY <2>1 DEF ChainsStand
<1>2. at \in 0..size - 1
  BY <1>1, IndexIsAPlace
<1>3. new = [ch EXCEPT ![at] = more]
  BY DEF PutFirst
<1> HIDE DEF at, TableEntry
<1>4. \A b \in 0..size - 1 : ch[b] \in Seq(TableEntry) /\ Len(ch[b]) \in Nat
  BY <1>1, LenProperties
<1>5. /\ more \in Seq(TableEntry) /\ Len(more) = Len(ch[at]) + 1 /\ more[1] = e
      /\ \A i \in 1..Len(ch[at]) : more[i + 1] = ch[at][i]
  BY <1>2, <1>4, InFront
<1> HIDE DEF more, new
<1>6. new \in [0..size - 1 -> Seq(TableEntry)]
  BY <1>1, <1>2, <1>3, <1>5
<1>7. \A b \in 0..size - 1 : new[b] = IF b = at THEN more ELSE ch[b]
  BY <1>1, <1>2, <1>3
<1>8. \A b \in 0..size - 1 : Len(new[b]) \in Nat
  BY <1>6, LenProperties
<1>9. ASSUME NEW b \in 0..size - 1, NEW i \in 1..Len(new[b])
      PROVE  \/ b = at /\ i = 1 /\ new[b][i] = e
             \/ /\ Was(b, i) \in 1..Len(ch[b]) /\ i = (IF b = at THEN Was(b, i) + 1 ELSE Was(b, i))
                /\ new[b][i] = ch[b][Was(b, i)]
  <2>1. CASE b # at
    BY <1>7, <2>1
  <2>2. CASE b = at /\ i = 1
    BY <1>5, <1>7, <2>2
  <2>3. CASE b = at /\ i # 1
    <3>1. Len(new[b]) = Len(ch[b]) + 1
      BY <1>5, <1>7, <2>3
    <3>2. i - 1 \in 1..Len(ch[b]) /\ (i - 1) + 1 = i
      BY <1>4, <2>3, <3>1
    <3>3. new[b][i] = ch[b][i - 1]
      BY <1>5, <1>7, <2>3, <3>2
    <3> QED BY <2>3, <3>2, <3>3
  <2> QED BY <2>1, <2>2, <2>3
<1>10. ASSUME NEW b \in 0..size - 1, NEW i \in 1..Len(ch[b])
       PROVE  \E j \in 1..Len(new[b]) : new[b][j] = ch[b][i]
  <2>1. CASE b # at
    BY <1>7, <2>1
  <2>2. CASE b = at
    <3>1. i + 1 \in 1..Len(new[b])
      BY <1>4, <1>5, <1>7, <2>2
    <3>2. new[b][i + 1] = ch[b][i]
      BY <1>5, <1>7, <2>2
    <3> QED BY <3>1, <3>2
  <2> QED BY <2>1, <2>2
<1>11. 1 \in 1..Len(new[at]) /\ new[at][1] = e
  <2>1. new[at] = more /\ Len(more) \in Nat /\ Len(more) >= 1
    BY <1>2, <1>4, <1>5, <1>7
  <2> QED BY <1>5, <2>1
<1>12. \A b \in 0..size - 1 : \A i \in 1..Len(ch[b]) : ch[b][i].id # e.id
  BY ChainIsSeq DEF IdsIn
<1> HIDE DEF Was
<1>13. InPlace(new, size)
  <2> SUFFICES ASSUME NEW b \in 0..size - 1, NEW i \in 1..Len(new[b])
               PROVE  new[b][i].hash = Hash[new[b][i].key] /\ b = IndexFor(size, new[b][i].hash)
    BY DEF InPlace
  <2>1. CASE b = at /\ i = 1 /\ new[b][i] = e
    BY <2>1 DEF at
  <2>2. CASE Was(b, i) \in 1..Len(ch[b]) /\ new[b][i] = ch[b][Was(b, i)]
    BY <1>1, <2>2 DEF InPlace
  <2> QED BY <1>9, <2>1, <2>2
<1>14. InOnePlace(new, size)
  <2> SUFFICES ASSUME NEW b \in 0..size - 1, NEW c \in 0..size - 1,
                      NEW i \in 1..Len(new[b]), NEW j \in 1..Len(new[c]), new[b][i].id = new[c][j].id
               PROVE  b = c /\ i = j
    BY DEF InOnePlace
  <2> DEFINE Came(x, k) == /\ Was(x, k) \in 1..Len(ch[x])
                           /\ k = (IF x = at THEN Was(x, k) + 1 ELSE Was(x, k))
                           /\ new[x][k] = ch[x][Was(x, k)]
  <2>1. (b = at /\ i = 1 /\ new[b][i] = e) \/ Came(b, i)
    BY <1>9
  <2>2. (c = at /\ j = 1 /\ new[c][j] = e) \/ Came(c, j)
    BY <1>9
  <2>3. CASE Came(b, i) /\ Came(c, j)
    <3>1. Was(b, i) \in 1..Len(ch[b]) /\ Was(c, j) \in 1..Len(ch[c])
          /\ ch[b][Was(b, i)].id = ch[c][Was(c, j)].id
      BY <2>3
    <3>2. b = c /\ Was(b, i) = Was(c, j)
      <4> DEFINE p == Was(b, i)
                 q == Was(c, j)
      <4>1. /\ b \in 0..size - 1 /\ c \in 0..size - 1 /\ InOnePlace(ch, size)
            /\ p \in 1..Len(ch[b]) /\ q \in 1..Len(ch[c]) /\ ch[b][p].id = ch[c][q].id
        BY <1>1, <3>1
      <4> HIDE DEF p, q
      <4>2. b = c /\ p = q
        BY ONLY <4>1 DEF InOnePlace
      <4> QED BY <4>2 DEF p, q
    <3> QED BY <2>3, <3>2
  <2>4. CASE ~Came(b, i)
    BY <1>12, <2>1, <2>2, <2>4
  <2>5. CASE ~Came(c, j)
    BY <1>12, <2>1, <2>2, <2>5
  <2> QED BY <2>3, <2>4, <2>5
<1>15. EntriesOf(new, size) = EntriesOf(ch, size) \cup {e}
  <2>1. ASSUME NEW d \in EntriesOf(new, size) PROVE d \in EntriesOf(ch, size) \cup {e}
    <3>1. PICK b \in 0..size - 1 : \E i \in 1..Len(new[b]) : new[b][i] = d
      BY DEF EntriesOf, StandsIn
    <3>2. PICK i \in 1..Len(new[b]) : new[b][i] = d
      BY <3>1
    <3>3. d = e \/ \E k \in 1..Len(ch[b]) : ch[b][k] = d
      BY <1>9, <3>2
    <3> QED BY <2>1, <3>3 DEF EntriesOf, StandsIn
  <2>2. ASSUME NEW d \in EntriesOf(ch, size) PROVE d \in EntriesOf(new, size)
    <3>1. PICK b \in 0..size - 1 : \E i \in 1..Len(ch[b]) : ch[b][i] = d
      BY DEF EntriesOf, StandsIn
    <3>2. PICK i \in 1..Len(ch[b]) : ch[b][i] = d
      BY <3>1
    <3>3. \E j \in 1..Len(new[b]) : new[b][j] = d
      BY <1>10, <3>2
    <3> QED BY <2>2, <3>3 DEF EntriesOf, StandsIn
  <2>3. e \in EntriesOf(new, size)
    BY <1>2, <1>11 DEF EntriesOf, StandsIn
  <2> QED BY <2>1, <2>2, <2>3
<1>16. ChainsStand(new, size)
  BY <1>1, <1>6, <1>13, <1>14 DEF ChainsStand
<1> QED BY <1>15, <1>16 DEF new

\* What stands in the chains when one of them has lost the entry at i.
LEMMA OmittedIs ==
  ASSUME NEW ch, NEW size, ChainsStand(ch, size), NEW at \in 0..size - 1, NEW i \in 1..Len(ch[at]),
         NEW new, new = [ch EXCEPT ![at] = Omitting(ch[at], i)]
  PROVE  /\ ChainsStand(new, size)
         /\ EntriesOf(new, size) = EntriesOf(ch, size) \ {ch[at][i]}
<1> DEFINE fewer == Omitting(ch[at], i)
           Was(b, k) == IF b = at /\ k >= i THEN k + 1 ELSE k
<1>1. size \in Nat \ {0} /\ ch \in [0..size - 1 -> Seq(TableEntry)]
      /\ InPlace(ch, size) /\ InOnePlace(ch, size)
  <2> HIDE DEF TableEntry
  <2> QED BY DEF ChainsStand
<1> HIDE DEF TableEntry
<1>2. \A b \in 0..size - 1 : ch[b] \in Seq(TableEntry) /\ Len(ch[b]) \in Nat
  BY <1>1, LenProperties
<1>3. /\ fewer \in Seq(TableEntry) /\ Len(fewer) = Len(ch[at]) - 1
      /\ \A k \in 1..Len(ch[at]) - 1 : fewer[k] = IF k < i THEN ch[at][k] ELSE ch[at][k + 1]
  BY <1>2, OmittingIs
<1> HIDE DEF fewer
<1>4. new = [ch EXCEPT ![at] = fewer]
  BY DEF fewer
<1>5. new \in [0..size - 1 -> Seq(TableEntry)]
  BY ONLY <1>1, <1>3, <1>4
<1>6. \A b \in 0..size - 1 : new[b] = IF b = at THEN fewer ELSE ch[b]
  BY ONLY <1>1, <1>4
<1>7. \A b \in 0..size - 1 : Len(new[b]) \in Nat
  BY ONLY <1>5, LenProperties
<1>8. ASSUME NEW b \in 0..size - 1, NEW k \in 1..Len(new[b])
      PROVE  /\ Was(b, k) \in 1..Len(ch[b]) /\ ~(b = at /\ Was(b, k) = i)
             /\ new[b][k] = ch[b][Was(b, k)]
  <2>1. CASE b # at
    BY <1>6, <2>1
  <2>2. CASE b = at
    <3>1. k \in 1..Len(ch[b]) - 1 /\ i \in 1..Len(ch[b]) /\ Len(ch[b]) \in Nat
      BY <1>2, <1>3, <1>6, <2>2
    <3>2. new[b][k] = IF k < i THEN ch[b][k] ELSE ch[b][k + 1]
      BY <1>3, <1>6, <2>2, <3>1
    <3> QED BY <2>2, <3>1, <3>2
  <2> QED BY <2>1, <2>2
<1>9. ASSUME NEW b \in 0..size - 1, NEW k \in 1..Len(ch[b]), ~(b = at /\ k = i)
      PROVE  \E j \in 1..Len(new[b]) : new[b][j] = ch[b][k]
  <2>1. CASE b # at
    BY <1>6, <2>1
  <2>2. CASE b = at
    <3>1. new[b] = fewer /\ Len(new[b]) = Len(ch[b]) - 1 /\ Len(ch[b]) \in Nat /\ i \in 1..Len(ch[b])
      BY <1>2, <1>3, <1>6, <2>2
    <3>2. CASE k < i
      <4>1. k \in 1..Len(ch[b]) - 1
        BY <3>1, <3>2
      <4> QED BY <1>3, <2>2, <3>1, <3>2, <4>1
    <3>3. CASE k > i
      <4>1. k - 1 \in 1..Len(ch[b]) - 1 /\ ~(k - 1 < i) /\ (k - 1) + 1 = k
        BY <3>1, <3>3
      <4> QED BY <1>3, <2>2, <3>1, <4>1
    <3> QED BY <1>9, <2>2, <3>1, <3>2, <3>3
  <2> QED BY <2>1, <2>2
<1> HIDE DEF Was
<1>10. InPlace(new, size)
  <2> SUFFICES ASSUME NEW b \in 0..size - 1, NEW k \in 1..Len(new[b])
               PROVE  new[b][k].hash = Hash[new[b][k].key] /\ b = IndexFor(size, new[b][k].hash)
    BY DEF InPlace
  <2>1. Was(b, k) \in 1..Len(ch[b]) /\ new[b][k] = ch[b][Was(b, k)]
    BY <1>8
  <2>2. InPlace(ch, size)
    BY <1>1
  <2> QED BY ONLY <2>1, <2>2, b \in 0..size - 1 DEF InPlace
<1>11. InOnePlace(new, size)
  <2> SUFFICES ASSUME NEW b \in 0..size - 1, NEW c \in 0..size - 1,
                      NEW k \in 1..Len(new[b]), NEW j \in 1..Len(new[c]), new[b][k].id = new[c][j].id
               PROVE  b = c /\ k = j
    BY DEF InOnePlace
  <2>3. /\ Was(b, k) \in 1..Len(ch[b]) /\ new[b][k] = ch[b][Was(b, k)]
        /\ Was(c, j) \in 1..Len(ch[c]) /\ new[c][j] = ch[c][Was(c, j)]
    BY <1>8
  <2>4. InOnePlace(ch, size) /\ new[b][k].id = new[c][j].id
    BY <1>1
  <2>1. b = c /\ Was(b, k) = Was(c, j)
    <3>1. ch[b][Was(b, k)].id = ch[c][Was(c, j)].id
      BY ONLY <2>3, <2>4
    <3> DEFINE p == Was(b, k)
               q == Was(c, j)
    <3>2. /\ b \in 0..size - 1 /\ c \in 0..size - 1 /\ InOnePlace(ch, size)
          /\ p \in 1..Len(ch[b]) /\ q \in 1..Len(ch[c]) /\ ch[b][p].id = ch[c][q].id
      BY <2>3, <2>4, <3>1
    <3> HIDE DEF p, q
    <3>3. b = c /\ p = q
      BY ONLY <3>2 DEF InOnePlace
    <3> QED BY <3>3 DEF p, q
  <2>2. k \in Nat /\ j \in Nat /\ i \in Nat
    BY <1>2, <1>7
  <2> QED BY <2>1, <2>2 DEF Was
<1>12. EntriesOf(new, size) = EntriesOf(ch, size) \ {ch[at][i]}
  <2>1. ASSUME NEW d \in EntriesOf(new, size) PROVE d \in EntriesOf(ch, size) \ {ch[at][i]}
    <3>1. PICK b \in 0..size - 1 : \E k \in 1..Len(new[b]) : new[b][k] = d
      BY DEF EntriesOf, StandsIn
    <3>2. PICK k \in 1..Len(new[b]) : new[b][k] = d
      BY <3>1
    <3>3. Was(b, k) \in 1..Len(ch[b]) /\ ~(b = at /\ Was(b, k) = i) /\ d = ch[b][Was(b, k)]
      BY <1>8, <3>2
    <3>4. d # ch[at][i]
      <4>1. InOnePlace(ch, size)
        BY <1>1
      <4> DEFINE p == Was(b, k)
      <4>2. /\ at \in 0..size - 1 /\ b \in 0..size - 1 /\ i \in 1..Len(ch[at])
            /\ p \in 1..Len(ch[b]) /\ ~(b = at /\ p = i) /\ d = ch[b][p]
        BY <3>3
      <4> HIDE DEF p
      <4>3. d.id # ch[at][i].id
        BY ONLY <4>1, <4>2 DEF InOnePlace
      <4> QED BY <4>3
    <3>5. d \in TableEntry /\ StandsIn(ch, size, d)
      BY <2>1, <3>3 DEF EntriesOf, StandsIn
    <3> QED BY <3>4, <3>5 DEF EntriesOf
  <2>2. ASSUME NEW d \in EntriesOf(ch, size), d # ch[at][i] PROVE d \in EntriesOf(new, size)
    <3>1. PICK b \in 0..size - 1 : \E k \in 1..Len(ch[b]) : ch[b][k] = d
      BY DEF EntriesOf, StandsIn
    <3>2. PICK k \in 1..Len(ch[b]) : ch[b][k] = d
      BY <3>1
    <3>3. \E j \in 1..Len(new[b]) : new[b][j] = d
      BY <1>9, <2>2, <3>2
    <3> QED BY <2>2, <3>3 DEF EntriesOf, StandsIn
  <2> QED BY <2>1, <2>2
<1> QED BY <1>1, <1>5, <1>10, <1>11, <1>12 DEF ChainsStand

\* What stands in the chains when the entry at i has got another value.
Revalues(new, e, ch, at, i, v) ==
    e = [ch[at][i] EXCEPT !.value = v] /\ new = [ch EXCEPT ![at] = [ch[at] EXCEPT ![i] = e]]
LEMMA RevaluedIs ==
  ASSUME NEW ch, NEW size, ChainsStand(ch, size), NEW at \in 0..size - 1, NEW i \in 1..Len(ch[at]),
         NEW v \in Values, NEW new, NEW e, Revalues(new, e, ch, at, i, v)
  PROVE  /\ ChainsStand(new, size)
         /\ EntriesOf(new, size) = (EntriesOf(ch, size) \ {ch[at][i]}) \cup {e}
         /\ e.id = ch[at][i].id /\ e.key = ch[at][i].key /\ e.value = v
         /\ \A b \in 0..size - 1 :
               /\ Len(new[b]) = Len(ch[b])
               /\ \A k \in 1..Len(ch[b]) : new[b][k].id = ch[b][k].id
<1> DEFINE was == ch[at][i]
           other == [ch[at] EXCEPT ![i] = e]
<1>1. size \in Nat \ {0} /\ ch \in [0..size - 1 -> Seq(TableEntry)]
      /\ InPlace(ch, size) /\ InOnePlace(ch, size)
  <2> HIDE DEF TableEntry
  <2> QED BY DEF ChainsStand
<1>2. was \in TableEntry /\ ch[at] \in Seq(TableEntry)
  <2> HIDE DEF TableEntry
  <2> QED BY ChainIsSeq
<1> HIDE DEF was
<1>3. e \in TableEntry /\ e.id = was.id /\ e.key = was.key /\ e.hash = was.hash /\ e.value = v
  <2>1. e = [was EXCEPT !.value = v]
    BY DEF was, Revalues
  <2> QED BY ONLY <1>2, <2>1, v \in Values DEF TableEntry
<1> HIDE DEF TableEntry
<1>4. \A b \in 0..size - 1 : /\ ch[b] \in Seq(TableEntry) /\ Len(ch[b]) \in Nat
                             /\ \A k \in 1..Len(ch[b]) : ch[b][k] \in TableEntry
  BY <1>1, LenProperties, ElementOfSeq
<1>5. /\ other \in Seq(TableEntry) /\ Len(other) = Len(ch[at])
      /\ \A k \in 1..Len(ch[at]) : other[k] = IF k = i THEN e ELSE ch[at][k]
  BY <1>2, <1>3, ExceptSeq
<1>6. new = [ch EXCEPT ![at] = other]
  BY DEF other, Revalues
<1> HIDE DEF other
<1>7. new \in [0..size - 1 -> Seq(TableEntry)]
  BY ONLY <1>1, <1>5, <1>6
<1>8. \A b \in 0..size - 1 : new[b] = IF b = at THEN other ELSE ch[b]
  BY ONLY <1>1, <1>6
<1>9. \A b \in 0..size - 1 : Len(new[b]) = Len(ch[b])
  BY <1>5, <1>8
<1>10. \A b \in 0..size - 1 : \A k \in 1..Len(ch[b]) :
          new[b][k] = IF b = at /\ k = i THEN e ELSE ch[b][k]
  BY <1>5, <1>8
<1>11. \A b \in 0..size - 1 : \A k \in 1..Len(ch[b]) :
          /\ new[b][k].id = ch[b][k].id /\ new[b][k].key = ch[b][k].key
          /\ new[b][k].hash = ch[b][k].hash
  BY <1>3, <1>10 DEF was
<1>12. InPlace(new, size) /\ InOnePlace(new, size)
  <2>1. InPlace(ch, size) /\ InOnePlace(ch, size)
    BY <1>1
  <2>2. InPlace(new, size)
    <3> SUFFICES ASSUME NEW b \in 0..size - 1, NEW k \in 1..Len(new[b])
                 PROVE  new[b][k].hash = Hash[new[b][k].key] /\ b = IndexFor(size, new[b][k].hash)
      BY DEF InPlace
    <3>1. k \in 1..Len(ch[b])
      BY <1>9
    <3>2. ch[b][k].hash = Hash[ch[b][k].key] /\ b = IndexFor(size, ch[b][k].hash)
      BY ONLY <2>1, <3>1, b \in 0..size - 1 DEF InPlace
    <3>3. new[b][k].key = ch[b][k].key /\ new[b][k].hash = ch[b][k].hash
      BY ONLY <1>11, <3>1, b \in 0..size - 1
    <3> QED BY ONLY <3>2, <3>3
  <2>3. InOnePlace(new, size)
    <3> SUFFICES ASSUME NEW b \in 0..size - 1, NEW c \in 0..size - 1,
                        NEW k \in 1..Len(new[b]), NEW j \in 1..Len(new[c]), new[b][k].id = new[c][j].id
                 PROVE  b = c /\ k = j
      BY DEF InOnePlace
    <3>1. k \in 1..Len(ch[b]) /\ j \in 1..Len(ch[c])
      BY <1>9
    <3>2. ch[b][k].id = ch[c][j].id
      BY <1>11, <3>1
    <3>3. InOnePlace(ch, size)
      BY <2>1
    <3> QED BY ONLY <3>1, <3>2, <3>3, b \in 0..size - 1, c \in 0..size - 1 DEF InOnePlace
  <2> QED BY <2>2, <2>3
<1>13. EntriesOf(new, size) = (EntriesOf(ch, size) \ {was}) \cup {e}
  <2>1. ASSUME NEW d \in EntriesOf(new, size) PROVE d \in (EntriesOf(ch, size) \ {was}) \cup {e}
    <3>1. PICK b \in 0..size - 1 : \E k \in 1..Len(new[b]) : new[b][k] = d
      BY DEF EntriesOf, StandsIn
    <3>2. PICK k \in 1..Len(ch[b]) : new[b][k] = d
      BY <1>9, <3>1
    <3>3. CASE b = at /\ k = i
      BY <1>10, <3>2, <3>3
    <3>4. CASE ~(b = at /\ k = i)
      <4>1. d = ch[b][k]
        BY <1>10, <3>2, <3>4
      <4>2. d # was
        BY <1>1, <3>4, <4>1 DEF InOnePlace, was
      <4> QED BY <2>1, <4>1, <4>2 DEF EntriesOf, StandsIn
    <3> QED BY <3>3, <3>4
  <2>2. ASSUME NEW d \in EntriesOf(ch, size), d # was PROVE d \in EntriesOf(new, size)
    <3>1. PICK b \in 0..size - 1 : \E k \in 1..Len(ch[b]) : ch[b][k] = d
      BY DEF EntriesOf, StandsIn
    <3>2. PICK k \in 1..Len(ch[b]) : ch[b][k] = d
      BY <3>1
    <3>3. k \in 1..Len(new[b]) /\ new[b][k] = d
      BY <1>9, <1>10, <2>2, <3>2 DEF was
    <3> QED BY <2>2, <3>3 DEF EntriesOf, StandsIn
  <2>3. e \in EntriesOf(new, size)
    <3>1. i \in 1..Len(new[at]) /\ new[at][i] = e
      BY <1>9, <1>10
    <3> QED BY <1>3, <3>1 DEF EntriesOf, StandsIn
  <2> QED BY <2>1, <2>2, <2>3
<1>14. ChainsStand(new, size)
  BY <1>1, <1>7, <1>12 DEF ChainsStand
<1> QED BY <1>3, <1>9, <1>11, <1>13, <1>14 DEF was

LEMMA NoEntries ==
  ASSUME NEW size \in Nat \ {0}
  PROVE  /\ ChainsStand([b \in 0..size - 1 |-> <<>>], size)
         /\ EntriesOf([b \in 0..size - 1 |-> <<>>], size) = {}
<1> DEFINE new == [b \in 0..size - 1 |-> <<>>]
<1>1. new \in [0..size - 1 -> Seq(TableEntry)]
  <2> HIDE DEF TableEntry
  <2> QED BY EmptySeq
<1>2. \A b \in 0..size - 1 : 1..Len(new[b]) = {}
  BY EmptySeq
<1> HIDE DEF new, TableEntry
<1> QED BY <1>1, <1>2 DEF ChainsStand, InPlace, InOnePlace, EntriesOf, StandsIn, new

\* The sequence s holds the entries of the first m chains, each of them once.
Enumerates(s, ch, m) ==
    /\ s \in Seq(TableEntry)
    /\ \A j \in 1..Len(s) : \E b \in 0..m - 1 : \E i \in 1..Len(ch[b]) : s[j] = ch[b][i]
    /\ \A b \in 0..m - 1 : \A i \in 1..Len(ch[b]) : \E j \in 1..Len(s) : s[j] = ch[b][i]
    /\ \A j, k \in 1..Len(s) : s[j].id = s[k].id => j = k

LEMMA EnumeratesMore ==
  ASSUME NEW ch, NEW size, ChainsStand(ch, size), NEW m \in Nat, m < size, NEW s, Enumerates(s, ch, m)
  PROVE  Enumerates(s \o ch[m], ch, m + 1)
<1> DEFINE c == ch[m]
           r == s \o c
           n == Len(s)
<1>1. size \in Nat \ {0} /\ m \in 0..size - 1 /\ 0..m - 1 \subseteq 0..size - 1
      /\ 0..m = 0..(m + 1) - 1 /\ \A b \in 0..m : b \in 0..m - 1 \/ b = m
  BY DEF ChainsStand
<1>2. /\ c \in Seq(TableEntry) /\ Len(c) \in Nat /\ s \in Seq(TableEntry) /\ n \in Nat
      /\ InOnePlace(ch, size)
  <2> HIDE DEF TableEntry
  <2> QED BY <1>1, ChainIsSeq, LenProperties DEF Enumerates, ChainsStand
<1> HIDE DEF TableEntry
<1>3. /\ r \in Seq(TableEntry) /\ Len(r) = n + Len(c)
      /\ \A k \in 1..n + Len(c) : r[k] = IF k <= n THEN s[k] ELSE c[k - n]
  BY <1>2, ConcatProperties
<1> HIDE DEF r, n
<1>4. \A k \in 1..n : k \in 1..Len(r) /\ r[k] = s[k]
  <2> SUFFICES ASSUME NEW k \in 1..n PROVE k \in 1..Len(r) /\ r[k] = s[k]
    OBVIOUS
  <2>1. k \in 1..n + Len(c) /\ k <= n
    BY <1>2
  <2> QED BY <1>3, <2>1
<1>5. \A k \in 1..Len(c) : n + k \in 1..Len(r) /\ r[n + k] = c[k]
  <2> SUFFICES ASSUME NEW k \in 1..Len(c) PROVE n + k \in 1..Len(r) /\ r[n + k] = c[k]
    OBVIOUS
  <2>1. n + k \in 1..n + Len(c) /\ ~(n + k <= n) /\ (n + k) - n = k
    BY <1>2
  <2> QED BY <1>3, <2>1
<1>6. \A k \in 1..Len(r) : k \in 1..n \/ (k > n /\ k - n \in 1..Len(c) /\ k = n + (k - n))
  BY <1>2, <1>3
<1> HIDE DEF c
<1>7. /\ \A j \in 1..n : \E b \in 0..m - 1 : \E i \in 1..Len(ch[b]) : s[j] = ch[b][i]
      /\ \A b \in 0..m - 1 : \A i \in 1..Len(ch[b]) : \E j \in 1..n : s[j] = ch[b][i]
      /\ \A j, k \in 1..n : s[j].id = s[k].id => j = k
  BY DEF Enumerates, n
<1>8. ASSUME NEW j \in 1..Len(r)
      PROVE  \E b \in 0..m : \E i \in 1..Len(ch[b]) : r[j] = ch[b][i]
  <2>1. CASE j \in 1..n
    BY <1>1, <1>4, <1>7, <2>1
  <2>2. CASE j - n \in 1..Len(c) /\ j = n + (j - n)
    <3>1. r[j] = ch[m][j - n] /\ j - n \in 1..Len(ch[m])
      BY <1>5, <2>2 DEF c
    <3> QED BY <3>1
  <2> QED BY <1>6, <2>1, <2>2
<1>9. ASSUME NEW b \in 0..m, NEW i \in 1..Len(ch[b])
      PROVE  \E j \in 1..Len(r) : r[j] = ch[b][i]
  <2>1. CASE b \in 0..m - 1
    BY <1>4, <1>7, <2>1
  <2>2. CASE b = m
    <3>1. n + i \in 1..Len(r) /\ r[n + i] = ch[b][i]
      BY <1>5, <2>2 DEF c
    <3> QED BY <3>1
  <2> QED BY <1>1, <2>1, <2>2
<1>10. ASSUME NEW j \in 1..n, NEW k \in 1..Len(c) PROVE s[j].id # c[k].id
  <2>1. PICK b \in 0..m - 1 : \E i \in 1..Len(ch[b]) : s[j] = ch[b][i]
    BY <1>7
  <2>2. PICK i \in 1..Len(ch[b]) : s[j] = ch[b][i]
    BY <2>1
  <2>3. b \in 0..size - 1 /\ m \in 0..size - 1 /\ b # m /\ k \in 1..Len(ch[m])
    BY <1>1 DEF c
  <2>4. ch[b][i].id # ch[m][k].id
    BY <1>2, <2>3 DEF InOnePlace
  <2> QED BY <2>2, <2>4 DEF c
<1>11. ASSUME NEW j \in 1..Len(c), NEW k \in 1..Len(c), c[j].id = c[k].id PROVE j = k
  BY <1>1, <1>2, <1>11 DEF InOnePlace, c
<1>12. ASSUME NEW j \in 1..Len(r), NEW k \in 1..Len(r), r[j].id = r[k].id PROVE j = k
  <2>1. CASE j \in 1..n /\ k \in 1..n
    BY <1>4, <1>7, <1>12, <2>1
  <2>2. CASE j \in 1..n /\ k - n \in 1..Len(c) /\ k = n + (k - n)
    <3>1. r[j] = s[j] /\ r[k] = c[k - n]
      BY <1>4, <1>5, <2>2
    <3>2. s[j].id # c[k - n].id
      BY <1>10, <2>2
    <3> QED BY ONLY <1>12, <3>1, <3>2
  <2>3. CASE k \in 1..n /\ j - n \in 1..Len(c) /\ j = n + (j - n)
    <3>1. r[k] = s[k] /\ r[j] = c[j - n]
      BY <1>4, <1>5, <2>3
    <3>2. s[k].id # c[j - n].id
      BY <1>10, <2>3
    <3> QED BY ONLY <1>12, <3>1, <3>2
  <2>4. CASE j - n \in 1..Len(c) /\ j = n + (j - n) /\ k - n \in 1..Len(c) /\ k = n + (k - n)
    <3>1. r[j] = c[j - n] /\ r[k] = c[k - n]
      BY <1>5, <2>4
    <3>2. j - n = k - n
      BY <1>11, <1>12, <2>4, <3>1
    <3> QED BY <2>4, <3>2
  <2> QED BY <1>6, <2>1, <2>2, <2>3, <2>4
<1>13. Enumerates(r, ch, m + 1)
  BY <1>1, <1>3, <1>8, <1>9, <1>12 DEF Enumerates
<1> QED BY <1>13 DEF r, c

LEMMA EnumeratesNone ==
  ASSUME NEW ch PROVE Enumerates(<<>>, ch, 0)
<1>1. Len(<<>>) = 0 /\ 1..0 = {} /\ 0..0 - 1 = {} /\ <<>> \in Seq(TableEntry)
  <2> HIDE DEF TableEntry
  <2> QED BY EmptySeq
<1> HIDE DEF TableEntry
<1> QED BY <1>1 DEF Enumerates

\* The first sequences of cs one after the other.
Joined(f, cs, i) == IF i = 1 THEN cs[i] ELSE f[i - 1] \o cs[i]
LEMMA JoiningExists ==
  ASSUME NEW cs
  PROVE  \A n \in Nat : \E f : f = [i \in 1..n |-> Joined(f, cs, i)]
<1> DEFINE good == {n \in Nat : \E f : f = [i \in 1..n |-> Joined(f, cs, i)]}
<1>1. 0 \in good
  <2> DEFINE f == [i \in 1..0 |-> 0]
  <2>1. f = [i \in 1..0 |-> Joined(f, cs, i)]
    <3>1. 1..0 = {}
      OBVIOUS
    <3> QED BY ONLY <3>1
  <2> HIDE DEF f
  <2> QED BY <2>1
<1>2. ASSUME NEW n \in good PROVE n + 1 \in good
  <2>1. n \in Nat
    OBVIOUS
  <2>2. PICK f : f = [i \in 1..n |-> Joined(f, cs, i)]
    OBVIOUS
  <2>3. \A i \in 1..n : f[i] = Joined(f, cs, i)
    BY ONLY <2>2
  <2> DEFINE longer == Joined(f, cs, n + 1)
             g == [i \in 1..n + 1 |-> IF i = n + 1 THEN longer ELSE f[i]]
  <2> HIDE DEF longer
  <2>4. \A i \in 1..n + 1 : g[i] = Joined(g, cs, i)
    <3> SUFFICES ASSUME NEW i \in 1..n + 1 PROVE g[i] = Joined(g, cs, i)
      OBVIOUS
    <3>1. CASE i = 1
      BY <2>1, <2>3, <3>1 DEF Joined, longer
    <3>2. CASE i # 1
      <4>1. i - 1 \in 1..n /\ i - 1 \in 1..n + 1 /\ i - 1 # n + 1
        BY <2>1, <3>2
      <4>2. g[i - 1] = f[i - 1]
        BY <4>1
      <4>3. Joined(g, cs, i) = Joined(f, cs, i)
        <5> HIDE DEF g
        <5> QED BY ONLY <3>2, <4>2 DEF Joined
      <4>4. i = n + 1 \/ i \in 1..n
        BY <2>1
      <4>5. g[i] = Joined(f, cs, i)
        BY <2>1, <2>3, <4>4 DEF longer
      <4> QED BY <4>3, <4>5
    <3> QED BY <3>1, <3>2
  <2>5. g = [i \in 1..n + 1 |-> g[i]]
    OBVIOUS
  <2> HIDE DEF g
  <2>6. g = [i \in 1..n + 1 |-> Joined(g, cs, i)]
    BY ONLY <2>4, <2>5
  <2> QED BY <2>1, <2>6
<1> HIDE DEF good
<1>3. good = Nat
  <2>1. good \subseteq Nat
    BY DEF good
  <2> QED BY <1>1, <1>2, <2>1, AllNumbers
<1> QED BY <1>3 DEF good

\* Chained lists the entries of a table.
LEMMA ChainedIs ==
  ASSUME NEW h, NEW size, size = Primes[h.primeIndex], ChainsStand(h.chains, size)
  PROVE  Enumerates(Chained(h), h.chains, size)
<1> DEFINE ch == h.chains
           cs == [i \in 1..size |-> ch[i - 1]]
           f == CHOOSE g : g = [i \in 1..size |-> Joined(g, cs, i)]
<1>1. size \in Nat /\ size >= 1
  BY DEF ChainsStand
<1>2. cs \in Seq(Seq(TableEntry)) /\ Len(cs) = size
  <2>1. \A i \in 1..size : cs[i] \in Seq(TableEntry)
    <3> SUFFICES ASSUME NEW i \in 1..size PROVE ch[i - 1] \in Seq(TableEntry)
      OBVIOUS
    <3>1. i - 1 \in 0..size - 1
      BY <1>1
    <3> HIDE DEF TableEntry
    <3> QED BY <3>1, ChainIsSeq
  <2>2. cs \in [1..size -> Seq(TableEntry)]
    BY <2>1
  <2> HIDE DEF cs, TableEntry
  <2> QED BY <1>1, <2>2, PlacesAreSeq
<1>3. Chained(h) = FlattenSeq(cs)
  BY DEF Chained
<1>4. \A i \in 1..size : cs[i] = ch[i - 1]
  OBVIOUS
<1> HIDE DEF cs, ch, TableEntry
<1>5. FlattenSeq(cs) = f[size]
  <2>1. Len(cs) = size /\ size # 0
    BY <1>1, <1>2
  <2> QED BY ONLY <2>1 DEF FlattenSeq, Joined
<1>6. f = [i \in 1..size |-> Joined(f, cs, i)]
  <2>1. \E g : g = [i \in 1..size |-> Joined(g, cs, i)]
    BY ONLY <1>1, JoiningExists
  <2> QED BY ONLY <2>1
<1> HIDE DEF f
<1>7. \A i \in 1..size : f[i] = Joined(f, cs, i)
  BY ONLY <1>6
<1> DEFINE done == {n \in Nat : n + 1 <= size => Enumerates(f[n + 1], ch, n + 1)}
<1>8. ChainsStand(ch, size)
  BY DEF ch
<1>9. 0 \in done
  <2>1. 1 \in 1..size /\ 0 < size
    BY <1>1
  <2>2. f[1] = ch[0]
    BY ONLY <1>4, <1>7, <2>1 DEF Joined
  <2>3. Enumerates(<<>> \o ch[0], ch, 1)
    <3>1. Enumerates(<<>>, ch, 0)
      BY EnumeratesNone
    <3>2. 0 \in Nat /\ 0 < size /\ 0 + 1 = 1
      BY <2>1
    <3>3. Enumerates(<<>> \o ch[0], ch, 0 + 1)
      BY ONLY <1>8, <3>1, <3>2, EnumeratesMore
    <3> QED BY ONLY <3>2, <3>3
  <2>4. <<>> \o ch[0] = ch[0]
    <3>1. ch[0] \in Seq(TableEntry)
      <4>1. 0 \in 0..size - 1
        BY <1>1
      <4> QED BY ONLY <1>8, <4>1, ChainIsSeq
    <3> QED BY ONLY <3>1, ConcatEmptySeq
  <2> QED BY <2>2, <2>3, <2>4
<1>10. ASSUME NEW n \in done PROVE n + 1 \in done
  <2>1. n \in Nat
    OBVIOUS
  <2>2. CASE ~((n + 1) + 1 <= size)
    BY <2>1, <2>2
  <2>3. CASE (n + 1) + 1 <= size
    <3> DEFINE m == n + 1
    <3>1. m \in Nat /\ m < size /\ m + 1 \in 1..size /\ m + 1 # 1 /\ (m + 1) - 1 = m /\ m <= size
      BY <1>1, <2>1, <2>3
    <3>2. Enumerates(f[m], ch, m)
      BY <3>1
    <3> HIDE DEF m
    <3>3. f[m + 1] = f[m] \o ch[m]
      BY ONLY <1>4, <1>7, <3>1 DEF Joined
    <3>4. Enumerates(f[m] \o ch[m], ch, m + 1)
      BY ONLY <1>8, <3>1, <3>2, EnumeratesMore
    <3>5. Enumerates(f[m + 1], ch, m + 1)
      BY ONLY <3>3, <3>4
    <3> QED BY <3>1, <3>5 DEF m
  <2> QED BY <2>2, <2>3
<1> HIDE DEF done
<1>11. done = Nat
  <2>1. done \subseteq Nat
    BY DEF done
  <2> QED BY <1>9, <1>10, <2>1, AllNumbers
<1>12. Enumerates(f[size], ch, size)
  <2>1. size - 1 \in Nat /\ (size - 1) + 1 = size
    BY <1>1
  <2>2. size - 1 \in done
    BY <1>11, <2>1
  <2> QED BY <2>1, <2>2 DEF done
<1> QED BY <1>3, <1>5, <1>12 DEF ch

LEMMA ChainedCounts ==
  ASSUME NEW ch, NEW size, ChainsStand(ch, size), NEW all, Enumerates(all, ch, size)
  PROVE  /\ all \in Seq(TableEntry) /\ Len(all) \in Nat
         /\ EntriesOf(ch, size) = {all[j] : j \in 1..Len(all)}
         /\ Len(all) = Cardinality(IdsIn(ch, size))
<1>1. all \in Seq(TableEntry) /\ Len(all) \in Nat /\ \A j \in 1..Len(all) : all[j] \in TableEntry
  <2>1. all \in Seq(TableEntry)
    BY DEF Enumerates
  <2> HIDE DEF TableEntry
  <2> QED BY <2>1, LenProperties, ElementOfSeq
<1> HIDE DEF TableEntry
<1>2. EntriesOf(ch, size) = {all[j] : j \in 1..Len(all)}
  <2>1. ASSUME NEW j \in 1..Len(all) PROVE all[j] \in EntriesOf(ch, size)
    <3>1. \E b \in 0..size - 1 : \E i \in 1..Len(ch[b]) : all[j] = ch[b][i]
      BY DEF Enumerates
    <3>2. StandsIn(ch, size, all[j])
      BY <3>1 DEF StandsIn
    <3> QED BY <1>1, <3>2 DEF EntriesOf
  <2>2. ASSUME NEW e \in EntriesOf(ch, size) PROVE \E j \in 1..Len(all) : e = all[j]
    <3>1. PICK b \in 0..size - 1 : \E i \in 1..Len(ch[b]) : ch[b][i] = e
      BY DEF EntriesOf, StandsIn
    <3>2. PICK i \in 1..Len(ch[b]) : ch[b][i] = e
      BY <3>1
    <3>3. \E j \in 1..Len(all) : all[j] = ch[b][i]
      BY <3>2 DEF Enumerates
    <3> QED BY <3>2, <3>3
  <2> QED BY <2>1, <2>2
<1> DEFINE f == [j \in 1..Len(all) |-> all[j].id]
<1>3. f \in Bijection(1..Len(all), IdsIn(ch, size))
  <2>1. IdsIn(ch, size) = {all[j].id : j \in 1..Len(all)}
    BY <1>2 DEF IdsIn
  <2>2. \A j, k \in 1..Len(all) : all[j].id = all[k].id => j = k
    BY DEF Enumerates
  <2>3. f \in [1..Len(all) -> IdsIn(ch, size)]
    BY <2>1
  <2>4. \A j, k \in 1..Len(all) : f[j] = f[k] => j = k
    BY <2>2
  <2>5. \A x \in IdsIn(ch, size) : \E j \in 1..Len(all) : f[j] = x
    BY <2>1
  <2> HIDE DEF f
  <2> QED BY <2>3, <2>4, <2>5 DEF Bijection, Injection, Surjection, IsInjective
<1>4. IsFiniteSet(1..Len(all)) /\ Cardinality(1..Len(all)) = Len(all)
  <2>1. IsFiniteSet(1..Len(all))
        /\ Cardinality(1..Len(all)) = IF 1 > Len(all) THEN 0 ELSE Len(all) - 1 + 1
    BY <1>1, FS_Interval
  <2> QED BY <1>1, <2>1
<1>5. Cardinality(1..Len(all)) = Cardinality(IdsIn(ch, size))
  <2>1. ExistsBijection(1..Len(all), IdsIn(ch, size))
    <3> HIDE DEF f
    <3> QED BY <1>3 DEF ExistsBijection
  <2> QED BY ONLY <1>4, <2>1, FS_Bijection
<1> QED BY <1>1, <1>2, <1>4, <1>5

\* The entries of all have been put into empty chains one after the other.
PuttingNext(f, all, size, n) ==
    IF n = 0 THEN [b \in 0..size - 1 |-> <<>>] ELSE PutFirst(f[n - 1], size, all[n])
IsPutting(f, all, size, m) == f = [n \in 0..m |-> PuttingNext(f, all, size, n)]
LEMMA PuttingExists ==
  ASSUME NEW all, NEW size
  PROVE  \A m \in Nat : \E f : IsPutting(f, all, size, m)
<1> DEFINE good == {m \in Nat : \E f : f = [n \in 0..m |-> PuttingNext(f, all, size, n)]}
           empty == [b \in 0..size - 1 |-> <<>>]
<1>1. 0 \in good
  <2> DEFINE f == [n \in 0..0 |-> empty]
  <2>1. \A n \in 0..0 : f[n] = PuttingNext(f, all, size, n)
    BY DEF PuttingNext
  <2>2. f = [n \in 0..0 |-> f[n]]
    OBVIOUS
  <2> HIDE DEF f, empty
  <2>3. f = [n \in 0..0 |-> PuttingNext(f, all, size, n)]
    BY ONLY <2>1, <2>2
  <2> QED BY <2>3
<1>2. ASSUME NEW m \in good PROVE m + 1 \in good
  <2>1. m \in Nat
    OBVIOUS
  <2>2. PICK f : f = [n \in 0..m |-> PuttingNext(f, all, size, n)]
    OBVIOUS
  <2>3. \A n \in 0..m : f[n] = PuttingNext(f, all, size, n)
    BY ONLY <2>2
  <2> DEFINE more == PuttingNext(f, all, size, m + 1)
             g == [n \in 0..m + 1 |-> IF n = m + 1 THEN more ELSE f[n]]
  <2> HIDE DEF more
  <2>4. \A n \in 0..m + 1 : g[n] = PuttingNext(g, all, size, n)
    <3> SUFFICES ASSUME NEW n \in 0..m + 1 PROVE g[n] = PuttingNext(g, all, size, n)
      OBVIOUS
    <3>1. n \in 0..m \/ n = m + 1
      BY <2>1
    <3>2. g[n] = PuttingNext(f, all, size, n)
      BY <2>1, <2>3, <3>1 DEF more
    <3>3. PuttingNext(g, all, size, n) = PuttingNext(f, all, size, n)
      <4>1. n # 0 => g[n - 1] = f[n - 1]
        <5>1. n # 0 => n - 1 \in 0..m + 1 /\ n - 1 # m + 1
          BY <2>1
        <5> QED BY <5>1
      <4> HIDE DEF g
      <4> QED BY ONLY <4>1 DEF PuttingNext
    <3> QED BY <3>2, <3>3
  <2>5. g = [n \in 0..m + 1 |-> g[n]]
    OBVIOUS
  <2> HIDE DEF g
  <2>6. g = [n \in 0..m + 1 |-> PuttingNext(g, all, size, n)]
    BY ONLY <2>4, <2>5
  <2> QED BY <2>1, <2>6
<1> HIDE DEF good
<1>3. good = Nat
  <2>1. good \subseteq Nat
    BY DEF good
  <2> QED BY <1>1, <1>2, <2>1, AllNumbers
<1>4. \A m \in Nat : \E f : f = [n \in 0..m |-> PuttingNext(f, all, size, n)]
  BY <1>3 DEF good
<1> QED BY ONLY <1>4 DEF IsPutting

\* A table that grows keeps its entries.
LEMMA RehashedIs ==
  ASSUME NEW h, NEW was, was = Primes[h.primeIndex], ChainsStand(h.chains, was),
         NEW size \in Nat \ {0}
  PROVE  /\ ChainsStand(Rehashed(h, size), size)
         /\ EntriesOf(Rehashed(h, size), size) = EntriesOf(h.chains, was)
<1> DEFINE all == Chained(h)
           count == Len(all)
           f == CHOOSE g : g = [n \in 0..count |-> PuttingNext(g, all, size, n)]
<1>1. Rehashed(h, size) = f[count]
  BY DEF Rehashed, PuttingNext
<1>2. /\ Enumerates(all, h.chains, was) /\ count \in Nat /\ count = Len(all)
      /\ EntriesOf(h.chains, was) = {all[j] : j \in 1..count}
  <2>1. Enumerates(all, h.chains, was)
    BY ChainedIs
  <2> HIDE DEF all, TableEntry
  <2> QED BY <2>1, ChainedCounts
<1> HIDE DEF all, count, f, TableEntry
<1>3. \A n \in 0..count : f[n] = PuttingNext(f, all, size, n)
  <2>1. \E g : g = [n \in 0..count |-> PuttingNext(g, all, size, n)]
    <3>1. count \in Nat
      BY <1>2
    <3>2. \E g : IsPutting(g, all, size, count)
      BY ONLY <3>1, PuttingExists
    <3> QED BY ONLY <3>2 DEF IsPutting
  <2>2. f = [n \in 0..count |-> PuttingNext(f, all, size, n)]
    BY ONLY <2>1 DEF f
  <2> QED BY ONLY <2>2
<1>4. ASSUME NEW j \in 1..count PROVE all[j] \in TableEntry /\ all[j].hash = Hash[all[j].key]
  <2>1. all[j] \in EntriesOf(h.chains, was)
    BY <1>2
  <2>2. all[j] \in TableEntry
    BY <2>1 DEF EntriesOf
  <2>3. PICK b \in 0..was - 1 : \E i \in 1..Len(h.chains[b]) : h.chains[b][i] = all[j]
    BY <2>1 DEF EntriesOf, StandsIn
  <2>4. all[j].hash = Hash[all[j].key]
    <3>1. InPlace(h.chains, was)
      BY DEF ChainsStand
    <3> QED BY <2>3, <3>1 DEF InPlace
  <2> QED BY <2>2, <2>4
<1> DEFINE Placed(n) == {all[j] : j \in 1..n}
           done == {n \in Nat : n <= count =>
                        ChainsStand(f[n], size) /\ EntriesOf(f[n], size) = Placed(n)}
<1>5. 0 \in done
  <2>1. 0 \in 0..count /\ 1..0 = {}
    BY <1>2
  <2>2. f[0] = [b \in 0..size - 1 |-> <<>>]
    BY <1>3, <2>1 DEF PuttingNext
  <2>3. ChainsStand(f[0], size) /\ EntriesOf(f[0], size) = {}
    BY ONLY <2>2, size \in Nat \ {0}, NoEntries
  <2> QED BY <2>1, <2>3
<1>6. ASSUME NEW n \in done PROVE n + 1 \in done
  <2>1. CASE ~(n + 1 <= count)
    BY <2>1
  <2>2. CASE n + 1 <= count
    <3> DEFINE e == all[n + 1]
    <3>1. /\ n \in Nat /\ n <= count /\ n + 1 \in 1..count /\ n + 1 \in 0..count
          /\ n + 1 # 0 /\ (n + 1) - 1 = n /\ \A j \in 1..n : j \in 1..count /\ j # n + 1
      BY <1>2, <2>2
    <3>2. ChainsStand(f[n], size) /\ EntriesOf(f[n], size) = Placed(n)
      BY <3>1
    <3>3. f[n + 1] = PutFirst(f[n], size, e)
      BY <1>3, <3>1 DEF PuttingNext
    <3>4. e \in TableEntry /\ e.hash = Hash[e.key]
      BY <1>4, <3>1
    <3>5. e.id \notin IdsIn(f[n], size)
      <4>1. \A j \in 1..n : all[j].id # e.id
        BY <1>2, <3>1 DEF Enumerates
      <4> HIDE DEF e
      <4> QED BY <3>2, <4>1 DEF IdsIn
    <3>6. Placed(n + 1) = Placed(n) \cup {e}
      <4>1. 1..n + 1 = 1..n \cup {n + 1}
        BY <3>1
      <4> QED BY <4>1
    <3> HIDE DEF e, Placed, done
    <3>7. ChainsStand(f[n + 1], size) /\ EntriesOf(f[n + 1], size) = Placed(n + 1)
      <4>1. /\ ChainsStand(PutFirst(f[n], size, e), size)
            /\ EntriesOf(PutFirst(f[n], size, e), size) = EntriesOf(f[n], size) \cup {e}
        BY ONLY <3>2, <3>4, <3>5, PutFirstIs
      <4> QED BY ONLY <3>2, <3>3, <3>6, <4>1
    <3> QED BY <3>1, <3>7 DEF done
  <2> QED BY <2>1, <2>2
<1>7. done = Nat
  <2>1. done \subseteq Nat
    OBVIOUS
  <2> HIDE DEF done
  <2> QED BY <1>5, <1>6, <2>1, AllNumbers
<1>8. ChainsStand(f[count], size) /\ EntriesOf(f[count], size) = Placed(count)
  <2>1. count \in done
    BY <1>2, <1>7
  <2> QED BY <1>2, <2>1
<1> QED BY <1>1, <1>2, <1>8

-----------------------------------------------------------------------------
(* The table and the walk over it.                                          *)

AnyChains == {<<>>} \cup UNION {[0..n - 1 -> Seq(TableEntry)] : n \in Nat}
Tables == [valid : BOOLEAN, chains : AnyChains, primeIndex : Nat, loadFactor : Nat, loadLimit : Nat,
           entryCount : Nat, keyDtor : BOOLEAN, valueDtor : BOOLEAN]
SizeOf(h) == Primes[h.primeIndex]
EntriesIn(h) == EntriesOf(h.chains, SizeOf(h))
IdsWithin(h) == IdsIn(h.chains, SizeOf(h))

TableStands(h) ==
    /\ h \in Tables /\ h.primeIndex \in 1..Len(Primes)
    /\ ChainsStand(h.chains, SizeOf(h))
    /\ h.entryCount = Cardinality(IdsWithin(h))

Spots == 1..MaxEntries \cup {Null}
TableWalks == [entry : Spots, parent : Spots, index : Nat, initialized : BOOLEAN]

\* The walk is at place i of its chain, and knows the entry before.
IsAt(h, w, i) ==
    /\ w.index \in 0..SizeOf(h) - 1 /\ i \in 1..Len(h.chains[w.index])
    /\ w.entry = h.chains[w.index][i].id
    /\ w.parent = IF i = 1 THEN Null ELSE h.chains[w.index][i - 1].id
WalkStands(h, w) ==
    /\ w \in TableWalks
    /\ w.initialized => w.index \in 0..SizeOf(h)
    /\ ~w.initialized => w.entry = Null
    /\ w.entry # Null => \E i \in 1..Len(h.chains[w.index]) : IsAt(h, w, i)

TableInv ==
    /\ ht \in Tables
    /\ ~ht.valid => ht = NoTable /\ it = NoWalk
    /\ ht.valid => TableStands(ht) /\ WalkStands(ht, it)

\* The identities at and behind the places after place i of chain b.
IdsBehind(ch, size, b, i) ==
    {n \in 1..MaxEntries : \E c \in 0..size - 1 : \E j \in 1..Len(ch[c]) :
        ch[c][j].id = n /\ (c > b \/ (c = b /\ j > i))}

LEMMA StandingIs ==
  ASSUME NEW h, TableStands(h)
  PROVE  /\ SizeOf(h) \in Nat \ {0} /\ ChainsStand(h.chains, SizeOf(h))
         /\ DOMAIN h.chains = 0..SizeOf(h) - 1
         /\ Entries(h) = EntriesIn(h) /\ LiveIds(h) = IdsWithin(h)
         /\ h.entryCount = Len(Chained(h)) /\ h.entryCount = Cardinality(LiveIds(h))
         /\ h.entryCount \in 0..MaxEntries /\ IdsWithin(h) \subseteq 1..MaxEntries
         /\ h.primeIndex \in 1..Len(Primes) /\ h \in Tables
<1> DEFINE size == SizeOf(h)
<1>1. /\ ChainsStand(h.chains, size) /\ size = Primes[h.primeIndex] /\ h \in Tables
      /\ h.entryCount = Cardinality(IdsWithin(h)) /\ h.primeIndex \in 1..Len(Primes)
  BY DEF TableStands, SizeOf
<1>2. size \in Nat \ {0}
  BY <1>1 DEF ChainsStand
<1> HIDE DEF size, TableEntry
<1>3. DOMAIN h.chains = 0..size - 1 /\ Entries(h) = EntriesIn(h) /\ LiveIds(h) = IdsWithin(h)
  BY <1>1, ChainsAre DEF EntriesIn, IdsWithin, size
<1>4. Enumerates(Chained(h), h.chains, size)
  BY ONLY <1>1, ChainedIs
<1>5. Len(Chained(h)) = Cardinality(IdsWithin(h))
  BY ONLY <1>1, <1>4, ChainedCounts DEF IdsWithin, size
<1>6. Cardinality(IdsWithin(h)) \in 0..MaxEntries /\ IdsWithin(h) \subseteq 1..MaxEntries
  BY ONLY <1>1, IdsAreFinite DEF IdsWithin, size
<1> QED BY <1>1, <1>2, <1>3, <1>4, <1>5, <1>6 DEF size

LEMMA NoTableIs ==
  /\ NoTable \in Tables /\ NoTable.valid = FALSE /\ Entries(NoTable) = {} /\ LiveIds(NoTable) = {}
  /\ NoTable.entryCount = 0 /\ NoTable.loadLimit = 0 /\ NoTable.loadFactor = 0
  /\ NoWalk.entry = Null /\ NoWalk.initialized = FALSE /\ NoWalk \in TableWalks
<1>1. NoTable \in Tables /\ NoTable.valid = FALSE /\ NoTable.chains = <<>>
      /\ NoTable.entryCount = 0 /\ NoTable.loadLimit = 0 /\ NoTable.loadFactor = 0
  <2>1. <<>> \in AnyChains
    BY DEF AnyChains
  <2> HIDE DEF AnyChains
  <2> QED BY <2>1 DEF NoTable, Tables
<1>2. DOMAIN <<>> = {}
  OBVIOUS
<1>3. Entries(NoTable) = {}
  BY <1>1, <1>2 DEF Entries
<1>4. LiveIds(NoTable) = {}
  BY <1>3 DEF LiveIds
<1>5. NoWalk.entry = Null /\ NoWalk.initialized = FALSE /\ NoWalk \in TableWalks
  BY DEF NoWalk, TableWalks, Spots
<1> QED BY <1>1, <1>3, <1>4, <1>5

LEMMA InvIs ==
  ASSUME TableInv, ht.valid
  PROVE  /\ TableStands(ht) /\ WalkStands(ht, it) /\ ht \in Tables
BY DEF TableInv

LEMMA ChainsAreAny ==
  ASSUME NEW ch, NEW size, ChainsStand(ch, size)
  PROVE  ch \in AnyChains
<1>1. size \in Nat /\ ch \in [0..size - 1 -> Seq(TableEntry)]
  <2> HIDE DEF TableEntry
  <2> QED BY DEF ChainsStand
<1> HIDE DEF TableEntry
<1> QED BY <1>1 DEF AnyChains

IsRechained(h, ch, n, g) ==
    \/ g = [h EXCEPT !.chains = ch, !.entryCount = n]
    \/ g = [h EXCEPT !.entryCount = n, !.chains = ch]
    \/ g = [h EXCEPT !.chains = ch] /\ n = h.entryCount
LEMMA OtherChains ==
  ASSUME NEW h, TableStands(h), NEW ch, ChainsStand(ch, SizeOf(h)), NEW n,
         n = Cardinality(IdsIn(ch, SizeOf(h))), NEW g,
         IsRechained(h, ch, n, g)
  PROVE  /\ TableStands(g) /\ g.valid = h.valid /\ g.chains = ch /\ g.keyDtor = h.keyDtor
         /\ SizeOf(g) = SizeOf(h) /\ g.primeIndex = h.primeIndex /\ DOMAIN g = DOMAIN h
<1>1. h \in Tables /\ h.primeIndex \in 1..Len(Primes)
  BY DEF TableStands
<1>2. ch \in AnyChains
  BY ChainsAreAny
<1>3. n \in Nat
  BY IdsAreFinite
<1> HIDE DEF AnyChains
<1>4. /\ g \in Tables /\ g.valid = h.valid /\ g.chains = ch /\ g.keyDtor = h.keyDtor
      /\ g.entryCount = n /\ g.primeIndex = h.primeIndex /\ DOMAIN g = DOMAIN h
  <2>1. CASE g = [h EXCEPT !.chains = ch, !.entryCount = n]
    BY ONLY <1>1, <1>2, <1>3, <2>1 DEF Tables
  <2>2. CASE g = [h EXCEPT !.entryCount = n, !.chains = ch]
    BY ONLY <1>1, <1>2, <1>3, <2>2 DEF Tables
  <2>3. CASE g = [h EXCEPT !.chains = ch] /\ n = h.entryCount
    BY ONLY <1>1, <1>2, <1>3, <2>3 DEF Tables
  <2> QED BY <2>1, <2>2, <2>3 DEF IsRechained
<1>5. SizeOf(g) = SizeOf(h)
  BY <1>4 DEF SizeOf
<1>6. TableStands(g)
  BY <1>1, <1>4, <1>5 DEF TableStands, IdsWithin
<1> QED BY <1>4, <1>5, <1>6

-----------------------------------------------------------------------------
(* What a walk has still before it.                                         *)

AheadOf(h, w) ==
    IF ~w.initialized THEN LiveIds(h)
    ELSE IF w.entry = Null THEN {}
    ELSE IdsOf(Beyond(h, w)) \cup
         UNION {IdsOf(h.chains[b]) : b \in {x \in DOMAIN h.chains : x > w.index}}

LEMMA AheadIs == Ahead = AheadOf(ht, it) /\ Ahead' = AheadOf(ht', it')
BY DEF Ahead, AheadOf

LEMMA BehindAll ==
  ASSUME NEW ch, NEW size, ChainsStand(ch, size)
  PROVE  IdsBehind(ch, size, -1, 0) = IdsIn(ch, size)
<1>1. \A c \in 0..size - 1 : \A j \in 1..Len(ch[c]) :
         ch[c][j] \in EntriesOf(ch, size) /\ ch[c][j].id \in 1..MaxEntries
  <2>1. \A c \in 0..size - 1 : \A j \in 1..Len(ch[c]) : ch[c][j] \in EntriesOf(ch, size)
    BY ChainIsSeq
  <2>2. \A e \in EntriesOf(ch, size) : e.id \in 1..MaxEntries
    BY DEF EntriesOf, TableEntry
  <2> QED BY <2>1, <2>2
<1>2. ASSUME NEW n \in IdsBehind(ch, size, -1, 0) PROVE n \in IdsIn(ch, size)
  BY <1>1 DEF IdsBehind, IdsIn
<1>3. ASSUME NEW n \in IdsIn(ch, size) PROVE n \in IdsBehind(ch, size, -1, 0)
  <2>1. PICK e \in EntriesOf(ch, size) : n = e.id
    BY DEF IdsIn
  <2>2. PICK c \in 0..size - 1 : \E j \in 1..Len(ch[c]) : ch[c][j] = e
    BY DEF EntriesOf, StandsIn
  <2>3. PICK j \in 1..Len(ch[c]) : ch[c][j] = e
    BY <2>2
  <2>4. c > -1 /\ ch[c][j].id = n /\ n \in 1..MaxEntries
    BY <1>1, <2>1, <2>3
  <2> QED BY <2>4 DEF IdsBehind
<1> QED BY <1>2, <1>3

LEMMA InTheChain ==
  ASSUME NEW ch, NEW size, ChainsStand(ch, size), NEW b \in 0..size - 1, NEW i \in Nat, i < Len(ch[b])
  PROVE  LET n == ch[b][i + 1].id
         IN  /\ n \in IdsBehind(ch, size, b, i)
             /\ IdsBehind(ch, size, b, i + 1) = IdsBehind(ch, size, b, i) \ {n}
<1> DEFINE n == ch[b][i + 1].id
<1>1. i + 1 \in 1..Len(ch[b]) /\ InOnePlace(ch, size) /\ i + 1 > i
      /\ \A c \in 0..size - 1 : Len(ch[c]) \in Nat
  BY ChainIsSeq DEF ChainsStand
<1>2. n \in 1..MaxEntries
  <2>1. ch[b][i + 1] \in TableEntry
    <3> HIDE DEF TableEntry
    <3> QED BY <1>1, ChainIsSeq
  <2> QED BY <2>1 DEF TableEntry
<1>3. n \in IdsBehind(ch, size, b, i)
  BY <1>1, <1>2 DEF IdsBehind
<1> DEFINE Later(c, j, k) == c > b \/ (c = b /\ j > k)
<1>4. ASSUME NEW c \in 0..size - 1, NEW j \in 1..Len(ch[c])
      PROVE  Later(c, j, i + 1) <=> Later(c, j, i) /\ ch[c][j].id # n
  <2>1. ch[c][j].id = n <=> c = b /\ j = i + 1
    BY <1>1 DEF InOnePlace
  <2>2. j \in Nat /\ i \in Nat
    BY <1>1
  <2> HIDE DEF n
  <2> QED BY <2>1, <2>2
<1>5. IdsBehind(ch, size, b, i + 1) = IdsBehind(ch, size, b, i) \ {n}
  <2> HIDE DEF n
  <2>1. ASSUME NEW m \in IdsBehind(ch, size, b, i + 1) PROVE m \in IdsBehind(ch, size, b, i) \ {n}
    <3>1. PICK c \in 0..size - 1 : \E j \in 1..Len(ch[c]) : ch[c][j].id = m /\ Later(c, j, i + 1)
      BY DEF IdsBehind
    <3>2. PICK j \in 1..Len(ch[c]) : ch[c][j].id = m /\ Later(c, j, i + 1)
      BY <3>1
    <3>3. Later(c, j, i) /\ m # n
      BY <1>4, <3>2
    <3>4. m \in 1..MaxEntries
      BY DEF IdsBehind
    <3> QED BY <3>2, <3>3, <3>4 DEF IdsBehind
  <2>2. ASSUME NEW m \in IdsBehind(ch, size, b, i), m # n PROVE m \in IdsBehind(ch, size, b, i + 1)
    <3>1. PICK c \in 0..size - 1 : \E j \in 1..Len(ch[c]) : ch[c][j].id = m /\ Later(c, j, i)
      BY DEF IdsBehind
    <3>2. PICK j \in 1..Len(ch[c]) : ch[c][j].id = m /\ Later(c, j, i)
      BY <3>1
    <3>3. Later(c, j, i + 1)
      BY <1>4, <2>2, <3>2
    <3>4. m \in 1..MaxEntries
      BY DEF IdsBehind
    <3> QED BY <3>2, <3>3, <3>4 DEF IdsBehind
  <2> QED BY <2>1, <2>2
<1> QED BY <1>3, <1>5

\* Nothing is left of chain b, and the chains up to x are empty.
LEMMA InTheNextChain ==
  ASSUME NEW ch, NEW size, ChainsStand(ch, size), NEW b \in -1..size - 1, NEW i \in Nat,
         b >= 0 => i >= Len(ch[b]), NEW x \in 0..size - 1, x > b, ch[x] # <<>>,
         \A y \in 0..size - 1 : y > b /\ ch[y] # <<>> => x <= y
  PROVE  /\ ch[x][1].id \in IdsBehind(ch, size, b, i)
         /\ IdsBehind(ch, size, x, 1) = IdsBehind(ch, size, b, i) \ {ch[x][1].id}
<1> DEFINE n == ch[x][1].id
<1>1. /\ size \in Nat /\ \A c \in 0..size - 1 : Len(ch[c]) \in Nat /\ (ch[c] = <<>> <=> Len(ch[c]) = 0)
  <2>1. size \in Nat
    BY DEF ChainsStand
  <2>2. ASSUME NEW c \in 0..size - 1 PROVE Len(ch[c]) \in Nat /\ (ch[c] = <<>> <=> Len(ch[c]) = 0)
    <3>1. ch[c] \in Seq(TableEntry)
      BY ChainIsSeq
    <3> HIDE DEF TableEntry
    <3> QED BY <3>1, LenProperties, EmptySeq
  <2> QED BY <2>1, <2>2
<1>2. 1 \in 1..Len(ch[x]) /\ InOnePlace(ch, size)
  BY <1>1 DEF ChainsStand
<1>3. n \in 1..MaxEntries
  <2>1. ch[x][1] \in TableEntry
    <3> HIDE DEF TableEntry
    <3> QED BY <1>2, ChainIsSeq
  <2> QED BY <2>1 DEF TableEntry
<1>4. n \in IdsBehind(ch, size, b, i)
  BY <1>2, <1>3 DEF IdsBehind
<1> DEFINE Later(c, j, d, k) == c > d \/ (c = d /\ j > k)
<1>5. ASSUME NEW c \in 0..size - 1, NEW j \in 1..Len(ch[c])
      PROVE  Later(c, j, x, 1) <=> Later(c, j, b, i) /\ ch[c][j].id # n
  <2>1. ch[c][j].id = n <=> c = x /\ j = 1
    BY <1>2 DEF InOnePlace
  <2>2. j \in Nat /\ j >= 1 /\ ch[c] # <<>>
    BY <1>1
  <2>3. c = b => j <= i
    BY <1>1
  <2>4. c > b => x <= c
    BY <2>2
  <2> HIDE DEF n
  <2> QED BY <1>1, <2>1, <2>2, <2>3, <2>4
<1>6. IdsBehind(ch, size, x, 1) = IdsBehind(ch, size, b, i) \ {n}
  <2> HIDE DEF n
  <2>1. ASSUME NEW m \in IdsBehind(ch, size, x, 1) PROVE m \in IdsBehind(ch, size, b, i) \ {n}
    <3>1. PICK c \in 0..size - 1 : \E j \in 1..Len(ch[c]) : ch[c][j].id = m /\ Later(c, j, x, 1)
      BY DEF IdsBehind
    <3>2. PICK j \in 1..Len(ch[c]) : ch[c][j].id = m /\ Later(c, j, x, 1)
      BY <3>1
    <3>3. Later(c, j, b, i) /\ m # n
      BY <1>5, <3>2
    <3>4. m \in 1..MaxEntries
      BY DEF IdsBehind
    <3> QED BY <3>2, <3>3, <3>4 DEF IdsBehind
  <2>2. ASSUME NEW m \in IdsBehind(ch, size, b, i), m # n PROVE m \in IdsBehind(ch, size, x, 1)
    <3>1. PICK c \in 0..size - 1 : \E j \in 1..Len(ch[c]) : ch[c][j].id = m /\ Later(c, j, b, i)
      BY DEF IdsBehind
    <3>2. PICK j \in 1..Len(ch[c]) : ch[c][j].id = m /\ Later(c, j, b, i)
      BY <3>1
    <3>3. Later(c, j, x, 1)
      BY <1>5, <2>2, <3>2
    <3>4. m \in 1..MaxEntries
      BY DEF IdsBehind
    <3> QED BY <3>2, <3>3, <3>4 DEF IdsBehind
  <2> QED BY <2>1, <2>2
<1> QED BY <1>4, <1>6

LEMMA NothingBehind ==
  ASSUME NEW ch, NEW size, ChainsStand(ch, size), NEW b \in -1..size - 1, NEW i \in Nat,
         b >= 0 => i >= Len(ch[b]), \A y \in 0..size - 1 : y > b => ch[y] = <<>>
  PROVE  IdsBehind(ch, size, b, i) = {}
<1> SUFFICES ASSUME NEW m \in IdsBehind(ch, size, b, i) PROVE FALSE
  OBVIOUS
<1>1. PICK c \in 0..size - 1 : \E j \in 1..Len(ch[c]) : c > b \/ (c = b /\ j > i)
  BY DEF IdsBehind
<1>2. PICK j \in 1..Len(ch[c]) : c > b \/ (c = b /\ j > i)
  BY <1>1
<1>3. Len(ch[c]) \in Nat /\ (ch[c] = <<>> => Len(ch[c]) = 0)
  BY ChainIsSeq, EmptySeq
<1>4. CASE c > b
  BY <1>2, <1>3, <1>4
<1>5. CASE c = b
  BY <1>2, <1>3, <1>5
<1> QED BY <1>2, <1>4, <1>5

\* Where the entry with an identity is found.
LEMMA PlaceIs ==
  ASSUME NEW h, TableStands(h), NEW w, w.index \in 0..SizeOf(h) - 1,
         NEW i \in 1..Len(h.chains[w.index]), NEW n, n = h.chains[w.index][i].id
  PROVE  PlaceOf(h, w, n) = i
<1> DEFINE c == h.chains[w.index]
           found == {j \in 1..Len(c) : c[j].id = n}
<1>1. /\ ChainsStand(h.chains, SizeOf(h)) /\ InOnePlace(h.chains, SizeOf(h))
  BY DEF TableStands, ChainsStand
<1>2. Len(c) \in Nat
  BY <1>1, ChainIsSeq
<1>3. \A j \in 1..Len(c) : c[j].id = n => j = i
  BY <1>1 DEF InOnePlace
<1>4. found = {i}
  BY <1>3
<1>5. PlaceOf(h, w, n) = IF found # {} THEN Min(found) ELSE 0
  BY DEF PlaceOf, SelectInSeq
<1> HIDE DEF found
<1>6. Min({i}) = i
  <2>1. i \in Nat
    BY <1>2
  <2> QED BY <2>1 DEF Min
<1> QED BY <1>4, <1>5, <1>6

LEMMA BeyondIs ==
  ASSUME NEW h, TableStands(h), NEW w, NEW i, IsAt(h, w, i)
  PROVE  LET c == h.chains[w.index]
         IN  /\ c \in Seq(TableEntry) /\ Len(c) \in Nat /\ i \in 1..Len(c)
             /\ \A j \in 1..Len(c) : c[j] \in TableEntry
             /\ Beyond(h, w) = SubSeq(c, i + 1, Len(c))
             /\ Beyond(h, w) \in Seq(TableEntry) /\ Len(Beyond(h, w)) = Len(c) - i
             /\ \A k \in 1..Len(c) - i : Beyond(h, w)[k] = c[i + k]
             /\ w.index \in 0..SizeOf(h) - 1 /\ w.entry \in 1..MaxEntries
<1> DEFINE c == h.chains[w.index]
           m == i + 1
           r == SubSeq(c, m, Len(c))
<1>1. w.index \in 0..SizeOf(h) - 1 /\ i \in 1..Len(c) /\ w.entry = c[i].id
      /\ ChainsStand(h.chains, SizeOf(h))
  BY DEF IsAt, TableStands
<1>2. c \in Seq(TableEntry) /\ Len(c) \in Nat /\ \A j \in 1..Len(c) : c[j] \in TableEntry
  <2> HIDE DEF TableEntry
  <2> QED BY <1>1, ChainIsSeq
<1>3. w.entry \in 1..MaxEntries
  <2>1. c[i] \in TableEntry
    <3> HIDE DEF TableEntry, c
    <3> QED BY <1>1, <1>2
  <2> HIDE DEF c
  <2> QED BY <1>1, <2>1 DEF TableEntry
<1>4. Beyond(h, w) = r
  <2>1. PlaceOf(h, w, w.entry) = i
    BY <1>1, PlaceIs
  <2> QED BY <2>1 DEF Beyond
<1> HIDE DEF c, TableEntry
<1>5. m \in Int /\ m = i + 1 /\ Len(c) \in Int /\ i \in Nat /\ i <= Len(c)
      /\ \A k \in m..Len(c) : c[k] \in TableEntry
  BY <1>1, <1>2
<1> HIDE DEF m
<1>6. /\ r \in Seq(TableEntry)
      /\ Len(r) = (IF m <= Len(c) THEN Len(c) - m + 1 ELSE 0)
      /\ \A k \in 1..Len(c) - m + 1 : r[k] = c[m + k - 1]
  BY <1>5, SubSeqProperties
<1> HIDE DEF r
<1>7. Len(r) = Len(c) - i
  BY <1>5, <1>6
<1>8. ASSUME NEW k \in 1..Len(c) - i PROVE r[k] = c[i + k]
  <2>1. k \in 1..Len(c) - m + 1 /\ m + k - 1 = i + k
    BY <1>5
  <2> QED BY <1>6, <2>1
<1> QED BY <1>1, <1>2, <1>3, <1>4, <1>6, <1>7, <1>8 DEF c, r, m

LEMMA AheadAtIs ==
  ASSUME NEW h, TableStands(h), NEW w, w.initialized, NEW i, IsAt(h, w, i)
  PROVE  AheadOf(h, w) = IdsBehind(h.chains, SizeOf(h), w.index, i)
<1> DEFINE ch == h.chains
           c == ch[w.index]
           size == SizeOf(h)
           r == Beyond(h, w)
<1>1. /\ c \in Seq(TableEntry) /\ Len(c) \in Nat /\ i \in 1..Len(c)
      /\ \A j \in 1..Len(c) : c[j] \in TableEntry
      /\ r \in Seq(TableEntry) /\ Len(r) = Len(c) - i
      /\ \A k \in 1..Len(c) - i : r[k] = c[i + k]
      /\ w.index \in 0..size - 1 /\ w.entry \in 1..MaxEntries
  <2> HIDE DEF TableEntry
  <2> QED BY ONLY TableStands(h), IsAt(h, w, i), BeyondIs, SMTT(30)
<1>2. DOMAIN ch = 0..size - 1 /\ ChainsStand(ch, size) /\ size \in Nat
  BY StandingIs
<1>3. AheadOf(h, w) = IdsOf(r) \cup UNION {IdsOf(ch[b]) : b \in {x \in DOMAIN ch : x > w.index}}
  <2>1. w.entry # Null
    BY <1>1, HashTableAssumption
  <2> QED BY <2>1 DEF AheadOf
<1> HIDE DEF ch, c, size, r
<1>4. \A b \in 0..size - 1 : IdsOf(ch[b]) = {ch[b][j].id : j \in 1..Len(ch[b])}
  <2> SUFFICES ASSUME NEW b \in 0..size - 1 PROVE IdsOf(ch[b]) = {ch[b][j].id : j \in 1..Len(ch[b])}
    OBVIOUS
  <2>1. Range(ch[b]) = {ch[b][j] : j \in 1..Len(ch[b])}
    BY <1>2, ChainIsSeq DEF Range
  <2> QED BY <2>1 DEF IdsOf
<1>5. IdsOf(r) = {c[j].id : j \in i + 1..Len(c)}
  <2>1. DOMAIN r = 1..Len(r)
    <3> HIDE DEF TableEntry
    <3> QED BY <1>1, LenProperties
  <2>2. Range(r) = {r[k] : k \in 1..Len(r)}
    BY <2>1 DEF Range
  <2>3. IdsOf(r) = {r[k].id : k \in 1..Len(c) - i}
    BY <1>1, <2>2 DEF IdsOf
  <2> HIDE DEF TableEntry
  <2>4. ASSUME NEW k \in 1..Len(c) - i
        PROVE  i + k \in i + 1..Len(c) /\ r[k].id = c[i + k].id
    <3>1. r[k] = c[i + k]
      BY <1>1
    <3>2. i \in 1..Len(c) /\ Len(c) \in Nat
      BY <1>1
    <3>3. i + k \in i + 1..Len(c)
      BY ONLY <3>2, k \in 1..Len(c) - i
    <3> QED BY <3>1, <3>3
  <2>5. ASSUME NEW j \in i + 1..Len(c)
        PROVE  j - i \in 1..Len(c) - i /\ r[j - i].id = c[j].id
    <3>1. j - i \in 1..Len(c) - i /\ i + (j - i) = j
      BY <1>1
    <3> QED BY <1>1, <3>1
  <2> QED BY <2>3, <2>4, <2>5
<1>6. \A b \in 0..size - 1 : \A j \in 1..Len(ch[b]) : ch[b][j].id \in 1..MaxEntries
  <2>1. \A b \in 0..size - 1 : \A j \in 1..Len(ch[b]) : ch[b][j] \in TableEntry
    <3> HIDE DEF TableEntry
    <3> QED BY <1>2, ChainIsSeq
  <2> QED BY <2>1 DEF TableEntry
<1> HIDE DEF TableEntry
<1>7. ASSUME NEW n \in AheadOf(h, w) PROVE n \in IdsBehind(ch, size, w.index, i)
  <2>1. CASE n \in IdsOf(r)
    <3>1. PICK j \in i + 1..Len(c) : n = c[j].id
      BY <1>5, <2>1
    <3>2. j \in 1..Len(ch[w.index]) /\ j > i /\ ch[w.index][j].id = n
      BY <1>1, <3>1 DEF c
    <3> QED BY <1>1, <1>6, <3>2 DEF IdsBehind
  <2>2. CASE n \notin IdsOf(r)
    <3>1. PICK b \in 0..size - 1 : b > w.index /\ n \in IdsOf(ch[b])
      BY <1>2, <1>3, <1>7, <2>2
    <3>2. PICK j \in 1..Len(ch[b]) : n = ch[b][j].id
      BY <1>4, <3>1
    <3> QED BY <1>6, <3>1, <3>2 DEF IdsBehind
  <2> QED BY <2>1, <2>2
<1>8. ASSUME NEW n \in IdsBehind(ch, size, w.index, i) PROVE n \in AheadOf(h, w)
  <2>1. PICK b \in 0..size - 1 : \E j \in 1..Len(ch[b]) :
           ch[b][j].id = n /\ (b > w.index \/ (b = w.index /\ j > i))
    BY DEF IdsBehind
  <2>2. PICK j \in 1..Len(ch[b]) : ch[b][j].id = n /\ (b > w.index \/ (b = w.index /\ j > i))
    BY <2>1
  <2>3. CASE b > w.index
    <3>1. n \in IdsOf(ch[b])
      BY <1>4, <2>2
    <3> QED BY <1>2, <1>3, <2>3, <3>1
  <2>4. CASE b = w.index /\ j > i
    <3>1. j \in i + 1..Len(c) /\ c[j].id = n
      BY <1>1, <2>2, <2>4 DEF c
    <3>2. n \in IdsOf(r)
      BY <1>5, <3>1
    <3> QED BY <1>3, <3>2
  <2> QED BY <2>2, <2>3, <2>4
<1> QED BY <1>7, <1>8 DEF ch, size

\* What a step of the walk over the identities S promises.
WentTo(h, n, S) ==
    /\ WalkStands(h, n)
    /\ IF S = {} THEN n.entry = Null /\ AheadOf(h, n) = {}
                 ELSE n.entry \in S /\ AheadOf(h, n) = S \ {n.entry}

\* A walk that has come to the first entry of chain x.
LEMMA AtFirstOf ==
  ASSUME NEW h, TableStands(h), NEW x \in 0..SizeOf(h) - 1, h.chains[x] # <<>>, NEW n, n \in TableWalks,
         n.initialized, n.index = x, n.entry = h.chains[x][1].id, n.parent = Null
  PROVE  /\ WalkStands(h, n) /\ n.entry # Null
         /\ AheadOf(h, n) = IdsBehind(h.chains, SizeOf(h), x, 1)
<1>1. ChainsStand(h.chains, SizeOf(h)) /\ SizeOf(h) \in Nat
  BY StandingIs
<1>2. h.chains[x] \in Seq(TableEntry)
  <2> HIDE DEF TableEntry
  <2> QED BY <1>1, ChainIsSeq
<1>3. 1 \in 1..Len(h.chains[x])
  <2> HIDE DEF TableEntry
  <2>1. Len(h.chains[x]) \in Nat /\ Len(h.chains[x]) # 0
    BY <1>2, LenProperties, EmptySeq
  <2> QED BY <2>1
<1>4. IsAt(h, n, 1)
  BY <1>3 DEF IsAt
<1>5. n.entry \in 1..MaxEntries
  <2> HIDE DEF TableEntry
  <2> QED BY <1>4, BeyondIs
<1>6. n.entry # Null
  BY <1>5, HashTableAssumption
<1>7. AheadOf(h, n) = IdsBehind(h.chains, SizeOf(h), x, 1)
  BY ONLY <1>4, TableStands(h), n.initialized, n.index = x, AheadAtIs
<1>8. WalkStands(h, n)
  BY <1>1, <1>3, <1>4, <1>6 DEF WalkStands
<1> QED BY <1>6, <1>7, <1>8

LEMMA FirstEntryIs ==
  ASSUME NEW h, TableStands(h)
  PROVE  WentTo(h, FirstEntry(h), IdsWithin(h))
<1> DEFINE ch == h.chains
           size == SizeOf(h)
           full == {b \in DOMAIN ch : ch[b] # <<>>}
           x == CHOOSE y \in full : \A z \in full : y <= z
           n == FirstEntry(h)
<1>1. /\ ChainsStand(ch, size) /\ size \in Nat \ {0} /\ DOMAIN ch = 0..size - 1
      /\ LiveIds(h) = IdsWithin(h) /\ IdsWithin(h) = IdsIn(ch, size)
      /\ h.entryCount = Cardinality(IdsWithin(h)) /\ size = Primes[h.primeIndex]
  BY StandingIs DEF IdsWithin, SizeOf
<1>2. IdsIn(ch, size) = IdsBehind(ch, size, -1, 0)
  BY <1>1, BehindAll
<1>3. h.entryCount = 0 <=> IdsWithin(h) = {}
  <2>1. IsFiniteSet(IdsWithin(h))
    BY <1>1, IdsAreFinite
  <2> QED BY <1>1, <2>1, FS_EmptySet
<1>4. -1 \in -1..size - 1 /\ 0 \in Nat /\ ~(-1 >= 0) /\ \A y \in 0..size - 1 : y > -1
  BY <1>1
<1>5. CASE full = {}
  <2>1. \A y \in 0..size - 1 : ch[y] = <<>>
    BY <1>1, <1>5
  <2>2. IdsBehind(ch, size, -1, 0) = {}
    <3> HIDE DEF ch, size, full, x, n
    <3> QED BY <1>1, <1>4, <2>1, NothingBehind
  <2>3. h.entryCount = 0 /\ IdsWithin(h) = {}
    BY <1>1, <1>2, <1>3, <2>2
  <2>4. n = [entry |-> Null, parent |-> Null, index |-> size, initialized |-> FALSE]
    BY <1>1, <2>3 DEF FirstEntry
  <2> HIDE DEF n
  <2>5. n \in TableWalks /\ n.entry = Null /\ n.initialized = FALSE
    BY <1>1, <2>4 DEF TableWalks, Spots
  <2>6. AheadOf(h, n) = {}
    BY <1>1, <2>3, <2>5 DEF AheadOf
  <2>7. WalkStands(h, n)
    BY <2>5 DEF WalkStands
  <2> QED BY <2>3, <2>5, <2>6, <2>7 DEF WentTo, n
<1>6. CASE full # {}
  <2>1. x \in full /\ \A y \in full : x <= y
    <3>1. full \subseteq Nat
      BY <1>1
    <3> QED BY <1>6, <3>1, LeastOfNumbers
  <2>2. x \in 0..size - 1 /\ ch[x] # <<>> /\ \A y \in 0..size - 1 : y > -1 /\ ch[y] # <<>> => x <= y
    BY <1>1, <2>1
  <2> HIDE DEF x
  <2>3. ch[x][1].id \in IdsBehind(ch, size, -1, 0)
        /\ IdsBehind(ch, size, x, 1) = IdsBehind(ch, size, -1, 0) \ {ch[x][1].id}
    <3>1. x > -1
      BY <1>4, <2>2
    <3> HIDE DEF ch, size, full
    <3>2. /\ ChainsStand(ch, size) /\ -1 \in -1..size - 1 /\ 0 \in Nat
          /\ (-1 >= 0 => 0 >= Len(ch[-1])) /\ x \in 0..size - 1 /\ x > -1 /\ ch[x] # <<>>
          /\ \A y \in 0..size - 1 : y > -1 /\ ch[y] # <<>> => x <= y
      BY <1>1, <1>4, <2>2, <3>1
    <3> QED BY ONLY <3>2, InTheNextChain
  <2>4. h.entryCount # 0 /\ IdsWithin(h) # {}
    BY <1>1, <1>2, <1>3, <2>3
  <2>5. n = [entry |-> ch[x][1].id, parent |-> Null, index |-> x, initialized |-> TRUE]
    BY <1>6, <2>4 DEF FirstEntry, x
  <2> HIDE DEF n
  <2>6. n \in TableWalks /\ n.entry = ch[x][1].id /\ n.initialized = TRUE /\ n.index = x /\ n.parent = Null
    <3>1. ch[x][1].id \in 1..MaxEntries
      BY <2>3 DEF IdsBehind
    <3> QED BY <1>1, <2>2, <2>5, <3>1 DEF TableWalks, Spots
  <2>7. WalkStands(h, n) /\ n.entry # Null /\ AheadOf(h, n) = IdsBehind(ch, size, x, 1)
    BY <2>2, <2>6, AtFirstOf
  <2> QED BY <1>1, <1>2, <2>3, <2>4, <2>6, <2>7 DEF WentTo, n
<1> QED BY <1>5, <1>6

LaterChains(h, w) == {b \in DOMAIN h.chains : b > w.index /\ h.chains[b] # <<>>}
\* HashTableIterator_next from place i of a chain.
Goes(h, w, i, n) ==
    \/ /\ i < Len(h.chains[w.index])
       /\ n.index = w.index /\ n.entry = h.chains[w.index][i + 1].id /\ n.parent = w.entry
    \/ /\ i = Len(h.chains[w.index]) /\ LaterChains(h, w) = {}
       /\ n.index = SizeOf(h) /\ n.entry = Null /\ n.parent = Null
    \/ /\ i = Len(h.chains[w.index])
       /\ \E x \in LaterChains(h, w) :
             /\ \A y \in LaterChains(h, w) : x <= y
             /\ n.index = x /\ n.entry = h.chains[x][1].id /\ n.parent = Null

LEMMA AdvancedIs ==
  ASSUME NEW h, TableStands(h), NEW w \in TableWalks, w.initialized, NEW i, IsAt(h, w, i)
  PROVE  LET n == Advanced(h, w, Beyond(h, w))
         IN  n \in TableWalks /\ n.initialized /\ Goes(h, w, i, n)
<1> DEFINE c == h.chains[w.index]
           rest == Beyond(h, w)
           later == LaterChains(h, w)
           x == CHOOSE y \in later : \A z \in later : y <= z
           n == Advanced(h, w, rest)
<1>1. /\ c \in Seq(TableEntry) /\ Len(c) \in Nat /\ i \in 1..Len(c)
      /\ \A j \in 1..Len(c) : c[j] \in TableEntry
      /\ rest \in Seq(TableEntry) /\ Len(rest) = Len(c) - i
      /\ \A k \in 1..Len(c) - i : rest[k] = c[i + k]
      /\ w.index \in 0..SizeOf(h) - 1 /\ w.entry \in 1..MaxEntries
  <2> HIDE DEF TableEntry
  <2> QED BY ONLY TableStands(h), IsAt(h, w, i), BeyondIs, SMTT(30)
<1>2. /\ ChainsStand(h.chains, SizeOf(h)) /\ SizeOf(h) \in Nat /\ SizeOf(h) = Primes[h.primeIndex]
      /\ DOMAIN h.chains = 0..SizeOf(h) - 1
  BY StandingIs DEF SizeOf
<1>3. n = IF rest # <<>> THEN [w EXCEPT !.parent = w.entry, !.entry = Head(rest).id]
          ELSE IF later = {}
          THEN [w EXCEPT !.parent = Null, !.entry = Null, !.index = SizeOf(h)]
          ELSE [w EXCEPT !.parent = Null, !.entry = h.chains[x][1].id, !.index = x]
  BY <1>2 DEF Advanced, LaterChains
<1>4. \A b \in 0..SizeOf(h) - 1 : \A j \in 1..Len(h.chains[b]) : h.chains[b][j].id \in 1..MaxEntries
  <2>1. \A b \in 0..SizeOf(h) - 1 : \A j \in 1..Len(h.chains[b]) : h.chains[b][j] \in TableEntry
    <3> HIDE DEF TableEntry
    <3> QED BY <1>2, ChainIsSeq
  <2> QED BY <2>1 DEF TableEntry
<1>5. w.initialized = TRUE
  BY DEF TableWalks
<1> HIDE DEF c, rest, later, x, n, TableEntry
<1>6. CASE rest # <<>>
  <2>1. Len(rest) # 0
    BY <1>1, <1>6, EmptySeq
  <2>2. Head(rest) = rest[1]
    BY <1>1, <1>6, HeadTailProperties
  <2>3. 1 \in 1..Len(c) - i /\ i < Len(c) /\ i + 1 \in 1..Len(c)
    BY <1>1, <2>1
  <2>4. Head(rest).id = c[i + 1].id /\ c[i + 1].id \in 1..MaxEntries
    BY <1>1, <1>4, <2>2, <2>3 DEF c
  <2>5. n = [w EXCEPT !.parent = w.entry, !.entry = Head(rest).id]
    BY <1>3, <1>6
  <2>6. n \in TableWalks /\ n.initialized = TRUE /\ n.index = w.index /\ n.entry = c[i + 1].id
        /\ n.parent = w.entry
    BY ONLY <1>1, <1>5, <2>4, <2>5, w \in TableWalks DEF TableWalks, Spots
  <2>7. Goes(h, w, i, n)
    BY <2>3, <2>6 DEF Goes, c
  <2> QED BY <2>6, <2>7 DEF n, rest
<1>7. CASE rest = <<>> /\ later = {}
  <2>1. i = Len(c)
    <3>1. Len(rest) = 0
      BY <1>7, EmptySeq
    <3> QED BY <1>1, <3>1
  <2>2. n = [w EXCEPT !.parent = Null, !.entry = Null, !.index = SizeOf(h)]
    BY <1>3, <1>7
  <2>3. n \in TableWalks /\ n.initialized = TRUE /\ n.index = SizeOf(h) /\ n.entry = Null /\ n.parent = Null
    BY ONLY <1>2, <1>5, <2>2, w \in TableWalks DEF TableWalks, Spots
  <2>4. Goes(h, w, i, n)
    BY <1>7, <2>1, <2>3 DEF Goes, c, later
  <2> QED BY <2>3, <2>4 DEF n, rest
<1>8. CASE rest = <<>> /\ later # {}
  <2>1. i = Len(c)
    <3>1. Len(rest) = 0
      BY <1>8, EmptySeq
    <3> QED BY <1>1, <3>1
  <2>2. x \in later /\ \A y \in later : x <= y
    <3>1. later \subseteq Nat
      BY <1>2 DEF later, LaterChains
    <3>2. \E y \in later : \A z \in later : y <= z
      BY <1>8, <3>1, LeastOfNumbers
    <3> QED BY <3>2 DEF x
  <2>3. x \in 0..SizeOf(h) - 1 /\ h.chains[x] # <<>>
    BY <1>2, <2>2 DEF later, LaterChains
  <2>4. h.chains[x][1].id \in 1..MaxEntries
    <3>1. h.chains[x] \in Seq(TableEntry)
      BY <1>2, <2>3, ChainIsSeq
    <3>2. Len(h.chains[x]) \in Nat /\ Len(h.chains[x]) # 0
      BY <2>3, <3>1, LenProperties, EmptySeq
    <3>3. 1 \in 1..Len(h.chains[x])
      BY <3>2
    <3> QED BY <1>4, <2>3, <3>3
  <2>5. n = [w EXCEPT !.parent = Null, !.entry = h.chains[x][1].id, !.index = x]
    BY <1>3, <1>8
  <2>6. n \in TableWalks /\ n.initialized = TRUE /\ n.index = x /\ n.entry = h.chains[x][1].id
        /\ n.parent = Null
    <3> DEFINE id == h.chains[x][1].id
    <3>1. id \in 1..MaxEntries /\ x \in Nat /\ n = [w EXCEPT !.parent = Null, !.entry = id, !.index = x]
      BY <1>2, <2>3, <2>4, <2>5
    <3> HIDE DEF id
    <3>2. n \in TableWalks /\ n.initialized = TRUE /\ n.index = x /\ n.entry = id /\ n.parent = Null
      BY ONLY <1>5, <3>1, w \in TableWalks DEF TableWalks, Spots
    <3> QED BY <3>2 DEF id
  <2>7. Goes(h, w, i, n)
    BY <2>1, <2>2, <2>6 DEF Goes, c, later
  <2> QED BY <2>6, <2>7 DEF n, rest
<1> QED BY <1>6, <1>7, <1>8

LEMMA GoesOn ==
  ASSUME NEW h, TableStands(h), NEW w, NEW i, IsAt(h, w, i), NEW n \in TableWalks, n.initialized,
         Goes(h, w, i, n)
  PROVE  WentTo(h, n, IdsBehind(h.chains, SizeOf(h), w.index, i))
<1> DEFINE ch == h.chains
           size == SizeOf(h)
           c == ch[w.index]
           S == IdsBehind(ch, size, w.index, i)
<1>1. /\ Len(c) \in Nat /\ i \in 1..Len(c) /\ w.index \in 0..size - 1 /\ w.entry = c[i].id
      /\ ChainsStand(ch, size) /\ size \in Nat /\ DOMAIN ch = 0..size - 1 /\ w.index \in -1..size - 1
      /\ i \in Nat
  BY StandingIs, ChainIsSeq DEF IsAt
<1>2. Null \notin 1..MaxEntries /\ \A x \in S : x \in 1..MaxEntries
  BY HashTableAssumption DEF IdsBehind
<1>3. LaterChains(h, w) = {b \in 0..size - 1 : b > w.index /\ ch[b] # <<>>}
  BY <1>1 DEF LaterChains
<1> HIDE DEF ch, size, c, S
<1>4. CASE i < Len(c) /\ n.index = w.index /\ n.entry = c[i + 1].id /\ n.parent = w.entry
  <2>1. n.entry \in S /\ IdsBehind(ch, size, w.index, i + 1) = S \ {n.entry}
    BY ONLY <1>1, <1>4, InTheChain DEF S, c
  <2>2. i + 1 \in 1..Len(c) /\ i + 1 # 1 /\ (i + 1) - 1 = i
    BY <1>1, <1>4
  <2>3. IsAt(h, n, i + 1)
    BY <1>1, <1>4, <2>2 DEF IsAt, c, ch, size
  <2>4. AheadOf(h, n) = IdsBehind(ch, size, w.index, i + 1)
    <3>1. AheadOf(h, n) = IdsBehind(h.chains, SizeOf(h), n.index, i + 1)
      BY ONLY <2>3, TableStands(h), n.initialized, AheadAtIs
    <3> QED BY <1>4, <3>1 DEF ch, size
  <2>5. WalkStands(h, n)
    <3>1. n.index \in 0..SizeOf(h)
      BY <1>1, <1>4 DEF size
    <3>2. i + 1 \in 1..Len(h.chains[n.index])
      BY <1>4, <2>2 DEF c, ch
    <3> QED BY <2>3, <3>1, <3>2 DEF WalkStands
  <2> QED BY <2>1, <2>4, <2>5 DEF WentTo, S, ch, size
<1>5. CASE i = Len(c) /\ LaterChains(h, w) = {} /\ n.index = size /\ n.entry = Null /\ n.parent = Null
  <2>1. \A y \in 0..size - 1 : y > w.index => ch[y] = <<>>
    BY <1>3, <1>5
  <2>2. w.index >= 0 => i >= Len(ch[w.index])
    BY <1>1, <1>5 DEF c
  <2>3. S = {}
    BY ONLY <1>1, <2>1, <2>2, NothingBehind DEF S
  <2>4. AheadOf(h, n) = {}
    BY <1>5 DEF AheadOf
  <2>5. WalkStands(h, n)
    BY <1>1, <1>5 DEF WalkStands, size
  <2> QED BY <1>5, <2>3, <2>4, <2>5 DEF WentTo, S, ch, size
<1>6. ASSUME i = Len(c), NEW x \in LaterChains(h, w), \A y \in LaterChains(h, w) : x <= y,
             n.index = x, n.entry = ch[x][1].id, n.parent = Null
      PROVE  WentTo(h, n, S)
  <2>1. x \in 0..size - 1 /\ x > w.index /\ ch[x] # <<>>
        /\ \A y \in 0..size - 1 : y > w.index /\ ch[y] # <<>> => x <= y
    BY <1>3, <1>6
  <2>2. w.index >= 0 => i >= Len(ch[w.index])
    BY <1>1, <1>6 DEF c
  <2>3. n.entry \in S /\ IdsBehind(ch, size, x, 1) = S \ {n.entry}
    <3>1. ch[x][1].id \in S /\ IdsBehind(ch, size, x, 1) = S \ {ch[x][1].id}
      <4>1. /\ ChainsStand(ch, size) /\ w.index \in -1..size - 1 /\ i \in Nat
            /\ (w.index >= 0 => i >= Len(ch[w.index])) /\ x \in 0..size - 1 /\ x > w.index
            /\ ch[x] # <<>> /\ \A y \in 0..size - 1 : y > w.index /\ ch[y] # <<>> => x <= y
        BY <1>1, <2>1, <2>2
      <4> DEFINE at == w.index
      <4>2. /\ ChainsStand(ch, size) /\ at \in -1..size - 1 /\ i \in Nat
            /\ (at >= 0 => i >= Len(ch[at])) /\ x \in 0..size - 1 /\ x > at
            /\ ch[x] # <<>> /\ \A y \in 0..size - 1 : y > at /\ ch[y] # <<>> => x <= y
        BY <4>1
      <4> HIDE DEF at
      <4>3. /\ ch[x][1].id \in IdsBehind(ch, size, at, i)
            /\ IdsBehind(ch, size, x, 1) = IdsBehind(ch, size, at, i) \ {ch[x][1].id}
        BY ONLY <4>2, InTheNextChain
      <4> QED BY <4>3 DEF at, S
    <3> QED BY ONLY <1>6, <3>1
  <2>4. WalkStands(h, n) /\ AheadOf(h, n) = IdsBehind(ch, size, x, 1)
    BY ONLY TableStands(h), <1>6, <2>1, n \in TableWalks, n.initialized, AtFirstOf DEF ch, size
  <2> QED BY <2>3, <2>4 DEF WentTo
<1> QED BY <1>4, <1>5, <1>6 DEF Goes, ch, size, c, S

-----------------------------------------------------------------------------
(* Every call of the table is a call of the dictionary.                     *)

KeysGo ==
    /\ freed'.keys \cap LiveIds(ht') = {}
    /\ ht.keyDtor /\ ~HashTableIterator_remove => LiveIds(ht) \ LiveIds(ht') \subseteq freed'.keys
TableMoves == TableInv' /\ KeysGo /\ D!Following(Values)

Content(e) == [id |-> e.id, key |-> e.key, value |-> e.value]
ContentsOf(S) == {Content(e) : e \in S}

LEMMA ContentsAreOf ==
  /\ Contents = ContentsOf(Entries(ht)) /\ Contents' = ContentsOf(Entries(ht'))
  /\ D!Ids(Contents) = LiveIds(ht) /\ D!Ids(Contents') = LiveIds(ht')
<1>1. /\ Contents = ContentsOf(Entries(ht)) /\ Contents' = ContentsOf(Entries(ht'))
  BY DEF Contents, ContentsOf, Content
<1>2. ASSUME NEW S PROVE D!Ids(ContentsOf(S)) = {e.id : e \in S}
  <2>1. D!Ids(ContentsOf(S)) = {c.id : c \in ContentsOf(S)}
    BY DEF D!Ids
  <2>2. \A e : Content(e).id = e.id
    BY DEF Content
  <2>3. ASSUME NEW e \in S PROVE e.id \in {c.id : c \in ContentsOf(S)}
    BY <2>2 DEF ContentsOf
  <2>4. ASSUME NEW c \in ContentsOf(S) PROVE c.id \in {e.id : e \in S}
    BY <2>2 DEF ContentsOf
  <2> QED BY <2>1, <2>3, <2>4
<1> QED BY <1>1, <1>2 DEF LiveIds

LEMMA SameChains ==
  ASSUME NEW h, NEW g, g.chains = h.chains
  PROVE  /\ Entries(g) = Entries(h) /\ LiveIds(g) = LiveIds(h)
         /\ \A w : AheadOf(g, w) = AheadOf(h, w)
         /\ SizeOf(g) = SizeOf(h) => \A w : WalkStands(h, w) => WalkStands(g, w)
<1>1. Entries(g) = Entries(h)
  BY DEF Entries
<1>2. LiveIds(g) = LiveIds(h)
  BY <1>1 DEF LiveIds
<1>3. ASSUME NEW w PROVE AheadOf(g, w) = AheadOf(h, w)
  <2>1. Beyond(g, w) = Beyond(h, w)
    BY DEF Beyond, PlaceOf
  <2> QED BY <1>2, <2>1 DEF AheadOf
<1>4. ASSUME SizeOf(g) = SizeOf(h), NEW w, WalkStands(h, w) PROVE WalkStands(g, w)
  BY <1>4 DEF WalkStands, IsAt
<1> QED BY <1>1, <1>2, <1>3, <1>4

\* The table and its walk stay, and no key is destroyed.
LEMMA NothingMoved ==
  ASSUME TableInv, ht' = ht, it' = it, freed' = NothingFreed
  PROVE  /\ TableInv' /\ KeysGo /\ Contents' = Contents /\ Ahead' = Ahead
         /\ it'.entry = it.entry /\ ht'.valid = ht.valid
<1>1. TableInv' /\ Contents' = Contents
  BY DEF TableInv, Contents
<1>2. Ahead' = Ahead
  BY AheadIs
<1>3. KeysGo
  BY DEF KeysGo, NothingFreed
<1> QED BY <1>1, <1>2, <1>3

\* The walk is given up, and the table holds what it held or less or more.
LEMMA GivenUp ==
  ASSUME TableInv, ht'.valid, TableStands(ht'), it' = NoWalk
  PROVE  TableInv' /\ Ahead' = LiveIds(ht') /\ it'.entry = Null
<1>1. ht' \in Tables
  BY StandingIs
<1>2. WalkStands(ht', it') /\ it'.initialized = FALSE /\ it'.entry = Null
  BY NoTableIs DEF WalkStands
<1>3. TableInv'
  BY <1>1, <1>2 DEF TableInv
<1>4. Ahead' = LiveIds(ht')
  BY <1>2, AheadIs DEF AheadOf
<1> QED BY <1>2, <1>3, <1>4

LEMMA SetLoadFactorMoves ==
  ASSUME TableInv, NEW f \in LoadFactors, HashTable_setLoadFactor(f)
  PROVE  TableMoves
<1>1. ht.valid /\ ht' = [ht EXCEPT !.loadFactor = f] /\ answer' = NoAnswer /\ freed' = NothingFreed /\ it' = it
  BY DEF HashTable_setLoadFactor
<1>2. TableStands(ht) /\ WalkStands(ht, it) /\ ht \in Tables
  BY <1>1, InvIs
<1>3. f \in Nat
  BY HashTableAssumption
<1> HIDE DEF AnyChains
<1>4. /\ ht' \in Tables /\ ht'.valid = ht.valid /\ ht'.chains = ht.chains
      /\ ht'.primeIndex = ht.primeIndex /\ ht'.entryCount = ht.entryCount
  BY ONLY <1>1, <1>2, <1>3 DEF Tables
<1>5. SizeOf(ht') = SizeOf(ht) /\ TableStands(ht')
  BY <1>2, <1>4 DEF TableStands, SizeOf, IdsWithin
<1>6. /\ Entries(ht') = Entries(ht) /\ LiveIds(ht') = LiveIds(ht)
      /\ AheadOf(ht', it) = AheadOf(ht, it) /\ WalkStands(ht', it)
  BY <1>2, <1>4, <1>5, SameChains
<1>7. TableInv'
  BY <1>1, <1>4, <1>5, <1>6 DEF TableInv
<1>8. KeysGo
  BY <1>1, <1>6 DEF KeysGo, NothingFreed
<1>9. Contents' = Contents /\ Ahead' = Ahead /\ it'.entry = it.entry
  BY <1>1, <1>6, ContentsAreOf, AheadIs
<1>10. D!Renew
  BY <1>1, <1>9 DEF D!Renew, D!Silent, D!Answers, NoAnswer, About
<1>11. D!Following(Values)
  BY <1>1, <1>4, <1>10 DEF D!Following, NoAnswer, About
<1> QED BY <1>7, <1>8, <1>11 DEF TableMoves

LEMMA FirstMoves ==
  ASSUME TableInv, HashTableIterator_first
  PROVE  TableMoves
<1>1. ht.valid /\ it' = FirstEntry(ht) /\ answer' = NoAnswer /\ freed' = NothingFreed /\ ht' = ht
  BY DEF HashTableIterator_first
<1>2. TableStands(ht) /\ WalkStands(ht, it) /\ ht \in Tables
  BY <1>1, InvIs
<1>3. LiveIds(ht) = IdsWithin(ht)
  BY <1>2, StandingIs
<1>4. WentTo(ht, it', IdsWithin(ht))
  BY <1>1, <1>2, FirstEntryIs
<1>5. TableInv'
  BY <1>1, <1>2, <1>4 DEF TableInv, WentTo
<1>6. KeysGo
  BY <1>1 DEF KeysGo, NothingFreed
<1>7. Contents' = Contents /\ Ahead' = AheadOf(ht, it') /\ D!Ids(Contents) = IdsWithin(ht)
  BY <1>1, <1>3, ContentsAreOf, AheadIs
<1>8. D!Begin
  BY <1>1, <1>4, <1>7 DEF D!Begin, D!WalkTo, D!Silent, D!Answers, NoAnswer, About, WentTo
<1>9. D!Following(Values)
  BY <1>1, <1>8 DEF D!Following, NoAnswer, About
<1> QED BY <1>5, <1>6, <1>9 DEF TableMoves

LEMMA NextMoves ==
  ASSUME TableInv, HashTableIterator_next
  PROVE  TableMoves
<1>1. /\ ht.valid /\ answer' = About(Null, it'.entry # Null) /\ freed' = NothingFreed /\ ht' = ht
      /\ it' = IF ~it.initialized THEN FirstEntry(ht)
               ELSE IF it.entry = Null THEN it ELSE Advanced(ht, it, Beyond(ht, it))
  BY DEF HashTableIterator_next
<1>2. TableStands(ht) /\ WalkStands(ht, it) /\ ht \in Tables
  BY <1>1, InvIs
<1>3. LiveIds(ht) = IdsWithin(ht)
  BY <1>2, StandingIs
<1>4. WentTo(ht, it', AheadOf(ht, it))
  <2>1. CASE ~it.initialized
    <3>1. AheadOf(ht, it) = IdsWithin(ht)
      BY <1>3, <2>1 DEF AheadOf
    <3> QED BY <1>1, <1>2, <2>1, <3>1, FirstEntryIs
  <2>2. CASE it.initialized /\ it.entry = Null
    <3>1. AheadOf(ht, it) = {} /\ it' = it
      BY <1>1, <2>2 DEF AheadOf
    <3> QED BY <1>2, <2>2, <3>1 DEF WentTo
  <2>3. CASE it.initialized /\ it.entry # Null
    <3>1. PICK i \in 1..Len(ht.chains[it.index]) : IsAt(ht, it, i)
      BY <1>2, <2>3 DEF WalkStands
    <3>2. it' = Advanced(ht, it, Beyond(ht, it)) /\ it \in TableWalks /\ it.initialized
      BY <1>1, <1>2, <2>3 DEF WalkStands
    <3>3. it' \in TableWalks /\ it'.initialized /\ Goes(ht, it, i, it')
      BY <1>2, <3>1, <3>2, AdvancedIs
    <3>4. WentTo(ht, it', IdsBehind(ht.chains, SizeOf(ht), it.index, i))
      BY <1>2, <3>1, <3>3, GoesOn
    <3>5. AheadOf(ht, it) = IdsBehind(ht.chains, SizeOf(ht), it.index, i)
      BY <1>2, <3>1, <3>2, AheadAtIs
    <3> QED BY <3>4, <3>5
  <2> QED BY <2>1, <2>2, <2>3
<1>5. TableInv'
  BY <1>1, <1>2, <1>4 DEF TableInv, WentTo
<1>6. KeysGo
  BY <1>1 DEF KeysGo, NothingFreed
<1>7. Contents' = Contents /\ Ahead' = AheadOf(ht, it') /\ Ahead = AheadOf(ht, it)
  BY <1>1, ContentsAreOf, AheadIs
<1>8. D!Step
  BY <1>1, <1>4, <1>7 DEF D!Step, D!WalkTo, D!Answers, About, WentTo
<1>9. D!Following(Values)
  BY <1>1, <1>8 DEF D!Following, About
<1> QED BY <1>5, <1>6, <1>9 DEF TableMoves

\* Where a key is found, or that it is not there.
LEMMA PositionIs ==
  ASSUME TableStands(ht), NEW k \in Keys
  PROVE  LET at == IndexFor(SizeOf(ht), Hash[k])
         IN  /\ at \in 0..SizeOf(ht) - 1 /\ ChainOf(k) = ht.chains[at]
             /\ Position(k) \in 0..Len(ht.chains[at])
             /\ Position(k) = 0 => \A e \in EntriesIn(ht) : e.key # k
             /\ Position(k) # 0 => ht.chains[at][Position(k)].key = k
<1> DEFINE ch == ht.chains
           size == SizeOf(ht)
           at == IndexFor(size, Hash[k])
           found == {i \in 1..Len(ch[at]) : ch[at][i].hash = Hash[k] /\ ch[at][i].key = k}
<1>1. ChainsStand(ch, size) /\ size \in Nat \ {0}
  BY StandingIs
<1>2. at \in 0..size - 1
  <2>1. Hash[k] \in Nat
    BY HashTableAssumption
  <2> QED BY <1>1, <2>1, IndexIsAPlace
<1>3. ChainOf(k) = ch[at]
  BY DEF ChainOf, SizeOf
<1>4. Len(ch[at]) \in Nat
  BY <1>1, <1>2, ChainIsSeq
<1>5. Position(k) = IF found # {} THEN Min(found) ELSE 0
  BY <1>3 DEF Position, SelectInSeq
<1>6. CASE found # {}
  <2>1. found \subseteq Nat /\ found \subseteq 1..Len(ch[at])
    OBVIOUS
  <2>2. \E i \in found : \A j \in found : i <= j
    <3> HIDE DEF found
    <3> QED BY <1>6, <2>1, LeastOfNumbers
  <2>3. Min(found) \in found
    <3> HIDE DEF found
    <3> QED BY <2>2 DEF Min
  <2>4. Position(k) \in found
    BY <1>5, <1>6, <2>3
  <2> QED BY <1>2, <1>3, <1>4, <2>4
<1>7. CASE found = {}
  <2>1. Position(k) = 0
    BY <1>5, <1>7
  <2>2. ASSUME NEW e \in EntriesIn(ht), e.key = k PROVE FALSE
    <3>1. PICK b \in 0..size - 1 : \E i \in 1..Len(ch[b]) : ch[b][i] = e
      BY DEF EntriesIn, EntriesOf, StandsIn
    <3>2. PICK i \in 1..Len(ch[b]) : ch[b][i] = e
      BY <3>1
    <3>3. e.hash = Hash[k] /\ b = at
      <4>1. InPlace(ch, size)
        BY <1>1 DEF ChainsStand
      <4>2. ch[b][i].hash = Hash[ch[b][i].key] /\ b = IndexFor(size, ch[b][i].hash)
        BY <3>2, <4>1 DEF InPlace
      <4> QED BY <2>2, <3>2, <4>2
    <3>4. i \in found
      BY <2>2, <3>2, <3>3
    <3> QED BY <1>7, <3>4
  <2> QED BY <1>2, <1>3, <1>4, <2>1, <2>2
<1> QED BY <1>6, <1>7

\* The entries of the dictionary that a key leads to.
LEMMA WithIs ==
  ASSUME TableStands(ht), NEW k \in Keys
  PROVE  LET at == IndexFor(SizeOf(ht), Hash[k])
             e == ht.chains[at][Position(k)]
         IN  /\ Position(k) = 0 <=> D!With(k) = {}
             /\ Position(k) # 0 => /\ at \in 0..SizeOf(ht) - 1 /\ Position(k) \in 1..Len(ht.chains[at])
                                   /\ e \in EntriesIn(ht) /\ e.key = k /\ Content(e) \in D!With(k)
<1> DEFINE at == IndexFor(SizeOf(ht), Hash[k])
           e == ht.chains[at][Position(k)]
<1>1. /\ at \in 0..SizeOf(ht) - 1 /\ Position(k) \in 0..Len(ht.chains[at])
      /\ Position(k) = 0 => \A d \in EntriesIn(ht) : d.key # k
      /\ Position(k) # 0 => e.key = k
  BY PositionIs
<1>2. Entries(ht) = EntriesIn(ht) /\ ChainsStand(ht.chains, SizeOf(ht))
  BY StandingIs
<1>3. Contents = ContentsOf(EntriesIn(ht))
  BY <1>2, ContentsAreOf
<1>4. D!With(k) = {c \in ContentsOf(EntriesIn(ht)) : c.key = k}
  BY <1>3 DEF D!With
<1>5. Position(k) # 0 => e \in EntriesIn(ht) /\ Position(k) \in 1..Len(ht.chains[at])
  <2> SUFFICES ASSUME Position(k) # 0 PROVE e \in EntriesIn(ht) /\ Position(k) \in 1..Len(ht.chains[at])
    OBVIOUS
  <2>1. Len(ht.chains[at]) \in Nat
    BY <1>1, <1>2, ChainIsSeq
  <2>2. Position(k) \in 1..Len(ht.chains[at])
    BY <1>1, <2>1
  <2> QED BY <1>1, <1>2, <2>2, ChainIsSeq DEF EntriesIn
<1> HIDE DEF e, at
<1>6. \A d : Content(d).key = d.key
  BY DEF Content
<1>7. Position(k) = 0 => D!With(k) = {}
  <2> SUFFICES ASSUME Position(k) = 0, NEW c \in D!With(k) PROVE FALSE
    OBVIOUS
  <2>1. PICK d \in EntriesIn(ht) : c = Content(d)
    BY <1>4 DEF ContentsOf
  <2> QED BY <1>1, <1>4, <1>6, <2>1
<1>8. Position(k) # 0 => Content(e) \in D!With(k)
  BY <1>1, <1>4, <1>5, <1>6 DEF ContentsOf
<1> QED BY <1>1, <1>5, <1>7, <1>8 DEF e, at

LEMMA SearchMoves ==
  ASSUME TableInv, NEW k \in Keys, HashTable_search(k)
  PROVE  TableMoves
<1> DEFINE e == ht.chains[IndexFor(SizeOf(ht), Hash[k])][Position(k)]
<1>1. /\ ht.valid /\ freed' = NothingFreed /\ ht' = ht /\ it' = it
      /\ answer' = About(k, IF Position(k) = 0 THEN Null ELSE ChainOf(k)[Position(k)].value)
  BY DEF HashTable_search
<1>2. TableStands(ht)
  BY <1>1, InvIs
<1>3. /\ Position(k) = 0 <=> D!With(k) = {}
      /\ Position(k) # 0 => Content(e) \in D!With(k)
      /\ ChainOf(k)[Position(k)] = e
  BY <1>2, WithIs, PositionIs
<1>4. /\ TableInv' /\ KeysGo /\ Contents' = Contents /\ Ahead' = Ahead
      /\ it'.entry = it.entry /\ ht'.valid = ht.valid
  BY <1>1, NothingMoved
<1>5. Content(e).value = e.value
  BY DEF Content
<1> HIDE DEF e
<1>6. D!Find(k)
  <2>1. CASE Position(k) = 0
    <3>1. answer' = [key |-> k, value |-> Null] /\ D!With(k) = {}
      BY <1>1, <1>3, <2>1 DEF About
    <3> QED BY <1>4, <3>1 DEF D!Find, D!Answers
  <2>2. CASE Position(k) # 0
    <3>1. answer' = [key |-> k, value |-> Content(e).value] /\ D!With(k) # {}
      BY <1>1, <1>3, <1>5, <2>2 DEF About
    <3>2. \E c \in D!With(k) : D!Answers(k, c.value)
      BY <1>3, <2>2, <3>1 DEF D!Answers
    <3> QED BY <1>4, <3>1, <3>2 DEF D!Find
  <2> QED BY <2>1, <2>2
<1>7. answer'.key = k /\ k # Null
  BY <1>1, HashTableAssumption DEF About
<1>8. D!Following(Values)
  BY <1>1, <1>4, <1>6, <1>7 DEF D!Following, D!About
<1> QED BY <1>4, <1>8 DEF TableMoves

LEMMA LoadLimitIs ==
  ASSUME NEW size \in Nat, NEW factor \in Nat
  PROVE  LoadLimit(size, factor) \in Nat
<1> DEFINE n == size * factor
<1>1. n \in Nat
  OBVIOUS
<1> HIDE DEF n
<1>2. n \div 100 \in Nat
  BY <1>1
<1> QED BY <1>2 DEF LoadLimit, n

LEMMA SizesAre ==
  ASSUME NEW i \in 1..Len(Primes)
  PROVE  Primes[i] \in Nat \ {0} /\ i \in Nat
<1>1. Primes[i] \in Nat \ {0}
  BY HashTableAssumption
<1>2. i \in Nat
  OBVIOUS
<1> QED BY <1>1, <1>2

LEMMA GrownIs ==
  ASSUME NEW h, TableStands(h), NEW noTable
  PROVE  /\ TableStands(Grown(h, noTable)) /\ Grown(h, noTable).valid = h.valid
         /\ EntriesIn(Grown(h, noTable)) = EntriesIn(h) /\ Grown(h, noTable).entryCount = h.entryCount
<1>1. CASE h.entryCount + 1 > h.loadLimit /\ h.primeIndex < Len(Primes) /\ ~noTable
  <2> DEFINE i == h.primeIndex + 1
             size == Primes[i]
             ch == Rehashed(h, size)
             limit == LoadLimit(size, h.loadFactor)
             g == Grown(h, noTable)
  <2>1. g = [h EXCEPT !.chains = ch, !.primeIndex = i, !.loadLimit = limit]
    BY <1>1 DEF Grown, HashTable_expand
  <2>2. h \in Tables /\ h.primeIndex \in 1..Len(Primes) /\ h.loadFactor \in Nat
        /\ ChainsStand(h.chains, SizeOf(h)) /\ h.entryCount = Cardinality(IdsWithin(h))
    BY DEF TableStands, Tables
  <2>3. i \in 1..Len(Primes) /\ i \in Nat
    <3>1. Len(Primes) \in Int
      BY <1>1, <2>2
    <3> QED BY <1>1, <2>2
  <2>4. size \in Nat \ {0}
    BY <2>3, SizesAre
  <2>5. limit \in Nat
    BY <2>2, <2>4, LoadLimitIs
  <2> HIDE DEF i, size, ch, limit, g, AnyChains
  <2>6. ChainsStand(ch, size) /\ EntriesOf(ch, size) = EntriesIn(h)
    BY <2>2, <2>4, RehashedIs DEF ch, EntriesIn, SizeOf
  <2>7. ch \in AnyChains
    BY <2>6, ChainsAreAny
  <2>8. /\ g \in Tables /\ g.valid = h.valid /\ g.chains = ch /\ g.entryCount = h.entryCount
        /\ g.primeIndex = i
    BY ONLY <2>1, <2>2, <2>3, <2>5, <2>7 DEF Tables
  <2>9. SizeOf(g) = size
    BY <2>8 DEF SizeOf, size
  <2>10. EntriesIn(g) = EntriesIn(h)
    BY <2>6, <2>8, <2>9 DEF EntriesIn
  <2>11. IdsWithin(g) = IdsWithin(h)
    BY <2>10 DEF IdsWithin, IdsIn, EntriesIn
  <2>12. TableStands(g)
    BY <2>2, <2>3, <2>6, <2>8, <2>9, <2>11 DEF TableStands
  <2> QED BY <2>8, <2>10, <2>12 DEF g
<1>2. CASE ~(h.entryCount + 1 > h.loadLimit /\ h.primeIndex < Len(Primes) /\ ~noTable)
  <2>1. Grown(h, noTable) = h
    BY <1>2 DEF Grown
  <2> QED BY <2>1
<1> QED BY <1>1, <1>2

LEMMA TableInsertMoves ==
  ASSUME TableInv, NEW k \in Keys, NEW v \in Values, NEW noTable \in BOOLEAN, NEW noEntry \in BOOLEAN,
         HashTable_insert(k, v, noTable, noEntry)
  PROVE  TableMoves
<1> DEFINE h == Grown(ht, noTable)
           e == [id |-> FreeId, key |-> k, value |-> v, hash |-> Hash[k]]
<1>1. /\ ht.valid /\ ht.entryCount < MaxEntries /\ answer' = About(k, ~noEntry)
      /\ it' = NoWalk /\ freed' = NothingFreed
      /\ ht' = IF noEntry THEN h ELSE Linked(h, e)
  BY DEF HashTable_insert
<1>2. TableStands(ht)
  BY <1>1, InvIs
<1>3. /\ TableStands(h) /\ h.valid = ht.valid /\ EntriesIn(h) = EntriesIn(ht)
      /\ h.entryCount = ht.entryCount
  BY <1>2, GrownIs
<1>4. /\ Entries(ht) = EntriesIn(ht) /\ LiveIds(ht) = IdsWithin(ht)
      /\ ht.entryCount = Cardinality(IdsWithin(ht))
  BY <1>2, StandingIs
<1>5. IdsWithin(h) = IdsWithin(ht)
  BY <1>3 DEF IdsWithin, IdsIn, EntriesIn
<1>6. answer'.key = k /\ k # Null /\ answer' = [key |-> k, value |-> ~noEntry]
  BY <1>1, HashTableAssumption DEF About
<1> HIDE DEF h
<1>7. CASE noEntry
  <2>1. ht' = h
    BY <1>1, <1>7
  <2>2. TableInv' /\ Ahead' = LiveIds(ht') /\ it'.entry = Null
    BY <1>1, <1>3, <2>1, GivenUp
  <2>3. Entries(ht') = Entries(ht) /\ LiveIds(ht') = LiveIds(ht)
    BY <1>3, <1>4, <1>5, <2>1, StandingIs
  <2>4. KeysGo
    BY <1>1, <2>3 DEF KeysGo, NothingFreed
  <2>5. Contents' = Contents /\ D!Ids(Contents) = LiveIds(ht')
    BY <2>3, ContentsAreOf
  <2>6. D!AddFails(k)
    BY <1>6, <1>7, <2>2, <2>5 DEF D!AddFails, D!Restart, D!Answers
  <2>7. D!Following(Values)
    BY <1>1, <1>3, <1>6, <2>1, <2>6 DEF D!Following, D!About
  <2> QED BY <2>2, <2>4, <2>7 DEF TableMoves
<1>8. CASE ~noEntry
  <2> DEFINE n == h.entryCount + 1
             ch == PutFirst(h.chains, SizeOf(h), e)
  <2>1. ht' = [h EXCEPT !.entryCount = n, !.chains = ch]
    BY <1>1, <1>8 DEF Linked, SizeOf
  <2>2. FreeId \in 1..MaxEntries /\ FreeId \notin LiveIds(ht)
    <3>1. IdsWithin(ht) \subseteq 1..MaxEntries
      BY <1>2, StandingIs
    <3>2. IdsWithin(ht) # 1..MaxEntries
      <4>1. ChainsStand(ht.chains, SizeOf(ht))
        BY <1>2, StandingIs
      <4>2. IdsIn(ht.chains, SizeOf(ht)) = 1..MaxEntries =>
              Cardinality(IdsIn(ht.chains, SizeOf(ht))) = MaxEntries
        BY <4>1, IdsAreFinite
      <4>3. ht.entryCount \in 0..MaxEntries /\ MaxEntries \in Nat
        BY <1>2, StandingIs, HashTableAssumption
      <4>4. ht.entryCount # MaxEntries
        BY <1>1, <4>3
      <4> QED BY <1>4, <4>2, <4>4 DEF IdsWithin
    <3>3. \E i \in 1..MaxEntries : i \notin LiveIds(ht)
      BY <1>4, <3>1, <3>2
    <3> QED BY <3>3 DEF FreeId
  <2>3. e \in TableEntry /\ e.hash = Hash[e.key] /\ e.id = FreeId /\ e.key = k /\ e.value = v
    <3>1. Hash[k] \in Nat
      BY HashTableAssumption
    <3> QED BY <2>2, <3>1 DEF TableEntry
  <2> HIDE DEF e, ch, n, TableEntry
  <2>4. ChainsStand(h.chains, SizeOf(h)) /\ h.entryCount = Cardinality(IdsWithin(h))
    BY <1>3, StandingIs
  <2>5. e.id \notin IdsIn(h.chains, SizeOf(h))
    BY <1>4, <1>5, <2>2, <2>3 DEF IdsWithin
  <2>6. ChainsStand(ch, SizeOf(h)) /\ EntriesOf(ch, SizeOf(h)) = EntriesIn(h) \cup {e}
    BY ONLY <2>3, <2>4, <2>5, PutFirstIs DEF ch, EntriesIn
  <2>7. IdsIn(ch, SizeOf(h)) = IdsWithin(h) \cup {e.id}
    BY <2>6 DEF IdsIn, IdsWithin, EntriesIn
  <2>8. n = Cardinality(IdsIn(ch, SizeOf(h)))
    <3>1. IsFiniteSet(IdsWithin(h))
      BY <2>4, IdsAreFinite DEF IdsWithin
    <3>2. e.id \notin IdsWithin(h)
      BY <2>5 DEF IdsWithin
    <3>3. Cardinality(IdsWithin(h) \cup {e.id}) = Cardinality(IdsWithin(h)) + 1
      BY ONLY <3>1, <3>2, FS_AddElement
    <3> QED BY <2>4, <2>7, <3>3 DEF n
  <2>9. TableStands(ht') /\ ht'.valid = h.valid /\ ht'.chains = ch /\ SizeOf(ht') = SizeOf(h)
    <3>1. IsRechained(h, ch, n, ht')
      BY <2>1 DEF IsRechained
    <3> QED BY ONLY <1>3, <2>6, <2>8, <3>1, OtherChains
  <2>10. TableInv' /\ Ahead' = LiveIds(ht') /\ it'.entry = Null
    BY <1>1, <1>3, <2>9, GivenUp
  <2>11. Entries(ht') = Entries(ht) \cup {e} /\ LiveIds(ht') = LiveIds(ht) \cup {e.id}
    <3>1. Entries(ht') = EntriesIn(ht') /\ LiveIds(ht') = IdsWithin(ht')
      BY <2>9, StandingIs
    <3> QED BY <1>3, <1>4, <1>5, <2>6, <2>7, <2>9, <3>1 DEF EntriesIn, IdsWithin
  <2>12. KeysGo
    BY <1>1, <2>11 DEF KeysGo, NothingFreed
  <2>13. Contents' = Contents \cup {Content(e)}
    <3>1. Contents' = ContentsOf(Entries(ht) \cup {e}) /\ Contents = ContentsOf(Entries(ht))
      BY <2>11, ContentsAreOf
    <3> QED BY <3>1 DEF ContentsOf
  <2>14. /\ Content(e) \in Contents' /\ Content(e).id \notin D!Ids(Contents) /\ Content(e).key = k
         /\ D!Ids(Contents') = LiveIds(ht')
    BY <2>2, <2>3, <2>13, ContentsAreOf DEF Content
  <2>15. D!Add
    <3>1. answer' = [key |-> Content(e).key, value |-> TRUE]
      BY <1>6, <1>8, <2>14
    <3> QED BY <2>10, <2>13, <2>14, <3>1 DEF D!Add, D!Restart, D!Answers
  <2>16. D!Following(Values)
    BY <1>1, <1>3, <1>6, <2>9, <2>15 DEF D!Following, D!About
  <2> QED BY <2>10, <2>12, <2>16 DEF TableMoves
<1> QED BY <1>7, <1>8

LEMMA ContentsWithout ==
  ASSUME NEW h, TableStands(h), NEW e \in EntriesIn(h)
  PROVE  /\ ContentsOf(EntriesIn(h) \ {e}) = ContentsOf(EntriesIn(h)) \ {Content(e)}
         /\ {d.id : d \in EntriesIn(h) \ {e}} = IdsWithin(h) \ {e.id}
         /\ ContentsOf(EntriesIn(h) \ {e}) = {c \in ContentsOf(EntriesIn(h)) : c.id # e.id}
<1>1. ChainsStand(h.chains, SizeOf(h))
  BY StandingIs
<1>2. \A d \in EntriesIn(h) : d.id = e.id => d = e
  BY <1>1, EntryIsAlone DEF EntriesIn
<1>3. \A d : Content(d).id = d.id
  BY DEF Content
<1>4. ASSUME NEW d \in EntriesIn(h) PROVE Content(d) = Content(e) <=> d = e
  BY <1>2, <1>3
<1>5. ContentsOf(EntriesIn(h) \ {e}) = ContentsOf(EntriesIn(h)) \ {Content(e)}
  BY <1>4 DEF ContentsOf
<1>6. {d.id : d \in EntriesIn(h) \ {e}} = IdsWithin(h) \ {e.id}
  BY <1>2 DEF IdsWithin, IdsIn, EntriesIn
<1>7. ContentsOf(EntriesIn(h) \ {e}) = {c \in ContentsOf(EntriesIn(h)) : c.id # e.id}
  BY <1>2, <1>3 DEF ContentsOf
<1> QED BY <1>5, <1>6, <1>7

Omits(ch, chains, at, i) == ch = [chains EXCEPT ![at] = Omitting(chains[at], i)]
LostEntry(h, g, ch, e) ==
    /\ TableStands(g) /\ g.valid = h.valid /\ g.chains = ch /\ SizeOf(g) = SizeOf(h)
    /\ g.primeIndex = h.primeIndex
    /\ e \in EntriesIn(h) /\ LiveIds(g) = LiveIds(h) \ {e.id} /\ e.id \in LiveIds(h)
    /\ ContentsOf(Entries(g)) = ContentsOf(Entries(h)) \ {Content(e)}
    /\ ContentsOf(Entries(g)) = {c \in ContentsOf(Entries(h)) : c.id # e.id}
\* What is left of a table when the entry at place i of chain at is gone.
LEMMA LeftOver ==
  ASSUME NEW h, TableStands(h), NEW at \in 0..SizeOf(h) - 1, NEW i \in 1..Len(h.chains[at]),
         NEW ch, Omits(ch, h.chains, at, i),
         NEW n, NEW g, IsRechained(h, ch, n, g), n = h.entryCount - 1,
         NEW e, e = h.chains[at][i]
  PROVE  LostEntry(h, g, ch, e)
<1>1. /\ ChainsStand(h.chains, SizeOf(h)) /\ Entries(h) = EntriesIn(h) /\ LiveIds(h) = IdsWithin(h)
      /\ h.entryCount = Cardinality(IdsWithin(h))
  BY StandingIs
<1>2. e \in EntriesIn(h)
  <2>1. h.chains[at][i] \in EntriesOf(h.chains, SizeOf(h))
    BY ONLY <1>1, at \in 0..SizeOf(h) - 1, i \in 1..Len(h.chains[at]), ChainIsSeq
  <2> QED BY <2>1 DEF EntriesIn
<1>3. ChainsStand(ch, SizeOf(h)) /\ EntriesOf(ch, SizeOf(h)) = EntriesIn(h) \ {e}
  <2>1. /\ ChainsStand(ch, SizeOf(h))
        /\ EntriesOf(ch, SizeOf(h)) = EntriesOf(h.chains, SizeOf(h)) \ {h.chains[at][i]}
    BY <1>1, OmittedIs DEF Omits
  <2> QED BY <2>1 DEF EntriesIn
<1>4. /\ ContentsOf(EntriesIn(h) \ {e}) = ContentsOf(EntriesIn(h)) \ {Content(e)}
      /\ {d.id : d \in EntriesIn(h) \ {e}} = IdsWithin(h) \ {e.id}
      /\ ContentsOf(EntriesIn(h) \ {e}) = {c \in ContentsOf(EntriesIn(h)) : c.id # e.id}
  BY ONLY <1>2, TableStands(h), ContentsWithout
<1>5. IdsIn(ch, SizeOf(h)) = IdsWithin(h) \ {e.id} /\ e.id \in IdsWithin(h)
  <2>1. IdsIn(ch, SizeOf(h)) = {d.id : d \in EntriesIn(h) \ {e}}
    BY ONLY <1>3 DEF IdsIn
  <2>2. e.id \in IdsWithin(h)
    BY <1>2 DEF IdsWithin, IdsIn, EntriesIn
  <2> QED BY ONLY <1>4, <2>1, <2>2
<1>6. n = Cardinality(IdsIn(ch, SizeOf(h)))
  <2>1. IsFiniteSet(IdsWithin(h))
    BY <1>1, IdsAreFinite DEF IdsWithin
  <2>2. Cardinality(IdsWithin(h) \ {e.id}) = Cardinality(IdsWithin(h)) - 1
    BY ONLY <1>5, <2>1, FS_RemoveElement
  <2> QED BY ONLY <1>1, <1>5, <2>2, n = h.entryCount - 1
<1>7. /\ TableStands(g) /\ g.valid = h.valid /\ g.chains = ch /\ SizeOf(g) = SizeOf(h)
      /\ g.primeIndex = h.primeIndex
  BY ONLY TableStands(h), IsRechained(h, ch, n, g), <1>3, <1>6, OtherChains
<1>8. Entries(g) = EntriesIn(h) \ {e} /\ LiveIds(g) = LiveIds(h) \ {e.id}
  <2>1. Entries(g) = EntriesIn(g) /\ LiveIds(g) = IdsWithin(g)
    BY ONLY <1>7, StandingIs
  <2>2. EntriesIn(g) = EntriesIn(h) \ {e} /\ IdsWithin(g) = IdsWithin(h) \ {e.id}
    BY ONLY <1>3, <1>5, <1>7 DEF EntriesIn, IdsWithin
  <2> QED BY ONLY <1>1, <2>1, <2>2
<1> QED BY ONLY <1>1, <1>2, <1>4, <1>5, <1>7, <1>8 DEF LostEntry

LEMMA TableRemoveMoves ==
  ASSUME TableInv, NEW k \in Keys, NEW fetch \in BOOLEAN, HashTable_remove(k, fetch)
  PROVE  TableMoves
<1> DEFINE at == IndexFor(SizeOf(ht), Hash[k])
           p == Position(k)
           e == ht.chains[at][p]
<1>1. ht.valid /\ it' = NoWalk
  BY DEF HashTable_remove
<1>2. TableStands(ht)
  BY <1>1, InvIs
<1>3. Contents = ContentsOf(Entries(ht)) /\ Contents' = ContentsOf(Entries(ht'))
      /\ D!Ids(Contents') = LiveIds(ht')
  BY ContentsAreOf
<1>4. k # Null
  BY HashTableAssumption
<1>5. /\ p = 0 <=> D!With(k) = {}
      /\ p # 0 => /\ at \in 0..SizeOf(ht) - 1 /\ p \in 1..Len(ht.chains[at])
                  /\ Content(e) \in D!With(k)
      /\ ChainOf(k) = ht.chains[at]
  BY <1>2, WithIs, PositionIs
<1>6. CASE p = 0
  <2>1. answer' = About(k, Null) /\ freed' = NothingFreed /\ ht' = ht
    BY <1>6 DEF HashTable_remove
  <2>2. TableInv' /\ Ahead' = LiveIds(ht') /\ it'.entry = Null
    BY <1>1, <1>2, <2>1, GivenUp
  <2>3. KeysGo
    BY <2>1 DEF KeysGo, NothingFreed
  <2>4. D!TakeOut(k, TRUE) /\ TRUE \in BOOLEAN
    <3>1. Contents' = Contents /\ D!Ids(Contents) = LiveIds(ht')
      BY <1>3, <2>1
    <3>2. D!With(k) = {} /\ answer' = [key |-> k, value |-> Null]
      BY <1>5, <1>6, <2>1 DEF About
    <3> QED BY <2>2, <3>1, <3>2 DEF D!TakeOut, D!Restart, D!Answers
  <2>5. \E d \in BOOLEAN : D!TakeOut(k, d)
    BY <2>4
  <2>6. D!Following(Values)
    BY <1>1, <1>4, <2>1, <2>5 DEF D!Following, D!About, About
  <2> QED BY <2>2, <2>3, <2>6 DEF TableMoves
<1>7. CASE p # 0
  <2> DEFINE ch == [ht.chains EXCEPT ![at] = Omitting(ht.chains[at], p)]
             n == ht.entryCount - 1
             destroys == ht.valueDtor /\ ~fetch
  <2>1. /\ ht' = Unlinked(k) /\ freed' = Destroyed({e.id}, ~fetch)
        /\ answer' = About(k, IF destroys THEN Null ELSE e.value)
    BY <1>5, <1>7 DEF HashTable_remove
  <2>2. at \in 0..SizeOf(ht) - 1 /\ p \in 1..Len(ht.chains[at]) /\ Content(e) \in D!With(k)
    BY <1>5, <1>7
  <2>3. RemoveAt(ChainOf(k), p) = Omitting(ht.chains[at], p)
    <3>1. ht.chains[at] \in Seq(TableEntry)
      BY <1>2, <2>2, StandingIs, ChainIsSeq
    <3> HIDE DEF TableEntry, at, p
    <3>2. SubSeq(ht.chains[at], 1, p - 1) \o SubSeq(ht.chains[at], p + 1, Len(ht.chains[at]))
            = Omitting(ht.chains[at], p)
      BY <2>2, <3>1, RemovedAt
    <3> QED BY <1>5, <3>2 DEF RemoveAt
  <2>4. ht' = [ht EXCEPT !.entryCount = n, !.chains = ch]
    <3> HIDE DEF at, p
    <3>1. ht' = [ht EXCEPT !.entryCount = @ - 1, !.chains[at] = RemoveAt(ChainOf(k), p)]
      BY <2>1 DEF Unlinked, SizeOf, at, p
    <3> QED BY <2>3, <3>1
  <2> HIDE DEF at, p, ch, n, destroys
  <2>5. IsRechained(ht, ch, n, ht')
    BY <2>4 DEF IsRechained
  <2>6. /\ TableStands(ht') /\ ht'.valid = ht.valid
        /\ e \in EntriesIn(ht) /\ LiveIds(ht') = LiveIds(ht) \ {e.id}
        /\ ContentsOf(Entries(ht')) = ContentsOf(Entries(ht)) \ {Content(e)}
    <3>1. Omits(ch, ht.chains, at, p) /\ n = ht.entryCount - 1
      BY DEF ch, n, Omits
    <3>2. e = ht.chains[at][p]
      OBVIOUS
    <3> HIDE DEF e
    <3>3. LostEntry(ht, ht', ch, e)
      BY ONLY <1>2, <2>2, <2>5, <3>1, <3>2, LeftOver
    <3> QED BY <3>3 DEF LostEntry
  <2> HIDE DEF e
  <2>7. TableInv' /\ Ahead' = LiveIds(ht') /\ it'.entry = Null
    BY <1>1, <2>6, GivenUp
  <2>8. KeysGo
    BY <2>1, <2>6 DEF KeysGo, Destroyed
  <2>9. Content(e).value = e.value
    BY DEF Content
  <2>10. D!TakeOut(k, destroys)
    <3>1. D!With(k) # {} /\ answer' = [key |-> k, value |-> IF destroys THEN Null ELSE Content(e).value]
      BY <1>5, <1>7, <2>1, <2>9 DEF About
    <3>2. Contents' = Contents \ {Content(e)}
      BY <1>3, <2>6
    <3> QED BY <1>3, <2>2, <2>7, <3>1, <3>2 DEF D!TakeOut, D!Restart, D!Answers
  <2>11. destroys \in BOOLEAN
    BY DEF destroys
  <2>12. answer'.key = k
    BY <2>1 DEF About
  <2>13. D!Following(Values)
    BY <1>1, <1>4, <2>6, <2>10, <2>11, <2>12 DEF D!Following, D!About
  <2> QED BY <2>7, <2>8, <2>13 DEF TableMoves
<1> QED BY <1>6, <1>7

\* The places stay, and so does what a walk has before it.
LEMMA SamePlaces ==
  ASSUME NEW h, TableStands(h), NEW g, TableStands(g), SizeOf(g) = SizeOf(h),
         \A b \in 0..SizeOf(h) - 1 :
            /\ Len(g.chains[b]) = Len(h.chains[b])
            /\ \A i \in 1..Len(h.chains[b]) : g.chains[b][i].id = h.chains[b][i].id,
         LiveIds(g) = LiveIds(h), NEW w, WalkStands(h, w)
  PROVE  WalkStands(g, w) /\ AheadOf(g, w) = AheadOf(h, w)
<1> DEFINE size == SizeOf(h)
<1>1. w \in TableWalks /\ (w.initialized => w.index \in 0..size) /\ (~w.initialized => w.entry = Null)
  BY DEF WalkStands
<1>2. CASE ~w.initialized
  BY <1>1, <1>2 DEF WalkStands, AheadOf
<1>3. CASE w.initialized /\ w.entry = Null
  BY <1>1, <1>3 DEF WalkStands, AheadOf
<1>4. CASE w.initialized /\ w.entry # Null
  <2>1. PICK i \in 1..Len(h.chains[w.index]) : IsAt(h, w, i)
    BY <1>4 DEF WalkStands
  <2>2. w.index \in 0..size - 1 /\ i \in Nat
    BY <2>1 DEF IsAt
  <2>3. i \in 1..Len(g.chains[w.index]) /\ Len(h.chains[w.index]) \in Nat
    BY <2>1, <2>2, StandingIs, ChainIsSeq
  <2>4. IsAt(g, w, i)
    <3>1. w.entry = g.chains[w.index][i].id
      BY <2>1, <2>2 DEF IsAt
    <3>2. CASE i = 1
      BY <2>1, <2>2, <2>3, <3>1, <3>2 DEF IsAt
    <3>3. CASE i # 1
      <4>1. i - 1 \in 1..Len(h.chains[w.index])
        BY <2>1, <2>3, <3>3
      <4>2. g.chains[w.index][i - 1].id = h.chains[w.index][i - 1].id
        BY <2>2, <4>1
      <4> QED BY <2>1, <2>2, <2>3, <3>1, <3>3, <4>2 DEF IsAt
    <3> QED BY <3>2, <3>3
  <2>5. WalkStands(g, w)
    BY <1>1, <2>3, <2>4 DEF WalkStands
  <2>6. AheadOf(g, w) = IdsBehind(g.chains, size, w.index, i)
    BY <1>4, <2>4, AheadAtIs
  <2>7. AheadOf(h, w) = IdsBehind(h.chains, size, w.index, i)
    BY <1>4, <2>1, AheadAtIs
  <2>8. IdsBehind(g.chains, size, w.index, i) = IdsBehind(h.chains, size, w.index, i)
    <3> DEFINE gc == g.chains
               hc == h.chains
               Later(b, j) == b > w.index \/ (b = w.index /\ j > i)
    <3>1. \A b \in 0..size - 1 : /\ Len(gc[b]) = Len(hc[b])
                                 /\ \A j \in 1..Len(hc[b]) : gc[b][j].id = hc[b][j].id
      OBVIOUS
    <3> HIDE DEF gc, hc, Later, size
    <3>2. ASSUME NEW m PROVE (\E b \in 0..size - 1 : \E j \in 1..Len(gc[b]) : gc[b][j].id = m /\ Later(b, j))
                         <=> (\E b \in 0..size - 1 : \E j \in 1..Len(hc[b]) : hc[b][j].id = m /\ Later(b, j))
      BY ONLY <3>1
    <3> QED BY <3>2 DEF IdsBehind, Later, gc, hc
  <2> QED BY <2>5, <2>6, <2>7, <2>8
<1> QED BY <1>2, <1>3, <1>4

LEMMA ChangeMoves ==
  ASSUME TableInv, NEW k \in Keys, NEW v \in Values, HashTable_change(k, v)
  PROVE  TableMoves
<1> DEFINE at == IndexFor(SizeOf(ht), Hash[k])
           p == Position(k)
           was == ht.chains[at][p]
           e == [was EXCEPT !.value = v]
           ch == [ht.chains EXCEPT ![at] = [ht.chains[at] EXCEPT ![p] = e]]
<1>1. /\ ht.valid /\ it' = it /\ freed' = NothingFreed /\ answer' = About(k, p # 0)
      /\ ht' = IF p = 0 THEN ht
               ELSE [ht EXCEPT !.chains[IndexFor(Primes[ht.primeIndex], Hash[k])][p].value = v]
  BY DEF HashTable_change
<1>2. TableStands(ht) /\ WalkStands(ht, it)
  BY <1>1, InvIs
<1>3. /\ p = 0 <=> D!With(k) = {}
      /\ p # 0 => /\ at \in 0..SizeOf(ht) - 1 /\ p \in 1..Len(ht.chains[at])
                  /\ Content(was) \in D!With(k) /\ was \in EntriesIn(ht)
  BY <1>2, WithIs
<1>4. k # Null /\ answer' = [key |-> k, value |-> p # 0] /\ answer'.key = k
  BY <1>1, HashTableAssumption DEF About
<1>5. CASE p = 0
  <2>1. ht' = ht
    BY <1>1, <1>5
  <2>2. /\ TableInv' /\ KeysGo /\ Contents' = Contents /\ Ahead' = Ahead
        /\ it'.entry = it.entry /\ ht'.valid = ht.valid
    BY <1>1, <2>1, NothingMoved
  <2>3. D!With(k) = {}
    BY <1>3, <1>5
  <2> HIDE DEF p
  <2>4. D!Replace(k, v)
    BY <1>4, <1>5, <2>2, <2>3 DEF D!Replace, D!Answers
  <2>5. D!Following(Values)
    BY <1>1, <1>4, <2>2, <2>4 DEF D!Following, D!About
  <2> QED BY <2>2, <2>5 DEF TableMoves
<1>6. CASE p # 0
  <2>1. /\ at \in 0..SizeOf(ht) - 1 /\ p \in 1..Len(ht.chains[at])
        /\ Content(was) \in D!With(k) /\ was \in EntriesIn(ht)
    BY <1>3, <1>6
  <2>2. ht' = [ht EXCEPT !.chains = ch]
    <3> HIDE DEF at, p
    <3>1. ht' = [ht EXCEPT !.chains[at][p].value = v]
      BY <1>1, <1>6 DEF at, SizeOf
    <3> QED BY ONLY <3>1
  <2>3. /\ ChainsStand(ht.chains, SizeOf(ht)) /\ ht.entryCount = Cardinality(IdsWithin(ht))
        /\ Entries(ht) = EntriesIn(ht) /\ LiveIds(ht) = IdsWithin(ht)
    BY <1>2, StandingIs
  <2>4. was = ht.chains[at][p] /\ Revalues(ch, e, ht.chains, at, p, v)
    BY DEF Revalues
  <2> HIDE DEF at, p, was, e, ch
  <2>5. /\ ChainsStand(ch, SizeOf(ht))
        /\ EntriesOf(ch, SizeOf(ht)) = (EntriesOf(ht.chains, SizeOf(ht)) \ {ht.chains[at][p]}) \cup {e}
        /\ e.id = ht.chains[at][p].id /\ e.key = ht.chains[at][p].key /\ e.value = v
        /\ \A b \in 0..SizeOf(ht) - 1 :
              /\ Len(ch[b]) = Len(ht.chains[b])
              /\ \A i \in 1..Len(ht.chains[b]) : ch[b][i].id = ht.chains[b][i].id
    BY ONLY <2>1, <2>3, <2>4, v \in Values, RevaluedIs
  <2>6. /\ EntriesOf(ch, SizeOf(ht)) = (EntriesIn(ht) \ {was}) \cup {e}
        /\ e.id = was.id /\ e.key = was.key /\ e.value = v
    BY <2>4, <2>5 DEF EntriesIn
  <2>7. IdsIn(ch, SizeOf(ht)) = IdsWithin(ht)
    BY <2>1, <2>6 DEF IdsIn, IdsWithin, EntriesIn
  <2>8. /\ TableStands(ht') /\ ht'.valid = ht.valid /\ ht'.chains = ch /\ SizeOf(ht') = SizeOf(ht)
    <3> DEFINE n == ht.entryCount
    <3>1. n = Cardinality(IdsIn(ch, SizeOf(ht))) /\ IsRechained(ht, ch, n, ht')
      BY <2>2, <2>3, <2>7 DEF IsRechained
    <3> HIDE DEF n
    <3> QED BY ONLY <1>2, <2>5, <3>1, OtherChains
  <2>9. LiveIds(ht') = LiveIds(ht) /\ Entries(ht') = (EntriesIn(ht) \ {was}) \cup {e}
    <3>1. LiveIds(ht') = IdsWithin(ht') /\ Entries(ht') = EntriesIn(ht')
      BY <2>8, StandingIs
    <3> QED BY <2>3, <2>6, <2>7, <2>8, <3>1 DEF IdsWithin, EntriesIn
  <2>10. WalkStands(ht', it) /\ AheadOf(ht', it) = AheadOf(ht, it)
    <3>1. \A b \in 0..SizeOf(ht) - 1 :
              /\ Len(ht'.chains[b]) = Len(ht.chains[b])
              /\ \A i \in 1..Len(ht.chains[b]) : ht'.chains[b][i].id = ht.chains[b][i].id
      BY <2>5, <2>8
    <3> QED BY ONLY <1>2, <2>8, <2>9, <3>1, SamePlaces
  <2>11. TableInv'
    <3>1. ht' \in Tables
      BY <2>8, StandingIs
    <3> QED BY <1>1, <2>8, <2>10, <3>1 DEF TableInv
  <2>12. KeysGo
    BY <1>1, <2>9 DEF KeysGo, NothingFreed
  <2>13. Contents' = (Contents \ {Content(was)}) \cup {[Content(was) EXCEPT !.value = v]}
    <3>1. Content(e) = [Content(was) EXCEPT !.value = v]
      BY <2>6 DEF Content
    <3>2. ContentsOf(EntriesIn(ht) \ {was}) = ContentsOf(EntriesIn(ht)) \ {Content(was)}
      BY <1>2, <2>1, ContentsWithout
    <3>3. Contents' = ContentsOf((EntriesIn(ht) \ {was}) \cup {e}) /\ Contents = ContentsOf(EntriesIn(ht))
      BY <2>3, <2>9, ContentsAreOf
    <3>4. Contents' = ContentsOf(EntriesIn(ht) \ {was}) \cup {Content(e)}
      BY <3>3 DEF ContentsOf
    <3> QED BY <3>1, <3>2, <3>3, <3>4
  <2>14. D!Replace(k, v)
    <3>1. D!With(k) # {} /\ answer' = [key |-> k, value |-> D!With(k) # {}]
      BY <1>3, <1>4, <1>6
    <3>2. Ahead' = Ahead /\ it'.entry = it.entry
      BY <1>1, <2>10, AheadIs
    <3> QED BY <2>1, <2>13, <3>1, <3>2 DEF D!Replace, D!Answers
  <2>15. D!Following(Values)
    BY <1>1, <1>4, <2>8, <2>14 DEF D!Following, D!About
  <2> QED BY <2>11, <2>12, <2>15 DEF TableMoves
<1> QED BY <1>5, <1>6

LEMMA InitMoves ==
  ASSUME TableInv, NEW minSize \in MinSizes, NEW keyDtor \in BOOLEAN, NEW valueDtor \in BOOLEAN,
         HashTable_init(minSize, keyDtor, valueDtor)
  PROVE  TableMoves
<1>1. PICK i \in 1..Len(Primes) :
         ht' = [valid |-> TRUE, chains |-> [b \in 0..Primes[i] - 1 |-> <<>>], primeIndex |-> i,
                loadFactor |-> FirstLoadFactor, loadLimit |-> LoadLimit(Primes[i], FirstLoadFactor),
                entryCount |-> 0, keyDtor |-> keyDtor, valueDtor |-> valueDtor]
  BY DEF HashTable_init
<1> DEFINE size == Primes[i]
           limit == LoadLimit(size, FirstLoadFactor)
           ch == [b \in 0..size - 1 |-> <<>>]
<1>2. ~ht.valid /\ it' = NoWalk /\ answer' = NoAnswer /\ freed' = NothingFreed
      /\ ht = NoTable /\ it = NoWalk
  BY DEF HashTable_init, TableInv
<1>3. size \in Nat \ {0} /\ i \in Nat
  BY SizesAre
<1>4. limit \in Nat
  BY <1>3, LoadLimitIs DEF FirstLoadFactor
<1>5. ht' = [valid |-> TRUE, chains |-> ch, primeIndex |-> i, loadFactor |-> FirstLoadFactor,
             loadLimit |-> limit, entryCount |-> 0, keyDtor |-> keyDtor, valueDtor |-> valueDtor]
  BY <1>1
<1>6. ChainsStand(ch, size) /\ EntriesOf(ch, size) = {}
  BY <1>3, NoEntries
<1>7. ch \in AnyChains
  BY ONLY <1>6, ChainsAreAny
<1> HIDE DEF size, limit, ch, AnyChains
<1>8. /\ ht' \in Tables /\ ht'.valid = TRUE /\ ht'.chains = ch /\ ht'.primeIndex = i
      /\ ht'.entryCount = 0
  BY ONLY <1>3, <1>4, <1>5, <1>7, keyDtor \in BOOLEAN, valueDtor \in BOOLEAN DEF Tables, FirstLoadFactor
<1>9. SizeOf(ht') = size
  BY <1>8 DEF SizeOf, size
<1>10. IdsWithin(ht') = {}
  BY <1>6, <1>8, <1>9 DEF IdsWithin, IdsIn
<1>11. TableStands(ht')
  <2>1. Cardinality({}) = 0
    BY FS_EmptySet
  <2> QED BY <1>6, <1>8, <1>9, <1>10, <2>1 DEF TableStands
<1>12. TableInv' /\ Ahead' = LiveIds(ht') /\ it'.entry = Null
  BY <1>2, <1>8, <1>11, GivenUp
<1>13. Entries(ht') = {} /\ LiveIds(ht') = {}
  BY <1>6, <1>8, <1>9, <1>10, <1>11, StandingIs DEF EntriesIn
<1>14. KeysGo
  BY <1>2, <1>13, NoTableIs DEF KeysGo, NothingFreed
<1>15. Contents' = {} /\ D!Ids({}) = {}
  BY <1>13, ContentsAreOf DEF ContentsOf, D!Ids
<1>16. D!Reset
  <2>1. ht'.valid = ~ht.valid
    BY <1>2, <1>8, NoTableIs
  <2> QED BY <1>2, <1>12, <1>13, <1>15, <2>1
      DEF D!Reset, D!Restart, D!Silent, D!Answers, NoAnswer, About
<1>17. D!Following(Values)
  BY <1>16 DEF D!Following
<1> QED BY <1>12, <1>14, <1>17 DEF TableMoves

LEMMA TableClearMoves ==
  ASSUME TableInv, HashTable_clear
  PROVE  TableMoves
<1>1. /\ ht.valid /\ ht' = NoTable /\ freed' = Destroyed(LiveIds(ht), TRUE)
      /\ it' = NoWalk /\ answer' = NoAnswer
  BY DEF HashTable_clear
<1>2. ht'.valid = FALSE /\ ht' \in Tables /\ Entries(ht') = {} /\ LiveIds(ht') = {}
      /\ it'.entry = Null /\ it'.initialized = FALSE
  BY <1>1, NoTableIs
<1>3. TableInv'
  BY <1>1, <1>2 DEF TableInv
<1>4. KeysGo
  BY <1>1, <1>2 DEF KeysGo, Destroyed
<1>5. Contents' = {} /\ D!Ids({}) = {}
  BY <1>2, ContentsAreOf DEF ContentsOf, D!Ids
<1>6. Ahead' = {}
  BY <1>2, AheadIs DEF AheadOf
<1>7. ht'.valid = ~ht.valid
  <2>1. ht.valid = TRUE
    BY <1>1 DEF TableInv, Tables
  <2> QED BY <1>2, <2>1
<1>8. D!Reset
  BY <1>1, <1>2, <1>5, <1>6, <1>7 DEF D!Reset, D!Restart, D!Silent, D!Answers, NoAnswer, About
<1>9. D!Following(Values)
  BY <1>8 DEF D!Following
<1> QED BY <1>3, <1>4, <1>9 DEF TableMoves

\* The entries behind an entry that goes are behind its place.
MovedUp(h, ch, at, i) ==
    /\ \A b \in 0..SizeOf(h) - 1 : b # at => ch[b] = h.chains[b]
    /\ Len(ch[at]) = Len(h.chains[at]) - 1
    /\ \A k \in 1..Len(h.chains[at]) - 1 :
          ch[at][k] = IF k < i THEN h.chains[at][k] ELSE h.chains[at][k + 1]
    /\ IdsBehind(ch, SizeOf(h), at, i) = IdsBehind(h.chains, SizeOf(h), at, i + 1)
    /\ \A b \in 0..SizeOf(h) - 1 : b > at =>
          \A k \in Nat : IdsBehind(ch, SizeOf(h), b, k) = IdsBehind(h.chains, SizeOf(h), b, k)
LEMMA BehindOmitted ==
  ASSUME NEW h, TableStands(h), NEW at \in 0..SizeOf(h) - 1, NEW i \in 1..Len(h.chains[at]),
         NEW ch, Omits(ch, h.chains, at, i)
  PROVE  MovedUp(h, ch, at, i)
<1> DEFINE was == h.chains
           size == SizeOf(h)
           c == was[at]
           fewer == Omitting(c, i)
<1>1. /\ size \in Nat /\ was \in [0..size - 1 -> Seq(TableEntry)] /\ c \in Seq(TableEntry)
      /\ Len(c) \in Nat /\ \A b \in 0..size - 1 : Len(was[b]) \in Nat
  <2>1. ChainsStand(was, size)
    BY StandingIs
  <2>2. c \in Seq(TableEntry) /\ \A b \in 0..size - 1 : Len(was[b]) \in Nat
    BY ONLY <2>1, at \in 0..size - 1, ChainIsSeq
  <2>3. size \in Nat /\ was \in [0..size - 1 -> Seq(TableEntry)]
    <3> HIDE DEF TableEntry, was, size
    <3> QED BY ONLY <2>1 DEF ChainsStand
  <2> HIDE DEF TableEntry, was, size, c
  <2>4. Len(c) \in Nat
    BY ONLY <2>2, LenProperties
  <2> QED BY <2>2, <2>3, <2>4
<1>2. /\ Len(fewer) = Len(c) - 1
      /\ \A k \in 1..Len(c) - 1 : fewer[k] = IF k < i THEN c[k] ELSE c[k + 1]
  <2> HIDE DEF TableEntry, was, size, c, fewer
  <2>1. i \in 1..Len(c)
    BY DEF c, was
  <2> QED BY ONLY <1>1, <2>1, OmittingIs DEF fewer
<1>3. ch = [was EXCEPT ![at] = fewer]
  BY DEF Omits
<1> HIDE DEF was, size, c, fewer, TableEntry
<1>4. at \in 0..size - 1 /\ i \in 1..Len(c) /\ c = was[at]
  BY DEF size, c, was
<1>5. \A b \in 0..size - 1 : ch[b] = IF b = at THEN fewer ELSE was[b]
  BY ONLY <1>1, <1>3, <1>4
<1>6. ch[at] = fewer /\ \A b \in 0..size - 1 : b # at => ch[b] = was[b]
  BY ONLY <1>4, <1>5
<1>7. IdsBehind(ch, size, at, i) = IdsBehind(was, size, at, i + 1)
  <2>1. ASSUME NEW m \in IdsBehind(ch, size, at, i) PROVE m \in IdsBehind(was, size, at, i + 1)
    <3>1. PICK b \in 0..size - 1 : \E j \in 1..Len(ch[b]) :
             ch[b][j].id = m /\ (b > at \/ (b = at /\ j > i))
      BY DEF IdsBehind
    <3>2. PICK j \in 1..Len(ch[b]) : ch[b][j].id = m /\ (b > at \/ (b = at /\ j > i))
      BY <3>1
    <3>3. m \in 1..MaxEntries
      BY DEF IdsBehind
    <3>4. CASE b # at
      <4>1. b > at /\ j \in 1..Len(was[b]) /\ was[b][j].id = m
        BY <1>6, <3>2, <3>4
      <4> QED BY <3>3, <4>1 DEF IdsBehind
    <3>5. CASE b = at
      <4>1. b = at /\ j > i /\ j \in 1..Len(c) - 1 /\ Len(c) \in Nat /\ at \in Nat /\ i \in Nat
        BY <1>1, <1>2, <1>4, <1>6, <3>2, <3>5
      <4>2. j + 1 \in 1..Len(was[b]) /\ j + 1 > i + 1 /\ ~(j < i)
        BY <1>4, <4>1
      <4>3. was[b][j + 1].id = m
        BY <1>2, <1>4, <1>6, <3>2, <4>1, <4>2
      <4> QED BY <3>3, <4>1, <4>2, <4>3 DEF IdsBehind
    <3> QED BY <3>4, <3>5
  <2>2. ASSUME NEW m \in IdsBehind(was, size, at, i + 1) PROVE m \in IdsBehind(ch, size, at, i)
    <3>1. PICK b \in 0..size - 1 : \E j \in 1..Len(was[b]) :
             was[b][j].id = m /\ (b > at \/ (b = at /\ j > i + 1))
      BY DEF IdsBehind
    <3>2. PICK j \in 1..Len(was[b]) : was[b][j].id = m /\ (b > at \/ (b = at /\ j > i + 1))
      BY <3>1
    <3>3. m \in 1..MaxEntries
      BY DEF IdsBehind
    <3>4. CASE b # at
      <4>1. b > at /\ j \in 1..Len(ch[b]) /\ ch[b][j].id = m
        BY <1>6, <3>2, <3>4
      <4> QED BY <3>3, <4>1 DEF IdsBehind
    <3>5. CASE b = at
      <4>1. b = at /\ j > i + 1 /\ j \in 1..Len(c) /\ Len(c) \in Nat /\ at \in Nat /\ i \in Nat /\ i >= 1
        BY <1>1, <1>4, <3>2, <3>5
      <4>2. j - 1 \in 1..Len(c) - 1 /\ j - 1 > i /\ ~(j - 1 < i) /\ (j - 1) + 1 = j
        BY <4>1
      <4>3. ch[b][j - 1].id = m /\ j - 1 \in 1..Len(ch[b])
        BY <1>2, <1>4, <1>6, <3>2, <4>1, <4>2
      <4> QED BY <3>3, <4>1, <4>2, <4>3 DEF IdsBehind
    <3> QED BY <3>4, <3>5
  <2> QED BY <2>1, <2>2
<1>8. ASSUME NEW b \in 0..size - 1, b > at, NEW k \in Nat
      PROVE  IdsBehind(ch, size, b, k) = IdsBehind(was, size, b, k)
  <2>1. \A d \in 0..size - 1 : d >= b => ch[d] = was[d]
    BY <1>4, <1>6, <1>8
  <2>2. ASSUME NEW m, NEW d \in 0..size - 1
        PROVE  (\E j \in 1..Len(ch[d]) : ch[d][j].id = m /\ (d > b \/ (d = b /\ j > k)))
                 <=> (\E j \in 1..Len(was[d]) : was[d][j].id = m /\ (d > b \/ (d = b /\ j > k)))
    <3>1. CASE d >= b
      <4>1. ch[d] = was[d]
        BY <2>1, <3>1
      <4> QED BY <4>1
    <3>2. CASE ~(d >= b)
      BY <3>2
    <3> QED BY <3>1, <3>2
  <2> QED BY <2>2 DEF IdsBehind
<1> QED BY <1>2, <1>4, <1>6, <1>7, <1>8 DEF was, size, c, MovedUp

LEMMA GoesOnWithout ==
  ASSUME NEW h, TableStands(h), NEW g, TableStands(g), SizeOf(g) = SizeOf(h),
         NEW w, w.entry # Null, NEW i, IsAt(h, w, i),
         Omits(g.chains, h.chains, w.index, i), NEW n \in TableWalks, n.initialized, Goes(h, w, i, n)
  PROVE  WentTo(g, ParentKept(w, n), IdsBehind(h.chains, SizeOf(h), w.index, i))
<1> DEFINE was == h.chains
           ch == g.chains
           at == w.index
           size == SizeOf(h)
           S == IdsBehind(was, size, at, i)
           m == ParentKept(w, n)
<1>1. /\ at \in 0..size - 1 /\ i \in 1..Len(was[at]) /\ w.entry = was[at][i].id
      /\ w.parent = IF i = 1 THEN Null ELSE was[at][i - 1].id
  BY DEF IsAt
<1>2. /\ \A b \in 0..size - 1 : b # at => ch[b] = was[b]
      /\ Len(ch[at]) = Len(was[at]) - 1
      /\ \A k \in 1..Len(was[at]) - 1 : ch[at][k] = IF k < i THEN was[at][k] ELSE was[at][k + 1]
      /\ IdsBehind(ch, size, at, i) = IdsBehind(was, size, at, i + 1)
      /\ \A b \in 0..size - 1 : b > at =>
            \A k \in Nat : IdsBehind(ch, size, b, k) = IdsBehind(was, size, b, k)
  <2>1. at \in 0..size - 1 /\ i \in 1..Len(was[at]) /\ Omits(ch, was, at, i)
    BY <1>1
  <2> HIDE DEF at, ch
  <2>2. MovedUp(h, ch, at, i)
    BY ONLY <2>1, TableStands(h), BehindOmitted
  <2> QED BY <2>2 DEF MovedUp
<1>3. /\ ChainsStand(was, size) /\ size \in Nat /\ Len(was[at]) \in Nat /\ i \in Nat
      /\ DOMAIN was = 0..size - 1
  <2>1. ChainsStand(was, size) /\ size \in Nat /\ DOMAIN was = 0..size - 1
    BY StandingIs
  <2>2. Len(was[at]) \in Nat
    BY ONLY <1>1, <2>1, ChainIsSeq
  <2> HIDE DEF was, at, size
  <2> QED BY <1>1, <2>1, <2>2
<1>4. Null \notin 1..MaxEntries /\ \A y \in S : y \in 1..MaxEntries
  BY HashTableAssumption DEF IdsBehind
<1>5. WentTo(h, n, S)
  BY GoesOn
<1>6. m = [n EXCEPT !.parent = IF n.parent = w.entry THEN w.parent ELSE n.parent]
  BY DEF ParentKept
<1>7. w.parent \in Spots
  <2>1. \A k \in 1..Len(was[at]) : was[at][k].id \in 1..MaxEntries
    <3>1. \A k \in 1..Len(was[at]) : was[at][k] \in TableEntry
      <4> HIDE DEF TableEntry
      <4> QED BY ONLY <1>1, <1>3, ChainIsSeq
    <3> QED BY <3>1 DEF TableEntry
  <2> HIDE DEF was, at, size
  <2>2. i # 1 => i - 1 \in 1..Len(was[at])
    BY <1>1, <1>3
  <2> QED BY <1>1, <2>1, <2>2 DEF Spots
<1>8. n.parent # w.entry => m = n
  <2> HIDE DEF m
  <2> QED BY ONLY <1>6, n \in TableWalks DEF TableWalks
<1> HIDE DEF was, ch, at, size, S, m
<1>9. CASE i < Len(was[at]) /\ n.index = at /\ n.entry = was[at][i + 1].id /\ n.parent = w.entry
  <2>1. m \in TableWalks /\ m.initialized = n.initialized /\ m.index = at /\ m.entry = n.entry
        /\ m.parent = w.parent
    BY ONLY <1>6, <1>7, <1>9, n \in TableWalks DEF TableWalks
  <2>2. i \in 1..Len(ch[at]) /\ ch[at][i] = was[at][i + 1]
    <3>1. i \in 1..Len(was[at]) - 1 /\ ~(i < i)
      BY <1>1, <1>3, <1>9
    <3> QED BY <1>2, <3>1
  <2>3. m.parent = IF i = 1 THEN Null ELSE ch[at][i - 1].id
    <3>1. CASE i = 1
      BY <1>1, <2>1, <3>1
    <3>2. CASE i # 1
      <4>1. i - 1 \in 1..Len(was[at]) - 1 /\ i - 1 < i
        BY <1>1, <1>3, <3>2
      <4>2. ch[at][i - 1] = was[at][i - 1]
        BY <1>2, <4>1
      <4> QED BY <1>1, <2>1, <3>2, <4>2
    <3> QED BY <3>1, <3>2
  <2>4. IsAt(g, m, i)
    BY <1>1, <1>9, <2>1, <2>2, <2>3 DEF IsAt, ch, size
  <2>5. AheadOf(g, m) = IdsBehind(ch, size, at, i)
    <3>1. AheadOf(g, m) = IdsBehind(g.chains, SizeOf(g), m.index, i)
      BY ONLY <2>1, <2>4, TableStands(g), n.initialized, AheadAtIs
    <3> QED BY <2>1, <3>1 DEF ch, size
  <2>6. n.entry \in S /\ IdsBehind(was, size, at, i + 1) = S \ {n.entry}
    BY ONLY <1>1, <1>3, <1>9, InTheChain DEF S
  <2>7. WalkStands(g, m)
    <3>1. m.index \in 0..SizeOf(g)
      BY <1>1, <1>3, <2>1 DEF size
    <3>2. i \in 1..Len(g.chains[m.index])
      BY <2>1, <2>2 DEF ch
    <3> QED BY <2>1, <2>4, <3>1, <3>2 DEF WalkStands
  <2>8. S # {} /\ m.entry \in S /\ AheadOf(g, m) = S \ {m.entry}
    BY <1>2, <2>1, <2>5, <2>6
  <2> QED BY <2>7, <2>8 DEF WentTo, S, was, size, at, m
<1>10. CASE n.index = size /\ n.entry = Null /\ n.parent = Null
  <2>1. m = n
    BY <1>8, <1>10
  <2>2. S = {}
    BY <1>4, <1>5, <1>10 DEF WentTo
  <2>3. AheadOf(g, n) = {}
    BY <1>10 DEF AheadOf
  <2>4. WalkStands(g, n)
    BY <1>3, <1>10 DEF WalkStands, size
  <2> QED BY <1>10, <2>1, <2>2, <2>3, <2>4 DEF WentTo, S, was, size, at, m
<1>11. ASSUME NEW x \in LaterChains(h, w), n.index = x, n.entry = was[x][1].id, n.parent = Null
       PROVE  WentTo(g, m, S)
  <2>1. m = n
    BY <1>8, <1>11
  <2>2. x \in 0..size - 1 /\ x > at /\ was[x] # <<>>
    BY <1>3 DEF LaterChains, was, at
  <2>3. ch[x] = was[x] /\ IdsBehind(ch, size, x, 1) = IdsBehind(was, size, x, 1)
    <3>1. x # at
      BY <1>1, <2>2
    <3> QED BY <1>2, <2>2, <3>1
  <2>4. n.entry # Null /\ AheadOf(h, n) = IdsBehind(was, size, x, 1)
    BY ONLY TableStands(h), <1>11, <2>2, n \in TableWalks, n.initialized, AtFirstOf DEF was, size
  <2>5. WalkStands(g, n) /\ AheadOf(g, n) = IdsBehind(ch, size, x, 1)
    <3>1. x \in 0..SizeOf(g) - 1 /\ g.chains[x] # <<>> /\ n.entry = g.chains[x][1].id
      BY <1>11, <2>2, <2>3 DEF ch, size
    <3>2. WalkStands(g, n) /\ AheadOf(g, n) = IdsBehind(g.chains, SizeOf(g), x, 1)
      BY ONLY TableStands(g), <1>11, <3>1, n \in TableWalks, n.initialized, AtFirstOf
    <3> QED BY <3>2 DEF ch, size
  <2>6. S # {} /\ n.entry \in S /\ AheadOf(h, n) = S \ {n.entry}
    BY <1>5, <2>4 DEF WentTo
  <2> QED BY <2>1, <2>3, <2>4, <2>5, <2>6 DEF WentTo
<1> QED BY <1>9, <1>10, <1>11 DEF Goes, was, size, at, S, m

\* The entries before the current one and those behind it.
LEMMA WithoutCurrentIs ==
  ASSUME NEW h, TableStands(h), NEW w, w.entry # Null, NEW i, IsAt(h, w, i)
  PROVE  /\ WithoutCurrent(h, w) = [h EXCEPT !.chains = [h.chains EXCEPT ![w.index] =
                                                           Omitting(h.chains[w.index], i)],
                                             !.entryCount = h.entryCount - 1]
<1> DEFINE c == h.chains[w.index]
           before == IF w.parent = Null THEN <<>> ELSE SubSeq(c, 1, PlaceOf(h, w, w.parent))
           kept == before \o Beyond(h, w)
<1>1. /\ c \in Seq(TableEntry) /\ Len(c) \in Nat /\ i \in 1..Len(c)
      /\ \A j \in 1..Len(c) : c[j] \in TableEntry
      /\ Beyond(h, w) = SubSeq(c, i + 1, Len(c)) /\ w.index \in 0..SizeOf(h) - 1
  <2> HIDE DEF TableEntry
  <2> QED BY ONLY TableStands(h), IsAt(h, w, i), BeyondIs, SMTT(30)
<1>2. before = SubSeq(c, 1, i - 1)
  <2>1. CASE i = 1
    <3>1. w.parent = Null
      BY <2>1 DEF IsAt
    <3>2. SubSeq(c, 1, 0) = <<>>
      BY <1>1, SubSeqEmpty
    <3> QED BY <2>1, <3>1, <3>2
  <2>2. CASE i # 1
    <3>1. i - 1 \in 1..Len(c)
      <4> HIDE DEF c
      <4> QED BY <1>1, <2>2
    <3>2. w.parent = c[i - 1].id
      BY <2>2 DEF IsAt
    <3>3. w.parent # Null
      <4>1. c[i - 1] \in TableEntry
        <5> HIDE DEF c, TableEntry
        <5> QED BY <1>1, <3>1
      <4>2. w.parent \in 1..MaxEntries
        <5> HIDE DEF c
        <5> QED BY <3>2, <4>1 DEF TableEntry
      <4> QED BY <4>2, HashTableAssumption
    <3>4. PlaceOf(h, w, w.parent) = i - 1
      <4> DEFINE at == w.index
                 j == i - 1
                 par == w.parent
      <4>1. at \in 0..SizeOf(h) - 1 /\ j \in 1..Len(h.chains[at]) /\ par = h.chains[at][j].id
        BY <1>1, <3>1, <3>2
      <4>2. w.index \in 0..SizeOf(h) - 1 /\ at = w.index
        BY <1>1
      <4> HIDE DEF at, j, par
      <4>3. j \in 1..Len(h.chains[w.index]) /\ par = h.chains[w.index][j].id
        BY <4>1, <4>2
      <4>4. PlaceOf(h, w, par) = j
        BY ONLY TableStands(h), <4>2, <4>3, PlaceIs
      <4> QED BY <4>4 DEF par, j
    <3> QED BY <3>3, <3>4
  <2> QED BY <2>1, <2>2
<1>3. kept = Omitting(c, i)
  <2> HIDE DEF c, before, TableEntry
  <2> QED BY <1>1, <1>2, RemovedAt
<1>4. WithoutCurrent(h, w) = [h EXCEPT !.chains[w.index] = kept, !.entryCount = @ - 1]
  BY DEF WithoutCurrent
<1> HIDE DEF kept, c
<1>5. WithoutCurrent(h, w) = [h EXCEPT !.chains = [h.chains EXCEPT ![w.index] = kept],
                                       !.entryCount = h.entryCount - 1]
  BY ONLY <1>4
<1> QED BY <1>3, <1>5 DEF c

\* The chains of h and g other than chain at are the same.
SameBut(h, g, at) ==
    /\ at \in Nat /\ SizeOf(g) = SizeOf(h)
    /\ \A b \in 0..SizeOf(h) - 1 : b # at => g.chains[b] = h.chains[b]
LEMMA AdvancedWithout ==
  ASSUME NEW h, TableStands(h), NEW g, TableStands(g), NEW w, SameBut(h, g, w.index), NEW rest
  PROVE  Advanced(g, w, rest) = Advanced(h, w, rest)
<1> DEFINE L(t) == {b \in DOMAIN t.chains : b > w.index /\ t.chains[b] # <<>>}
<1>1. DOMAIN g.chains = 0..SizeOf(h) - 1 /\ DOMAIN h.chains = 0..SizeOf(h) - 1
  BY StandingIs DEF SameBut
<1>2. \A b \in 0..SizeOf(h) - 1 : b > w.index => g.chains[b] = h.chains[b]
  BY DEF SameBut
<1>3. L(g) = L(h)
  BY <1>1, <1>2
<1> DEFINE x == CHOOSE y \in L(h) : \A z \in L(h) : y <= z
<1>4. L(h) # {} => x \in L(h)
  <2>1. L(h) \subseteq Nat
    BY <1>1
  <2> HIDE DEF L
  <2> QED BY <2>1, LeastOfNumbers
<1>5. L(h) # {} => g.chains[x] = h.chains[x]
  <2> HIDE DEF x
  <2> QED BY <1>1, <1>2, <1>4
<1>6. Primes[g.primeIndex] = Primes[h.primeIndex]
  BY DEF SizeOf, SameBut
<1>7. Advanced(h, w, rest) =
        IF rest # <<>> THEN [w EXCEPT !.parent = w.entry, !.entry = Head(rest).id]
        ELSE IF L(h) = {}
        THEN [w EXCEPT !.parent = Null, !.entry = Null, !.index = Primes[h.primeIndex]]
        ELSE [w EXCEPT !.parent = Null, !.entry = h.chains[x][1].id, !.index = x]
  BY DEF Advanced
<1>8. Advanced(g, w, rest) =
        IF rest # <<>> THEN [w EXCEPT !.parent = w.entry, !.entry = Head(rest).id]
        ELSE IF L(g) = {}
        THEN [w EXCEPT !.parent = Null, !.entry = Null, !.index = Primes[g.primeIndex]]
        ELSE LET y == CHOOSE y \in L(g) : \A z \in L(g) : y <= z
             IN [w EXCEPT !.parent = Null, !.entry = g.chains[y][1].id, !.index = y]
  BY DEF Advanced
<1> HIDE DEF L
<1>9. Advanced(g, w, rest) =
        IF rest # <<>> THEN [w EXCEPT !.parent = w.entry, !.entry = Head(rest).id]
        ELSE IF L(h) = {}
        THEN [w EXCEPT !.parent = Null, !.entry = Null, !.index = Primes[g.primeIndex]]
        ELSE [w EXCEPT !.parent = Null, !.entry = g.chains[x][1].id, !.index = x]
  BY ONLY <1>3, <1>8
<1> HIDE DEF x
<1>10. CASE rest # <<>>
  BY ONLY <1>7, <1>9, <1>10
<1>11. CASE rest = <<>> /\ L(h) = {}
  BY ONLY <1>6, <1>7, <1>9, <1>11
<1>12. CASE rest = <<>> /\ L(h) # {}
  BY ONLY <1>5, <1>7, <1>9, <1>12
<1> QED BY <1>10, <1>11, <1>12

\* HashTableIterator_remove takes out the entry that the walk is at, and goes on.
LEMMA IteratorRemoveMoves ==
  ASSUME TableInv, HashTableIterator_remove
  PROVE  TableMoves
<1> DEFINE at == it.index
           rest == Beyond(ht, it)
           n == Advanced(ht, it, rest)
<1>1. /\ ht.valid /\ it.entry # Null /\ answer' = NoAnswer /\ freed' = NothingFreed
      /\ ht' = WithoutCurrent(ht, it) /\ it' = ParentKept(it, Advanced(ht', it, rest))
  BY DEF HashTableIterator_remove
<1>2. TableStands(ht) /\ WalkStands(ht, it) /\ ht \in Tables
  BY <1>1, InvIs
<1>3. it \in TableWalks /\ it.initialized
  BY <1>1, <1>2 DEF WalkStands, TableWalks
<1>4. PICK i \in 1..Len(ht.chains[it.index]) : IsAt(ht, it, i)
  BY <1>1, <1>2 DEF WalkStands
<1> DEFINE e == ht.chains[at][i]
           ch == [ht.chains EXCEPT ![at] = Omitting(ht.chains[at], i)]
           S == IdsBehind(ht.chains, SizeOf(ht), at, i)
<1>5. at \in 0..SizeOf(ht) - 1 /\ i \in 1..Len(ht.chains[at]) /\ e.id = it.entry
  BY <1>4 DEF IsAt
<1>6. /\ IsRechained(ht, ch, ht.entryCount - 1, ht') /\ Omits(ch, ht.chains, at, i)
  <2>1. ht' = [ht EXCEPT !.chains = ch, !.entryCount = ht.entryCount - 1]
    BY <1>1, <1>2, <1>4, WithoutCurrentIs
  <2>2. Omits(ch, ht.chains, at, i)
    BY DEF Omits
  <2> HIDE DEF ch
  <2> QED BY <2>1, <2>2 DEF IsRechained
<1>7. LostEntry(ht, ht', ch, e)
  <2>1. e = ht.chains[at][i]
    OBVIOUS
  <2> DEFINE less == ht.entryCount - 1
  <2>2. less = ht.entryCount - 1 /\ IsRechained(ht, ch, less, ht')
    BY <1>6
  <2> HIDE DEF at, e, ch, less
  <2> QED BY ONLY <1>2, <1>5, <1>6, <2>1, <2>2, LeftOver
<1>8. /\ TableStands(ht') /\ ht'.valid = ht.valid /\ ht'.chains = ch /\ SizeOf(ht') = SizeOf(ht)
      /\ LiveIds(ht') = LiveIds(ht) \ {it.entry}
      /\ ContentsOf(Entries(ht')) = {c \in ContentsOf(Entries(ht)) : c.id # it.entry}
  <2> HIDE DEF e, ch
  <2> QED BY <1>5, <1>7 DEF LostEntry
<1>9. n \in TableWalks /\ n.initialized /\ Goes(ht, it, i, n)
  BY <1>2, <1>3, <1>4, AdvancedIs
<1>10. Advanced(ht', it, rest) = n
  <2>1. it.index \in Nat
    BY <1>3 DEF TableWalks
  <2>2. \A b \in 0..SizeOf(ht) - 1 : b # it.index => ht'.chains[b] = ht.chains[b]
    <3>1. \A b \in 0..SizeOf(ht) - 1 : b # at => ch[b] = ht.chains[b]
      <4> HIDE DEF at, ch
      <4>1. MovedUp(ht, ch, at, i)
        BY ONLY <1>2, <1>5, <1>6, BehindOmitted
      <4> QED BY <4>1 DEF MovedUp
    <3> HIDE DEF ch
    <3> QED BY <1>8, <3>1
  <2>3. SameBut(ht, ht', it.index)
    BY <1>8, <2>1, <2>2 DEF SameBut
  <2> HIDE DEF rest
  <2> QED BY ONLY <1>2, <1>8, <2>3, AdvancedWithout
<1>11. it' = ParentKept(it, n)
  BY <1>1, <1>10
<1>12. WentTo(ht', it', S)
  <2>1. Omits(ht'.chains, ht.chains, it.index, i)
    <3> HIDE DEF ch
    <3> QED BY <1>6, <1>8
  <2> HIDE DEF n, ch, rest
  <2>2. WentTo(ht', ParentKept(it, n), IdsBehind(ht.chains, SizeOf(ht), it.index, i))
    BY ONLY <1>1, <1>2, <1>4, <1>8, <1>9, <2>1, GoesOnWithout
  <2> QED BY <1>11, <2>2
<1>13. AheadOf(ht, it) = S
  BY <1>2, <1>3, <1>4, AheadAtIs
<1> HIDE DEF S, ch, n, e, rest, at
<1>14. TableInv'
  <2>1. ht' \in Tables
    BY <1>8, StandingIs
  <2> QED BY <1>1, <1>8, <1>12, <2>1 DEF TableInv, WentTo
<1>15. KeysGo
  BY <1>1 DEF KeysGo, NothingFreed
<1>16. /\ Contents' = {c \in Contents : c.id # it.entry} /\ Ahead' = AheadOf(ht', it')
       /\ Ahead = AheadOf(ht, it)
  BY <1>8, ContentsAreOf, AheadIs
<1>17. D!RemoveCurrent
  BY <1>1, <1>12, <1>13, <1>16
     DEF D!RemoveCurrent, D!WalkTo, D!Silent, D!Answers, NoAnswer, About, WentTo
<1>18. D!Following(Values)
  BY <1>1, <1>8, <1>17 DEF D!Following, NoAnswer, About
<1> QED BY <1>14, <1>15, <1>18 DEF TableMoves

-----------------------------------------------------------------------------
(* The hash table is a dictionary.                                          *)

TableStep == [D!Following(Values)]_<<ht.valid, Contents, Ahead, it.entry, answer>>

LEMMA TableBegins ==
  ASSUME TableInit
  PROVE  TableInv /\ D!Empty
<1>1. ht = NoTable /\ it = NoWalk /\ answer = NoAnswer
  BY DEF TableInit
<1>2. TableInv
  BY <1>1, NoTableIs DEF TableInv
<1>3. Contents = {}
  BY <1>1, NoTableIs, ContentsAreOf DEF ContentsOf
<1>4. Ahead = {}
  BY <1>1, NoTableIs DEF Ahead
<1>5. D!Empty
  BY <1>1, <1>3, <1>4, NoTableIs DEF D!Empty, NoAnswer, About
<1> QED BY <1>2, <1>5

LEMMA TableGoesOn ==
  ASSUME TableInv, [TableNext]_tableVars
  PROVE  TableInv' /\ [KeysGo]_tableVars /\ TableStep
<1>1. ASSUME TableNext PROVE TableMoves
  <2>1. ASSUME NEW n \in MinSizes, NEW o \in Ownership, HashTable_init(n, o[1], o[2])
        PROVE  TableMoves
    <3>1. o[1] \in BOOLEAN /\ o[2] \in BOOLEAN
      BY HashTableAssumption
    <3> QED BY <2>1, <3>1, InitMoves
  <2>2. ASSUME NEW f \in LoadFactors, HashTable_setLoadFactor(f) PROVE TableMoves
    BY <2>2, SetLoadFactorMoves
  <2>3. ASSUME NEW k \in Keys, NEW v \in Values, NEW t \in BOOLEAN, NEW e \in BOOLEAN,
               HashTable_insert(k, v, t, e)
        PROVE  TableMoves
    BY <2>3, TableInsertMoves
  <2>4. ASSUME NEW k \in Keys, HashTable_search(k) PROVE TableMoves
    BY <2>4, SearchMoves
  <2>5. ASSUME NEW k \in Keys, NEW fetch \in BOOLEAN, HashTable_remove(k, fetch)
        PROVE  TableMoves
    BY <2>5, TableRemoveMoves
  <2>6. ASSUME NEW k \in Keys, NEW v \in Values, HashTable_change(k, v) PROVE TableMoves
    BY <2>6, ChangeMoves
  <2> QED BY <1>1, <2>1, <2>2, <2>3, <2>4, <2>5, <2>6, TableClearMoves, FirstMoves, NextMoves,
             IteratorRemoveMoves DEF TableNext
<1>2. CASE TableNext
  BY <1>1, <1>2 DEF TableMoves, TableStep
<1>3. CASE UNCHANGED tableVars
  <2>1. ht' = ht /\ it' = it /\ answer' = answer
    BY <1>3 DEF tableVars
  <2>2. TableInv'
    BY <2>1 DEF TableInv
  <2>3. Contents' = Contents
    BY <2>1, ContentsAreOf
  <2>4. Ahead' = Ahead
    BY <2>1, AheadIs
  <2> QED BY <1>3, <2>1, <2>2, <2>3, <2>4 DEF TableStep
<1> QED BY <1>2, <1>3

LEMMA WhatStandsIsRight ==
  ASSUME TableInv
  PROVE  TableTypeOK /\ EntriesAreFindable /\ CountIsRight
<1>1. CASE ht.valid
  <2>1. TableStands(ht) /\ WalkStands(ht, it) /\ ht \in Tables
    BY <1>1, InvIs
  <2>2. /\ SizeOf(ht) \in Nat \ {0} /\ ChainsStand(ht.chains, SizeOf(ht))
        /\ DOMAIN ht.chains = 0..SizeOf(ht) - 1
        /\ ht.entryCount = Len(Chained(ht)) /\ ht.entryCount = Cardinality(LiveIds(ht))
        /\ ht.entryCount \in 0..MaxEntries /\ ht.primeIndex \in 1..Len(Primes)
    BY <2>1, StandingIs
  <2>3. ht.loadLimit \in Nat /\ ht.loadFactor \in Nat
    <3> HIDE DEF AnyChains
    <3> QED BY <2>1 DEF Tables
  <2>4. TableTypeOK
    BY <2>1, <2>2, <2>3 DEF TableTypeOK, SizeOf, WalkStands
  <2>5. ASSUME NEW b \in DOMAIN ht.chains, NEW e \in Range(ht.chains[b])
        PROVE  e.hash = Hash[e.key] /\ b = IndexFor(Primes[ht.primeIndex], e.hash)
    <3>1. b \in 0..SizeOf(ht) - 1 /\ ht.chains[b] \in Seq(TableEntry)
      <4> HIDE DEF TableEntry
      <4> QED BY <2>2, ChainIsSeq
    <3>2. PICK i \in 1..Len(ht.chains[b]) : ht.chains[b][i] = e
      <4> HIDE DEF TableEntry
      <4>1. DOMAIN ht.chains[b] = 1..Len(ht.chains[b])
        BY <3>1
      <4> QED BY <4>1 DEF Range
    <3>3. InPlace(ht.chains, SizeOf(ht))
      BY <2>2 DEF ChainsStand
    <3> QED BY <3>1, <3>2, <3>3 DEF InPlace, SizeOf
  <2>6. EntriesAreFindable
    BY <2>2, <2>5 DEF EntriesAreFindable
  <2>7. CountIsRight
    BY <2>2 DEF CountIsRight
  <2> QED BY <2>4, <2>6, <2>7
<1>2. CASE ~ht.valid
  <2>1. ht = NoTable /\ it = NoWalk
    BY <1>2 DEF TableInv
  <2>2. TableTypeOK
    BY <1>2, <2>1, NoTableIs, HashTableAssumption DEF TableTypeOK
  <2> QED BY <1>2, <2>2 DEF EntriesAreFindable, CountIsRight
<1> QED BY <1>1, <1>2

\* Whatever the keys, their hash values, the primes, the load factors and the calls are,
\* the table of src/HashTable.c is a dictionary of its entries: each is found in the chain
\* that its key leads to, the count tells how many there are, a key is destroyed with its
\* entry and not before, and the walk of src/HashTableIterator.c meets every entry once.
THEOREM TableStaysADictionary == TableInit /\ [][TableNext]_tableVars => TableIsADictionary
<1>1. TableInit => TableInv /\ D!Empty
  BY TableBegins
<1>2. TableInv /\ [TableNext]_tableVars => TableInv'
  BY TableGoesOn
<1>3. TableInv /\ [TableNext]_tableVars => [KeysGo]_tableVars
  BY TableGoesOn
<1>4. TableInv /\ [TableNext]_tableVars =>
         [D!Following(Values)]_<<ht.valid, Contents, Ahead, it.entry, answer>>
  BY TableGoesOn DEF TableStep
<1>5. TableInv => TableTypeOK /\ EntriesAreFindable /\ CountIsRight
  BY WhatStandsIsRight
<1>6. TableInit /\ [][TableNext]_tableVars => [](TableTypeOK /\ EntriesAreFindable /\ CountIsRight)
  BY <1>1, <1>2, <1>5, PTL
<1>7. TableInit /\ [][TableNext]_tableVars => KeysGoWithTheirEntries
  BY <1>1, <1>2, <1>3, PTL DEF KeysGoWithTheirEntries, KeysGo
<1>8. TableInit /\ [][TableNext]_tableVars => ImplementsDictionary
  BY <1>1, <1>2, <1>4, PTL DEF ImplementsDictionary
<1> QED BY <1>6, <1>7, <1>8 DEF TableIsADictionary
=============================================================================
