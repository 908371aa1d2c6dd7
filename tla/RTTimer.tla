------------------------------ MODULE RTTimer ------------------------------
(***************************************************************************)
(* The timer RTTimer: laps from start to stop, with pauses, and statistics *)
(* over them.  The clock advances between the calls.  The calls are those  *)
(* the timer tolerates: any other stops the program.                       *)
(***************************************************************************)
EXTENDS Integers

CONSTANTS ClockLimit,      \* the clock stops here
          MaxLaps,
          Units            \* nanoseconds in a second, seconds in a minute, minutes in an
                           \* hour, hours in a day

ASSUME TimerAssumption == ClockLimit \in Nat /\ Units \in [1..4 -> Nat \ {0}]

VARIABLES self,            \* the timer
          clock,           \* CLOCK_MONOTONIC
          ran,             \* what a stopwatch would show: [total, since]
          inPause          \* what the timer takes differently: [before, twice]

timerVars == <<self, clock, ran, inPause>>

Infinite == ClockLimit + 1                 \* ~0ULL
RTTimer_reset == [started |-> FALSE, paused |-> FALSE, start |-> 0, stop |-> 0, count |-> 0,
                  minTime |-> Infinite, maxTime |-> 0, totalTime |-> 0]

TimerInit ==
    /\ self = RTTimer_reset /\ clock = 0
    /\ ran = [total |-> 0, since |-> 0] /\ inPause = [before |-> 0, twice |-> 0]

Larger(a, b) == IF a > b THEN a ELSE b

\* Until a first lap has ended nothing has elapsed.
RTTimer_getElapsed(t) == IF t.count > 0 THEN t.stop - t.start ELSE 0
RTTimer_updateStatistics(t) ==
    LET elapsed == RTTimer_getElapsed(t)
    IN  IF elapsed = 0 THEN t
        ELSE [t EXCEPT !.totalTime = @ + elapsed, !.maxTime = Larger(@, elapsed),
                       !.minTime = IF elapsed < @ THEN elapsed ELSE @]

Running == self.started /\ ~self.paused
Lap     == clock - ran.since

Tick == /\ clock < ClockLimit /\ clock' = clock + 1
        /\ UNCHANGED <<self, ran, inPause>>

RTTimer_start ==
    /\ ~self.started
    /\ self' = [self EXCEPT !.start = clock, !.started = TRUE, !.paused = FALSE]
    /\ ran' = [ran EXCEPT !.since = clock]
    /\ UNCHANGED <<clock, inPause>>

RTTimer_pause ==
    /\ Running
    /\ self' = RTTimer_updateStatistics([self EXCEPT !.stop = clock, !.paused = TRUE])
    /\ ran' = [ran EXCEPT !.total = @ + Lap]
    /\ inPause' = [inPause EXCEPT !.before = IF self.count = 0 THEN @ + Lap ELSE @]
    /\ UNCHANGED clock

\* Mutant: the start is still that of the lap.
RTTimer_continueSame ==
    /\ self.started /\ self.paused
    /\ self' = [self EXCEPT !.stop = clock, !.paused = FALSE]
    /\ ran' = [ran EXCEPT !.since = clock]
    /\ UNCHANGED <<clock, inPause>>
RTTimer_continue ==
    /\ self.started /\ self.paused
    /\ self' = [self EXCEPT !.start = clock, !.stop = clock, !.paused = FALSE]
    /\ ran' = [ran EXCEPT !.since = clock]
    /\ UNCHANGED <<clock, inPause>>

\* A timer that is stopped in a pause takes what ran before the pause, and
\* the pause, for one lap more.
RTTimer_stop ==
    /\ self.started /\ self.count < MaxLaps
    /\ self' = RTTimer_updateStatistics([self EXCEPT !.stop = clock, !.started = FALSE,
                                                     !.paused = FALSE, !.count = @ + 1])
    /\ ran' = IF self.paused THEN ran ELSE [ran EXCEPT !.total = @ + Lap]
    /\ inPause' = IF self.paused THEN [inPause EXCEPT !.twice = @ + Lap] ELSE inPause
    /\ UNCHANGED clock

\* Start at the time at which another timer was started.  The code does so too
\* while the timer runs; here it does not, which bounds the total.
RTTimer_copyStart(time) ==
    /\ ~self.started
    /\ self' = [self EXCEPT !.start = time, !.started = TRUE, !.paused = FALSE]
    /\ ran' = [ran EXCEPT !.since = time]
    /\ UNCHANGED <<clock, inPause>>

Reset == /\ self # RTTimer_reset /\ self' = RTTimer_reset
         /\ ran' = [total |-> 0, since |-> 0] /\ inPause' = [before |-> 0, twice |-> 0]
         /\ UNCHANGED clock

TimerNext == \/ Tick \/ RTTimer_start \/ RTTimer_pause \/ RTTimer_continue \/ RTTimer_stop
             \/ Reset
             \/ \E t \in 0 .. clock : RTTimer_copyStart(t)

-----------------------------------------------------------------------------
RTTimer_getMinTime(t) == IF t.minTime = Infinite THEN 0 ELSE t.minTime

\* The days, hours, minutes and seconds of a time, and what is left.
RTTimer_micro2RTTimerSpec(time) ==
    LET secs   == time \div Units[1]
        minute == Units[2]
        hour   == minute * Units[3]
        day    == hour * Units[4]
    IN  [microsecond |-> time - secs * Units[1], day |-> secs \div day,
         hour |-> (secs % day) \div hour, minute |-> (secs % hour) \div minute,
         second |-> secs % minute]

(***************************************************************************)
(* The total is what a stopwatch would show; but what ran before the       *)
(* pauses of the first lap is missing, and when a timer is stopped in a    *)
(* pause the time since it was last started is there once more.            *)
(***************************************************************************)
TotalIsWhatRan ==
    ~Running => self.totalTime = ran.total - inPause.before + inPause.twice

(***************************************************************************)
(* The statistics fit together: the least time is no more than the         *)
(* greatest, which is no more than the total, and there is a least time    *)
(* exactly when something has been counted.                                *)
(***************************************************************************)
StatisticsFit ==
    /\ self.totalTime > 0 => /\ RTTimer_getMinTime(self) \in 1 .. self.maxTime
                             /\ self.maxTime <= self.totalTime
    /\ self.totalTime = 0 <=> self.minTime = Infinite

Day == Units[1] * Units[2] * Units[3] * Units[4]

(***************************************************************************)
(* A time that is taken apart is whole: no part reaches the next unit, and *)
(* together they are the time; for the total, and for as much before the   *)
(* end of a day.                                                           *)
(***************************************************************************)
SpecIsWhole == \A time \in {self.totalTime, Day + 1 - self.totalTime} \cap Nat :
    LET s == RTTimer_micro2RTTimerSpec(time)
    IN  /\ s.microsecond < Units[1] /\ s.second < Units[2]
        /\ s.minute < Units[3] /\ s.hour < Units[4]
        /\ time = s.microsecond + Units[1] * (s.second + Units[2] *
                     (s.minute + Units[3] * (s.hour + Units[4] * s.day)))

(* The timer tells the time that ran, its statistics bound it, and a duration*)
(* is taken apart without a rest.                                            *)
TimerIsRight ==
    /\ TotalIsWhatRan
    /\ StatisticsFit
    /\ SpecIsWhole
=============================================================================
