------------------------------- MODULE WatchTime -------------------------------
(***************************************************************************)
(* A watch (ESWatchTime.cpp): a time of its own, at a multiple of the      *)
(* corrected time, or stopped; set forward and back to midnights, months   *)
(* and years of a time zone; latched while its hands are drawn.            *)
(*                                                                         *)
(* Its time is y = mx + b.  A warp m is counted in quarters, the corrected *)
(* time x therefore in units of four ticks of the watch's time y.          *)
(***************************************************************************)
EXTENDS TimeEnvironment, Sequences

CONSTANTS
  Cycles,     \* the cycles with a warp, from the fastest backward
  Warps,      \* their warps, warpValuesForCycle
  Minute,     \* in ticks
  Gap,        \* kESWatchTimeAdvanceGap
  Earliest,   \* ESMinimumSupportedAstroDate
  Latest,     \* ESMaximumSupportedAstroDate
  Starts,     \* the times that a watch is first set to
  Skews,      \* the skews of the corrected time
  MaxNow,     \* bound: the continuous clock stops here
  MaxOps      \* bound: operations on the watch

Normal == 4

ASSUME WatchAssumption ==
  /\ Cycles \in Seq(STRING) /\ Warps \in Seq(Int) /\ Len(Cycles) = Len(Warps)
  /\ \A i, j \in DOMAIN Cycles : Cycles[i] = Cycles[j] => i = j
  /\ {"Normal", "Reverse", "ReverseSlow1"} \subseteq {Cycles[i] : i \in DOMAIN Cycles}
  /\ \A i \in DOMAIN Cycles : Cycles[i] # "Paused"
  /\ Minute \in Nat \ {0} /\ Hour % Minute = 0
  /\ Gap \in Nat \ {0} /\ 2 * (Gap + 1) < Hour
  /\ \E i \in DOMAIN Cycles : Cycles[i] = "Normal" /\ Warps[i] = Normal
  /\ \A i \in DOMAIN Warps : Warps[i] # 0
  /\ Earliest \in Int /\ Latest \in Int /\ Starts \subseteq Int /\ Skews \subseteq Int

VARIABLES
  now,              \* the continuous clock
  skew,             \* of the corrected time
  warp,             \* _warp
  warpBeforeFreeze, \* _warpBeforeFreeze
  zero,             \* _ourTimeAtCorrectedZero
  cycle,            \* _cycle
  latched,          \* _latched
  latchTime,        \* _latchCorrectedTime
  ops               \* the operations so far

clockVars == <<now, skew>>
watchVars == <<warp, warpBeforeFreeze, zero, cycle>>
latchVars == <<latched, latchTime>>
vars == <<clockVars, watchVars, latchVars, ops, envVars>>

-----------------------------------------------------------------------------

CorrectedTime == now + skew

\* y = mx + b.
WatchTime(m, b) == IF m # 0 THEN m * CorrectedTime + b ELSE b

\* currentTime, after an operation has set the latter two.
TimeWith(m, b) == IF latched > 0 THEN latchTime ELSE WatchTime(m, b)

CurrentTime == TimeWith(warp, zero)

-----------------------------------------------------------------------------
(* Speed. *)

\* cycleFromWarp finds none of the cycles: its inner test is never true.
CycleFromWarp(m) == IF m = 0 THEN "Paused" ELSE "Other"

WarpOf(c) == Warps[CHOOSE i \in DOMAIN Cycles : Cycles[i] = c]

\* nextCycleForFF and nextCycleForRewind.
NextCycleForFF(c) ==
  IF \E i \in 1 .. Len(Cycles) - 1 : Cycles[i] = c
  THEN Cycles[1 + CHOOSE i \in DOMAIN Cycles : Cycles[i] = c]
  ELSE "Normal"

NextCycleForRewind(c) ==
  CASE \E i \in 2 .. Len(Cycles) : Cycles[i] = c ->
         Cycles[(CHOOSE i \in DOMAIN Cycles : Cycles[i] = c) - 1]
    [] c = "Paused" -> "ReverseSlow1"
    [] OTHER -> "Reverse"

\* stop, which takes the latched time.
StopWatch ==
  IF warp = 0 THEN UNCHANGED watchVars
  ELSE /\ zero' = CurrentTime
       /\ warpBeforeFreeze' = warp
       /\ warp' = 0 /\ cycle' = "Paused"

\* start.
StartWatch ==
  IF warp # 0 THEN UNCHANGED watchVars
  ELSE LET m == IF warpBeforeFreeze = 0 THEN Normal ELSE warpBeforeFreeze
       IN /\ warpBeforeFreeze' = m /\ warp' = m
          /\ zero' = zero - CorrectedTime * m
          /\ cycle' = CycleFromWarp(m)

\* Mutant of ZeroAtWarp: the clock without its skew.
ZeroAtWarp_NoSkew(m) == zero + (warp - m) * now

\* What setWarp makes of b: yold = ynew.
ZeroAtWarp(m) == zero + (warp - m) * CorrectedTime

\* setWarp; its callers set the cycle.
SetWarp(m, c) ==
  /\ warp' = m /\ zero' = ZeroAtWarp(m)
  /\ cycle' = c
  /\ UNCHANGED warpBeforeFreeze

Operation == ops < MaxOps /\ ops' = ops + 1

Stop == Operation /\ StopWatch /\ UNCHANGED <<clockVars, latchVars, envVars>>
Start == Operation /\ StartWatch /\ UNCHANGED <<clockVars, latchVars, envVars>>

PausePlay ==
  /\ Operation
  /\ IF warp = 0 THEN SetWarp(Normal, "Normal") ELSE StopWatch
  /\ UNCHANGED <<clockVars, latchVars, envVars>>

SetSpeed(m) ==
  /\ Operation /\ SetWarp(m, CycleFromWarp(m))
  /\ UNCHANGED <<clockVars, latchVars, envVars>>

CycleFastForward ==
  /\ Operation /\ SetWarp(WarpOf(NextCycleForFF(cycle)), NextCycleForFF(cycle))
  /\ UNCHANGED <<clockVars, latchVars, envVars>>

CycleRewind ==
  /\ Operation /\ SetWarp(WarpOf(NextCycleForRewind(cycle)), NextCycleForRewind(cycle))
  /\ UNCHANGED <<clockVars, latchVars, envVars>>

\* reverse: the time jumps.
Reverse ==
  /\ Operation
  /\ warp' = - warp /\ warpBeforeFreeze' = - warpBeforeFreeze
  /\ UNCHANGED <<clockVars, zero, cycle, latchVars, envVars>>

-----------------------------------------------------------------------------
(* Setting. *)

\* checkAndConstrainAbsoluteTime, on a watch whose b is now this one: a running
\* watch stops where it is.
SetConstrained(b) ==
  LET t == TimeWith(warp, b)
      out == t <= Earliest \/ t >= Latest
  IN /\ warp' = IF out THEN 0 ELSE warp
     /\ zero' = CASE out /\ warp # 0 -> t
                  [] t <= Earliest /\ warp = 0 -> Earliest
                  [] t >= Latest /\ warp = 0 -> Latest
                  [] OTHER -> b
     /\ warpBeforeFreeze' = IF out /\ warp # 0 THEN warp ELSE warpBeforeFreeze
     /\ cycle' = IF out /\ warp # 0 THEN "Paused" ELSE cycle

\* advanceBySeconds and what ends with a b that is so much larger.
AdvanceBySeconds(seconds) ==
  /\ Operation /\ SetConstrained(zero + seconds)
  /\ UNCHANGED <<clockVars, latchVars, envVars>>

\* advanceByDays, advanceByMonths, advanceByYears.
AdvanceByDays(n) == AdvanceBySeconds(AddDaysTo(estz, CurrentTime, n) - CurrentTime)
AdvanceByMonths(n) == AdvanceBySeconds(AddMonthsTo(estz, CurrentTime, n) - CurrentTime)
AdvanceByYears(n) == AdvanceBySeconds(AddYearsTo(estz, CurrentTime, n) - CurrentTime)

\* Mutant of PreAdvanceForNext: a watch that stands at the gap stays there.
PreAdvanceForNext_AtGap(t, interval) ==
  IF warp >= 0 THEN t + Gap ELSE t + interval \div 2

\* preAdvanceForNextAtTime and preAdvanceForPrevAtTime.
PreAdvanceForNext(t, interval) ==
  IF warp >= 0 THEN t + Gap + 1 ELSE t + interval \div 2
PreAdvanceForPrev(t, interval) ==
  IF warp >= 0 THEN t - interval \div 2 ELSE t - Gap - 1

OffsetAfterJump == IF warp >= 0 THEN - Gap ELSE Gap

\* onEvenTime and onEvenTimeBack.
OnEvenTime(t, interval) == - ((- t) \div interval) * interval
OnEvenTimeBack(t, interval) == (t \div interval) * interval

\* advanceToNextInterval and advanceToPrevInterval.
AdvanceToNextInterval(interval) ==
  LET local == LocalTime(estz, CurrentTime)
  IN AdvanceBySeconds(OnEvenTime(PreAdvanceForNext(local, interval), interval)
                        + OffsetAfterJump - local)

AdvanceToPrevInterval(interval) ==
  LET local == LocalTime(estz, CurrentTime)
  IN AdvanceBySeconds(OnEvenTimeBack(PreAdvanceForPrev(local, interval), interval)
                        + OffsetAfterJump - local)

\* The interval of the months and years.
FifteenDays == 15 * Day

FirstOfMonth(t) == FromLocalDate(estz, [LocalDate(estz, t) EXCEPT !.day = 1], 0)
FirstOfYearAt(t) ==
  FromLocalDate(estz, [LocalDate(estz, t) EXCEPT !.day = 1, !.month = 1], 0)

AdvanceTo(t) == AdvanceBySeconds(t - CurrentTime + OffsetAfterJump)

\* advanceToNextMonthUsingEnv to advanceToPrevYearUsingEnv; the last looks
\* forward first, too.
AdvanceToNextMonth ==
  AdvanceTo(AddMonthsTo(estz, FirstOfMonth(PreAdvanceForNext(CurrentTime, FifteenDays)), 1))
AdvanceToPrevMonth ==
  AdvanceTo(FirstOfMonth(PreAdvanceForPrev(CurrentTime, FifteenDays)))
AdvanceToNextYear ==
  AdvanceTo(AddYearsTo(estz, FirstOfYearAt(PreAdvanceForNext(CurrentTime, FifteenDays)), 1))
AdvanceToPrevYear ==
  AdvanceTo(FirstOfYearAt(PreAdvanceForNext(CurrentTime, FifteenDays)))

YearCycles == {"FF6", "ReverseFF6"}
MonthCycles == {"FF5", "ReverseFF5"}
HourCycles == {"FF2", "ReverseFF2"}
MinuteCycles == {"FF1", "ReverseFF1"}
SecondCycles == {"Slow1", "ReverseSlow1"}

\* advanceToNextUsingEnv and advanceToPreviousUsingEnv.
AdvanceToNext ==
  CASE cycle \in YearCycles -> AdvanceToNextYear
    [] cycle \in MonthCycles -> AdvanceToNextMonth
    [] cycle \in HourCycles -> AdvanceToNextInterval(Hour)
    [] cycle \in MinuteCycles -> AdvanceToNextInterval(Minute)
    [] cycle \in SecondCycles -> AdvanceToNextInterval(1)
    [] OTHER -> AdvanceToNextInterval(Day)

AdvanceToPrevious ==
  CASE cycle \in YearCycles -> AdvanceToPrevYear
    [] cycle \in MonthCycles -> AdvanceToPrevMonth
    [] cycle \in HourCycles -> AdvanceToPrevInterval(Hour)
    [] cycle \in MinuteCycles -> AdvanceToPrevInterval(Minute)
    [] cycle \in SecondCycles -> AdvanceToPrevInterval(1)
    [] OTHER -> AdvanceToPrevInterval(Day)

\* setToFrozenDateInterval.
SetToFrozenDateInterval(t) ==
  /\ Operation
  /\ warp' = 0 /\ cycle' = "Paused"
  /\ zero' = CASE TimeWith(0, t) <= Earliest -> Earliest
               [] TimeWith(0, t) >= Latest -> Latest
               [] OTHER -> t
  /\ UNCHANGED <<clockVars, warpBeforeFreeze, latchVars, envVars>>

\* resetToLocal.
ResetToLocal ==
  /\ Operation
  /\ zero' = 0 /\ warp' = Normal /\ cycle' = "Normal"
  /\ UNCHANGED <<clockVars, warpBeforeFreeze, latchVars, envVars>>

-----------------------------------------------------------------------------
(* Showing. *)

\* latchTimeForBeatsPerSecond and unlatchTime, which may be nested.
Latch ==
  /\ Operation
  /\ latched' = latched + 1 /\ latchTime' = CurrentTime
  /\ UNCHANGED <<clockVars, watchVars, envVars>>

Unlatch ==
  /\ latched > 0 /\ latched' = latched - 1
  /\ UNCHANGED <<clockVars, watchVars, latchTime, ops, envVars>>

\* secondsSinceMidnightValueUsingEnv.
ShowHands ==
  /\ MidnightForTimeInterval(CurrentTime)
  /\ UNCHANGED <<clockVars, watchVars, latchVars, ops, estz>>

ChangeZone ==
  /\ \E zone \in Zones : SetTimeZone(zone)
  /\ Operation
  /\ UNCHANGED <<clockVars, watchVars, latchVars>>

Tick ==
  /\ now < MaxNow /\ now' = now + 1
  /\ UNCHANGED <<skew, watchVars, latchVars, ops, envVars>>

Synchronize ==
  /\ \E s \in Skews \ {skew} : skew' = s
  /\ Operation
  /\ UNCHANGED <<now, watchVars, latchVars, envVars>>

Init ==
  /\ EnvInit
  /\ now = 0 /\ skew \in Skews
  /\ warp = 0 /\ cycle = "Paused" /\ warpBeforeFreeze = 0
  /\ zero \in Starts
  /\ latched = 0 /\ latchTime = 0
  /\ ops = 0

\* What changes the speed.
ChangeSpeed ==
  \/ Stop \/ Start \/ PausePlay \/ CycleFastForward \/ CycleRewind
  \/ \E i \in DOMAIN Warps : SetSpeed(Warps[i])

\* What sets the date.
AdvanceDate(n) == AdvanceByDays(n) \/ AdvanceByMonths(n) \/ AdvanceByYears(n)

Next ==
  \/ ChangeSpeed \/ Reverse
  \/ AdvanceToNext \/ AdvanceToPrevious
  \/ \E n \in {-1, 1} : AdvanceDate(n)
  \/ \E t \in Starts : SetToFrozenDateInterval(t)
  \/ ResetToLocal \/ Latch \/ Unlatch \/ ShowHands \/ ChangeZone
  \/ Tick \/ Synchronize

Spec == Init /\ [][Next]_vars

-----------------------------------------------------------------------------
(* Properties. *)

Unlatched == latched = 0

\* Whatever changes the speed of a watch, stops or starts it does not change
\* what it shows.
SpeedKeepsTheTime ==
  [][ChangeSpeed /\ Unlatched => CurrentTime' = CurrentTime]_vars

\* A stopped watch is held at the first and the last supported times.
Held == CurrentTime \in {Earliest, Latest}

\* The next point is later and the previous one is earlier, however often a
\* user goes on; but for the previous year, which looks forward first.
PointsFollow ==
  [][Unlatched /\ warp' = warp /\ ~ Held' =>
       /\ AdvanceToNext => CurrentTime' > CurrentTime
       /\ AdvanceToPrevious /\ cycle \notin YearCycles => CurrentTime' < CurrentTime]_vars

\* The time of day of another time, on the day of this one.
ClockOn(t, other) == LocalTime(estz, t) - SinceMidnight(estz, t) + SinceMidnight(estz, other)

\* A day, a month or a year later or earlier it is the same time of day, on the
\* days of a change of the zone's offset as well, if the day has that time.
ClockIsKept ==
  [][\A n \in {-1, 1} :
       /\ Unlatched /\ AdvanceDate(n) /\ ~ Held'
       /\ ~ Skipped(estz, ClockOn(CurrentTime', CurrentTime))
       => SinceMidnight(estz, CurrentTime') = SinceMidnight(estz, CurrentTime)]_vars
=============================================================================
