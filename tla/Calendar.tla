------------------------------- MODULE Calendar -------------------------------
(***************************************************************************)
(* The calendar of ESCalendar.cpp and the dials of ESWatchTime.cpp that    *)
(* show it.  A day is its number, 0 for 1 January 2001; its date is in the *)
(* hybrid calendar: Julian up to 4 October 1582, Gregorian from the day    *)
(* after, 15 October.  The years before 1 CE are counted back, in era 0,   *)
(* from 1.  What a time zone adds is in TimeEnvironment.                   *)
(***************************************************************************)
EXTENDS Integers

Switchover == -152750   \* kECJulianGregorianSwitchoverTimeInterval
DaysInJulianCycle == 1461
DaysInGregorianCycle == 146097
DaysInNonLeapCentury == 36525

EraYear(signedYear) ==
  IF signedYear <= 0 THEN [era |-> 0, year |-> 1 - signedYear]
                     ELSE [era |-> 1, year |-> signedYear]

SignedYear(date) == IF date.era = 0 THEN 1 - date.year ELSE date.year

\* The months are counted from March, 3, to February, 14, of a year that begins
\* in March.
DaysBeforeMonth(monthI) == (153 * monthI - 457) \div 5

\* The date of day x0 of a year that begins in March.
DateInYear(signedYear, x0) ==
  LET monthI == (5 * x0 + 461) \div 153
      late   == monthI > 12
      ey     == EraYear(IF late THEN signedYear + 1 ELSE signedYear)
  IN [era |-> ey.era, year |-> ey.year,
      month |-> IF late THEN monthI - 12 ELSE monthI,
      day |-> x0 - DaysBeforeMonth(monthI) + 1]

JulianDate(x1) ==
  LET signedYear == (4 * x1 + 3) \div DaysInJulianCycle
  IN DateInYear(signedYear, x1 - (DaysInJulianCycle * signedYear) \div 4)

GregorianDate(x2) ==
  LET century == (4 * x2 + 3) \div DaysInGregorianCycle
      x1      == x2 - (DaysInGregorianCycle * century) \div 4
      yearWithinCentury == (100 * x1 + 99) \div DaysInNonLeapCentury
  IN DateInYear(100 * century + yearWithinCentury,
                x1 - (DaysInNonLeapCentury * yearWithinCentury) \div 100)

\* Mutant of Components: the switch is made at the new year.
Components_AtNewYear(day) ==
  IF day < Switchover + 78 THEN JulianDate(730793 + day) ELSE GregorianDate(730791 + day)

\* ESCalendar_UTCComponentsFromTimeInterval.
Components(day) ==
  IF day < Switchover THEN JulianDate(730793 + day) ELSE GregorianDate(730791 + day)

YearFromMarch(date) == IF date.month < 3 THEN SignedYear(date) - 1 ELSE SignedYear(date)

DayInYear(date) ==
  DaysBeforeMonth(IF date.month < 3 THEN date.month + 12 ELSE date.month) + date.day

JulianDayNumber(date) == (DaysInJulianCycle * YearFromMarch(date)) \div 4 + DayInYear(date)

GregorianDayNumber(date) ==
  LET c == YearFromMarch(date) \div 100
      x == YearFromMarch(date) - 100 * c
  IN (DaysInGregorianCycle * c) \div 4 + (DaysInNonLeapCentury * x) \div 100 + DayInYear(date)

\* Mutant of IsGregorian: the first day of the new calendar is not.
IsGregorian_Later(date) ==
  /\ date.era = 1
  /\ \/ date.year > 1582
     \/ date.year = 1582 /\ (date.month > 10 \/ (date.month = 10 /\ date.day > 15))

\* The test that decides between the formulas.
IsGregorian(date) ==
  /\ date.era = 1
  /\ \/ date.year > 1582
     \/ date.year = 1582 /\ (date.month > 10 \/ (date.month = 10 /\ date.day >= 15))

\* ESCalendar_timeIntervalFromUTCComponents.
DayNumber(date) ==
  IF IsGregorian(date) THEN GregorianDayNumber(date) - 730792
                       ELSE JulianDayNumber(date) - 730794

\* ESCalendar_hybridToGregorian and back.
HybridToGregorian(date) ==
  IF IsGregorian(date) THEN date ELSE GregorianDate(JulianDayNumber(date) - 3)

GregorianToHybrid(date) ==
  IF IsGregorian(date) THEN date ELSE JulianDate(GregorianDayNumber(date) + 1)

-----------------------------------------------------------------------------
(* Months and years later. *)

ThirtyDays == {4, 6, 9, 11}

\* ESCalendar_daysInMonth.
DaysInMonth(era, year, month) ==
  LET First(m) == DayNumber([era |-> era, year |-> year, month |-> m, day |-> 1])
  IN CASE month = 2 -> First(3) - First(2)
       [] month \in ThirtyDays -> 30
       [] OTHER -> 31

\* Mutant of AddMonths: the day is kept.
AddMonths_AnyDay(date, months) ==
  LET count == 12 * SignedYear(date) + date.month - 1 + months
      ey    == EraYear(count \div 12)
  IN [date EXCEPT !.era = ey.era, !.year = ey.year, !.month = (count % 12) + 1]

\* ESCalendar_addMonthsToTimeInterval.
AddMonths(date, months) ==
  LET count == 12 * SignedYear(date) + date.month - 1 + months
      ey    == EraYear(count \div 12)
      month == (count % 12) + 1
      last  == DaysInMonth(ey.era, ey.year, month)
  IN [era |-> ey.era, year |-> ey.year, month |-> month,
      day |-> IF date.day > last THEN last ELSE date.day]

\* ESCalendar_addYearsToTimeInterval.
AddYears(date, years) ==
  LET ey == EraYear(SignedYear(date) + years)
  IN [date EXCEPT !.era = ey.era, !.year = ey.year]

-----------------------------------------------------------------------------
(* Weeks. *)

\* ESCalendar_UTCWeekdayFromTimeInterval: Sunday is 0.
Weekday(day) == (day + 1) % 7

FirstOfYear(signedYear) ==
  LET ey == EraYear(signedYear)
  IN DayNumber([era |-> ey.era, year |-> ey.year, month |-> 1, day |-> 1])

\* Mutant of FirstOfWeeks: a week counts in the year of its Friday.
FirstOfWeeks_Friday(signedYear, weekStartDay, useISO8601) ==
  LET jan1    == FirstOfYear(signedYear)
      weekday == Weekday(jan1)
  IN IF useISO8601
     THEN jan1 + (IF weekday = 0 \/ weekday > 5 THEN (8 - weekday) % 7 ELSE 1 - weekday)
     ELSE jan1 - ((weekday + 7 - weekStartDay) % 7)

\* The first day of the first week: with ISO 8601 the week of the first
\* Thursday, else the week of 1 January.
FirstOfWeeks(signedYear, weekStartDay, useISO8601) ==
  LET jan1    == FirstOfYear(signedYear)
      weekday == Weekday(jan1)
  IN IF useISO8601
     THEN jan1 + (IF weekday = 0 \/ weekday >= 5 THEN (8 - weekday) % 7 ELSE 1 - weekday)
     ELSE jan1 - ((weekday + 7 - weekStartDay) % 7)

\* The days at the end of December that are in the first week of a year.
InNextYear(day) ==
  LET date  == Components(day)
      dec31 == (Weekday(day) + 31 - date.day) % 7
  IN date.month = 12 /\ date.day >= 29 /\ dec31 \in 1 .. 3 /\ dec31 + date.day >= 32

\* ESWatchTime::weekOfYearNumberUsingEnv.
WeekOfYear(day, weekStartDay, useISO8601) ==
  LET year     == SignedYear(Components(day))
      first    == FirstOfWeeks(year, weekStartDay, useISO8601)
      previous == FirstOfWeeks(year - 1, weekStartDay, useISO8601)
  IN IF useISO8601 /\ InNextYear(day) THEN 0
     ELSE (day - (IF day >= first THEN first ELSE previous)) \div 7
=============================================================================
