--------------------------------- MODULE Dates --------------------------------
(***************************************************************************)
(* A date that is set forward and back by days, months and years, as a     *)
(* user does with a watch, in a zone without an offset.                    *)
(***************************************************************************)
EXTENDS Calendar

CONSTANTS
  Periods, \* bound: the first and last days of the periods looked at
  Steps    \* bound: the months and years to add

ASSUME PeriodsAssumption == \A p \in Periods : p[1] \in Int /\ p[2] \in Int
ASSUME StepsAssumption == Steps \subseteq Int

VARIABLE today

Tomorrow == today' = today + 1

\* ESWatchTime::advanceByMonths and advanceByYears, for a zone without offset.
AdvanceByMonths(n) == today' = DayNumber(AddMonths(Components(today), n))
AdvanceByYears(n) == today' = DayNumber(AddYears(Components(today), n))

Init == \E p \in Periods : today = p[1]

Next ==
  /\ \/ Tomorrow
     \/ \E n \in Steps : AdvanceByMonths(n) \/ AdvanceByYears(n)
  /\ \E p \in Periods : today' \in p[1] .. p[2]

Spec == Init /\ [][Next]_today

-----------------------------------------------------------------------------
(* Properties. *)

\* The calendars by their rules: the lengths of the months, the leap years.
LeapYear(signedYear, gregorian) ==
  IF gregorian
  THEN signedYear % 4 = 0 /\ (signedYear % 100 # 0 \/ signedYear % 400 = 0)
  ELSE signedYear % 4 = 0

LastDay(date, gregorian) ==
  CASE date.month = 2 -> IF LeapYear(SignedYear(date), gregorian) THEN 29 ELSE 28
    [] date.month \in ThirtyDays -> 30
    [] OTHER -> 31

DayAfter(date, gregorian) ==
  LET ey == EraYear(SignedYear(date) + 1)
  IN CASE date.day < LastDay(date, gregorian) -> [date EXCEPT !.day = @ + 1]
       [] date.month < 12 /\ date.day = LastDay(date, gregorian) ->
            [date EXCEPT !.month = @ + 1, !.day = 1]
       [] OTHER -> [era |-> ey.era, year |-> ey.year, month |-> 1, day |-> 1]

\* The hybrid calendar skips ten days.
HybridDayAfter(date) ==
  IF date = [era |-> 1, year |-> 1582, month |-> 10, day |-> 4]
  THEN [date EXCEPT !.day = 15]
  ELSE DayAfter(date, IsGregorian(date))

\* Every day has the date after that of the day before, in the hybrid and, as
\* converted, in the Gregorian calendar: through leap years, the reform, the
\* change of the era.
DatesFollow ==
  LET date == Components(today)
      next == Components(today + 1)
  IN /\ next = HybridDayAfter(date)
     /\ HybridToGregorian(next) = DayAfter(HybridToGregorian(date), TRUE)

\* A date is converted to the day that it was made from, and so is the
\* Gregorian one.
DatesComeBack ==
  LET date == Components(today)
  IN DayNumber(date) = today /\ GregorianToHybrid(HybridToGregorian(date)) = date

\* The days that the reform has skipped are no dates.
Skipped(date) ==
  date.era = 1 /\ date.year = 1582 /\ date.month = 10 /\ date.day \in 5 .. 14

\* Some months later it is the same day, or the last one of the month, of
\* exactly the month that many months later.
MonthsAreKept ==
  \A n \in Steps :
    LET date  == Components(today)
        later == AddMonths(date, n)
        shown == Components(DayNumber(later))
    IN Skipped(later) \/
         /\ 12 * SignedYear(shown) + shown.month = 12 * SignedYear(date) + date.month + n
         /\ \/ shown.day = date.day
            \/ shown.day < date.day /\ shown.day = LastDay(shown, IsGregorian(shown))

\* Some years later it is the same day, or 1 March of a year without the leap
\* day.
YearsLand ==
  \A n \in Steps :
    LET date  == Components(today)
        later == AddYears(date, n)
        shown == Components(DayNumber(later))
    IN Skipped(later) \/
         IF date.day > LastDay(later, IsGregorian(later))
         THEN shown = [later EXCEPT !.month = 3, !.day = 1] ELSE shown = later

\* Setting the date lands on the day that a user expects.
StepsLand == MonthsAreKept /\ YearsLand

\* An ISO week belongs to the year of its Thursday, and is numbered from 0.
Thursday(day) == day - ((Weekday(day) + 6) % 7) + 3

WeeksAreISO ==
  LET thursday == Thursday(today)
      jan1     == FirstOfYear(SignedYear(Components(thursday)))
  IN WeekOfYear(today, 1, TRUE) = (thursday - jan1) \div 7

\* With any other first day of the week the number begins with the year, and
\* grows on just that day.
WeeksFollow ==
  \A start \in 0 .. 6 :
    LET tomorrow == today + 1
    IN WeekOfYear(tomorrow, start, FALSE) =
         CASE tomorrow = FirstOfYear(SignedYear(Components(tomorrow))) -> 0
           [] tomorrow # FirstOfYear(SignedYear(Components(tomorrow))) /\ Weekday(tomorrow) = start
                -> WeekOfYear(today, start, FALSE) + 1
           [] OTHER -> WeekOfYear(today, start, FALSE)

WeeksAreRight == WeeksAreISO /\ WeeksFollow

\* "keeping month and day the same, unless it was Feb 29, in which case move
\* back to Feb 28" (advanceByYears in ESWatchTime.hpp).  The code does not:
\* addYearsToTimeInterval moves on to 1 March.
YearsAreKept ==
  \A n \in Steps :
    LET date  == Components(today)
        later == AddYears(date, n)
        shown == Components(DayNumber(later))
    IN Skipped(later) \/
         /\ SignedYear(shown) = SignedYear(date) + n
         /\ shown.month = date.month
=============================================================================
