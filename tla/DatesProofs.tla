----------------------------- MODULE DatesProofs ------------------------------
(***************************************************************************)
(* Proofs about the calendar, for every day there is: the date made of a   *)
(* day number is converted to that number again, on both sides of the      *)
(* reform and of the change of the era.                                    *)
(***************************************************************************)
EXTENDS Dates, TLAPS

-----------------------------------------------------------------------------
(* The year that begins in March. *)

\* A signed year is the era and the year, and back.
LEMMA EraYearBack ==
  ASSUME NEW s \in Int
  PROVE  /\ SignedYear(EraYear(s)) = s
         /\ EraYear(s).era = 1 <=> s > 0
         /\ EraYear(s).era = 1 => EraYear(s).year = s
         /\ EraYear(s).era \in {0, 1} /\ EraYear(s).year \in Int
  BY SMT DEF EraYear, SignedYear

\* The days of such a year, and the month that a day is in, 3 to 14.
YearDays == 0 .. 365
MonthOfDay(x) == (5 * x + 461) \div 153

LEMMA MonthRange ==
  ASSUME NEW x \in YearDays
  PROVE  MonthOfDay(x) \in 3 .. 14 /\ DaysBeforeMonth(MonthOfDay(x)) \in 0 .. x
  BY SMT DEF DaysBeforeMonth, MonthOfDay, YearDays

\* The parts of the date of a day in a year that begins in March.
LEMMA DateInYearParts ==
  ASSUME NEW s \in Int, NEW x \in YearDays, NEW d, d = DateInYear(s, x)
  PROVE  /\ SignedYear(d) = IF MonthOfDay(x) > 12 THEN s + 1 ELSE s
         /\ d.month = IF MonthOfDay(x) > 12 THEN MonthOfDay(x) - 12 ELSE MonthOfDay(x)
         /\ d.day = x - DaysBeforeMonth(MonthOfDay(x)) + 1
         /\ d.era = 1 <=> SignedYear(d) > 0
         /\ d.era = 1 => d.year = SignedYear(d)
<1> DEFINE m == MonthOfDay(x)
           t == IF m > 12 THEN s + 1 ELSE s
<1>1. d = [era |-> EraYear(t).era, year |-> EraYear(t).year,
           month |-> IF m > 12 THEN m - 12 ELSE m, day |-> x - DaysBeforeMonth(m) + 1]
  BY DEF DateInYear, MonthOfDay
<1>2. t \in Int
  BY SMT
<1> HIDE DEF t
<1>3. d.era = EraYear(t).era /\ d.year = EraYear(t).year
  BY <1>1
<1>4. d.month = (IF m > 12 THEN m - 12 ELSE m) /\ d.day = x - DaysBeforeMonth(m) + 1
  BY <1>1
<1>5. SignedYear(d) = SignedYear(EraYear(t))
  BY <1>3 DEF SignedYear
<1>6. SignedYear(d) = t
  BY <1>2, <1>5, EraYearBack
<1>7. (d.era = 1 <=> t > 0) /\ (d.era = 1 => d.year = t)
  BY <1>2, <1>3, EraYearBack
<1> QED BY <1>4, <1>6, <1>7 DEF t

\* The formulas of DayInYear and YearFromMarch take such a date apart again.
LEMMA DateInYearBack ==
  ASSUME NEW s \in Int, NEW x \in YearDays, NEW d, d = DateInYear(s, x)
  PROVE  YearFromMarch(d) = s /\ DayInYear(d) = x + 1
<1>0. MonthOfDay(x) \in 3 .. 14 /\ DaysBeforeMonth(MonthOfDay(x)) \in 0 .. x
  BY MonthRange
<1>1. MonthOfDay(x) \in 3 .. 14 /\ DaysBeforeMonth(MonthOfDay(x)) \in Int /\ x \in Int
  BY <1>0, SMT DEF YearDays
<1>2. /\ SignedYear(d) = IF MonthOfDay(x) > 12 THEN s + 1 ELSE s
      /\ d.month = IF MonthOfDay(x) > 12 THEN MonthOfDay(x) - 12 ELSE MonthOfDay(x)
      /\ d.day = x - DaysBeforeMonth(MonthOfDay(x)) + 1
  BY DateInYearParts
<1>3. YearFromMarch(d) = s
  BY <1>1, <1>2, SMT DEF YearFromMarch
<1>4. (IF d.month < 3 THEN d.month + 12 ELSE d.month) = MonthOfDay(x)
  BY <1>1, <1>2, SMT
<1>5. DayInYear(d) = DaysBeforeMonth(MonthOfDay(x)) + d.day
  BY <1>4 DEF DayInYear
<1>6. DayInYear(d) = x + 1
  BY <1>1, <1>2, <1>5, SMT
<1> QED BY <1>3, <1>6

-----------------------------------------------------------------------------
(* The two calendars. *)

\* The year of a day in the Julian calendar, its first day, and the day in it,
\* as JulianDate computes them.
JulianYear(x) == (4 * x + 3) \div DaysInJulianCycle
JulianYearFirst(x) == (DaysInJulianCycle * JulianYear(x)) \div 4
JulianYearDay(x) == x - JulianYearFirst(x)

LEMMA JulianArithmetic ==
  ASSUME NEW x \in Int
  PROVE  /\ JulianYear(x) \in Int /\ JulianYearFirst(x) \in Int
         /\ JulianYearDay(x) \in YearDays /\ x = JulianYearDay(x) + JulianYearFirst(x)
<1>1. /\ JulianYear(x) \in Int /\ JulianYearFirst(x) \in Int
      /\ JulianYearDay(x) \in YearDays
  BY SMT DEF JulianYear, JulianYearFirst, JulianYearDay, DaysInJulianCycle, YearDays
<1> QED BY <1>1, SMT DEF JulianYearDay, YearDays

LEMMA JulianParts ==
  ASSUME NEW x
  PROVE  JulianDate(x) = DateInYear(JulianYear(x), JulianYearDay(x))
  BY DEF JulianDate, JulianYear, JulianYearFirst, JulianYearDay

LEMMA JulianBack ==
  ASSUME NEW x \in Int PROVE JulianDayNumber(JulianDate(x)) = x + 1
<1>1. /\ JulianYear(x) \in Int /\ JulianYearFirst(x) \in Int
      /\ JulianYearDay(x) \in YearDays /\ x = JulianYearDay(x) + JulianYearFirst(x)
  BY JulianArithmetic
<1>2. /\ YearFromMarch(JulianDate(x)) = JulianYear(x)
      /\ DayInYear(JulianDate(x)) = JulianYearDay(x) + 1
  BY <1>1, JulianParts, DateInYearBack
<1>3. JulianDayNumber(JulianDate(x)) = JulianYearFirst(x) + (JulianYearDay(x) + 1)
  BY <1>2 DEF JulianDayNumber, JulianYearFirst
<1> QED BY <1>1, <1>3, SMT DEF YearDays

\* The days of a century; the century of a day, the day in it, the year in the century, and the day in
\* that year, as GregorianDate computes them.
CenturyDays == {y \in Int : 0 <= y /\ y <= 36524}
Century(x) == (4 * x + 3) \div DaysInGregorianCycle
CenturyFirst(x) == (DaysInGregorianCycle * Century(x)) \div 4
CenturyDay(x) == x - CenturyFirst(x)
CenturyYear(x) == (100 * CenturyDay(x) + 99) \div DaysInNonLeapCentury
YearFirst(x) == (DaysInNonLeapCentury * CenturyYear(x)) \div 100
YearDay(x) == CenturyDay(x) - YearFirst(x)

LEMMA CenturyDaysRange ==
  ASSUME NEW y \in CenturyDays PROVE y \in Int /\ 0 <= y /\ y <= 36524
  BY SMT DEF CenturyDays

\* What is left of a number when a fraction of it is taken away, with both
\* divisions rounded down.
LEMMA CenturyRange ==
  ASSUME NEW x \in Int, NEW c \in Int, NEW q \in Int,
         146097 * c <= 4 * x + 3, 4 * x + 3 < 146097 * c + 146097,
         4 * q <= 146097 * c, 146097 * c < 4 * q + 4
  PROVE  x - q >= 0 /\ x - q <= 36524
  BY SMT

LEMMA CenturyArithmetic ==
  ASSUME NEW x \in Int
  PROVE  /\ Century(x) \in Int /\ CenturyFirst(x) \in Int
         /\ CenturyDay(x) \in CenturyDays /\ x = CenturyDay(x) + CenturyFirst(x)
<1>1. PICK c \in Int :
        /\ c = Century(x) /\ 146097 * c <= 4 * x + 3 /\ 4 * x + 3 < 146097 * c + 146097
  <2>1. PICK c \in Int : c = (4 * x + 3) \div 146097
    BY SMT
  <2>2. 146097 * c <= 4 * x + 3 /\ 4 * x + 3 < 146097 * c + 146097
    BY <2>1, SMT
  <2>3. c = Century(x)
    BY <2>1, SMT DEF Century, DaysInGregorianCycle
  <2> QED BY <2>2, <2>3, SMT
<1>2. PICK q \in Int :
        q = CenturyFirst(x) /\ 4 * q <= 146097 * c /\ 146097 * c < 4 * q + 4
  <2>1. PICK q \in Int : q = (146097 * c) \div 4
    BY SMT
  <2>2. 4 * q <= 146097 * c /\ 146097 * c < 4 * q + 4
    BY <2>1, SMT
  <2>3. q = CenturyFirst(x)
    BY <1>1, <2>1, SMT DEF CenturyFirst, DaysInGregorianCycle
  <2> QED BY <2>2, <2>3, SMT
<1>3. x - q >= 0 /\ x - q <= 36524
  <2>1. /\ 146097 * c <= 4 * x + 3 /\ 4 * x + 3 < 146097 * c + 146097
        /\ 4 * q <= 146097 * c /\ 146097 * c < 4 * q + 4
    BY <1>1, <1>2
  <2> QED BY <2>1, SMT
<1>4. x - q \in CenturyDays /\ x = (x - q) + q
  BY <1>3, SMT DEF CenturyDays
<1>5. c = Century(x) /\ q = CenturyFirst(x)
  BY <1>1, <1>2, SMT
<1> QED BY <1>4, <1>5, Zenon DEF CenturyDay

LEMMA YearRange ==
  ASSUME NEW y \in Int, NEW w \in Int, NEW q \in Int,
         36525 * w <= 100 * y + 99, 100 * y + 99 < 36525 * w + 36525,
         100 * q <= 36525 * w, 36525 * w < 100 * q + 100
  PROVE  y - q >= 0 /\ y - q <= 365
  BY SMT

LEMMA CenturyYearRange ==
  ASSUME NEW y \in Int, 0 <= y, y <= 36524, NEW w \in Int,
         36525 * w <= 100 * y + 99, 100 * y + 99 < 36525 * w + 36525
  PROVE  w >= 0 /\ w <= 99
  BY SMT

LEMMA CenturyYears ==
  ASSUME NEW x \in Int
  PROVE  /\ CenturyYear(x) \in 0 .. 99 /\ YearFirst(x) \in Int /\ YearDay(x) \in YearDays
         /\ CenturyDay(x) = YearDay(x) + YearFirst(x)
<1>1. PICK y \in CenturyDays : y = CenturyDay(x)
  BY CenturyArithmetic
<1>2. y \in Int /\ 0 <= y /\ y <= 36524
  BY CenturyDaysRange
<1>3. PICK w \in Int :
        /\ w = CenturyYear(x)
        /\ 36525 * w <= 100 * y + 99 /\ 100 * y + 99 < 36525 * w + 36525
  <2>1. PICK w \in Int : w = (100 * y + 99) \div 36525
    BY <1>2, SMT
  <2>2. 36525 * w <= 100 * y + 99 /\ 100 * y + 99 < 36525 * w + 36525
    BY <1>2, <2>1, SMT
  <2>3. w = CenturyYear(x)
    BY <1>1, <2>1, SMT DEF CenturyYear, DaysInNonLeapCentury
  <2> QED BY <2>2, <2>3, SMT
<1>4. PICK q \in Int :
        q = YearFirst(x) /\ 100 * q <= 36525 * w /\ 36525 * w < 100 * q + 100
  <2>1. PICK q \in Int : q = (36525 * w) \div 100
    BY SMT
  <2>2. 100 * q <= 36525 * w /\ 36525 * w < 100 * q + 100
    BY <2>1, SMT
  <2>3. q = YearFirst(x)
    BY <1>3, <2>1, SMT DEF YearFirst, DaysInNonLeapCentury
  <2> QED BY <2>2, <2>3, SMT
<1>5. y - q >= 0 /\ y - q <= 365
  BY <1>2, <1>3, <1>4, YearRange, SMT
<1>6. w >= 0 /\ w <= 99
  BY <1>2, <1>3, CenturyYearRange, SMT
<1>7. w \in 0 .. 99 /\ y - q \in YearDays /\ y = (y - q) + q
  BY <1>2, <1>5, <1>6, SMT DEF YearDays
<1>8. w = CenturyYear(x) /\ q = YearFirst(x)
  BY <1>3, <1>4, SMT
<1> QED BY <1>1, <1>7, <1>8, Zenon DEF YearDay

LEMMA GregorianParts ==
  ASSUME NEW x
  PROVE  GregorianDate(x) = DateInYear(100 * Century(x) + CenturyYear(x), YearDay(x))
  BY DEF GregorianDate, Century, CenturyFirst, CenturyDay, CenturyYear, YearFirst, YearDay

\* The parts of a day are numbers that add up to it.
LEMMA GregorianSum ==
  ASSUME NEW x \in Int
  PROVE  /\ CenturyFirst(x) \in Int /\ YearFirst(x) \in Int /\ YearDay(x) \in 0 .. 365
         /\ x = (YearDay(x) + YearFirst(x)) + CenturyFirst(x)
         /\ YearDay(x) + YearFirst(x) \in CenturyDays
<1>1. CenturyFirst(x) \in Int /\ x = CenturyDay(x) + CenturyFirst(x)
      /\ CenturyDay(x) \in CenturyDays
  BY CenturyArithmetic
<1>2. YearFirst(x) \in Int /\ CenturyDay(x) = YearDay(x) + YearFirst(x)
      /\ YearDay(x) \in YearDays
  BY CenturyYears
<1> QED BY <1>1, <1>2 DEF YearDays

\* The year that a day is in, counted from March.
YearOf(x) == 100 * Century(x) + CenturyYear(x)

LEMMA YearOfParts ==
  ASSUME NEW x \in Int
  PROVE  /\ YearOf(x) \in Int /\ YearOf(x) \div 100 = Century(x)
         /\ YearOf(x) - 100 * Century(x) = CenturyYear(x)
<1>1. Century(x) \in Int
  BY CenturyArithmetic
<1>2. CenturyYear(x) \in 0 .. 99
  BY CenturyYears
<1> QED BY <1>1, <1>2, SMT DEF YearOf

LEMMA GregorianBack ==
  ASSUME NEW x \in Int PROVE GregorianDayNumber(GregorianDate(x)) = x + 1
<1>1. YearDay(x) \in YearDays
  BY CenturyYears
<1>2. /\ YearOf(x) \in Int /\ YearOf(x) \div 100 = Century(x)
      /\ YearOf(x) - 100 * Century(x) = CenturyYear(x)
  BY YearOfParts
<1>3. GregorianDate(x) = DateInYear(YearOf(x), YearDay(x))
  BY GregorianParts DEF YearOf
<1>4. /\ YearFromMarch(GregorianDate(x)) = YearOf(x)
      /\ DayInYear(GregorianDate(x)) = YearDay(x) + 1
  BY <1>1, <1>2, <1>3, DateInYearBack
<1>5. GregorianDayNumber(GregorianDate(x)) = CenturyFirst(x) + YearFirst(x) + (YearDay(x) + 1)
  BY <1>2, <1>4 DEF GregorianDayNumber, CenturyFirst, YearFirst
<1>6. /\ CenturyFirst(x) \in Int /\ YearFirst(x) \in Int /\ YearDay(x) \in 0 .. 365
      /\ x = (YearDay(x) + YearFirst(x)) + CenturyFirst(x)
  BY GregorianSum, SMT
<1> QED BY <1>5, <1>6, SMT

-----------------------------------------------------------------------------
(* Which side of the reform a date is on. *)

\* A date on or after 15 October 1582, by its signed year.
AfterReform(s, month, day) ==
  s > 1582 \/ (s = 1582 /\ (month > 10 \/ (month = 10 /\ day >= 15)))

LEMMA IsGregorianByYear ==
  ASSUME NEW s \in Int, NEW x \in YearDays, NEW d, d = DateInYear(s, x)
  PROVE  IsGregorian(d) <=> AfterReform(SignedYear(d), d.month, d.day)
<1>1. (d.era = 1 <=> SignedYear(d) > 0) /\ (d.era = 1 => d.year = SignedYear(d))
  BY DateInYearParts
<1>2. SignedYear(d) \in Int
  <2>1. SignedYear(d) = IF MonthOfDay(x) > 12 THEN s + 1 ELSE s
    BY DateInYearParts
  <2>2. s + 1 \in Int
    BY SMT
  <2> QED BY <2>1, <2>2
<1> QED BY <1>1, <1>2, SMT DEF IsGregorian, AfterReform

\* The same in years that begin in March: from day 228 of 1582 on.
FromReform(s, x) == s > 1582 \/ (s = 1582 /\ x >= 228)

LEMMA ReformInYear ==
  ASSUME NEW s \in Int, NEW x \in YearDays
  PROVE  IsGregorian(DateInYear(s, x)) <=> FromReform(s, x)
<1>1. PICK d : d = DateInYear(s, x)
  OBVIOUS
<1>2. PICK m \in 3 .. 14 : m = MonthOfDay(x)
  BY MonthRange
<1>3. /\ SignedYear(d) = IF m > 12 THEN s + 1 ELSE s
      /\ d.month = IF m > 12 THEN m - 12 ELSE m
      /\ d.day = x - DaysBeforeMonth(m) + 1
  BY <1>1, <1>2, DateInYearParts
<1>4. IsGregorian(d) <=> AfterReform(SignedYear(d), d.month, d.day)
  BY <1>1, IsGregorianByYear
<1>5. /\ x \in 0 .. 365
      /\ (m > 12 => x >= 306) /\ (m > 10 <=> x >= 245)
      /\ (m = 10 /\ x - 214 + 1 >= 15 <=> x >= 228 /\ x < 245)
  BY <1>2, SMT DEF MonthOfDay, YearDays
<1>6. m = 10 => d.day = x - 214 + 1
  <2>1. DaysBeforeMonth(10) = 214
    BY SMT DEF DaysBeforeMonth
  <2> QED BY <1>3, <2>1, SMT
<1>7. AfterReform(SignedYear(d), d.month, d.day) <=> FromReform(s, x)
  <2>1. CASE m > 12
    BY <1>3, <1>5, <2>1, SMT DEF AfterReform, FromReform
  <2>2. CASE m <= 12 /\ m # 10
    BY <1>3, <1>5, <2>2, SMT DEF AfterReform, FromReform
  <2>3. CASE m = 10
    BY <1>3, <1>5, <1>6, <2>3, SMT DEF AfterReform, FromReform
  <2> QED BY <2>1, <2>2, <2>3, SMT
<1> QED BY <1>1, <1>4, <1>7, Zenon

\* The first day after the reform in the years of the Julian calendar, and in
\* those of the Gregorian.
JulianReform == 578043
GregorianReform == 578041

LEMMA JulianSide ==
  ASSUME NEW x \in Int, x < JulianReform PROVE ~IsGregorian(JulianDate(x))
<1>1. /\ JulianYear(x) \in Int /\ JulianYearFirst(x) \in Int
      /\ JulianYearDay(x) \in YearDays /\ x = JulianYearDay(x) + JulianYearFirst(x)
  BY JulianArithmetic
<1>2. JulianYear(x) <= 1582
  BY SMT DEF JulianYear, DaysInJulianCycle, JulianReform
<1>3. JulianYear(x) = 1582 => JulianYearFirst(x) = 577825
  BY SMT DEF JulianYearFirst, DaysInJulianCycle
<1>4. ~FromReform(JulianYear(x), JulianYearDay(x))
  BY <1>1, <1>2, <1>3, SMT DEF FromReform, YearDays, JulianReform
<1> QED BY <1>1, <1>4, ReformInYear, JulianParts

\* A century after the fifteenth begins after the reform, one before ends
\* before it; and so for the years of the fifteenth.
LEMMA CenturyOfReform ==
  ASSUME NEW c \in Int, NEW q \in Int, q = (146097 * c) \div 4
  PROVE  /\ c >= 16 => q >= 584388
         /\ c <= 14 => q <= 511340
         /\ c = 15 => q = 547863
<1>1. 4 * q <= 146097 * c /\ 146097 * c < 4 * q + 4
  BY SMT
<1> QED BY <1>1, SMT

LEMMA YearOfReform ==
  ASSUME NEW w \in 0 .. 99, NEW p \in Int, p = (36525 * w) \div 100
  PROVE  /\ w >= 83 => p >= 30315
         /\ w <= 81 => p <= 29585
         /\ w = 82 => p = 29950
<1>1. 100 * p <= 36525 * w /\ 36525 * w < 100 * p + 100
  BY SMT
<1> QED BY <1>1, SMT

LEMMA YearsOfOtherCentury ==
  ASSUME NEW c \in Int, NEW w \in 0 .. 99, NEW r \in 0 .. 365, c # 15
  PROVE  FromReform(100 * c + w, r) <=> c > 15
  BY SMT DEF FromReform

LEMMA GregorianSide ==
  ASSUME NEW x \in Int
  PROVE  IsGregorian(GregorianDate(x)) <=> x >= GregorianReform
<1>1. PICK c \in Int, w \in 0 .. 99 : c = Century(x) /\ w = CenturyYear(x)
  BY CenturyArithmetic, CenturyYears
<1>2. PICK q \in Int, p \in Int, r \in 0 .. 365 :
        q = CenturyFirst(x) /\ p = YearFirst(x) /\ r = YearDay(x)
  BY GregorianSum
<1>3. x = (r + p) + q /\ r + p \in CenturyDays
  BY <1>2, GregorianSum
<1>4. /\ c >= 16 => q >= 584388
      /\ c <= 14 => q <= 511340
      /\ c = 15 => q = 547863
  <2>1. q = (146097 * c) \div 4
    BY <1>1, <1>2, SMT DEF CenturyFirst, DaysInGregorianCycle
  <2> QED BY <2>1, CenturyOfReform, SMT
<1>5. /\ w >= 83 => p >= 30315
      /\ w <= 81 => p <= 29585
      /\ w = 82 => p = 29950
  <2>1. p = (36525 * w) \div 100
    BY <1>1, <1>2, SMT DEF YearFirst, DaysInNonLeapCentury
  <2> QED BY <2>1, YearOfReform, SMT
<1>6. IsGregorian(GregorianDate(x)) <=> FromReform(YearOf(x), YearDay(x))
  <2>1. YearOf(x) \in Int /\ YearDay(x) \in YearDays
    BY YearOfParts, CenturyYears
  <2>2. GregorianDate(x) = DateInYear(YearOf(x), YearDay(x))
    BY GregorianParts DEF YearOf
  <2> QED BY <2>1, <2>2, ReformInYear
<1>7. FromReform(YearOf(x), YearDay(x)) <=> FromReform(100 * c + w, r)
  BY <1>1, <1>2, Zenon DEF YearOf
<1>8. FromReform(100 * c + w, r) <=> x >= GregorianReform
  <2>1. r + p \in Int /\ 0 <= r + p /\ r + p <= 36524
    BY <1>3, CenturyDaysRange
  <2>2. CASE c # 15
    <3>1. c > 15 <=> x >= GregorianReform
      BY <1>3, <1>4, <2>1, <2>2, SMT DEF GregorianReform
    <3>2. FromReform(100 * c + w, r) <=> c > 15
      BY <2>2, YearsOfOtherCentury
    <3> QED BY <3>1, <3>2
  <2>3. CASE c = 15
    <3>1. x = (r + p) + 547863
      BY <1>3, <1>4, <2>3, SMT
    <3>2. CASE w # 82
      BY <1>5, <2>3, <3>1, <3>2, SMT DEF FromReform, GregorianReform
    <3>3. CASE w = 82
      BY <1>5, <2>3, <3>1, <3>3, SMT DEF FromReform, GregorianReform
    <3> QED BY <3>2, <3>3
  <2> QED BY <2>2, <2>3
<1> QED BY <1>6, <1>7, <1>8, Zenon

-----------------------------------------------------------------------------
(* The theorems. *)

\* The number of the date of a day is the day.
LEMMA DayNumberBack ==
  ASSUME NEW day \in Int PROVE DayNumber(Components(day)) = day
<1>1. CASE day < Switchover
  <2>1. 730793 + day \in Int /\ 730793 + day < JulianReform
    BY <1>1, SMT DEF Switchover, JulianReform
  <2>2. Components(day) = JulianDate(730793 + day)
    BY <1>1 DEF Components
  <2>3. DayNumber(Components(day)) = JulianDayNumber(JulianDate(730793 + day)) - 730794
    BY <2>1, <2>2, JulianSide DEF DayNumber
  <2> QED BY <2>1, <2>3, JulianBack, SMT
<1>2. CASE ~(day < Switchover)
  <2>1. 730791 + day \in Int /\ 730791 + day >= GregorianReform
    BY <1>2, SMT DEF Switchover, GregorianReform
  <2>2. Components(day) = GregorianDate(730791 + day)
    BY <1>2 DEF Components
  <2>3. DayNumber(Components(day)) = GregorianDayNumber(GregorianDate(730791 + day)) - 730792
    BY <2>1, <2>2, GregorianSide DEF DayNumber
  <2> QED BY <2>1, <2>3, GregorianBack, SMT
<1> QED BY <1>1, <1>2

\* The Gregorian date of a date is that of the same day.
LEMMA GregorianThereAndBack ==
  ASSUME NEW day \in Int
  PROVE  GregorianToHybrid(HybridToGregorian(Components(day))) = Components(day)
<1>1. CASE day < Switchover
  <2> DEFINE x == 730793 + day
  <2>1. x \in Int /\ x < JulianReform /\ (x + 1) - 3 = x - 2 /\ x - 2 \in Int
        /\ ~(x - 2 >= GregorianReform) /\ ((x - 2) + 1) + 1 = x
    BY <1>1, SMT DEF Switchover, JulianReform, GregorianReform
  <2>2. Components(day) = JulianDate(x)
    BY <1>1 DEF Components
  <2> HIDE DEF x
  <2>3. ~IsGregorian(JulianDate(x)) /\ JulianDayNumber(JulianDate(x)) = x + 1
    BY <2>1, JulianSide, JulianBack
  <2>4. HybridToGregorian(JulianDate(x)) = GregorianDate(x - 2)
    BY <2>1, <2>3 DEF HybridToGregorian
  <2>5. ~IsGregorian(GregorianDate(x - 2))
        /\ GregorianDayNumber(GregorianDate(x - 2)) = (x - 2) + 1
    BY <2>1, GregorianSide, GregorianBack
  <2>6. GregorianToHybrid(GregorianDate(x - 2)) = JulianDate(x)
    BY <2>1, <2>5 DEF GregorianToHybrid
  <2> QED BY <2>2, <2>4, <2>6
<1>2. CASE ~(day < Switchover)
  <2>1. 730791 + day \in Int /\ 730791 + day >= GregorianReform
    BY <1>2, SMT DEF Switchover, GregorianReform
  <2>2. Components(day) = GregorianDate(730791 + day)
    BY <1>2 DEF Components
  <2> QED BY <2>1, <2>2, GregorianSide DEF HybridToGregorian, GregorianToHybrid
<1> QED BY <1>1, <1>2

LEMMA InitDay == Init => today \in Int
  BY PeriodsAssumption DEF Init

LEMMA NextDay == today \in Int /\ [Next]_today => (today \in Int)'
<1> SUFFICES ASSUME today \in Int, [Next]_today PROVE today' \in Int
  OBVIOUS
<1>1. CASE Next
  <2>1. PICK p \in Periods : today' \in p[1] .. p[2]
    BY <1>1 DEF Next
  <2>2. p[1] \in Int /\ p[2] \in Int
    BY PeriodsAssumption
  <2> QED BY <2>1, <2>2, SMT
<1> QED BY <1>1

\* Every day that setting a date can reach is converted to its date and back
\* without a loss, in the hybrid and in the Gregorian calendar, before and after
\* the reform of 1582 and the first year of the era
\* (ESCalendar_UTCComponentsFromTimeInterval,
\* ESCalendar_timeIntervalFromUTCComponents, ESCalendar_hybridToGregorian).
THEOREM EveryDateComesBack == Spec => []DatesComeBack
<1>1. today \in Int => DatesComeBack
  BY DayNumberBack, GregorianThereAndBack DEF DatesComeBack
<1> QED BY InitDay, NextDay, <1>1, PTL DEF Spec

-----------------------------------------------------------------------------
(* The day after. *)

\* The date of a day of a month of a signed year.
DateOf(s, month, day) ==
  [era |-> EraYear(s).era, year |-> EraYear(s).year, month |-> month, day |-> day]

LEMMA DateOfParts ==
  ASSUME NEW s \in Int, NEW month, NEW day
  PROVE  /\ SignedYear(DateOf(s, month, day)) = s
         /\ DateOf(s, month, day).month = month /\ DateOf(s, month, day).day = day
<1>1. SignedYear(DateOf(s, month, day)) = SignedYear(EraYear(s))
  BY DEF SignedYear, DateOf
<1> QED BY <1>1, EraYearBack DEF DateOf

LEMMA DateInYearIs ==
  ASSUME NEW s, NEW x
  PROVE  DateInYear(s, x) =
           DateOf(IF MonthOfDay(x) > 12 THEN s + 1 ELSE s,
                  IF MonthOfDay(x) > 12 THEN MonthOfDay(x) - 12 ELSE MonthOfDay(x),
                  x - DaysBeforeMonth(MonthOfDay(x)) + 1)
  BY DEF DateInYear, DateOf, MonthOfDay

\* The number of days of a month.
MonthLength(s, month, gregorian) ==
  CASE month = 2 -> IF LeapYear(s, gregorian) THEN 29 ELSE 28
    [] month \in ThirtyDays -> 30
    [] OTHER -> 31

LEMMA February ==
  ASSUME NEW s, NEW g
  PROVE  MonthLength(s, 2, g) = IF LeapYear(s, g) THEN 29 ELSE 28
<1>1. 2 \notin ThirtyDays
  BY SMT DEF ThirtyDays
<1> QED BY <1>1, Zenon DEF MonthLength

\* The cases of DayAfter: within a month, at its end, at the end of the year.
LEMMA DayAfterIs ==
  ASSUME NEW s \in Int, NEW month \in 1 .. 12, NEW day \in Int, NEW g
  PROVE  /\ day < MonthLength(s, month, g) =>
              DayAfter(DateOf(s, month, day), g) = DateOf(s, month, day + 1)
         /\ month < 12 /\ day = MonthLength(s, month, g) =>
              DayAfter(DateOf(s, month, day), g) = DateOf(s, month + 1, 1)
         /\ month = 12 /\ day = MonthLength(s, month, g) =>
              DayAfter(DateOf(s, month, day), g) = DateOf(s + 1, 1, 1)
<1> DEFINE d == DateOf(s, month, day)
           n == MonthLength(s, month, g)
<1>1. SignedYear(d) = s /\ d.month = month /\ d.day = day
  BY DateOfParts
<1>2. LastDay(d, g) = n
  BY <1>1 DEF LastDay, MonthLength
<1>3. n \in Int
  BY SMT DEF MonthLength
<1>4. [d EXCEPT !.day = @ + 1] = DateOf(s, month, day + 1)
  BY DEF DateOf
<1>6. [d EXCEPT !.month = @ + 1, !.day = 1] = DateOf(s, month + 1, 1)
  <2>1. PICK q : q = [d EXCEPT !.month = @ + 1]
    OBVIOUS
  <2>2. q = DateOf(s, month + 1, day)
    BY <1>1, <2>1 DEF DateOf
  <2>3. [q EXCEPT !.day = 1] = DateOf(s, month + 1, 1)
    BY <2>2 DEF DateOf
  <2>4. [d EXCEPT !.month = @ + 1, !.day = 1] = [q EXCEPT !.day = 1]
    BY <2>1
  <2> QED BY <2>3, <2>4, Zenon
<1>7. DayAfter(d, g) = CASE day < n -> DateOf(s, month, day + 1)
                         [] month < 12 /\ day = n -> DateOf(s, month + 1, 1)
                         [] OTHER -> DateOf(s + 1, 1, 1)
  <2>1. [era |-> EraYear(s + 1).era, year |-> EraYear(s + 1).year, month |-> 1, day |-> 1]
          = DateOf(s + 1, 1, 1)
    BY DEF DateOf
  <2> HIDE DEF d, n
  <2> QED BY <1>1, <1>2, <1>4, <1>6, <2>1, Zenon DEF DayAfter
<1> HIDE DEF n, d
<1>8. day = n => ~(day < n)
  BY <1>3, SMT
<1>9. month = 12 => ~(month < 12)
  BY SMT
<1>10. day < n => ~(day = n)
  BY <1>3, SMT
<1> QED BY <1>7, <1>8, <1>9, <1>10, Zenon DEF d, n

\* Day x of a year that begins in March is followed by a day of the same month,
\* or is the last of one that is not the last.
MonthFollows(m, x, m1) ==
  \/ /\ m1 = m
     /\ m < 14 => x - DaysBeforeMonth(m) + 1 < (IF m \in ThirtyDays THEN 30 ELSE 31)
  \/ /\ m1 = m + 1 /\ m < 14
     /\ x + 1 = DaysBeforeMonth(m + 1)
     /\ x - DaysBeforeMonth(m) + 1 = (IF m \in ThirtyDays THEN 30 ELSE 31)

LEMMA MonthEnds ==
  ASSUME NEW x \in 0 .. 364
  PROVE  MonthFollows(MonthOfDay(x), x, MonthOfDay(x + 1))
  BY SMT DEF MonthFollows, MonthOfDay, DaysBeforeMonth, ThirtyDays

LEMMA LastMonth ==
  /\ \A x \in YearDays : MonthOfDay(x) = 14 <=> x >= 337
  /\ DaysBeforeMonth(14) = 337
  BY SMT DEF MonthOfDay, DaysBeforeMonth, YearDays
\* The length of a month of a year that begins in March, counted from 3 to 14.
LEMMA MonthLengthIs ==
  ASSUME NEW s \in Int, NEW m \in 3 .. 14, NEW g
  PROVE  MonthLength(IF m > 12 THEN s + 1 ELSE s, IF m > 12 THEN m - 12 ELSE m, g)
           = IF m = 14 THEN IF LeapYear(s + 1, g) THEN 29 ELSE 28
             ELSE IF m \in ThirtyDays THEN 30 ELSE 31
<1>1. CASE m > 12
  <2>1. m = 13 \/ m = 14
    BY <1>1, SMT
  <2>2. CASE m = 13
    <3>1. MonthLength(s + 1, 1, g) = 31
      BY SMT DEF MonthLength, ThirtyDays
    <3> QED BY <2>2, <3>1, SMT DEF ThirtyDays
  <2>3. CASE m = 14
    <3>1. MonthLength(s + 1, 2, g) = IF LeapYear(s + 1, g) THEN 29 ELSE 28
      BY February
    <3> QED BY <2>3, <3>1, SMT
  <2> QED BY <2>1, <2>2, <2>3
<1>2. CASE ~(m > 12)
  <2>1. m # 2 /\ m # 14
    BY <1>2, SMT
  <2>2. MonthLength(s, m, g) = IF m \in ThirtyDays THEN 30 ELSE 31
    BY <2>1, SMT DEF MonthLength
  <2> QED BY <1>2, <2>1, <2>2, Zenon
<1> QED BY <1>1, <1>2

\* The day after a day of such a year, up to its last.
LEMMA NextInYear ==
  ASSUME NEW s \in Int, NEW x \in 0 .. 364, NEW g, x = 364 => LeapYear(s + 1, g)
  PROVE  DateInYear(s, x + 1) = DayAfter(DateInYear(s, x), g)
<1>1. x \in YearDays /\ x + 1 \in YearDays /\ x \in Int /\ x + 1 \in Int
  BY SMT DEF YearDays
<1>2. PICK m \in 3 .. 14 : m = MonthOfDay(x)
  BY <1>1, MonthRange
<1>3. PICK t \in Int : t = IF m > 12 THEN s + 1 ELSE s
  BY SMT
<1>4. PICK month \in 1 .. 12 : month = IF m > 12 THEN m - 12 ELSE m
  BY SMT
<1>5. PICK day \in Int : day = x - DaysBeforeMonth(m) + 1
  BY SMT DEF DaysBeforeMonth
<1>6. DateInYear(s, x) = DateOf(t, month, day)
  BY <1>2, <1>3, <1>4, <1>5, DateInYearIs
<1>7. MonthLength(t, month, g) = IF m = 14 THEN IF LeapYear(s + 1, g) THEN 29 ELSE 28
                                 ELSE IF m \in ThirtyDays THEN 30 ELSE 31
  BY <1>3, <1>4, MonthLengthIs
<1>8. CASE /\ MonthOfDay(x + 1) = m
           /\ m < 14 => day < (IF m \in ThirtyDays THEN 30 ELSE 31)
  <2>1. day < MonthLength(t, month, g)
    <3>1. CASE m = 14
      <4>1. day = x - 336
        BY <1>5, <3>1, LastMonth, SMT
      <4>2. CASE x = 364
        BY <1>7, <3>1, <4>1, <4>2, SMT
      <4>3. CASE x # 364
        <5>1. day < 28
          BY <4>1, <4>3, SMT
        <5>2. MonthLength(t, month, g) \in {28, 29}
          BY <1>7, <3>1
        <5> QED BY <5>1, <5>2, SMT
      <4> QED BY <4>2, <4>3
    <3>2. CASE m # 14
      BY <1>7, <1>8, <3>2, SMT
    <3> QED BY <3>1, <3>2
  <2>2. DayAfter(DateOf(t, month, day), g) = DateOf(t, month, day + 1)
    BY <2>1, DayAfterIs
  <2>3. DateInYear(s, x + 1) = DateOf(t, month, (x + 1) - DaysBeforeMonth(m) + 1)
    BY <1>3, <1>4, <1>8, DateInYearIs
  <2>4. (x + 1) - DaysBeforeMonth(m) + 1 = day + 1
    BY <1>5, SMT DEF DaysBeforeMonth
  <2> QED BY <1>6, <2>2, <2>3, <2>4
<1>9. CASE /\ MonthOfDay(x + 1) = m + 1 /\ m < 14 /\ x + 1 = DaysBeforeMonth(m + 1)
           /\ day = (IF m \in ThirtyDays THEN 30 ELSE 31)
  <2>1. day = MonthLength(t, month, g)
    <3>1. m # 14
      BY <1>9, SMT
    <3> QED BY <1>7, <1>9, <3>1, Zenon
  <2>2. DateInYear(s, x + 1) =
          DateOf(IF m + 1 > 12 THEN s + 1 ELSE s, IF m + 1 > 12 THEN m + 1 - 12 ELSE m + 1, 1)
    <3>1. (x + 1) - DaysBeforeMonth(m + 1) + 1 = 1
      BY <1>9, SMT
    <3> QED BY <1>9, <3>1, DateInYearIs
  <2>3. CASE m = 12
    <3>1. t = s /\ month = 12 /\ m + 1 > 12 /\ m + 1 - 12 = 1
      BY <1>3, <1>4, <2>3, SMT
    <3>2. DayAfter(DateOf(t, month, day), g) = DateOf(t + 1, 1, 1)
      BY <2>1, <3>1, DayAfterIs
    <3> QED BY <1>6, <2>2, <3>1, <3>2
  <2>4. CASE m # 12
    <3>1. month < 12 /\ t = (IF m + 1 > 12 THEN s + 1 ELSE s)
          /\ month + 1 = (IF m + 1 > 12 THEN m + 1 - 12 ELSE m + 1)
      BY <1>3, <1>4, <2>4, SMT
    <3>2. DayAfter(DateOf(t, month, day), g) = DateOf(t, month + 1, 1)
      BY <2>1, <3>1, DayAfterIs
    <3> QED BY <1>6, <2>2, <3>1, <3>2
  <2> QED BY <2>3, <2>4
<1>10. MonthFollows(m, x, MonthOfDay(x + 1))
  BY <1>2, MonthEnds
<1> QED BY <1>5, <1>8, <1>9, <1>10 DEF MonthFollows

\* The day after its last, the last of February.
LEMMA NextYear ==
  ASSUME NEW s \in Int, NEW x \in {364, 365}, NEW g, x = 365 <=> LeapYear(s + 1, g)
  PROVE  DateInYear(s + 1, 0) = DayAfter(DateInYear(s, x), g)
<1>1. x \in YearDays /\ x >= 337 /\ x - 337 + 1 = x - 336 /\ s + 1 \in Int
  BY SMT DEF YearDays
<1>2. MonthOfDay(x) = 14 /\ DaysBeforeMonth(14) = 337
  BY <1>1, LastMonth
<1>3. DateInYear(s, x) = DateOf(s + 1, 2, x - 336)
  <2>1. 14 > 12 /\ 14 - 12 = 2
    BY SMT
  <2> QED BY <1>1, <1>2, <2>1, DateInYearIs
<1>4. MonthOfDay(0) = 3 /\ 0 - DaysBeforeMonth(3) + 1 = 1 /\ ~(3 > 12)
  BY SMT DEF MonthOfDay, DaysBeforeMonth
<1>5. DateInYear(s + 1, 0) = DateOf(s + 1, 3, 1)
  BY <1>4, DateInYearIs
<1>6. MonthLength(s + 1, 2, g) = IF LeapYear(s + 1, g) THEN 29 ELSE 28
  BY February
<1>7. x - 336 = MonthLength(s + 1, 2, g)
  <2>1. CASE x = 364
    BY <1>6, <2>1, SMT
  <2>2. CASE x = 365
    BY <1>6, <2>2, SMT
  <2> QED BY <2>1, <2>2
<1>8. 2 \in 1 .. 12 /\ 2 < 12 /\ 2 + 1 = 3 /\ x - 336 \in Int
  BY SMT
<1>9. DayAfter(DateOf(s + 1, 2, x - 336), g) = DateOf(s + 1, 2 + 1, 1)
  BY <1>1, <1>7, <1>8, DayAfterIs
<1> QED BY <1>3, <1>5, <1>8, <1>9
-----------------------------------------------------------------------------
(* The day after, in the Julian calendar. *)

\* A quotient by its bounds.
LEMMA JulianQuotient ==
  ASSUME NEW n \in Int, NEW q \in Int, 1461 * q <= n, n < 1461 * q + 1461
  PROVE  n \div 1461 = q
  BY SMT

\* The parts of a number and its remainder by 4.
LEMMA Fourths ==
  ASSUME NEW n \in Int
  PROVE  \E a \in Int, b \in 0 .. 3 : n = 4 * a + b
<1>1. n = 4 * (n \div 4) + (n % 4) /\ n \div 4 \in Int /\ n % 4 \in 0 .. 3
  BY SMT
<1> QED BY <1>1

\* Day r1 of year s1 follows day r of year s: the year is the same or, from the
\* last day on, the next one; every fourth year has a day more.
DayFollows(s, r, s1, r1) ==
  \/ s1 = s /\ r1 = r + 1 /\ r \in 0 .. 364 /\ (r = 364 => (s + 1) % 4 = 0)
  \/ s1 = s + 1 /\ r1 = 0 /\ r \in {364, 365} /\ (r = 365 <=> (s + 1) % 4 = 0)

LEMMA JulianFollows ==
  ASSUME NEW x \in Int
  PROVE  DayFollows(JulianYear(x), JulianYearDay(x), JulianYear(x + 1), JulianYearDay(x + 1))
<1>0. PICK s \in Int, r \in Int : s = JulianYear(x) /\ r = JulianYearDay(x)
  BY JulianArithmetic DEF JulianYearDay
<1>1. 1461 * s <= 4 * x + 3 /\ 4 * x + 3 < 1461 * s + 1461
  BY <1>0, SMT DEF JulianYear, DaysInJulianCycle
<1>2. PICK a \in Int, b \in 0 .. 3 : s = 4 * a + b
  BY Fourths
<1>3. (1461 * s) \div 4 = 1461 * a + 365 * b
  BY <1>2, SMT
<1>4. r = x - (1461 * a + 365 * b)
  BY <1>0, <1>3 DEF JulianYearDay, JulianYearFirst, DaysInJulianCycle
<1>5. (s + 1) % 4 = 0 <=> b = 3
  BY <1>2, SMT
<1>6. /\ b < 3 => r \in 0 .. 364
      /\ b = 3 => r \in 0 .. 365
  BY <1>1, <1>2, <1>4, SMT
<1>7. CASE 4 * (x + 1) + 3 < 1461 * s + 1461
  <2>1. 1461 * s <= 4 * (x + 1) + 3 /\ 4 * (x + 1) + 3 \in Int
    BY <1>1, SMT
  <2>2. JulianYear(x + 1) = s
    BY <1>7, <2>1, JulianQuotient DEF JulianYear, DaysInJulianCycle
  <2>3. JulianYearDay(x + 1) = r + 1
    <3>1. JulianYearDay(x + 1) = (x + 1) - (1461 * a + 365 * b)
      BY <1>3, <2>2 DEF JulianYearDay, JulianYearFirst, DaysInJulianCycle
    <3> QED BY <1>4, <3>1, SMT
  <2>4. r \in 0 .. 364 /\ (r = 364 => b = 3)
    BY <1>2, <1>4, <1>6, <1>7, SMT
  <2> QED BY <1>0, <1>5, <2>2, <2>3, <2>4 DEF DayFollows
<1>8. CASE 4 * (x + 1) + 3 >= 1461 * s + 1461
  <2>1. /\ 1461 * (s + 1) <= 4 * (x + 1) + 3 /\ 4 * (x + 1) + 3 < 1461 * (s + 1) + 1461
        /\ 4 * (x + 1) + 3 \in Int /\ s + 1 \in Int
    BY <1>1, <1>8, SMT
  <2>2. JulianYear(x + 1) = s + 1
    BY <2>1, JulianQuotient DEF JulianYear, DaysInJulianCycle
  <2>3. r \in {364, 365} /\ (r = 365 <=> b = 3)
    BY <1>2, <1>4, <1>6, <1>8, SMT
  <2>4. JulianYearDay(x + 1) = 0
    <3>1. (1461 * (s + 1)) \div 4 = x + 1
      <4>1. r = IF b = 3 THEN 365 ELSE 364
        BY <2>3, SMT
      <4>2. 4 * (x + 1) <= 1461 * (s + 1) /\ 1461 * (s + 1) < 4 * (x + 1) + 4
        BY <1>2, <1>4, <4>1, SMT
      <4> QED BY <4>2, SMT
    <3>2. JulianYearDay(x + 1) = (x + 1) - (1461 * (s + 1)) \div 4
      BY <2>2 DEF JulianYearDay, JulianYearFirst, DaysInJulianCycle
    <3> QED BY <3>1, <3>2, SMT
  <2> QED BY <1>0, <1>5, <2>2, <2>3, <2>4 DEF DayFollows
<1>9. 4 * (x + 1) + 3 < 1461 * s + 1461 \/ 4 * (x + 1) + 3 >= 1461 * s + 1461
  BY SMT
<1> QED BY <1>7, <1>8, <1>9

LEMMA JulianDayAfter ==
  ASSUME NEW x \in Int, NEW g, ~g
  PROVE  JulianDate(x + 1) = DayAfter(JulianDate(x), g)
<1>1. PICK s \in Int, r \in Int : s = JulianYear(x) /\ r = JulianYearDay(x)
  BY JulianArithmetic DEF JulianYearDay
<1>4. LeapYear(s + 1, g) <=> (s + 1) % 4 = 0
  BY Zenon DEF LeapYear
<1>5. JulianDate(x) = DateInYear(s, r)
  BY <1>1, JulianParts
<1>6. JulianDate(x + 1) = DateInYear(JulianYear(x + 1), JulianYearDay(x + 1))
  BY JulianParts
<1>7. DayFollows(s, r, JulianYear(x + 1), JulianYearDay(x + 1))
  BY <1>1, JulianFollows
<1> QED BY <1>4, <1>5, <1>6, <1>7, NextInYear, NextYear DEF DayFollows

-----------------------------------------------------------------------------
(* The day after, in the Gregorian calendar. *)

LEMMA CenturyQuotient ==
  ASSUME NEW n \in Int, NEW q \in Int, 146097 * q <= n, n < 146097 * q + 146097
  PROVE  n \div 146097 = q
  BY SMT

LEMMA YearQuotient ==
  ASSUME NEW n \in Int, NEW q \in Int, 36525 * q <= n, n < 36525 * q + 36525
  PROVE  n \div 36525 = q
  BY SMT

\* Day y1 of century c1 follows day y of century c: the century is the same or,
\* from the last day on, the next one; every fourth century has a day more.
CenturyDayFollows(c, y, c1, y1) ==
  \/ /\ c1 = c /\ y1 = y + 1
     /\ 0 <= y /\ y <= 36523 /\ (y = 36523 => (c + 1) % 4 = 0)
  \/ /\ c1 = c + 1 /\ y1 = 0
     /\ 36523 <= y /\ y <= 36524 /\ (y = 36524 <=> (c + 1) % 4 = 0)

LEMMA CenturyFollows ==
  ASSUME NEW x \in Int
  PROVE  CenturyDayFollows(Century(x), CenturyDay(x), Century(x + 1), CenturyDay(x + 1))
<1>0. PICK c \in Int, y \in Int : c = Century(x) /\ y = CenturyDay(x)
  BY CenturyArithmetic DEF CenturyDay
<1>1. 146097 * c <= 4 * x + 3 /\ 4 * x + 3 < 146097 * c + 146097
  BY <1>0, SMT DEF Century, DaysInGregorianCycle
<1>2. PICK a \in Int, b \in 0 .. 3 : c = 4 * a + b
  BY Fourths
<1>3. (146097 * c) \div 4 = 146097 * a + 36524 * b
  BY <1>2, SMT
<1>4. y = x - (146097 * a + 36524 * b)
  BY <1>0, <1>3 DEF CenturyDay, CenturyFirst, DaysInGregorianCycle
<1>5. (c + 1) % 4 = 0 <=> b = 3
  BY <1>2, SMT
<1>6. /\ 0 <= y
      /\ b < 3 => y <= 36523
      /\ b = 3 => y <= 36524
  BY <1>1, <1>2, <1>4, SMT
<1>7. CASE 4 * (x + 1) + 3 < 146097 * c + 146097
  <2>1. 146097 * c <= 4 * (x + 1) + 3 /\ 4 * (x + 1) + 3 \in Int
    BY <1>1, SMT
  <2>2. Century(x + 1) = c
    BY <1>7, <2>1, CenturyQuotient DEF Century, DaysInGregorianCycle
  <2>3. CenturyDay(x + 1) = y + 1
    <3>1. CenturyDay(x + 1) = (x + 1) - (146097 * a + 36524 * b)
      BY <1>3, <2>2 DEF CenturyDay, CenturyFirst, DaysInGregorianCycle
    <3> QED BY <1>4, <3>1, SMT
  <2>4. 0 <= y /\ y <= 36523 /\ (y = 36523 => b = 3)
    BY <1>2, <1>4, <1>6, <1>7, SMT
  <2> QED BY <1>0, <1>5, <2>2, <2>3, <2>4 DEF CenturyDayFollows
<1>8. CASE 4 * (x + 1) + 3 >= 146097 * c + 146097
  <2>1. /\ 146097 * (c + 1) <= 4 * (x + 1) + 3 /\ 4 * (x + 1) + 3 < 146097 * (c + 1) + 146097
        /\ 4 * (x + 1) + 3 \in Int /\ c + 1 \in Int
    BY <1>1, <1>8, SMT
  <2>2. Century(x + 1) = c + 1
    BY <2>1, CenturyQuotient DEF Century, DaysInGregorianCycle
  <2>3. 36523 <= y /\ y <= 36524 /\ (y = 36524 <=> b = 3)
    BY <1>2, <1>4, <1>6, <1>8, SMT
  <2>4. CenturyDay(x + 1) = 0
    <3>1. (146097 * (c + 1)) \div 4 = x + 1
      <4>1. y = IF b = 3 THEN 36524 ELSE 36523
        BY <2>3, SMT
      <4>2. 4 * (x + 1) <= 146097 * (c + 1) /\ 146097 * (c + 1) < 4 * (x + 1) + 4
        BY <1>2, <1>4, <4>1, SMT
      <4> QED BY <4>2, SMT
    <3>2. CenturyDay(x + 1) = (x + 1) - (146097 * (c + 1)) \div 4
      BY <2>2 DEF CenturyDay, CenturyFirst, DaysInGregorianCycle
    <3> QED BY <3>1, <3>2, SMT
  <2> QED BY <1>0, <1>5, <2>2, <2>3, <2>4 DEF CenturyDayFollows
<1>9. 4 * (x + 1) + 3 < 146097 * c + 146097 \/ 4 * (x + 1) + 3 >= 146097 * c + 146097
  BY SMT
<1> QED BY <1>7, <1>8, <1>9

\* The year of a day of a century, and the day in that year.
YearIn(y) == (100 * y + 99) \div DaysInNonLeapCentury
DayIn(y) == y - (DaysInNonLeapCentury * YearIn(y)) \div 100

\* The days of a century follow each other so, as if it had no end.
LEMMA YearFollows ==
  ASSUME NEW y \in Int
  PROVE  DayFollows(YearIn(y), DayIn(y), YearIn(y + 1), DayIn(y + 1))
<1>0. PICK w \in Int, r \in Int : w = YearIn(y) /\ r = DayIn(y)
  BY SMT DEF YearIn, DayIn, DaysInNonLeapCentury
<1>1. 36525 * w <= 100 * y + 99 /\ 100 * y + 99 < 36525 * w + 36525
  BY <1>0, SMT DEF YearIn, DaysInNonLeapCentury
<1>2. PICK a \in Int, b \in 0 .. 3 : w = 4 * a + b
  BY Fourths
<1>3. (36525 * w) \div 100 = 1461 * a + 365 * b
  BY <1>2, SMT
<1>4. r = y - (1461 * a + 365 * b)
  BY <1>0, <1>3 DEF DayIn, DaysInNonLeapCentury
<1>5. (w + 1) % 4 = 0 <=> b = 3
  BY <1>2, SMT
<1>6. /\ b < 3 => r \in 0 .. 364
      /\ b = 3 => r \in 0 .. 365
  BY <1>1, <1>2, <1>4, SMT
<1>7. CASE 100 * (y + 1) + 99 < 36525 * w + 36525
  <2>1. 36525 * w <= 100 * (y + 1) + 99 /\ 100 * (y + 1) + 99 \in Int
    BY <1>1, SMT
  <2>2. YearIn(y + 1) = w
    BY <1>7, <2>1, YearQuotient DEF YearIn, DaysInNonLeapCentury
  <2>3. DayIn(y + 1) = r + 1
    <3>1. DayIn(y + 1) = (y + 1) - (1461 * a + 365 * b)
      BY <1>3, <2>2 DEF DayIn, DaysInNonLeapCentury
    <3> QED BY <1>4, <3>1, SMT
  <2>4. r \in 0 .. 364 /\ (r = 364 => b = 3)
    BY <1>2, <1>4, <1>6, <1>7, SMT
  <2> QED BY <1>0, <1>5, <2>2, <2>3, <2>4 DEF DayFollows
<1>8. CASE 100 * (y + 1) + 99 >= 36525 * w + 36525
  <2>1. /\ 36525 * (w + 1) <= 100 * (y + 1) + 99 /\ 100 * (y + 1) + 99 < 36525 * (w + 1) + 36525
        /\ 100 * (y + 1) + 99 \in Int /\ w + 1 \in Int
    BY <1>1, <1>8, SMT
  <2>2. YearIn(y + 1) = w + 1
    BY <2>1, YearQuotient DEF YearIn, DaysInNonLeapCentury
  <2>3. r \in {364, 365} /\ (r = 365 <=> b = 3)
    BY <1>2, <1>4, <1>6, <1>8, SMT
  <2>4. DayIn(y + 1) = 0
    <3>1. (36525 * (w + 1)) \div 100 = y + 1
      <4>1. r = IF b = 3 THEN 365 ELSE 364
        BY <2>3, SMT
      <4>2. 100 * (y + 1) <= 36525 * (w + 1) /\ 36525 * (w + 1) < 100 * (y + 1) + 100
        BY <1>2, <1>4, <4>1, SMT
      <4> QED BY <4>2, SMT
    <3>2. DayIn(y + 1) = (y + 1) - (36525 * (w + 1)) \div 100
      BY <2>2 DEF DayIn, DaysInNonLeapCentury
    <3> QED BY <3>1, <3>2, SMT
  <2> QED BY <1>0, <1>5, <2>2, <2>3, <2>4 DEF DayFollows
<1>9. \/ 100 * (y + 1) + 99 < 36525 * w + 36525
      \/ 100 * (y + 1) + 99 >= 36525 * w + 36525
  BY SMT
<1> QED BY <1>7, <1>8, <1>9
\* The rule of the leap years; g is the flag that asks for it.
GregorianRule(g) ==
  \A s : LeapYear(s, g) <=> s % 4 = 0 /\ (s % 100 # 0 \/ s % 400 = 0)

LEMMA GregorianRuleHolds ==
  ASSUME NEW g, g PROVE GregorianRule(g)
  BY Zenon DEF GregorianRule, LeapYear

\* The leap years, by the century and the year in it.
LEMMA LeapYears ==
  ASSUME NEW c \in Int, NEW w \in 0 .. 99, NEW g, GregorianRule(g)
  PROVE  /\ w = 99 => (LeapYear((100 * c + w) + 1, g) <=> (c + 1) % 4 = 0)
         /\ w # 99 => (LeapYear((100 * c + w) + 1, g) <=> (w + 1) % 4 = 0)
<1>0. PICK s \in Int : s = (100 * c + w) + 1
  BY SMT
<1>1. LeapYear(s, g) <=> s % 4 = 0 /\ (s % 100 # 0 \/ s % 400 = 0)
  BY DEF GregorianRule
<1>2. s % 100 # 0 <=> w # 99
  BY <1>0, SMT
<1>3. s % 4 = 0 <=> (w + 1) % 4 = 0
  BY <1>0, SMT
<1>4. CASE w = 99
  <2>1. s = 100 * (c + 1) /\ c + 1 \in Int
    BY <1>0, <1>4, SMT
  <2>2. s % 400 = 0 <=> (c + 1) % 4 = 0
    BY <2>1, SMT
  <2>3. (w + 1) % 4 = 0
    BY <1>4, SMT
  <2> QED BY <1>0, <1>1, <1>2, <1>3, <1>4, <2>2, <2>3
<1>5. CASE w # 99
  BY <1>0, <1>1, <1>2, <1>3, <1>5
<1> QED BY <1>4, <1>5

\* The last two days that a century can have.
LEMMA CenturyEnd ==
  ASSUME NEW y \in Int, 36523 <= y, y <= 36524
  PROVE  YearIn(y) = 99 /\ DayIn(y) = y - 36159
<1>1. YearIn(y) = 99
  BY SMT DEF YearIn, DaysInNonLeapCentury
<1> QED BY <1>1, SMT DEF DayIn, DaysInNonLeapCentury

LEMMA GregorianDayAfter ==
  ASSUME NEW x \in Int, NEW g, GregorianRule(g)
  PROVE  GregorianDate(x + 1) = DayAfter(GregorianDate(x), g)
<1>1. PICK c \in Int, w \in 0 .. 99 : c = Century(x) /\ w = CenturyYear(x)
  BY CenturyArithmetic, CenturyYears
<1>2. PICK y \in Int : y = CenturyDay(x)
  BY CenturyArithmetic DEF CenturyDay
<1>3. PICK r \in Int : r = YearDay(x)
  BY CenturyYears DEF YearDays
<1>4. w = YearIn(y) /\ r = DayIn(y)
  BY <1>1, <1>2, <1>3 DEF YearIn, DayIn, CenturyYear, YearFirst, YearDay
<1>5. PICK s \in Int : s = 100 * c + w
  BY SMT
<1>6. GregorianDate(x) = DateInYear(s, r)
  BY <1>1, <1>3, <1>5, GregorianParts
<1>7. /\ w = 99 => (LeapYear(s + 1, g) <=> (c + 1) % 4 = 0)
      /\ w # 99 => (LeapYear(s + 1, g) <=> (w + 1) % 4 = 0)
  BY <1>5, LeapYears
<1>8. CASE /\ Century(x + 1) = c /\ CenturyDay(x + 1) = y + 1
           /\ 0 <= y /\ y <= 36523 /\ (y = 36523 => (c + 1) % 4 = 0)
  <2>1. CenturyYear(x + 1) = YearIn(y + 1) /\ YearDay(x + 1) = DayIn(y + 1)
    BY <1>8 DEF YearIn, DayIn, CenturyYear, YearFirst, YearDay
  <2>2. DayFollows(w, r, YearIn(y + 1), DayIn(y + 1))
    BY <1>4, YearFollows
  <2>3. GregorianDate(x + 1) = DateInYear(100 * c + YearIn(y + 1), DayIn(y + 1))
    BY <1>8, <2>1, GregorianParts
  <2>4. CASE YearIn(y + 1) = w /\ DayIn(y + 1) = r + 1 /\ r \in 0 .. 364
             /\ (r = 364 => (w + 1) % 4 = 0)
    <3>1. r = 364 => LeapYear(s + 1, g)
      <4>1. w = 99 /\ r = 364 => y = 36523
        BY <1>4, SMT DEF DayIn, DaysInNonLeapCentury
      <4>2. w = 99 /\ r = 364 => (c + 1) % 4 = 0
        BY <1>8, <4>1, SMT
      <4>3. r = 364 => (w + 1) % 4 = 0
        BY <2>4
      <4> QED BY <1>7, <4>2, <4>3, Zenon
    <3>2. DateInYear(s, r + 1) = DayAfter(DateInYear(s, r), g)
      BY <2>4, <3>1, NextInYear
    <3> QED BY <1>5, <1>6, <2>3, <2>4, <3>2
  <2>5. CASE YearIn(y + 1) = w + 1 /\ DayIn(y + 1) = 0 /\ r \in {364, 365}
             /\ (r = 365 <=> (w + 1) % 4 = 0)
    <3>1. w # 99
      <4>1. CenturyYear(x + 1) \in 0 .. 99
        BY CenturyYears
      <4> QED BY <2>1, <2>5, <4>1, SMT
    <3>2. r = 365 <=> LeapYear(s + 1, g)
      BY <1>7, <2>5, <3>1, Zenon
    <3>3. DateInYear(s + 1, 0) = DayAfter(DateInYear(s, r), g)
      BY <2>5, <3>2, NextYear
    <3>4. 100 * c + (w + 1) = s + 1
      BY <1>5, SMT
    <3> QED BY <1>6, <2>3, <2>5, <3>3, <3>4
  <2> QED BY <2>2, <2>4, <2>5 DEF DayFollows
<1>9. CASE /\ Century(x + 1) = c + 1 /\ CenturyDay(x + 1) = 0
           /\ 36523 <= y /\ y <= 36524 /\ (y = 36524 <=> (c + 1) % 4 = 0)
  <2>1. YearIn(0) = 0 /\ DayIn(0) = 0
    BY SMT DEF YearIn, DayIn, DaysInNonLeapCentury
  <2>2. CenturyYear(x + 1) = 0 /\ YearDay(x + 1) = 0
    BY <1>9, <2>1 DEF YearIn, DayIn, CenturyYear, YearFirst, YearDay
  <2>3. GregorianDate(x + 1) = DateInYear(100 * (c + 1) + 0, 0)
    BY <1>9, <2>2, GregorianParts
  <2>4. w = 99
    BY <1>4, <1>9, CenturyEnd
  <2>9. r = y - 36159
    BY <1>4, <1>9, CenturyEnd
  <2>5. r \in {364, 365} /\ (r = 365 <=> (c + 1) % 4 = 0)
    BY <1>9, <2>9, SMT
  <2>6. r = 365 <=> LeapYear(s + 1, g)
    BY <1>7, <2>4, <2>5, Zenon
  <2>7. DateInYear(s + 1, 0) = DayAfter(DateInYear(s, r), g)
    BY <2>5, <2>6, NextYear
  <2>8. 100 * (c + 1) + 0 = s + 1
    BY <1>5, <2>4, SMT
  <2> QED BY <1>6, <2>3, <2>7, <2>8
<1>10. CenturyDayFollows(c, y, Century(x + 1), CenturyDay(x + 1))
  BY <1>1, <1>2, CenturyFollows
<1> QED BY <1>8, <1>9, <1>10 DEF CenturyDayFollows
-----------------------------------------------------------------------------
(* The day after, through the reform. *)

\* The Gregorian date of the hybrid date of a day.
LEMMA GregorianOf ==
  ASSUME NEW day \in Int, NEW y \in Int, y = 730791 + day
  PROVE  HybridToGregorian(Components(day)) = GregorianDate(y)
<1>1. CASE day < Switchover
  <2>1. PICK x \in Int : x = 730793 + day
    BY SMT
  <2>2. x < JulianReform /\ (x + 1) - 3 = y
    BY <1>1, <2>1, SMT DEF Switchover, JulianReform
  <2>3. Components(day) = JulianDate(x)
    BY <1>1, <2>1, SMT DEF Components
  <2>4. ~IsGregorian(JulianDate(x)) /\ JulianDayNumber(JulianDate(x)) = x + 1
    BY <2>2, JulianSide, JulianBack
  <2> QED BY <2>2, <2>3, <2>4, SMT DEF HybridToGregorian
<1>2. CASE ~(day < Switchover)
  <2>1. y >= GregorianReform
    BY <1>2, SMT DEF Switchover, GregorianReform
  <2>2. Components(day) = GregorianDate(y)
    BY <1>2, SMT DEF Components
  <2>3. IsGregorian(GregorianDate(y))
    BY <2>1, GregorianSide
  <2> QED BY <2>2, <2>3, SMT DEF HybridToGregorian
<1> QED BY <1>1, <1>2, SMT

\* The last day of the Julian calendar, and the first of the Gregorian.
LastJulian == [era |-> 1, year |-> 1582, month |-> 10, day |-> 4]

LEMMA ReformDates ==
  /\ JulianDate(JulianReform - 1) = LastJulian
  /\ GregorianDate(GregorianReform) = [LastJulian EXCEPT !.day = 15]
  /\ JulianDayNumber(LastJulian) = JulianReform
  /\ ~IsGregorian(LastJulian)
<1>1. EraYear(1582).era = 1 /\ EraYear(1582).year = 1582
  BY SMT DEF EraYear
<1>2. DaysBeforeMonth(10) = 214
  BY SMT DEF DaysBeforeMonth
<1>3. JulianDate(JulianReform - 1) = LastJulian
  <2>1. JulianYear(JulianReform - 1) = 1582
    BY SMT DEF JulianYear, JulianReform, DaysInJulianCycle
  <2>2. JulianYearDay(JulianReform - 1) = 217
    BY <2>1, SMT DEF JulianYearDay, JulianYearFirst, JulianReform, DaysInJulianCycle
  <2>3. MonthOfDay(217) = 10 /\ ~(10 > 12) /\ 217 - 214 + 1 = 4
    BY SMT DEF MonthOfDay
  <2>4. DateInYear(1582, 217) = DateOf(1582, 10, 4)
    BY <1>2, <2>3, DateInYearIs, SMT
  <2> QED BY <1>1, <2>1, <2>2, <2>4, JulianParts, SMT DEF DateOf, LastJulian
<1>4. GregorianDate(GregorianReform) = [LastJulian EXCEPT !.day = 15]
  <2>1. Century(GregorianReform) = 15
    BY SMT DEF Century, GregorianReform, DaysInGregorianCycle
  <2>2. CenturyDay(GregorianReform) = 30178
    BY <2>1, SMT DEF CenturyDay, CenturyFirst, GregorianReform, DaysInGregorianCycle
  <2>3. CenturyYear(GregorianReform) = 82
    BY <2>2, SMT DEF CenturyYear, DaysInNonLeapCentury
  <2>4. YearDay(GregorianReform) = 228
    BY <2>2, <2>3, SMT DEF YearDay, YearFirst, DaysInNonLeapCentury
  <2>5. MonthOfDay(228) = 10 /\ ~(10 > 12) /\ 228 - 214 + 1 = 15 /\ 100 * 15 + 82 = 1582
    BY SMT DEF MonthOfDay
  <2>6. DateInYear(1582, 228) = DateOf(1582, 10, 15)
    BY <1>2, <2>5, DateInYearIs, SMT
  <2>7. DateOf(1582, 10, 15) = [LastJulian EXCEPT !.day = 15]
    BY <1>1, SMT DEF DateOf, LastJulian
  <2> QED BY <2>1, <2>3, <2>4, <2>5, <2>6, <2>7, GregorianParts, SMT
<1>5. JulianDayNumber(LastJulian) = JulianReform
  <2>1. YearFromMarch(LastJulian) = 1582 /\ DayInYear(LastJulian) = 218
    BY <1>2, SMT DEF YearFromMarch, DayInYear, LastJulian, SignedYear
  <2> QED BY <2>1, SMT DEF JulianDayNumber, DaysInJulianCycle, JulianReform
<1>6. ~IsGregorian(LastJulian)
  BY SMT DEF IsGregorian, LastJulian
<1> QED BY <1>3, <1>4, <1>5, <1>6

LEMMA HybridFollows ==
  ASSUME NEW day \in Int
  PROVE  Components(day + 1) = HybridDayAfter(Components(day))
<1>1. CASE day + 1 < Switchover
  <2>1. PICK x \in Int : x = 730793 + day
    BY SMT
  <2>2. /\ day < Switchover /\ x < JulianReform /\ x # JulianReform - 1
        /\ 730793 + (day + 1) = x + 1
    BY <1>1, <2>1, SMT DEF Switchover, JulianReform
  <2>3. Components(day) = JulianDate(x) /\ Components(day + 1) = JulianDate(x + 1)
    BY <1>1, <2>1, <2>2 DEF Components
  <2>4. ~IsGregorian(JulianDate(x))
    BY <2>2, JulianSide
  <2>5. JulianDate(x) # LastJulian
    <3>1. JulianDayNumber(JulianDate(x)) = x + 1
      BY JulianBack
    <3>2. x + 1 # JulianReform
      BY <2>2, SMT DEF JulianReform
    <3> QED BY <3>1, <3>2, ReformDates
  <2>6. JulianDate(x + 1) = DayAfter(JulianDate(x), IsGregorian(JulianDate(x)))
    BY <2>4, JulianDayAfter
  <2> QED BY <2>3, <2>5, <2>6 DEF HybridDayAfter, LastJulian
<1>2. CASE day + 1 = Switchover
  <2>1. /\ day < Switchover /\ ~(day + 1 < Switchover) /\ 730793 + day = JulianReform - 1
        /\ 730791 + (day + 1) = GregorianReform
    BY <1>2, SMT DEF Switchover, JulianReform, GregorianReform
  <2>2. /\ Components(day) = JulianDate(JulianReform - 1)
        /\ Components(day + 1) = GregorianDate(GregorianReform)
    BY <2>1 DEF Components
  <2> QED BY <2>2, ReformDates DEF HybridDayAfter, LastJulian
<1>3. CASE ~(day < Switchover)
  <2>1. PICK x \in Int : x = 730791 + day
    BY SMT
  <2>2. /\ ~(day + 1 < Switchover) /\ x >= GregorianReform /\ 730791 + (day + 1) = x + 1
    BY <1>3, <2>1, SMT DEF Switchover, GregorianReform
  <2>3. Components(day) = GregorianDate(x) /\ Components(day + 1) = GregorianDate(x + 1)
    BY <1>3, <2>1, <2>2 DEF Components
  <2>4. IsGregorian(GregorianDate(x))
    BY <2>2, GregorianSide
  <2>5. GregorianDate(x) # LastJulian
    BY <2>4, ReformDates
  <2>6. GregorianRule(IsGregorian(GregorianDate(x)))
    BY <2>4, GregorianRuleHolds
  <2>7. GregorianDate(x + 1) = DayAfter(GregorianDate(x), IsGregorian(GregorianDate(x)))
    BY <2>6, GregorianDayAfter
  <2> QED BY <2>3, <2>5, <2>7 DEF HybridDayAfter, LastJulian
<1>4. day + 1 < Switchover \/ day + 1 = Switchover \/ ~(day < Switchover)
  BY SMT DEF Switchover
<1> QED BY <1>1, <1>2, <1>3, <1>4

\* Every day has the date after that of the day before, by the rules of the two
\* calendars, in the hybrid and in the Gregorian one: through the leap years, the
\* ten days that the reform of 1582 skips, and the change of the era
\* (ESCalendar_UTCComponentsFromTimeInterval, ESCalendar_hybridToGregorian).
THEOREM EveryDayFollows == Spec => []DatesFollow
<1>1. ASSUME today \in Int PROVE DatesFollow
  <2>1. PICK y \in Int : y = 730791 + today
    BY <1>1, SMT
  <2>2. today + 1 \in Int /\ y + 1 \in Int /\ y + 1 = 730791 + (today + 1)
    BY <1>1, <2>1, SMT
  <2>3. Components(today + 1) = HybridDayAfter(Components(today))
    BY <1>1, HybridFollows
  <2>4. HybridToGregorian(Components(today)) = GregorianDate(y)
    BY <1>1, <2>1, GregorianOf, SMT
  <2>5. HybridToGregorian(Components(today + 1)) = GregorianDate(y + 1)
    BY <2>2, GregorianOf, SMT
  <2>6. GregorianRule(TRUE)
    BY GregorianRuleHolds, Zenon
  <2>7. GregorianDate(y + 1) = DayAfter(GregorianDate(y), TRUE)
    BY <2>6, GregorianDayAfter
  <2> QED BY <2>3, <2>4, <2>5, <2>7 DEF DatesFollow
<1> QED BY InitDay, NextDay, <1>1, PTL DEF Spec
-----------------------------------------------------------------------------
(* The day of a date. *)

\* The year that begins in March, and the month counted from 3 to 14.
MarchYear(s, month) == IF month < 3 THEN s - 1 ELSE s
MarchMonth(month) == IF month < 3 THEN month + 12 ELSE month

\* A day of a month is in that month.
LEMMA DayOfMonth ==
  ASSUME NEW m \in 3 .. 14, NEW day \in Int, 1 <= day,
         day <= IF m = 14 THEN 29 ELSE IF m \in ThirtyDays THEN 30 ELSE 31
  PROVE  LET x == DaysBeforeMonth(m) + day - 1
         IN x \in YearDays /\ MonthOfDay(x) = m /\ (x = 365 <=> m = 14 /\ day = 29)
  BY SMT DEF DaysBeforeMonth, MonthOfDay, YearDays, ThirtyDays

\* A date that the rules allow is that of a day of a year that begins in March.
LEMMA InMarchYear ==
  ASSUME NEW s \in Int, NEW month \in 1 .. 12, NEW day \in Int, NEW g,
         1 <= day, day <= MonthLength(s, month, g),
         NEW t \in Int, t = MarchYear(s, month),
         NEW x \in Int, x = DaysBeforeMonth(MarchMonth(month)) + day - 1
  PROVE  /\ x \in YearDays /\ (x = 365 => LeapYear(t + 1, g))
         /\ DateInYear(t, x) = DateOf(s, month, day)
<1>1. PICK m \in 3 .. 14 : m = MarchMonth(month)
  BY SMT DEF MarchMonth
<1>2. (IF m > 12 THEN t + 1 ELSE t) = s /\ (IF m > 12 THEN m - 12 ELSE m) = month
  BY <1>1, SMT DEF MarchMonth, MarchYear
<1>3. MonthLength(s, month, g) = IF m = 14 THEN IF LeapYear(t + 1, g) THEN 29 ELSE 28
                                 ELSE IF m \in ThirtyDays THEN 30 ELSE 31
  BY <1>2, MonthLengthIs
<1>4. day <= IF m = 14 THEN 29 ELSE IF m \in ThirtyDays THEN 30 ELSE 31
  BY <1>3, SMT
<1>5. x \in YearDays /\ MonthOfDay(x) = m /\ (x = 365 <=> m = 14 /\ day = 29)
  BY <1>1, <1>4, DayOfMonth
<1>6. x = 365 => LeapYear(t + 1, g)
  BY <1>3, <1>5, SMT
<1>7. x - DaysBeforeMonth(m) + 1 = day
  BY <1>1, SMT DEF DaysBeforeMonth
<1>8. DateInYear(t, x) = DateOf(s, month, day)
  BY <1>2, <1>5, <1>7, DateInYearIs
<1> QED BY <1>5, <1>6, <1>8

\* The parts of a date that DayNumber is made of.
LEMMA MarchParts ==
  ASSUME NEW s \in Int, NEW month, NEW day
  PROVE  /\ YearFromMarch(DateOf(s, month, day)) = MarchYear(s, month)
         /\ DayInYear(DateOf(s, month, day)) = DaysBeforeMonth(MarchMonth(month)) + day
  BY DateOfParts DEF YearFromMarch, DayInYear, MarchYear, MarchMonth

\* The year of a day number that is made of a year and a day in it.
LEMMA JulianForth ==
  ASSUME NEW t \in Int, NEW x \in YearDays, x = 365 => (t + 1) % 4 = 0,
         NEW n \in Int, n = (DaysInJulianCycle * t) \div 4 + x
  PROVE  JulianDate(n) = DateInYear(t, x)
<1>1. PICK a \in Int, b \in 0 .. 3 : t = 4 * a + b
  BY Fourths
<1>2. (1461 * t) \div 4 = 1461 * a + 365 * b
  BY <1>1, SMT
<1>3. n = 1461 * a + 365 * b + x
  BY <1>2 DEF DaysInJulianCycle
<1>4. x = 365 => b = 3
  BY <1>1, SMT
<1>5. 1461 * t <= 4 * n + 3 /\ 4 * n + 3 < 1461 * t + 1461 /\ 4 * n + 3 \in Int
  BY <1>1, <1>3, <1>4, SMT DEF YearDays
<1>6. JulianYear(n) = t
  BY <1>5, JulianQuotient DEF JulianYear, DaysInJulianCycle
<1>7. JulianYearDay(n) = n - (1461 * t) \div 4
  BY <1>6 DEF JulianYearDay, JulianYearFirst, DaysInJulianCycle
<1>8. JulianYearDay(n) = x
  BY <1>2, <1>3, <1>7, SMT DEF YearDays
<1> QED BY <1>6, <1>8, JulianParts
\* The same in the Gregorian calendar: the day in the century, then the century.
LEMMA YearForth ==
  ASSUME NEW w \in 0 .. 99, NEW x \in YearDays, x = 365 /\ w # 99 => (w + 1) % 4 = 0,
         NEW y \in Int, y = (DaysInNonLeapCentury * w) \div 100 + x
  PROVE  /\ YearIn(y) = w /\ DayIn(y) = x /\ 0 <= y /\ y <= 36524
         /\ y = 36524 => x = 365 /\ w = 99
<1>0. w \in Int
  BY SMT
<1>1. PICK a \in Int, b \in 0 .. 3 : w = 4 * a + b
  BY <1>0, Fourths
<1>2. (36525 * w) \div 100 = 1461 * a + 365 * b
  BY <1>1, SMT
<1>3. y = 1461 * a + 365 * b + x
  BY <1>2 DEF DaysInNonLeapCentury
<1>4. x = 365 => b = 3
  BY <1>1, SMT
<1>5. 0 <= a /\ a <= 24
  BY <1>1, SMT
<1>6. 36525 * w <= 100 * y + 99 /\ 100 * y + 99 < 36525 * w + 36525 /\ 100 * y + 99 \in Int
  BY <1>1, <1>3, <1>4, SMT DEF YearDays
<1>7. YearIn(y) = w
  BY <1>6, YearQuotient, SMT DEF YearIn, DaysInNonLeapCentury
<1>8. DayIn(y) = y - (36525 * w) \div 100
  BY <1>7 DEF DayIn, DaysInNonLeapCentury
<1>9. DayIn(y) = x
  BY <1>2, <1>3, <1>8, SMT DEF YearDays
<1>10. 0 <= y /\ y <= 36524 /\ (y = 36524 => x = 365 /\ w = 99)
  BY <1>1, <1>3, <1>4, <1>5, SMT DEF YearDays
<1> QED BY <1>7, <1>9, <1>10

LEMMA CenturyDayIs ==
  ASSUME NEW n, NEW c, Century(n) = c
  PROVE  CenturyDay(n) = n - (146097 * c) \div 4
  BY SMT DEF CenturyDay, CenturyFirst, DaysInGregorianCycle

\* A year has a day.
HasDay(t, x, g) == x \in YearDays /\ (x = 365 => LeapYear(t + 1, g))

\* The day number that is made of a century, a year in it and a day in that.
GregorianNumber(c, w, x) ==
  (DaysInGregorianCycle * c) \div 4 + (DaysInNonLeapCentury * w) \div 100 + x

LEMMA GregorianForth ==
  ASSUME NEW c \in Int, NEW w \in 0 .. 99, NEW t \in Int, t = 100 * c + w,
         NEW x, NEW g, GregorianRule(g), HasDay(t, x, g)
  PROVE  GregorianDate(GregorianNumber(c, w, x)) = DateInYear(t, x)
<1>0. x \in YearDays /\ (x = 365 => LeapYear(t + 1, g))
  BY DEF HasDay
<1>n. PICK n \in Int : n = GregorianNumber(c, w, x)
  BY <1>0, SMT DEF GregorianNumber, DaysInGregorianCycle, DaysInNonLeapCentury, YearDays
<1>1. PICK y \in Int : y = (DaysInNonLeapCentury * w) \div 100 + x
  BY <1>0, SMT DEF DaysInNonLeapCentury, YearDays
<1>2. /\ x = 365 /\ w # 99 => (w + 1) % 4 = 0
      /\ x = 365 /\ w = 99 => (c + 1) % 4 = 0
  <2>1. /\ w = 99 => (LeapYear(t + 1, g) <=> (c + 1) % 4 = 0)
        /\ w # 99 => (LeapYear(t + 1, g) <=> (w + 1) % 4 = 0)
    BY LeapYears
  <2> QED BY <1>0, <2>1, Zenon
<1>3. YearIn(y) = w /\ DayIn(y) = x
  BY <1>0, <1>1, <1>2, YearForth
<1>4. 0 <= y /\ y <= 36524 /\ (y = 36524 => (c + 1) % 4 = 0)
  <2>1. 0 <= y /\ y <= 36524 /\ (y = 36524 => x = 365 /\ w = 99)
    BY <1>0, <1>1, <1>2, YearForth
  <2> QED BY <1>2, <2>1, SMT
<1>5. PICK a \in Int, b \in 0 .. 3 : c = 4 * a + b
  BY Fourths
<1>6. (146097 * c) \div 4 = 146097 * a + 36524 * b
  BY <1>5, SMT
<1>7. n = 146097 * a + 36524 * b + y
  <2>1. n = (146097 * c) \div 4 + y
    BY <1>0, <1>n, <1>1, SMT DEF GregorianNumber, DaysInGregorianCycle, DaysInNonLeapCentury, YearDays
  <2> QED BY <1>6, <2>1, SMT
<1>8. y = 36524 => b = 3
  BY <1>4, <1>5, SMT
<1>9. 146097 * c <= 4 * n + 3 /\ 4 * n + 3 < 146097 * c + 146097 /\ 4 * n + 3 \in Int
  BY <1>4, <1>5, <1>7, <1>8, SMT
<1>10. Century(n) = c
  BY <1>9, CenturyQuotient, SMT DEF Century, DaysInGregorianCycle
<1>11. CenturyDay(n) = y
  <2>1. CenturyDay(n) = n - (146097 * c) \div 4
    BY <1>10, CenturyDayIs
  <2> QED BY <1>6, <1>7, <2>1, SMT
<1>12. CenturyYear(n) = w /\ YearDay(n) = x
  BY <1>3, <1>11 DEF YearIn, DayIn, CenturyYear, YearFirst, YearDay
<1> QED BY <1>n, <1>10, <1>12, GregorianParts
LEMMA JulianRuleHolds ==
  ASSUME NEW g, ~g, NEW s PROVE LeapYear(s, g) <=> s % 4 = 0
  BY Zenon DEF LeapYear

\* The day numbers of a year's first days before the reform.
LEMMA BeforeReform ==
  ASSUME NEW t \in Int, NEW x \in YearDays, ~FromReform(t, x),
         ~(t = 1582 /\ x >= 218)
  PROVE  (DaysInJulianCycle * t) \div 4 + x < JulianReform
<1>1. x \in Int /\ 0 <= x /\ x <= 365
  BY SMT DEF YearDays
<1>2. t < 1582 \/ (t = 1582 /\ x < 218)
  BY <1>1, SMT DEF FromReform
<1>3. PICK q \in Int : q = (1461 * t) \div 4 /\ 4 * q <= 1461 * t /\ 1461 * t < 4 * q + 4
  BY SMT
<1>4. q + x < 578043
  BY <1>1, <1>2, <1>3, SMT
<1> QED BY <1>3, <1>4, SMT DEF DaysInJulianCycle, JulianReform

LEMMA JulianDayOf ==
  ASSUME NEW t \in Int, NEW x \in YearDays, NEW d, d = DateInYear(t, x),
         x = 365 => (t + 1) % 4 = 0, ~FromReform(t, x), ~(t = 1582 /\ x >= 218)
  PROVE  Components(DayNumber(d)) = d
<1>1. PICK n \in Int : n = (DaysInJulianCycle * t) \div 4 + x
  BY SMT DEF DaysInJulianCycle, YearDays
<1>2. JulianDate(n) = d
  BY <1>1, JulianForth
<1>3. n < JulianReform
  BY <1>1, BeforeReform
<1>4. ~IsGregorian(d)
  BY ReformInYear
<1>5. JulianDayNumber(d) = n + 1
  BY <1>2, JulianBack
<1>6. PICK day \in Int : day = n - 730793
  BY SMT
<1>7. DayNumber(d) = day
  <2>1. DayNumber(d) = (n + 1) - 730794
    BY <1>4, <1>5, SMT DEF DayNumber
  <2> QED BY <1>6, <2>1, SMT
<1>8. day < Switchover /\ 730793 + day = n
  BY <1>3, <1>6, SMT DEF JulianReform, Switchover
<1>9. Components(day) = JulianDate(n)
  BY <1>8, SMT DEF Components
<1> QED BY <1>2, <1>7, <1>9

LEMMA GregorianDayOf ==
  ASSUME NEW t \in Int, NEW x \in YearDays, NEW d, d = DateInYear(t, x),
         NEW g, GregorianRule(g), x = 365 => LeapYear(t + 1, g), FromReform(t, x)
  PROVE  Components(DayNumber(d)) = d
<1>1. PICK c \in Int, w \in 0 .. 99 : t = 100 * c + w
  <2>1. t = 100 * (t \div 100) + (t % 100) /\ t \div 100 \in Int /\ t % 100 \in 0 .. 99
    BY SMT
  <2> QED BY <2>1
<1>2. PICK n \in Int : n = GregorianNumber(c, w, x)
  BY SMT DEF GregorianNumber, DaysInGregorianCycle, DaysInNonLeapCentury, YearDays
<1>3. GregorianDate(n) = d
  <2>1. HasDay(t, x, g)
    BY DEF HasDay
  <2> QED BY <1>1, <1>2, <2>1, GregorianForth
<1>4. IsGregorian(d)
  BY ReformInYear
<1>5. GregorianDayNumber(d) = n + 1
  BY <1>3, GregorianBack
<1>6. n >= GregorianReform
  BY <1>3, <1>4, GregorianSide
<1>7. PICK day \in Int : day = n - 730791
  BY SMT
<1>8. DayNumber(d) = day
  <2>1. DayNumber(d) = (n + 1) - 730792
    BY <1>4, <1>5, SMT DEF DayNumber
  <2> QED BY <1>7, <2>1, SMT
<1>9. ~(day < Switchover) /\ 730791 + day = n
  BY <1>6, <1>7, SMT DEF GregorianReform, Switchover
<1>10. Components(day) = GregorianDate(n)
  BY <1>9, SMT DEF Components
<1> QED BY <1>3, <1>8, <1>10

\* The rules allow a date: its month has that day.
Allowed(s, month, day) ==
  /\ s \in Int /\ month \in 1 .. 12 /\ day \in Int
  /\ 1 <= day /\ day <= MonthLength(s, month, IsGregorian(DateOf(s, month, day)))

\* The day of a date that the rules allow, and that the reform has not skipped,
\* is converted to that date.
LEMMA DateBack ==
  ASSUME NEW s, NEW month, NEW day, Allowed(s, month, day),
         ~Skipped(DateOf(s, month, day))
  PROVE  Components(DayNumber(DateOf(s, month, day))) = DateOf(s, month, day)
<1> DEFINE d == DateOf(s, month, day)
           g == IsGregorian(d)
<1>1. /\ s \in Int /\ month \in 1 .. 12 /\ day \in Int
      /\ 1 <= day /\ day <= MonthLength(s, month, g)
  BY DEF Allowed
<1>2. PICK t \in Int : t = MarchYear(s, month)
  BY <1>1, SMT DEF MarchYear
<1>3. PICK x \in Int : x = DaysBeforeMonth(MarchMonth(month)) + day - 1
  BY <1>1, SMT DEF DaysBeforeMonth, MarchMonth
<1> HIDE DEF d, g
<1>4. /\ x \in YearDays /\ (x = 365 => LeapYear(t + 1, g))
      /\ DateInYear(t, x) = d
  BY <1>1, <1>2, <1>3, InMarchYear DEF d
<1>5. g <=> FromReform(t, x)
  BY <1>4, ReformInYear DEF g
<1>6. CASE g
  <2>1. GregorianRule(g)
    BY <1>6, GregorianRuleHolds
  <2> QED BY <1>4, <1>5, <1>6, <2>1, GregorianDayOf DEF d
<1>7. CASE ~g
  <2>1. x = 365 => (t + 1) % 4 = 0
    BY <1>4, <1>7, JulianRuleHolds
  <2>2. ~(t = 1582 /\ x >= 218)
    <3>1. SUFFICES ASSUME t = 1582, x >= 218 PROVE FALSE
      OBVIOUS
    <3>2. x < 228
      BY <1>4, <1>5, <1>7, <3>1, SMT DEF FromReform, YearDays
    <3>3. MonthOfDay(x) = 10 /\ DaysBeforeMonth(10) = 214
      BY <3>1, <3>2, SMT DEF MonthOfDay, DaysBeforeMonth
    <3>4. SignedYear(d) = 1582 /\ d.month = 10 /\ d.day = x - 214 + 1
          /\ (d.era = 1 <=> SignedYear(d) > 0) /\ (d.era = 1 => d.year = SignedYear(d))
      BY <1>4, <3>1, <3>3, DateInYearParts, SMT
    <3>5. Skipped(d)
      BY <3>1, <3>2, <3>4, SMT DEF Skipped
    <3> QED BY <3>5 DEF d
  <2> QED BY <1>4, <1>5, <1>7, <2>1, <2>2, JulianDayOf DEF d
<1> QED BY <1>6, <1>7
LEMMA LastDayIs ==
  ASSUME NEW s \in Int, NEW month, NEW day, NEW g
  PROVE  LastDay(DateOf(s, month, day), g) = MonthLength(s, month, g)
  BY DateOfParts DEF LastDay, MonthLength

\* The length of a month of a year that begins in March is at least that of
\* the days in it.
LEMMA DayOfYear ==
  ASSUME NEW x \in YearDays, NEW m \in 3 .. 14, m = MonthOfDay(x)
  PROVE  LET day == x - DaysBeforeMonth(m) + 1
         IN /\ day \in Int /\ 1 <= day
            /\ m = 14 => day <= 29 /\ (day = 29 => x = 365)
            /\ m # 14 => day <= IF m \in ThirtyDays THEN 30 ELSE 31
  BY SMT DEF DaysBeforeMonth, MonthOfDay, YearDays, ThirtyDays

\* The date of a day that a year has, by the rules.
LEMMA InMonth ==
  ASSUME NEW t \in Int, NEW x, NEW g, HasDay(t, x, g)
  PROVE  \E s \in Int, month \in 1 .. 12, day \in Int :
           /\ DateInYear(t, x) = DateOf(s, month, day)
           /\ 1 <= day /\ day <= MonthLength(s, month, g)
<1>1. x \in YearDays /\ (x = 365 => LeapYear(t + 1, g))
  BY DEF HasDay
<1>2. PICK m \in 3 .. 14 : m = MonthOfDay(x)
  BY <1>1, MonthRange
<1>3. PICK s \in Int : s = IF m > 12 THEN t + 1 ELSE t
  BY SMT
<1>4. PICK month \in 1 .. 12 : month = IF m > 12 THEN m - 12 ELSE m
  BY SMT
<1>5. PICK day \in Int : day = x - DaysBeforeMonth(m) + 1
  BY <1>1, SMT DEF DaysBeforeMonth, YearDays
<1>6. DateInYear(t, x) = DateOf(s, month, day)
  BY <1>2, <1>3, <1>4, <1>5, DateInYearIs
<1>7. MonthLength(s, month, g) = IF m = 14 THEN IF LeapYear(t + 1, g) THEN 29 ELSE 28
                                 ELSE IF m \in ThirtyDays THEN 30 ELSE 31
  BY <1>3, <1>4, MonthLengthIs
<1>8. /\ 1 <= day
      /\ m = 14 => day <= 29 /\ (day = 29 => x = 365)
      /\ m # 14 => day <= IF m \in ThirtyDays THEN 30 ELSE 31
  BY <1>1, <1>2, <1>5, DayOfYear
<1>9. day <= MonthLength(s, month, g)
  <2>1. CASE m = 14
    <3>1. CASE day = 29
      BY <1>1, <1>7, <1>8, <2>1, <3>1, SMT
    <3>2. CASE day # 29
      <4>1. MonthLength(s, month, g) \in {28, 29}
        BY <1>7, <2>1
      <4> QED BY <1>8, <2>1, <3>2, <4>1, SMT
    <3> QED BY <3>1, <3>2
  <2>2. CASE m # 14
    BY <1>7, <1>8, <2>2, SMT
  <2> QED BY <2>1, <2>2
<1> QED BY <1>6, <1>8, <1>9

LEMMA JulianHas ==
  ASSUME NEW x \in Int, NEW g, ~g
  PROVE  HasDay(JulianYear(x), JulianYearDay(x), g)
<1>1. PICK s \in Int, r \in Int : s = JulianYear(x) /\ r = JulianYearDay(x)
  BY JulianArithmetic DEF JulianYearDay
<1>2. r \in YearDays
  BY <1>1, JulianArithmetic
<1>3. DayFollows(s, r, JulianYear(x + 1), JulianYearDay(x + 1))
  BY <1>1, JulianFollows
<1>4. r = 365 => (s + 1) % 4 = 0
  BY <1>3, SMT DEF DayFollows
<1>5. LeapYear(s + 1, g) <=> (s + 1) % 4 = 0
  BY JulianRuleHolds
<1> QED BY <1>1, <1>2, <1>4, <1>5 DEF HasDay

LEMMA GregorianHas ==
  ASSUME NEW x \in Int, NEW g, GregorianRule(g)
  PROVE  HasDay(YearOf(x), YearDay(x), g)
<1>1. PICK c \in Int, w \in 0 .. 99 : c = Century(x) /\ w = CenturyYear(x)
  BY CenturyArithmetic, CenturyYears
<1>2. PICK y \in Int : y = CenturyDay(x)
  BY CenturyArithmetic DEF CenturyDay
<1>3. PICK r \in Int : r = YearDay(x)
  BY CenturyYears DEF YearDays
<1>4. w = YearIn(y) /\ r = DayIn(y) /\ r \in YearDays
  BY <1>1, <1>2, <1>3, CenturyYears DEF YearIn, DayIn, CenturyYear, YearFirst, YearDay
<1>5. PICK s \in Int : s = 100 * c + w
  BY SMT
<1>6. /\ w = 99 => (LeapYear(s + 1, g) <=> (c + 1) % 4 = 0)
      /\ w # 99 => (LeapYear(s + 1, g) <=> (w + 1) % 4 = 0)
  BY <1>5, LeapYears
<1>7. w # 99 /\ r = 365 => (w + 1) % 4 = 0
  <2>1. DayFollows(w, r, YearIn(y + 1), DayIn(y + 1))
    BY <1>4, YearFollows
  <2> QED BY <2>1, SMT DEF DayFollows
<1>8. w = 99 /\ r = 365 => (c + 1) % 4 = 0
  <2>1. w = 99 /\ r = 365 => y = 36524
    BY <1>4, SMT DEF DayIn, DaysInNonLeapCentury
  <2>2. CenturyDayFollows(c, y, Century(x + 1), CenturyDay(x + 1))
    BY <1>1, <1>2, CenturyFollows
  <2> QED BY <2>1, <2>2, SMT DEF CenturyDayFollows
<1>9. r = 365 => LeapYear(s + 1, g)
  BY <1>6, <1>7, <1>8, Zenon
<1> QED BY <1>1, <1>3, <1>4, <1>5, <1>9 DEF HasDay, YearOf

\* Every day has a date that the rules allow.
LEMMA DateIsAllowed ==
  ASSUME NEW day \in Int
  PROVE  \E s, month, d : Components(day) = DateOf(s, month, d) /\ Allowed(s, month, d)
<1>1. ASSUME NEW t \in Int, NEW x, Components(day) = DateInYear(t, x),
             HasDay(t, x, IsGregorian(Components(day)))
      PROVE  \E s, month, d : Components(day) = DateOf(s, month, d) /\ Allowed(s, month, d)
  <2> DEFINE g == IsGregorian(Components(day))
  <2> HIDE DEF g
  <2>1. HasDay(t, x, g)
    BY <1>1 DEF g
  <2>2. PICK s \in Int, month \in 1 .. 12, d \in Int :
          /\ DateInYear(t, x) = DateOf(s, month, d)
          /\ 1 <= d /\ d <= MonthLength(s, month, g)
    BY <2>1, InMonth
  <2>3. Components(day) = DateOf(s, month, d)
    BY <1>1, <2>2
  <2>4. g = IsGregorian(DateOf(s, month, d))
    BY <2>3 DEF g
  <2>5. Allowed(s, month, d)
    BY <2>2, <2>4 DEF Allowed
  <2> QED BY <2>3, <2>5
<1>2. CASE day < Switchover
  <2>1. PICK x \in Int : x = 730793 + day
    BY SMT
  <2>2. Components(day) = JulianDate(x) /\ x < JulianReform
    BY <1>2, <2>1, SMT DEF Components, Switchover, JulianReform
  <2>3. ~IsGregorian(Components(day))
    BY <2>2, JulianSide
  <2>4. Components(day) = DateInYear(JulianYear(x), JulianYearDay(x)) /\ JulianYear(x) \in Int
    BY <2>2, JulianParts, JulianArithmetic
  <2> QED BY <1>1, <2>3, <2>4, JulianHas
<1>3. CASE ~(day < Switchover)
  <2>1. PICK x \in Int : x = 730791 + day
    BY SMT
  <2>2. Components(day) = GregorianDate(x) /\ x >= GregorianReform
    BY <1>3, <2>1, SMT DEF Components, Switchover, GregorianReform
  <2>3. GregorianRule(IsGregorian(Components(day)))
    BY <2>2, GregorianSide, GregorianRuleHolds
  <2>4. Components(day) = DateInYear(YearOf(x), YearDay(x)) /\ YearOf(x) \in Int
    BY <2>2, GregorianParts, YearOfParts DEF YearOf
  <2> QED BY <1>1, <2>3, <2>4, GregorianHas
<1> QED BY <1>2, <1>3
-----------------------------------------------------------------------------
(* Months and years later. *)

LEMMA GregorianByParts ==
  ASSUME NEW s \in Int, NEW month \in Int, NEW day \in Int
  PROVE  IsGregorian(DateOf(s, month, day)) <=> AfterReform(s, month, day)
<1>1. PICK d : d = DateOf(s, month, day)
  OBVIOUS
<1>2. /\ d.era = 1 <=> s > 0
      /\ d.era = 1 => d.year = s
      /\ d.month = month /\ d.day = day
  BY <1>1, EraYearBack DEF DateOf
<1>3. IsGregorian(d) <=> AfterReform(s, month, day)
  BY <1>2, SMT DEF IsGregorian, AfterReform
<1> QED BY <1>1, <1>3, Zenon

\* Two days of a month are on one side of the reform.
SameSide(s, month, a, b) ==
  IsGregorian(DateOf(s, month, a)) <=> IsGregorian(DateOf(s, month, b))

\* Such days follow each other.
LEMMA SameMonth ==
  ASSUME NEW s \in Int, NEW month \in Int, NEW a \in Int, NEW b \in Int,
         SameSide(s, month, a, b)
  PROVE  /\ DayNumber(DateOf(s, month, a)) \in Int
         /\ DayNumber(DateOf(s, month, b)) = DayNumber(DateOf(s, month, a)) + (b - a)
<1>1. PICK t \in Int : t = MarchYear(s, month)
  BY SMT DEF MarchYear
<1>2. PICK days \in Int : days = DaysBeforeMonth(MarchMonth(month))
  BY SMT DEF DaysBeforeMonth, MarchMonth
<1>3. \A day : /\ YearFromMarch(DateOf(s, month, day)) = t
               /\ DayInYear(DateOf(s, month, day)) = days + day
  BY <1>1, <1>2, MarchParts
<1>4. PICK j \in Int : j = (DaysInJulianCycle * t) \div 4
  BY SMT DEF DaysInJulianCycle
<1>5. PICK c \in Int : c = t \div 100
  BY SMT
<1>6. PICK g \in Int :
        g = (DaysInGregorianCycle * c) \div 4 + (DaysInNonLeapCentury * (t - 100 * c)) \div 100
  BY SMT DEF DaysInGregorianCycle, DaysInNonLeapCentury
<1>7. \A day : /\ JulianDayNumber(DateOf(s, month, day)) = j + (days + day)
               /\ GregorianDayNumber(DateOf(s, month, day)) = g + (days + day)
  BY <1>3, <1>4, <1>5, <1>6 DEF JulianDayNumber, GregorianDayNumber
<1>8. CASE IsGregorian(DateOf(s, month, a))
  <2>1. /\ DayNumber(DateOf(s, month, a)) = g + (days + a) - 730792
        /\ DayNumber(DateOf(s, month, b)) = g + (days + b) - 730792
    BY <1>7, <1>8, SMT DEF DayNumber, SameSide
  <2> QED BY <2>1, SMT
<1>9. CASE ~IsGregorian(DateOf(s, month, a))
  <2>1. /\ DayNumber(DateOf(s, month, a)) = j + (days + a) - 730794
        /\ DayNumber(DateOf(s, month, b)) = j + (days + b) - 730794
    BY <1>7, <1>9, SMT DEF DayNumber, SameSide
  <2> QED BY <2>1, SMT
<1> QED BY <1>8, <1>9

LEMMA SameCalendar ==
  ASSUME NEW s, NEW month, NEW g, NEW h, g <=> h
  PROVE  MonthLength(s, month, g) = MonthLength(s, month, h)
<1>1. CASE g
  BY <1>1, Zenon DEF MonthLength, LeapYear
<1>2. CASE ~g
  BY <1>2, Zenon DEF MonthLength, LeapYear
<1> QED BY <1>1, <1>2

\* February is on one side of the reform; the day after its last is 1 March,
\* whose number is one more.
LEMMA FebruaryEnds ==
  ASSUME NEW s \in Int, NEW g, g = IsGregorian(DateOf(s, 2, 1)),
         NEW last \in Int, last = MonthLength(s, 2, g)
  PROVE  /\ \A day \in Int : IsGregorian(DateOf(s, 2, day)) <=> g
         /\ DayNumber(DateOf(s, 2, 1)) \in Int
         /\ \A day \in Int :
              DayNumber(DateOf(s, 2, day)) = DayNumber(DateOf(s, 2, 1)) + (day - 1)
         /\ Components(DayNumber(DateOf(s, 2, 1)) + last) = DateOf(s, 3, 1)
         /\ DayNumber(DateOf(s, 3, 1)) = DayNumber(DateOf(s, 2, 1)) + last
<1>1. \A day \in Int : IsGregorian(DateOf(s, 2, day)) <=> s > 1582
  <2>1. \A day \in Int : AfterReform(s, 2, day) <=> s > 1582
    BY SMT DEF AfterReform
  <2> QED BY <2>1, GregorianByParts, SMT
<1>2. \A day \in Int : IsGregorian(DateOf(s, 2, day)) <=> g
  BY <1>1
<1>3. DayNumber(DateOf(s, 2, 1)) \in Int
  <2>1. SameSide(s, 2, 1, 1)
    BY DEF SameSide
  <2> QED BY <2>1, SameMonth
<1>4. \A day \in Int :
        DayNumber(DateOf(s, 2, day)) = DayNumber(DateOf(s, 2, 1)) + (day - 1)
  <2>1. TAKE day \in Int
  <2>2. SameSide(s, 2, 1, day)
    BY <1>1 DEF SameSide
  <2> QED BY <2>2, SameMonth
<1>5. last \in {28, 29}
  BY February
<1>6. PICK n \in Int : n = DayNumber(DateOf(s, 2, last))
  <2>1. last - 1 \in Int
    BY SMT
  <2> QED BY <1>3, <1>4, SMT
<1>7. n + 1 = DayNumber(DateOf(s, 2, 1)) + last
  BY <1>3, <1>4, <1>6, SMT
<1>8. Components(n) = DateOf(s, 2, last)
  <2>1. last = MonthLength(s, 2, IsGregorian(DateOf(s, 2, last)))
    <3>1. IsGregorian(DateOf(s, 2, last)) <=> g
      BY <1>2
    <3> QED BY <3>1, SameCalendar
  <2>2. 1 <= last /\ last <= last /\ 2 \in 1 .. 12
    BY <1>5, SMT
  <2>3. Allowed(s, 2, last)
    BY <2>1, <2>2 DEF Allowed
  <2>4. ~Skipped(DateOf(s, 2, last))
    BY DateOfParts, SMT DEF Skipped
  <2> QED BY <1>6, <2>3, <2>4, DateBack
<1>9. Components(n + 1) = DateOf(s, 3, 1)
  <2>1. Components(n + 1) = HybridDayAfter(DateOf(s, 2, last))
    BY <1>8, HybridFollows
  <2>2. HybridDayAfter(DateOf(s, 2, last)) =
          DayAfter(DateOf(s, 2, last), IsGregorian(DateOf(s, 2, last)))
    <3>1. DateOf(s, 2, last) # LastJulian
      <4>1. DateOf(s, 2, last).month = 2
        BY DateOfParts
      <4> QED BY <4>1, SMT DEF LastJulian
    <3> QED BY <3>1, SMT DEF HybridDayAfter, LastJulian
  <2>3. last = MonthLength(s, 2, IsGregorian(DateOf(s, 2, last)))
    <3>1. IsGregorian(DateOf(s, 2, last)) <=> g
      BY <1>2
    <3> QED BY <3>1, SameCalendar
  <2>4. 2 \in 1 .. 12 /\ 2 < 12 /\ 2 + 1 = 3
    BY SMT
  <2>5. DayAfter(DateOf(s, 2, last), IsGregorian(DateOf(s, 2, last))) = DateOf(s, 2 + 1, 1)
    BY <2>3, <2>4, DayAfterIs
  <2> QED BY <2>1, <2>2, <2>4, <2>5
<1> QED BY <1>2, <1>3, <1>4, <1>7, <1>9, DayNumberBack

\* The number of days of a month, as the code counts it.
LEMMA DaysInMonthIs ==
  ASSUME NEW s \in Int, NEW month \in Int, NEW day \in Int
  PROVE  DaysInMonth(EraYear(s).era, EraYear(s).year, month)
           = MonthLength(s, month, IsGregorian(DateOf(s, month, day)))
<1>1. CASE month = 2
  <2>1. DaysInMonth(EraYear(s).era, EraYear(s).year, month)
          = DayNumber(DateOf(s, 3, 1)) - DayNumber(DateOf(s, 2, 1))
    <3>1. month \notin ThirtyDays
      BY <1>1, SMT DEF ThirtyDays
    <3> QED BY <1>1, <3>1, Zenon DEF DaysInMonth, DateOf
  <2>2. PICK g : g = IsGregorian(DateOf(s, 2, 1))
    OBVIOUS
  <2>3. PICK last \in Int : last = MonthLength(s, 2, g)
    BY February, SMT
  <2>4. /\ IsGregorian(DateOf(s, 2, day)) <=> g
        /\ DayNumber(DateOf(s, 2, 1)) \in Int
        /\ DayNumber(DateOf(s, 3, 1)) = DayNumber(DateOf(s, 2, 1)) + last
    BY <2>2, <2>3, FebruaryEnds
  <2>5. DayNumber(DateOf(s, 3, 1)) - DayNumber(DateOf(s, 2, 1)) = last
    BY <2>4, SMT
  <2>6. MonthLength(s, 2, g) = MonthLength(s, 2, IsGregorian(DateOf(s, 2, day)))
    BY <2>4, SameCalendar
  <2> QED BY <1>1, <2>1, <2>3, <2>5, <2>6
<1>2. CASE month # 2
  BY <1>2 DEF DaysInMonth, MonthLength
<1> QED BY <1>1, <1>2

LEMMA AddMonthsIs ==
  ASSUME NEW s \in Int, NEW month \in Int, NEW day \in Int, NEW n \in Int,
         NEW s1 \in Int, NEW month1 \in Int,
         s1 = (12 * s + month - 1 + n) \div 12, month1 = ((12 * s + month - 1 + n) % 12) + 1
  PROVE  \E last : /\ last = MonthLength(s1, month1, IsGregorian(DateOf(s1, month1, day)))
                   /\ AddMonths(DateOf(s, month, day), n) =
                        DateOf(s1, month1, IF day > last THEN last ELSE day)
<1>1. PICK date : date = DateOf(s, month, day)
  OBVIOUS
<1>2. SignedYear(date) = s /\ date.month = month /\ date.day = day
  BY <1>1, DateOfParts
<1>3. PICK last : last = DaysInMonth(EraYear(s1).era, EraYear(s1).year, month1)
  OBVIOUS
<1>4. last = MonthLength(s1, month1, IsGregorian(DateOf(s1, month1, day)))
  BY <1>3, DaysInMonthIs
<1>5. AddMonths(date, n) = DateOf(s1, month1, IF day > last THEN last ELSE day)
  BY <1>2, <1>3, Zenon DEF AddMonths, DateOf
<1> QED BY <1>1, <1>4, <1>5

LEMMA AddYearsIs ==
  ASSUME NEW s \in Int, NEW month, NEW day, NEW n \in Int
  PROVE  AddYears(DateOf(s, month, day), n) = DateOf(s + n, month, day)
<1>1. PICK date : date = DateOf(s, month, day)
  OBVIOUS
<1>2. PICK e, y : e = EraYear(s + n).era /\ y = EraYear(s + n).year
  OBVIOUS
<1>3. SignedYear(date) = s
  BY <1>1, DateOfParts
<1>4. AddYears(date, n) = [date EXCEPT !.era = e, !.year = y]
  BY <1>2, <1>3, Zenon DEF AddYears
<1>5. PICK q : q = [date EXCEPT !.era = e]
  OBVIOUS
<1>6. q = [era |-> e, year |-> EraYear(s).year, month |-> month, day |-> day]
  BY <1>1, <1>5 DEF DateOf
<1>7. [q EXCEPT !.year = y] = [era |-> e, year |-> y, month |-> month, day |-> day]
  BY <1>6
<1>8. [date EXCEPT !.era = e, !.year = y] = [q EXCEPT !.year = y]
  BY <1>5
<1> QED BY <1>1, <1>2, <1>4, <1>7, <1>8, Zenon DEF DateOf
\* A month other than February has a length of its own.
LEMMA OtherMonths ==
  ASSUME NEW s, NEW t, NEW month, NEW g, NEW h, month # 2
  PROVE  MonthLength(s, month, g) = MonthLength(t, month, h)
  BY DEF MonthLength

LEMMA LengthRange ==
  ASSUME NEW s, NEW month, NEW g
  PROVE  MonthLength(s, month, g) \in Int /\ 28 <= MonthLength(s, month, g)
  BY SMT DEF MonthLength

\* What YearsLand says of a day of a month and the date of it years later.
Lands(day, later) ==
  LET shown == Components(DayNumber(later))
  IN IF day > LastDay(later, IsGregorian(later))
     THEN shown = [later EXCEPT !.month = 3, !.day = 1] ELSE shown = later

LEMMA DayLands ==
  ASSUME NEW s \in Int, NEW month, NEW day, Allowed(s, month, day),
         NEW t \in Int, NEW later, later = DateOf(t, month, day),
         ~Skipped(later)
  PROVE  Lands(day, later)
<1>0. PICK shown : shown = Components(DayNumber(later))
  OBVIOUS
<1>1. PICK length \in Int : length = MonthLength(t, month, IsGregorian(later))
  BY LengthRange
<1>2. LastDay(later, IsGregorian(later)) = length
  BY <1>1, LastDayIs
<1>3. month \in 1 .. 12 /\ month \in Int /\ day \in Int /\ 1 <= day
      /\ day <= MonthLength(s, month, IsGregorian(DateOf(s, month, day)))
  BY SMT DEF Allowed
<1>4. CASE day <= length
  <2>1. Allowed(t, month, day)
    BY <1>1, <1>3, <1>4 DEF Allowed
  <2>2. shown = later
    BY <1>0, <2>1, DateBack
  <2>3. ~(day > length)
    BY <1>3, <1>4, SMT
  <2> QED BY <1>0, <1>2, <2>2, <2>3, Zenon DEF Lands
<1>5. CASE ~(day <= length)
  <2>1. month = 2
    BY <1>1, <1>3, <1>5, OtherMonths
  <2>2. day <= 29
    <3>1. MonthLength(s, 2, IsGregorian(DateOf(s, month, day))) \in {28, 29}
      BY February
    <3> QED BY <1>3, <2>1, <3>1, SMT
  <2>3. PICK g : g = IsGregorian(DateOf(t, 2, 1))
    OBVIOUS
  <2>4. PICK last \in Int : last = MonthLength(t, 2, g)
    BY LengthRange
  <2>5. IsGregorian(later) <=> g
    BY <1>3, <2>1, <2>3, <2>4, FebruaryEnds
  <2>6. length = last
    BY <1>1, <2>1, <2>4, <2>5, SameCalendar
  <2>7. day = last + 1
    <3>1. 28 <= last
      BY <2>4, LengthRange
    <3> QED BY <1>3, <1>5, <2>2, <2>6, <3>1, SMT
  <2>8. DayNumber(later) = DayNumber(DateOf(t, 2, 1)) + last
    <3>1. /\ DayNumber(DateOf(t, 2, 1)) \in Int
          /\ DayNumber(DateOf(t, 2, day)) = DayNumber(DateOf(t, 2, 1)) + (day - 1)
      BY <1>3, <2>3, <2>4, FebruaryEnds
    <3> QED BY <2>1, <2>7, <3>1, SMT
  <2>9. shown = DateOf(t, 3, 1)
    BY <1>0, <2>3, <2>4, <2>8, FebruaryEnds
  <2>10. [later EXCEPT !.month = 3, !.day = 1] = DateOf(t, 3, 1)
    <3>1. PICK q : q = [later EXCEPT !.month = 3]
      OBVIOUS
    <3>2. q = DateOf(t, 3, day)
      BY <3>1 DEF DateOf
    <3>3. [q EXCEPT !.day = 1] = DateOf(t, 3, 1)
      BY <3>2 DEF DateOf
    <3>4. [later EXCEPT !.month = 3, !.day = 1] = [q EXCEPT !.day = 1]
      BY <3>1
    <3> QED BY <3>3, <3>4, Zenon
  <2>11. day > length
    BY <1>3, <1>5, SMT
  <2> QED BY <1>0, <1>2, <2>9, <2>10, <2>11, Zenon DEF Lands
<1> QED BY <1>4, <1>5

LEMMA YearsLandHolds == today \in Int => YearsLand
<1>1. SUFFICES ASSUME today \in Int, NEW n \in Steps,
                      NEW later, later = AddYears(Components(today), n), ~Skipped(later)
               PROVE  Lands(Components(today).day, later)
  BY Zenon DEF YearsLand, Lands
<1>2. PICK s, month, day : Components(today) = DateOf(s, month, day) /\ Allowed(s, month, day)
  BY <1>1, DateIsAllowed
<1>3. s \in Int /\ n \in Int
  BY <1>2, StepsAssumption DEF Allowed
<1>4. PICK t \in Int : t = s + n
  BY <1>3, SMT
<1>5. later = DateOf(t, month, day)
  BY <1>1, <1>2, <1>3, <1>4, AddYearsIs
<1>6. Components(today).day = day
  BY <1>2, <1>3, DateOfParts
<1> QED BY <1>1, <1>2, <1>3, <1>4, <1>5, <1>6, DayLands
\* What MonthsAreKept says of a date and the one n months later.
MonthLands(date, n, later) ==
  LET shown == Components(DayNumber(later))
  IN /\ 12 * SignedYear(shown) + shown.month = 12 * SignedYear(date) + date.month + n
     /\ \/ shown.day = date.day
        \/ shown.day < date.day /\ shown.day = LastDay(shown, IsGregorian(shown))

LEMMA MonthsAreKeptHolds == today \in Int => MonthsAreKept
<1>1. SUFFICES ASSUME today \in Int, NEW n \in Steps, NEW date, date = Components(today),
                      NEW later, later = AddMonths(date, n), ~Skipped(later)
               PROVE  MonthLands(date, n, later)
  BY Zenon DEF MonthsAreKept, MonthLands
<1>2. PICK s, month, day : date = DateOf(s, month, day) /\ Allowed(s, month, day)
  BY <1>1, DateIsAllowed
<1>3. s \in Int /\ n \in Int /\ month \in Int /\ day \in Int /\ 1 <= day
  <2>1. n \in Int
    BY StepsAssumption
  <2> QED BY <1>2, <2>1, SMT DEF Allowed
<1>4. PICK s1 \in Int, month1 \in Int :
        s1 = (12 * s + month - 1 + n) \div 12 /\ month1 = ((12 * s + month - 1 + n) % 12) + 1
  BY <1>3, SMT
<1>5. month1 \in 1 .. 12 /\ 12 * s1 + month1 = 12 * s + month + n
  BY <1>3, <1>4, SMT
<1>6. PICK last : /\ last = MonthLength(s1, month1, IsGregorian(DateOf(s1, month1, day)))
                  /\ later = DateOf(s1, month1, IF day > last THEN last ELSE day)
  BY <1>1, <1>2, <1>3, <1>4, AddMonthsIs
<1>7. last \in Int /\ 28 <= last
  BY <1>6, LengthRange
<1>8. PICK day1 \in Int : day1 = IF day > last THEN last ELSE day
  BY <1>3, <1>7
<1>9. 1 <= day1 /\ day1 <= last /\ (day1 = day \/ (day1 < day /\ day1 = last))
  BY <1>3, <1>7, <1>8, SMT
<1>10. later = DateOf(s1, month1, day1)
  BY <1>6, <1>8
<1>11. MonthLength(s1, month1, IsGregorian(later)) = last
  <2>1. CASE month1 = 2
    <3>1. PICK g : g = IsGregorian(DateOf(s1, 2, 1))
      OBVIOUS
    <3>2. PICK february \in Int : february = MonthLength(s1, 2, g)
      BY LengthRange
    <3>3. \A d \in Int : IsGregorian(DateOf(s1, 2, d)) <=> g
      BY <3>1, <3>2, FebruaryEnds
    <3>4. IsGregorian(DateOf(s1, 2, day)) <=> IsGregorian(DateOf(s1, 2, day1))
      BY <1>3, <3>3, Zenon
    <3> QED BY <1>6, <1>10, <2>1, <3>4, SameCalendar
  <2>2. CASE month1 # 2
    BY <1>6, <2>2, OtherMonths
  <2> QED BY <2>1, <2>2
<1>12. Allowed(s1, month1, day1)
  BY <1>5, <1>9, <1>10, <1>11 DEF Allowed
<1>13. Components(DayNumber(later)) = later
  BY <1>1, <1>10, <1>12, DateBack
<1>14. /\ SignedYear(later) = s1 /\ later.month = month1 /\ later.day = day1
       /\ SignedYear(date) = s /\ date.month = month /\ date.day = day
  BY <1>2, <1>3, <1>10, DateOfParts
<1>15. LastDay(later, IsGregorian(later)) = last
  BY <1>10, <1>11, LastDayIs
<1> QED BY <1>5, <1>9, <1>13, <1>14, <1>15, Zenon DEF MonthLands

\* Some months later it is the same day of the month, or its last, of the month
\* that many months later, and some years later the same day, or 1 March for a
\* 29 February that there is not: from any day, for any number of months and
\* years, but for the days that the reform has skipped
\* (ESCalendar_addMonthsToTimeInterval, ESCalendar_addYearsToTimeInterval).
THEOREM EveryStepLands == Spec => []StepsLand
<1>1. today \in Int => StepsLand
  BY YearsLandHolds, MonthsAreKeptHolds DEF StepsLand
<1> QED BY InitDay, NextDay, <1>1, PTL DEF Spec
-----------------------------------------------------------------------------
(* The first days of the years. *)

\* The days before a year that begins in March, in the two calendars.
JulianMarch(t) == (DaysInJulianCycle * t) \div 4
GregorianMarch(t) ==
  (DaysInGregorianCycle * (t \div 100)) \div 4
    + (DaysInNonLeapCentury * (t - 100 * (t \div 100))) \div 100

LEMMA JulianMarches ==
  ASSUME NEW t \in Int
  PROVE  /\ JulianMarch(t) \in Int
         /\ \A u \in Int : t < u => JulianMarch(t) + 365 <= JulianMarch(u)
<1>1. PICK a \in Int, b \in 0 .. 3 : t = 4 * a + b
  BY Fourths
<1>2. JulianMarch(t) = 1461 * a + 365 * b
  BY <1>1, SMT DEF JulianMarch, DaysInJulianCycle
<1>3. ASSUME NEW u \in Int, t < u PROVE JulianMarch(t) + 365 <= JulianMarch(u)
  <2>1. PICK e \in Int, f \in 0 .. 3 : u = 4 * e + f
    BY Fourths
  <2>2. JulianMarch(u) = 1461 * e + 365 * f
    BY <2>1, SMT DEF JulianMarch, DaysInJulianCycle
  <2>3. a < e \/ (a = e /\ b < f)
    BY <1>1, <1>3, <2>1, SMT
  <2> QED BY <1>2, <2>2, <2>3, SMT
<1>4. JulianMarch(t) \in Int
  BY <1>2, SMT
<1> QED BY <1>3, <1>4

\* The days before a year of a century, and before a century.
LEMMA YearMarches ==
  ASSUME NEW w \in 0 .. 99, NEW v \in 0 .. 99
  PROVE  /\ (36525 * w) \div 100 \in Int
         /\ 0 <= (36525 * w) \div 100 /\ (36525 * w) \div 100 <= 36159
         /\ w < v => (36525 * w) \div 100 + 365 <= (36525 * v) \div 100
<1>1. PICK p \in Int : p = (36525 * w) \div 100 /\ 100 * p <= 36525 * w /\ 36525 * w < 100 * p + 100
  BY SMT
<1>2. PICK q \in Int : q = (36525 * v) \div 100 /\ 100 * q <= 36525 * v /\ 36525 * v < 100 * q + 100
  BY SMT
<1>3. 0 <= p /\ p <= 36159
  BY <1>1, SMT
<1>4. w < v => p + 365 <= q
  BY <1>1, <1>2, SMT
<1> QED BY <1>1, <1>2, <1>3, <1>4, SMT

LEMMA CenturyMarches ==
  ASSUME NEW c \in Int, NEW e \in Int
  PROVE  /\ (146097 * c) \div 4 \in Int
         /\ c < e => (146097 * c) \div 4 + 36524 <= (146097 * e) \div 4
<1>1. PICK p \in Int : p = (146097 * c) \div 4 /\ 4 * p <= 146097 * c /\ 146097 * c < 4 * p + 4
  BY SMT
<1>2. PICK q \in Int : q = (146097 * e) \div 4 /\ 4 * q <= 146097 * e /\ 146097 * e < 4 * q + 4
  BY SMT
<1>3. c < e => p + 36524 <= q
  BY <1>1, <1>2, SMT
<1> QED BY <1>1, <1>2, <1>3, SMT

\* A year by its century and the year in it.
InCentury(t, c, w) ==
  /\ c \in Int /\ w \in 0 .. 99 /\ t = 100 * c + w
  /\ GregorianMarch(t) = (146097 * c) \div 4 + (36525 * w) \div 100

LEMMA GregorianMarches ==
  ASSUME NEW t \in Int
  PROVE  /\ GregorianMarch(t) \in Int
         /\ \A u \in Int : t < u => GregorianMarch(t) + 365 <= GregorianMarch(u)
<1>1. ASSUME NEW u \in Int
      PROVE  \E c, w : InCentury(u, c, w)
  <2>1. PICK c \in Int : c = u \div 100
    BY SMT
  <2>2. PICK w \in 0 .. 99 : w = u - 100 * c
    BY <2>1, SMT
  <2>3. u = 100 * c + w
    BY <2>2, SMT
  <2>4. GregorianMarch(u) = (146097 * c) \div 4 + (36525 * w) \div 100
    BY <2>1, <2>2, SMT DEF GregorianMarch, DaysInGregorianCycle, DaysInNonLeapCentury
  <2>5. InCentury(u, c, w)
    BY <2>3, <2>4 DEF InCentury
  <2> QED BY <2>5
<1>2. PICK c, w : InCentury(t, c, w)
  BY <1>1
<1>6. /\ c \in Int /\ w \in 0 .. 99 /\ t = 100 * c + w
      /\ GregorianMarch(t) = (146097 * c) \div 4 + (36525 * w) \div 100
  BY <1>2 DEF InCentury
<1>3. PICK p \in Int, q \in Int : p = (146097 * c) \div 4 /\ q = (36525 * w) \div 100
  BY <1>6, CenturyMarches, YearMarches
<1>4. ASSUME NEW u \in Int, t < u PROVE GregorianMarch(t) + 365 <= GregorianMarch(u)
  <2>7. PICK e, v : InCentury(u, e, v)
    BY <1>1
  <2>1. /\ e \in Int /\ v \in 0 .. 99 /\ u = 100 * e + v
        /\ GregorianMarch(u) = (146097 * e) \div 4 + (36525 * v) \div 100
    BY <2>7 DEF InCentury
  <2>2. PICK m \in Int, n \in Int : m = (146097 * e) \div 4 /\ n = (36525 * v) \div 100
    BY <2>1, CenturyMarches, YearMarches
  <2>3. c < e \/ (c = e /\ w < v)
    BY <1>6, <1>4, <2>1, SMT
  <2>4. /\ c < e => p + 36524 <= m
        /\ c = e => p = m
    BY <1>3, <1>6, <2>1, <2>2, CenturyMarches
  <2>5. 0 <= n /\ q <= 36159 /\ (w < v => q + 365 <= n)
    BY <1>3, <1>6, <2>1, <2>2, YearMarches
  <2>6. p + q + 365 <= m + n
    BY <2>3, <2>4, <2>5, SMT
  <2> QED BY <1>6, <1>3, <2>1, <2>2, <2>6
<1>5. GregorianMarch(t) \in Int
  BY <1>6, <1>3
<1> QED BY <1>4, <1>5
\* The day number of a date by these days.
LEMMA NumberOfDate ==
  ASSUME NEW s \in Int, NEW month \in Int, NEW day \in Int,
         NEW n \in Int, n = DaysBeforeMonth(MarchMonth(month)) + day,
         NEW t \in Int, t = MarchYear(s, month)
  PROVE  /\ AfterReform(s, month, day) =>
              DayNumber(DateOf(s, month, day)) = (GregorianMarch(t) + n) - 730792
         /\ ~AfterReform(s, month, day) =>
              DayNumber(DateOf(s, month, day)) = (JulianMarch(t) + n) - 730794
<1>1. PICK d : d = DateOf(s, month, day)
  OBVIOUS
<1>2. YearFromMarch(d) = t /\ DayInYear(d) = n
  BY <1>1, MarchParts
<1>3. PICK j \in Int, g \in Int : j = JulianMarch(t) + n /\ g = GregorianMarch(t) + n
  <2>1. JulianMarch(t) \in Int /\ GregorianMarch(t) \in Int
    BY JulianMarches, GregorianMarches
  <2> QED BY <2>1, SMT
<1>4. JulianDayNumber(d) = j /\ GregorianDayNumber(d) = g
  BY <1>2, <1>3 DEF JulianDayNumber, JulianMarch, GregorianDayNumber, GregorianMarch
<1>5. IsGregorian(d) <=> AfterReform(s, month, day)
  BY <1>1, GregorianByParts
<1>6. /\ IsGregorian(d) => DayNumber(d) = g - 730792
      /\ ~IsGregorian(d) => DayNumber(d) = j - 730794
  BY <1>4, SMT DEF DayNumber
<1> QED BY <1>1, <1>3, <1>5, <1>6, SMT

\* The first days of the years, of which 1583 is the first after the reform.
LEMMA FirstOfYearIs ==
  ASSUME NEW s \in Int
  PROVE  /\ s > 1582 => FirstOfYear(s) = (GregorianMarch(s - 1) + 307) - 730792
         /\ ~(s > 1582) => FirstOfYear(s) = (JulianMarch(s - 1) + 307) - 730794
         /\ FirstOfYear(s) \in Int
<1>1. FirstOfYear(s) = DayNumber(DateOf(s, 1, 1))
  BY Zenon DEF FirstOfYear, DateOf
<1>2. PICK t \in Int : t = s - 1
  BY SMT
<1>3. PICK n \in Int : n = 307
  OBVIOUS
<1>4. MarchYear(s, 1) = t /\ DaysBeforeMonth(MarchMonth(1)) + 1 = n
  BY <1>2, <1>3, SMT DEF MarchYear, MarchMonth, DaysBeforeMonth
<1>5. AfterReform(s, 1, 1) <=> s > 1582
  BY SMT DEF AfterReform
<1>6. /\ AfterReform(s, 1, 1) => DayNumber(DateOf(s, 1, 1)) = (GregorianMarch(t) + n) - 730792
      /\ ~AfterReform(s, 1, 1) => DayNumber(DateOf(s, 1, 1)) = (JulianMarch(t) + n) - 730794
  BY <1>4, NumberOfDate
<1>7. JulianMarch(t) \in Int /\ GregorianMarch(t) \in Int
  BY JulianMarches, GregorianMarches
<1> QED BY <1>1, <1>2, <1>3, <1>5, <1>6, <1>7, SMT

\* The years 1582 and 1583.
LEMMA ReformYears ==
  /\ JulianMarch(1581) = 577460 /\ JulianMarch(1582) = 577825
  /\ GregorianMarch(1582) = 577813
<1>1. JulianMarch(1581) = 577460 /\ JulianMarch(1582) = 577825
  BY SMT DEF JulianMarch, DaysInJulianCycle
<1>2. 1582 \div 100 = 15
  BY SMT
<1>3. GregorianMarch(1582) = 577813
  BY <1>2, SMT DEF GregorianMarch, DaysInGregorianCycle, DaysInNonLeapCentury
<1> QED BY <1>1, <1>3

\* A year is longer than three hundred days.
LEMMA YearsFollow ==
  ASSUME NEW s \in Int, NEW u \in Int, s < u
  PROVE  FirstOfYear(s) + 300 <= FirstOfYear(u)
<1>1. PICK t \in Int, v \in Int : t = s - 1 /\ v = u - 1
  BY SMT
<1>2. t < v
  BY <1>1, SMT
<1>3. /\ JulianMarch(t) \in Int /\ GregorianMarch(t) \in Int
      /\ JulianMarch(v) \in Int /\ GregorianMarch(v) \in Int
      /\ JulianMarch(t) + 365 <= JulianMarch(v) /\ GregorianMarch(t) + 365 <= GregorianMarch(v)
  BY <1>2, JulianMarches, GregorianMarches
<1>4. /\ s > 1582 => FirstOfYear(s) = (GregorianMarch(t) + 307) - 730792
      /\ ~(s > 1582) => FirstOfYear(s) = (JulianMarch(t) + 307) - 730794
  BY <1>1, FirstOfYearIs
<1>5. /\ u > 1582 => FirstOfYear(u) = (GregorianMarch(v) + 307) - 730792
      /\ ~(u > 1582) => FirstOfYear(u) = (JulianMarch(v) + 307) - 730794
  BY <1>1, FirstOfYearIs
<1>6. CASE s > 1582
  <2>1. u > 1582
    BY <1>6, SMT
  <2> QED BY <1>3, <1>4, <1>5, <1>6, <2>1, SMT
<1>7. CASE ~(u > 1582)
  <2>1. ~(s > 1582)
    BY <1>7, SMT
  <2> QED BY <1>3, <1>4, <1>5, <1>7, <2>1, SMT
<1>8. CASE ~(s > 1582) /\ u > 1582
  <2>1. JulianMarch(t) <= 577460
    <3>1. t < 1581 \/ t = 1581
      BY <1>1, <1>8, SMT
    <3>2. t < 1581 => JulianMarch(t) + 365 <= JulianMarch(1581)
      BY JulianMarches
    <3> QED BY <1>3, <3>1, <3>2, ReformYears, SMT
  <2>2. GregorianMarch(v) >= 577813
    <3>1. 1582 < v \/ v = 1582
      BY <1>1, <1>8, SMT
    <3>2. 1582 < v => GregorianMarch(1582) + 365 <= GregorianMarch(v)
      BY GregorianMarches
    <3> QED BY <1>3, <3>1, <3>2, ReformYears, SMT
  <2> QED BY <1>3, <1>4, <1>5, <1>8, <2>1, <2>2, SMT
<1> QED BY <1>6, <1>7, <1>8
\* Where in the year that begins in March a date is that the rules allow.
InMarch(s, month, day, t, n) ==
  /\ s \in Int /\ month \in Int /\ day \in Int /\ t \in Int /\ n \in Int
  /\ month < 3 => t = s - 1 /\ 307 <= n /\ n <= 366
  /\ month >= 3 => t = s /\ 1 <= n /\ n <= 306
  /\ month = 12 => n = 275 + day
  /\ 3 <= month /\ month # 12 => n <= 275
  /\ 3 <= month /\ month <= 10 => n <= 245

LEMMA WhereInMarch ==
  ASSUME NEW s \in Int, NEW month \in 1 .. 12, NEW day \in Int, NEW g,
         1 <= day, day <= MonthLength(s, month, g),
         NEW t \in Int, t = MarchYear(s, month),
         NEW n \in Int, n = DaysBeforeMonth(MarchMonth(month)) + day
  PROVE  InMarch(s, month, day, t, n)
<1>1. PICK m \in 3 .. 14 : m = MarchMonth(month)
  BY SMT DEF MarchMonth
<1>2. (IF m > 12 THEN t + 1 ELSE t) = s /\ (IF m > 12 THEN m - 12 ELSE m) = month
  BY <1>1, SMT DEF MarchMonth, MarchYear
<1>3. MonthLength(s, month, g) = IF m = 14 THEN IF LeapYear(t + 1, g) THEN 29 ELSE 28
                                 ELSE IF m \in ThirtyDays THEN 30 ELSE 31
  BY <1>2, MonthLengthIs
<1>4. day <= IF m = 14 THEN 29 ELSE IF m \in ThirtyDays THEN 30 ELSE 31
  BY <1>3, SMT
<1>5. PICK x \in YearDays : x = DaysBeforeMonth(m) + day - 1 /\ MonthOfDay(x) = m
  BY <1>4, DayOfMonth
<1>6. x \in Int /\ 0 <= x /\ x <= 365 /\ n = x + 1
  BY <1>1, <1>5, SMT DEF YearDays, DaysBeforeMonth
<1>7. 153 * m <= 5 * x + 461 /\ 5 * x + 461 < 153 * m + 153
  BY <1>5, <1>6, SMT DEF MonthOfDay
<1>8. m = 12 => DaysBeforeMonth(m) = 275
  BY SMT DEF DaysBeforeMonth
<1>9. m = 12 => n = 275 + day
  BY <1>1, <1>8, SMT
<1>10. /\ m >= 13 => 307 <= n
       /\ m <= 12 => n <= 306
       /\ m <= 11 => n <= 275
       /\ m <= 10 => n <= 245
  BY <1>6, <1>7, SMT
<1> QED BY <1>1, <1>6, <1>9, <1>10, SMT DEF InMarch, MarchMonth, MarchYear

\* A day in its year: it is not before the first, and the days of December end
\* with the first of the next.
InYear(day, s, month, d) ==
  /\ day \in Int /\ s \in Int /\ month \in Int /\ d \in Int
  /\ FirstOfYear(s) <= day /\ day < FirstOfYear(s + 1)
  /\ month = 12 => FirstOfYear(s + 1) = day + (32 - d)
  /\ month # 12 => day + 32 <= FirstOfYear(s + 1)

LEMMA YearBounds ==
  ASSUME NEW day \in Int, NEW s, NEW month, NEW d,
         Components(day) = DateOf(s, month, d), Allowed(s, month, d)
  PROVE  InYear(day, s, month, d)
<1>1. /\ s \in Int /\ month \in 1 .. 12 /\ d \in Int
      /\ 1 <= d /\ d <= MonthLength(s, month, IsGregorian(DateOf(s, month, d)))
  BY DEF Allowed
<1>2. month \in Int /\ month <= 12
  BY <1>1, SMT
<1>3. PICK t \in Int, n \in Int :
        t = MarchYear(s, month) /\ n = DaysBeforeMonth(MarchMonth(month)) + d
  BY <1>1, <1>2, SMT DEF MarchYear, MarchMonth, DaysBeforeMonth
<1>4. InMarch(s, month, d, t, n)
  BY <1>1, <1>3, WhereInMarch
<1>5. day = DayNumber(DateOf(s, month, d))
  BY DayNumberBack
<1>6. PICK p \in Int, q \in Int, i \in Int, j \in Int :
        /\ p = GregorianMarch(s - 1) /\ q = GregorianMarch(s) /\ p + 365 <= q
        /\ i = JulianMarch(s - 1) /\ j = JulianMarch(s) /\ i + 365 <= j
  <2>1. s - 1 \in Int /\ s - 1 < s
    BY <1>1, SMT
  <2>2. PICK r \in Int : r = s - 1
    BY <2>1
  <2>3. r < s
    BY <2>1, <2>2
  <2>4. /\ JulianMarch(r) \in Int /\ GregorianMarch(r) \in Int
        /\ JulianMarch(s) \in Int /\ GregorianMarch(s) \in Int
        /\ JulianMarch(r) + 365 <= JulianMarch(s) /\ GregorianMarch(r) + 365 <= GregorianMarch(s)
    BY <1>1, <2>3, JulianMarches, GregorianMarches
  <2> QED BY <2>2, <2>4
<1>7. /\ AfterReform(s, month, d) =>
           day = ((IF month < 3 THEN p ELSE q) + n) - 730792
      /\ ~AfterReform(s, month, d) =>
           day = ((IF month < 3 THEN i ELSE j) + n) - 730794
  <2>1. /\ AfterReform(s, month, d) => day = (GregorianMarch(t) + n) - 730792
        /\ ~AfterReform(s, month, d) => day = (JulianMarch(t) + n) - 730794
    BY <1>1, <1>2, <1>3, <1>5, NumberOfDate, SMT
  <2>2. t = IF month < 3 THEN s - 1 ELSE s
    BY <1>3 DEF MarchYear
  <2> QED BY <1>6, <2>1, <2>2, SMT
<1>8. /\ s > 1582 => FirstOfYear(s) = (p + 307) - 730792
      /\ ~(s > 1582) => FirstOfYear(s) = (i + 307) - 730794
  BY <1>1, <1>6, FirstOfYearIs, SMT
<1>9. /\ s >= 1582 => FirstOfYear(s + 1) = (q + 307) - 730792
      /\ s < 1582 => FirstOfYear(s + 1) = (j + 307) - 730794
  <2>1. s + 1 \in Int /\ (s + 1) - 1 = s /\ (s + 1 > 1582 <=> s >= 1582)
    BY <1>1, SMT
  <2> QED BY <1>1, <1>6, <2>1, FirstOfYearIs, SMT
<1>10. s = 1582 => i = 577460 /\ j = 577825 /\ q = 577813
  <2>1. s = 1582 => s - 1 = 1581
    BY SMT
  <2> QED BY <1>6, <2>1, ReformYears, SMT
<1> DEFINE f == FirstOfYear(s)
           h == FirstOfYear(s + 1)
<1> HIDE DEF f, h
<1>11. /\ f <= day /\ day < h
       /\ month = 12 => h = day + (32 - d)
       /\ month # 12 => day + 32 <= h
  <2>1. /\ s > 1582 => f = (p + 307) - 730792
        /\ ~(s > 1582) => f = (i + 307) - 730794
        /\ s >= 1582 => h = (q + 307) - 730792
        /\ s < 1582 => h = (j + 307) - 730794
    BY <1>8, <1>9, SMT DEF f, h
  <2>2. CASE s > 1582
    BY <1>1, <1>2, <1>4, <1>6, <1>7, <2>1, <2>2, SMT DEF AfterReform, InMarch
  <2>3. CASE s < 1582
    BY <1>1, <1>2, <1>4, <1>6, <1>7, <2>1, <2>3, SMT DEF AfterReform, InMarch
  <2>4. CASE s = 1582
    BY <1>1, <1>2, <1>4, <1>6, <1>7, <1>10, <2>1, <2>4, SMT DEF AfterReform, InMarch
  <2> QED BY <1>1, <2>2, <2>3, <2>4, SMT
<1> QED BY <1>1, <1>2, <1>11 DEF InYear, f, h
\* The year of a day is the one that it is in.
LEMMA YearOfDay ==
  ASSUME NEW day \in Int
  PROVE  \E s, month, d : /\ InYear(day, s, month, d)
                          /\ Components(day) = DateOf(s, month, d)
                          /\ SignedYear(Components(day)) = s
<1>1. PICK s, month, d : Components(day) = DateOf(s, month, d) /\ Allowed(s, month, d)
  BY DateIsAllowed
<1>2. InYear(day, s, month, d)
  BY <1>1, YearBounds
<1>3. SignedYear(Components(day)) = s
  BY <1>1, <1>2, DateOfParts DEF InYear
<1> QED BY <1>1, <1>2, <1>3

LEMMA YearIs ==
  ASSUME NEW day \in Int, NEW s \in Int, FirstOfYear(s) <= day, day < FirstOfYear(s + 1)
  PROVE  SignedYear(Components(day)) = s
<1>1. PICK y, month, d : InYear(day, y, month, d) /\ SignedYear(Components(day)) = y
  BY YearOfDay
<1>2. y \in Int /\ FirstOfYear(y) <= day /\ day < FirstOfYear(y + 1)
  BY <1>1 DEF InYear
<1>3. \A u \in Int, v \in Int : u < v => FirstOfYear(u) + 300 <= FirstOfYear(v)
  BY YearsFollow
<1>4. PICK s1 \in Int, y1 \in Int : s1 = s + 1 /\ y1 = y + 1
  BY <1>2, SMT
<1>5. /\ FirstOfYear(s) \in Int /\ FirstOfYear(y) \in Int
      /\ FirstOfYear(s1) \in Int /\ FirstOfYear(y1) \in Int
  BY <1>2, FirstOfYearIs
<1>6. ~(y < s)
  <2>1. SUFFICES ASSUME y < s PROVE FALSE
    OBVIOUS
  <2>2. y1 = s \/ y1 < s
    BY <1>2, <1>4, <2>1, SMT
  <2>3. y1 < s => FirstOfYear(y1) + 300 <= FirstOfYear(s)
    BY <1>3
  <2> QED BY <1>2, <1>4, <1>5, <2>2, <2>3, SMT
<1>7. ~(s < y)
  <2>1. SUFFICES ASSUME s < y PROVE FALSE
    OBVIOUS
  <2>2. s1 = y \/ s1 < y
    BY <1>2, <1>4, <2>1, SMT
  <2>3. s1 < y => FirstOfYear(s1) + 300 <= FirstOfYear(y)
    BY <1>2, <1>3
  <2> QED BY <1>2, <1>4, <1>5, <2>2, <2>3, SMT
<1> QED BY <1>1, <1>2, <1>6, <1>7, SMT

-----------------------------------------------------------------------------
(* The weeks.  Day 0 is a Monday. *)

LEMMA ThursdayIs ==
  ASSUME NEW day \in Int
  PROVE  \E v \in Int, r \in 0 .. 6 : day = 7 * v + r /\ Thursday(day) = 7 * v + 3
<1>1. PICK v \in Int, r \in 0 .. 6 : day = 7 * v + r
  <2>1. day = 7 * (day \div 7) + (day % 7) /\ day \div 7 \in Int /\ day % 7 \in 0 .. 6
    BY SMT
  <2> QED BY <2>1
<1>2. (Weekday(day) + 6) % 7 = r
  BY <1>1, SMT DEF Weekday
<1>3. Thursday(day) = 7 * v + 3
  BY <1>1, <1>2, SMT DEF Thursday
<1> QED BY <1>1, <1>3

\* The days that weekOfYearNumberUsingEnv counts in the next year are those
\* whose Thursday is there.
LEMMA NextYearIs ==
  ASSUME NEW day \in Int, NEW s, NEW month, NEW d,
         Components(day) = DateOf(s, month, d), InYear(day, s, month, d)
  PROVE  InNextYear(day) <=> Thursday(day) >= FirstOfYear(s + 1)
<1>1. PICK h \in Int : h = FirstOfYear(s + 1)
  BY FirstOfYearIs, SMT DEF InYear
<1>2. /\ month \in Int /\ d \in Int /\ day < h
      /\ month = 12 => h = day + (32 - d)
      /\ month # 12 => day + 32 <= h
  BY <1>1 DEF InYear
<1>3. PICK v \in Int, r \in 0 .. 6 : day = 7 * v + r /\ Thursday(day) = 7 * v + 3
  BY ThursdayIs
<1>4. PICK w \in 0 .. 6 : w = Weekday(day) /\ w = IF r = 6 THEN 0 ELSE r + 1
  <2>1. Weekday(day) = IF r = 6 THEN 0 ELSE r + 1
    BY <1>3, SMT DEF Weekday
  <2> QED BY <2>1, SMT
<1>5. InNextYear(day) <=> /\ month = 12 /\ d >= 29
                          /\ (w + 31 - d) % 7 \in 1 .. 3
                          /\ ((w + 31 - d) % 7) + d >= 32
  <2>1. s \in Int
    BY DEF InYear
  <2>2. Components(day).month = month /\ Components(day).day = d
    BY <2>1, DateOfParts
  <2>3. Weekday(day) = w
    BY <1>4
  <2> QED BY <2>2, <2>3, Zenon DEF InNextYear
<1>6. CASE month # 12
  BY <1>1, <1>2, <1>3, <1>5, <1>6, SMT
<1>7. CASE month = 12 /\ d < 29
  BY <1>1, <1>2, <1>3, <1>5, <1>7, SMT
<1>8. CASE month = 12 /\ d >= 29
  <2>1. d = 29 \/ d = 30 \/ d = 31
    BY <1>2, <1>8, SMT
  <2>2. PICK m \in Int : m = (w + 31 - d) % 7
    BY <1>2, SMT
  <2>3. m = IF w + (31 - d) >= 7 THEN w + (31 - d) - 7 ELSE w + (31 - d)
    BY <2>1, <2>2, SMT
  <2>4. (1 <= m /\ m <= 3 /\ m + d >= 32) <=> 7 * v + 3 >= day + (32 - d)
    BY <1>2, <1>3, <1>4, <2>1, <2>3, SMT
  <2>5. InNextYear(day) <=> m \in 1 .. 3 /\ m + d >= 32
    BY <1>5, <1>8, <2>2
  <2> QED BY <1>1, <1>2, <1>3, <1>8, <2>4, <2>5, SMT
<1> QED BY <1>2, <1>6, <1>7, <1>8, SMT
\* The first week of a year begins on a Monday, at most three days from
\* 1 January.
LEMMA ISOFirst ==
  ASSUME NEW s \in Int
  PROVE  \E u \in Int : /\ FirstOfWeeks(s, 1, TRUE) = 7 * u
                        /\ FirstOfYear(s) <= 7 * u + 3 /\ 7 * u <= FirstOfYear(s) + 3
<1>1. PICK f \in Int : f = FirstOfYear(s)
  BY FirstOfYearIs
<1>2. PICK v \in Int, r \in 0 .. 6 : f = 7 * v + r
  BY ThursdayIs
<1>3. PICK w \in 0 .. 6 : w = Weekday(f) /\ w = IF r = 6 THEN 0 ELSE r + 1
  <2>1. Weekday(f) = IF r = 6 THEN 0 ELSE r + 1
    BY <1>2, SMT DEF Weekday
  <2> QED BY <2>1, SMT
<1>4. PICK n \in Int : n = IF w = 0 \/ w >= 5 THEN (8 - w) % 7 ELSE 1 - w
  BY SMT
<1>5. FirstOfWeeks(s, 1, TRUE) = f + n
  BY <1>1, <1>3, <1>4, Zenon DEF FirstOfWeeks
<1>6. n = IF r <= 3 THEN 0 - r ELSE 7 - r
  BY <1>3, <1>4, SMT
<1>7. PICK u \in Int : u = IF r <= 3 THEN v ELSE v + 1
  BY SMT
<1>8. f + n = 7 * u /\ f <= 7 * u + 3 /\ 7 * u <= f + 3
  BY <1>2, <1>6, <1>7, SMT
<1> QED BY <1>1, <1>5, <1>8

\* The weeks from the first of a year to that of a Thursday.
LEMMA WeeksBetween ==
  ASSUME NEW u \in Int, NEW v \in Int, NEW r \in 0 .. 6, NEW f \in Int,
         f <= 7 * u + 3, 7 * u <= f + 3
  PROVE  ((7 * v + r) - 7 * u) \div 7 = ((7 * v + 3) - f) \div 7
<1>1. ((7 * v + r) - 7 * u) \div 7 = v - u
  BY SMT
<1>2. PICK e \in 0 .. 6 : e = 7 * u + 3 - f
  BY SMT
<1>3. (7 * v + 3) - f = 7 * (v - u) + e
  BY <1>2, SMT
<1>4. ((7 * v + 3) - f) \div 7 = v - u
  BY <1>3, SMT
<1> QED BY <1>1, <1>4

LEMMA WeeksAreISOHolds == today \in Int => WeeksAreISO
<1>1. SUFFICES ASSUME today \in Int PROVE WeeksAreISO
  OBVIOUS
<1>2. PICK s, month, d : /\ InYear(today, s, month, d)
                         /\ Components(today) = DateOf(s, month, d)
                         /\ SignedYear(Components(today)) = s
  BY <1>1, YearOfDay
<1>3. PICK v \in Int, r \in 0 .. 6 : today = 7 * v + r /\ Thursday(today) = 7 * v + 3
  BY <1>1, ThursdayIs
<1>4. PICK t \in Int : t = Thursday(today) /\ t = 7 * v + 3
  BY <1>3, SMT
<1>5. s \in Int /\ FirstOfYear(s) <= today /\ today < FirstOfYear(s + 1)
  BY <1>2 DEF InYear
<1>6. PICK p \in Int, n \in Int, m \in Int : p = s - 1 /\ n = s + 1 /\ m = s + 2
  BY <1>5, SMT
<1>7. p + 1 = s /\ n + 1 = m /\ p < s /\ n < m
  BY <1>5, <1>6, SMT
<1>8. PICK fp \in Int, f \in Int, fn \in Int, fm \in Int :
        fp = FirstOfYear(p) /\ f = FirstOfYear(s) /\ fn = FirstOfYear(n) /\ fm = FirstOfYear(m)
  <2>1. /\ FirstOfYear(p) \in Int /\ FirstOfYear(s) \in Int
        /\ FirstOfYear(n) \in Int /\ FirstOfYear(m) \in Int
    BY <1>5, FirstOfYearIs, SMT
  <2> QED BY <2>1
<1>9. fp + 300 <= f /\ fn + 300 <= fm /\ f <= today /\ today < fn
  <2>1. f <= today /\ today < fn
    BY <1>5, <1>6, <1>8
  <2>2. fp + 300 <= f
    BY <1>5, <1>7, <1>8, YearsFollow, SMT
  <2>3. fn + 300 <= fm
    BY <1>7, <1>8, YearsFollow, SMT
  <2> QED BY <2>1, <2>2, <2>3, SMT
<1>10. PICK u \in Int : FirstOfWeeks(s, 1, TRUE) = 7 * u /\ f <= 7 * u + 3 /\ 7 * u <= f + 3
  BY <1>5, <1>8, ISOFirst
<1>11. PICK o \in Int : FirstOfWeeks(p, 1, TRUE) = 7 * o /\ fp <= 7 * o + 3 /\ 7 * o <= fp + 3
  BY <1>8, ISOFirst
<1>12. InNextYear(today) <=> t >= fn
  BY <1>1, <1>2, <1>4, <1>6, <1>8, NextYearIs
<1>13. /\ t >= fn => WeekOfYear(today, 1, TRUE) = 0
       /\ ~(t >= fn) /\ today >= 7 * u =>
            WeekOfYear(today, 1, TRUE) = (today - 7 * u) \div 7
       /\ ~(t >= fn) /\ ~(today >= 7 * u) =>
            WeekOfYear(today, 1, TRUE) = (today - 7 * o) \div 7
  BY <1>2, <1>6, <1>10, <1>11, <1>12, Zenon DEF WeekOfYear
<1>14. SUFFICES WeekOfYear(today, 1, TRUE) = (t - FirstOfYear(SignedYear(Components(t)))) \div 7
  BY <1>4, Zenon DEF WeeksAreISO
<1>15. CASE t >= fn
  <2>1. fn <= t /\ t < fm /\ 0 <= t - fn /\ t - fn <= 2
    BY <1>3, <1>4, <1>9, <1>15, SMT
  <2>2. SignedYear(Components(t)) = n
    BY <1>6, <1>7, <1>8, <2>1, YearIs
  <2>3. (t - fn) \div 7 = 0
    BY <2>1, SMT
  <2>4. WeekOfYear(today, 1, TRUE) = 0
    BY <1>13, <1>15
  <2> QED BY <1>8, <2>2, <2>3, <2>4
<1>16. CASE ~(t >= fn) /\ today >= 7 * u
  <2>1. f <= t /\ t < fn
    BY <1>3, <1>4, <1>9, <1>10, <1>16, SMT
  <2>2. SignedYear(Components(t)) = s
    BY <1>5, <1>6, <1>8, <2>1, YearIs
  <2>3. (today - 7 * u) \div 7 = (t - f) \div 7
    BY <1>3, <1>4, <1>10, WeeksBetween
  <2>4. WeekOfYear(today, 1, TRUE) = (today - 7 * u) \div 7
    BY <1>13, <1>16
  <2> QED BY <1>8, <2>2, <2>3, <2>4
<1>17. CASE ~(t >= fn) /\ ~(today >= 7 * u)
  <2>1. fp <= t /\ t < f
    BY <1>3, <1>4, <1>9, <1>10, <1>17, SMT
  <2>2. SignedYear(Components(t)) = p
    BY <1>6, <1>7, <1>8, <2>1, YearIs
  <2>3. (today - 7 * o) \div 7 = (t - fp) \div 7
    BY <1>3, <1>4, <1>11, WeeksBetween
  <2>4. WeekOfYear(today, 1, TRUE) = (today - 7 * o) \div 7
    BY <1>13, <1>17
  <2> QED BY <1>8, <2>2, <2>3, <2>4
<1> QED BY <1>15, <1>16, <1>17

\* Weeks that begin on a day of the week: the first has 1 January.
FirstIn(first, jan1, start) ==
  /\ first <= jan1 /\ jan1 <= first + 6
  /\ \E a \in Int : first + 1 = 7 * a + start

LEMMA PlainFirst ==
  ASSUME NEW s \in Int, NEW start \in 0 .. 6
  PROVE  /\ FirstOfWeeks(s, start, FALSE) \in Int
         /\ FirstIn(FirstOfWeeks(s, start, FALSE), FirstOfYear(s), start)
<1>1. PICK f \in Int : f = FirstOfYear(s)
  BY FirstOfYearIs
<1>2. PICK v \in Int, w \in 0 .. 6 : f + 1 = 7 * v + w
  <2>1. f + 1 \in Int
    BY SMT
  <2> QED BY <2>1, ThursdayIs
<1>3. Weekday(f) = w
  BY <1>2, SMT DEF Weekday
<1>4. PICK e \in 0 .. 6 : /\ e = (w + 7 - start) % 7
                          /\ e = IF w >= start THEN w - start ELSE w + 7 - start
  <2>1. (w + 7 - start) % 7 = IF w >= start THEN w - start ELSE w + 7 - start
    BY SMT
  <2>2. (IF w >= start THEN w - start ELSE w + 7 - start) \in 0 .. 6
    BY SMT
  <2> QED BY <2>1, <2>2
<1>5. FirstOfWeeks(s, start, FALSE) = f - e
  BY <1>1, <1>3, <1>4 DEF FirstOfWeeks
<1>6. PICK a \in Int : a = IF w >= start THEN v ELSE v - 1
  BY SMT
<1>7. PICK first \in Int : first = f - e
  BY SMT
<1>8. first + 1 = 7 * a + start
  BY <1>2, <1>4, <1>6, <1>7, SMT
<1>9. first <= f /\ f <= first + 6
  BY <1>7, SMT
<1>10. FirstIn(first, f, start)
  BY <1>8, <1>9, Zenon DEF FirstIn
<1> QED BY <1>1, <1>5, <1>7, <1>10

LEMMA PlainWeek ==
  ASSUME NEW day \in Int, NEW s, SignedYear(Components(day)) = s,
         NEW start, NEW first, first = FirstOfWeeks(s, start, FALSE), day >= first
  PROVE  WeekOfYear(day, start, FALSE) = (day - first) \div 7
  BY Zenon DEF WeekOfYear

LEMMA WeeksFollowHolds == today \in Int => WeeksFollow
<1>1. SUFFICES ASSUME today \in Int, NEW start \in 0 .. 6
               PROVE  WeekOfYear(today + 1, start, FALSE) =
                        LET tomorrow == today + 1
                            f == FirstOfYear(SignedYear(Components(tomorrow)))
                        IN CASE tomorrow = f -> 0
                             [] tomorrow # f /\ Weekday(tomorrow) = start
                                  -> WeekOfYear(today, start, FALSE) + 1
                             [] OTHER -> WeekOfYear(today, start, FALSE)
  BY Zenon DEF WeeksFollow
<1>2. PICK tomorrow \in Int : tomorrow = today + 1
  BY <1>1, SMT
<1>3. PICK s, month, d : /\ InYear(tomorrow, s, month, d)
                         /\ SignedYear(Components(tomorrow)) = s
  BY YearOfDay
<1>4. s \in Int /\ FirstOfYear(s) <= tomorrow /\ tomorrow < FirstOfYear(s + 1)
  BY <1>3 DEF InYear
<1>5. PICK f \in Int, fn \in Int :
        f = FirstOfYear(s) /\ fn = FirstOfYear(s + 1) /\ f <= tomorrow /\ tomorrow < fn
  <2>1. s + 1 \in Int
    BY <1>4, SMT
  <2>2. FirstOfYear(s) \in Int /\ FirstOfYear(s + 1) \in Int
    BY <1>4, <2>1, FirstOfYearIs, SMT
  <2> QED BY <1>4, <2>2
<1>6. PICK first \in Int :
        first = FirstOfWeeks(s, start, FALSE) /\ FirstIn(first, f, start)
  BY <1>4, <1>5, PlainFirst
<1>11. first <= f /\ f <= first + 6
  BY <1>6 DEF FirstIn
<1>7. WeekOfYear(tomorrow, start, FALSE) = (tomorrow - first) \div 7
  <2>1. tomorrow >= first
    BY <1>5, <1>11, SMT
  <2> QED BY <1>3, <1>6, <2>1, PlainWeek
<1>8. SUFFICES WeekOfYear(tomorrow, start, FALSE) =
                 CASE tomorrow = f -> 0
                   [] tomorrow # f /\ Weekday(tomorrow) = start
                        -> WeekOfYear(today, start, FALSE) + 1
                   [] OTHER -> WeekOfYear(today, start, FALSE)
  BY <1>2, <1>3, <1>5, Zenon
<1>9. CASE tomorrow = f
  <2>1. (tomorrow - first) \div 7 = 0
    BY <1>9, <1>11, SMT
  <2> QED BY <1>7, <1>9, <2>1, Zenon
<1>10. CASE tomorrow # f
  <2>1. f <= today /\ today < fn /\ today >= first
    BY <1>1, <1>2, <1>5, <1>10, <1>11, SMT
  <2>2. SignedYear(Components(today)) = s
    BY <1>1, <1>4, <1>5, <2>1, YearIs
  <2>3. WeekOfYear(today, start, FALSE) = (today - first) \div 7
    BY <1>1, <1>6, <2>1, <2>2, PlainWeek
  <2>4. PICK v \in Int, r \in 0 .. 6 : today - first = 7 * v + r
    <3>1. today - first \in Int
      BY <1>1, SMT
    <3> QED BY <3>1, ThursdayIs
  <2>5. (today - first) \div 7 = v
    BY <2>4, SMT
  <2>6. tomorrow - first = 7 * v + (r + 1)
    BY <1>1, <1>2, <2>4, SMT
  <2>7. (tomorrow - first) \div 7 = IF r = 6 THEN v + 1 ELSE v
    BY <2>6, SMT
  <2>8. PICK a \in Int : first + 1 = 7 * a + start
    BY <1>6 DEF FirstIn
  <2>9. Weekday(tomorrow) = start <=> r = 6
    <3>1. PICK b \in Int : b = v + a
      BY SMT
    <3>2. tomorrow + 1 = 7 * b + ((r + 1) + start)
      BY <2>6, <2>8, <3>1, SMT
    <3>3. (tomorrow + 1) % 7 = IF (r + 1) + start >= 7 THEN (r + 1) + start - 7 ELSE (r + 1) + start
      BY <3>2, SMT
    <3> QED BY <3>3, SMT DEF Weekday
  <2>10. CASE r = 6
    BY <1>7, <1>10, <2>3, <2>5, <2>7, <2>9, <2>10, Zenon
  <2>11. CASE r # 6
    BY <1>7, <1>10, <2>3, <2>5, <2>7, <2>9, <2>11, Zenon
  <2> QED BY <2>10, <2>11
<1> QED BY <1>9, <1>10

\* The number of a day's week is that of the ISO standard, the weeks from that
\* of the year's first Thursday, also in the days around the new year; with
\* another first day of the week it begins with the year and grows on just that
\* day: for every day, through the reform and the change of the era
\* (ESWatchTime::weekOfYearNumberUsingEnv).
THEOREM EveryWeekIsRight == Spec => []WeeksAreRight
<1>1. today \in Int => WeeksAreRight
  BY WeeksAreISOHolds, WeeksFollowHolds DEF WeeksAreRight
<1> QED BY InitDay, NextDay, <1>1, PTL DEF Spec
-----------------------------------------------------------------------------
(* The first days of the months. *)

LEMMA FirstIsAllowed ==
  ASSUME NEW s \in Int, NEW month \in 1 .. 12
  PROVE  Allowed(s, month, 1) /\ ~Skipped(DateOf(s, month, 1))
<1>1. PICK n \in Int : n = MonthLength(s, month, IsGregorian(DateOf(s, month, 1))) /\ 28 <= n
  BY LengthRange
<1>2. 1 \in Int /\ 1 <= 1 /\ 1 <= n
  BY <1>1, SMT
<1>3. ~Skipped(DateOf(s, month, 1))
  <2>1. DateOf(s, month, 1).day = 1
    BY DateOfParts
  <2> QED BY <2>1, SMT DEF Skipped
<1> QED BY <1>1, <1>2, <1>3 DEF Allowed

\* The first of the month of a day is not after the day.
LEMMA FirstOfItsMonth ==
  ASSUME NEW day \in Int, NEW s, NEW month, NEW d,
         Components(day) = DateOf(s, month, d), Allowed(s, month, d)
  PROVE  DayNumber(DateOf(s, month, 1)) \in Int /\ DayNumber(DateOf(s, month, 1)) <= day
<1>1. /\ s \in Int /\ month \in Int /\ d \in Int /\ 1 <= d
  BY SMT DEF Allowed
<1>2. PICK t \in Int, b \in Int :
        t = MarchYear(s, month) /\ b = DaysBeforeMonth(MarchMonth(month))
  BY <1>1, SMT DEF MarchYear, MarchMonth, DaysBeforeMonth
<1>3. PICK n \in Int, k \in Int : n = b + d /\ k = b + 1
  BY <1>1, SMT
<1>4. PICK g \in Int, j \in Int : g = GregorianMarch(t) /\ j = JulianMarch(t)
  BY GregorianMarches, JulianMarches
<1>5. /\ AfterReform(s, month, d) => day = (g + n) - 730792
      /\ ~AfterReform(s, month, d) => day = (j + n) - 730794
  <2>1. day = DayNumber(DateOf(s, month, d))
    BY DayNumberBack
  <2> QED BY <1>1, <1>2, <1>3, <1>4, <2>1, NumberOfDate, SMT
<1>6. PICK f : f = DayNumber(DateOf(s, month, 1))
  OBVIOUS
<1>7. /\ AfterReform(s, month, 1) => f = (g + k) - 730792
      /\ ~AfterReform(s, month, 1) => f = (j + k) - 730794
  <2>1. 1 \in Int
    OBVIOUS
  <2> QED BY <1>1, <1>2, <1>3, <1>4, <1>6, <2>1, NumberOfDate, SMT
<1>8. k <= n
  BY <1>1, <1>3, SMT
<1>9. CASE AfterReform(s, month, d) /\ ~AfterReform(s, month, 1)
  <2>1. s = 1582 /\ month = 10 /\ d >= 15
    BY <1>1, <1>9, SMT DEF AfterReform
  <2>2. g = 577813 /\ j = 577825
    <3>1. t = 1582
      BY <1>2, <2>1, SMT DEF MarchYear
    <3> QED BY <1>4, <3>1, ReformYears, SMT
  <2>3. f = (j + k) - 730794 /\ day = (g + n) - 730792
    BY <1>5, <1>7, <1>9
  <2>4. n >= k + 14
    BY <1>1, <1>3, <2>1, SMT
  <2> QED BY <1>6, <2>2, <2>3, <2>4, SMT
<1>10. CASE AfterReform(s, month, d) /\ AfterReform(s, month, 1)
  BY <1>5, <1>6, <1>7, <1>8, <1>10, SMT
<1>11. CASE ~AfterReform(s, month, d)
  <2>1. ~AfterReform(s, month, 1)
    BY <1>1, <1>11, SMT DEF AfterReform
  <2> QED BY <1>5, <1>6, <1>7, <1>8, <1>11, <2>1, SMT
<1> QED BY <1>9, <1>10, <1>11

\* A month, counted from March, ends before the next.
LEMMA MonthsInMarch ==
  ASSUME NEW s \in Int, NEW month \in 1 .. 12, month # 2, NEW day \in Int, NEW g,
         1 <= day, day <= MonthLength(s, month, g), month < 12
  PROVE  /\ MarchYear(s, month + 1) = MarchYear(s, month)
         /\ DaysBeforeMonth(MarchMonth(month)) + day
              <= DaysBeforeMonth(MarchMonth(month + 1))
<1>1. month = 1 \/ (3 <= month /\ month <= 11)
  BY SMT
<1>2. MarchYear(s, month + 1) = MarchYear(s, month)
  BY <1>1, SMT DEF MarchYear
<1>3. PICK m \in 3 .. 13 : m = MarchMonth(month) /\ m + 1 = MarchMonth(month + 1)
  BY <1>1, SMT DEF MarchMonth
<1>4. MonthLength(s, month, g) = IF month \in ThirtyDays THEN 30 ELSE 31
  BY DEF MonthLength
<1>5. month \in ThirtyDays <=> m \in ThirtyDays
  BY <1>1, <1>3, SMT DEF MarchMonth, ThirtyDays
<1>6. day <= IF m \in ThirtyDays THEN 30 ELSE 31
  BY <1>4, <1>5, SMT
<1>7. DaysBeforeMonth(m) + day <= DaysBeforeMonth(m + 1)
  BY <1>6, SMT DEF DaysBeforeMonth, ThirtyDays
<1> QED BY <1>2, <1>3, <1>7

\* The first of the next month is after the day.
LEMMA FirstOfNextMonth ==
  ASSUME NEW day \in Int, NEW s, NEW month, NEW d,
         Components(day) = DateOf(s, month, d), Allowed(s, month, d), month < 12
  PROVE  /\ DayNumber(DateOf(s, month + 1, 1)) \in Int
         /\ day < DayNumber(DateOf(s, month + 1, 1))
<1>1. /\ s \in Int /\ month \in 1 .. 12 /\ d \in Int /\ 1 <= d
      /\ d <= MonthLength(s, month, IsGregorian(DateOf(s, month, d)))
  BY DEF Allowed
<1>2. day = DayNumber(DateOf(s, month, d))
  BY DayNumberBack
<1>3. CASE month = 2
  <2>1. PICK g : g = IsGregorian(DateOf(s, 2, 1))
    OBVIOUS
  <2>2. PICK last \in Int : last = MonthLength(s, 2, g)
    BY LengthRange
  <2>3. /\ IsGregorian(DateOf(s, 2, d)) <=> g
        /\ DayNumber(DateOf(s, 2, 1)) \in Int
        /\ DayNumber(DateOf(s, 2, d)) = DayNumber(DateOf(s, 2, 1)) + (d - 1)
        /\ DayNumber(DateOf(s, 3, 1)) = DayNumber(DateOf(s, 2, 1)) + last
    <3>1. s \in Int /\ d \in Int
      BY <1>1
    <3>2. \A x \in Int : IsGregorian(DateOf(s, 2, x)) <=> g
      BY <2>1, <2>2, <3>1, FebruaryEnds
    <3>3. DayNumber(DateOf(s, 2, 1)) \in Int
      BY <2>1, <2>2, <3>1, FebruaryEnds
    <3>4. \A x \in Int : DayNumber(DateOf(s, 2, x)) = DayNumber(DateOf(s, 2, 1)) + (x - 1)
      BY <2>1, <2>2, <3>1, FebruaryEnds
    <3>5. DayNumber(DateOf(s, 3, 1)) = DayNumber(DateOf(s, 2, 1)) + last
      BY <2>1, <2>2, <3>1, FebruaryEnds
    <3> QED BY <3>1, <3>2, <3>3, <3>4, <3>5
  <2>4. MonthLength(s, 2, IsGregorian(DateOf(s, 2, d))) = last
    BY <2>2, <2>3, SameCalendar
  <2>5. d <= last
    BY <1>1, <1>3, <2>4
  <2>6. DateOf(s, month + 1, 1) = DateOf(s, 3, 1)
    BY <1>3, SMT
  <2>7. PICK f \in Int : f = DayNumber(DateOf(s, 2, 1))
    BY <2>3
  <2>8. day = f + (d - 1) /\ DayNumber(DateOf(s, month + 1, 1)) = f + last
    BY <1>2, <1>3, <2>3, <2>6, <2>7
  <2> QED BY <1>1, <2>5, <2>7, <2>8, SMT
<1>4. CASE month # 2
  <2>1. PICK t \in Int, b \in Int :
          t = MarchYear(s, month) /\ b = DaysBeforeMonth(MarchMonth(month))
    BY <1>1, SMT DEF MarchYear, MarchMonth, DaysBeforeMonth
  <2>2. PICK next \in Int : next = month + 1
    BY <1>1, SMT
  <2>3. t = MarchYear(s, next) /\ b + d <= DaysBeforeMonth(MarchMonth(next))
    BY <1>1, <1>4, <2>1, <2>2, MonthsInMarch
  <2>4. PICK n \in Int, k \in Int : n = b + d /\ k = DaysBeforeMonth(MarchMonth(next)) + 1
    BY <1>1, <2>2, SMT DEF MarchMonth, DaysBeforeMonth
  <2>5. n < k
    <3>1. DaysBeforeMonth(MarchMonth(next)) \in Int
      BY <2>2, SMT DEF MarchMonth, DaysBeforeMonth
    <3> QED BY <2>3, <2>4, <3>1, SMT
  <2>6. PICK g \in Int, j \in Int : g = GregorianMarch(t) /\ j = JulianMarch(t)
    BY GregorianMarches, JulianMarches
  <2>7. month \in Int
    BY <1>1, SMT
  <2>8. /\ AfterReform(s, month, d) => day = (g + n) - 730792
        /\ ~AfterReform(s, month, d) => day = (j + n) - 730794
    BY <1>1, <1>2, <2>1, <2>4, <2>6, <2>7, NumberOfDate, SMT
  <2>9. PICK f : f = DayNumber(DateOf(s, month + 1, 1))
    OBVIOUS
  <2>10. /\ AfterReform(s, next, 1) => f = (g + k) - 730792
         /\ ~AfterReform(s, next, 1) => f = (j + k) - 730794
    <3>1. 1 \in Int
      OBVIOUS
    <3> QED BY <1>1, <2>2, <2>3, <2>4, <2>6, <2>9, <3>1, NumberOfDate, SMT
  <2>11. CASE AfterReform(s, month, d)
    <3>1. AfterReform(s, next, 1)
      BY <1>1, <2>2, <2>7, <2>11, SMT DEF AfterReform
    <3> QED BY <2>5, <2>8, <2>9, <2>10, <2>11, <3>1, SMT
  <2>12. CASE ~AfterReform(s, month, d) /\ AfterReform(s, next, 1)
    <3>1. s = 1582 /\ month = 10 /\ next = 11 /\ d < 15
      BY <1>1, <2>2, <2>7, <2>12, SMT DEF AfterReform
    <3>2. t = 1582 /\ b = 214 /\ k = 246
      BY <2>1, <2>4, <3>1, SMT DEF MarchYear, MarchMonth, DaysBeforeMonth
    <3>3. g = 577813 /\ j = 577825
      BY <2>6, <3>2, ReformYears, SMT
    <3>4. f = (g + k) - 730792 /\ day = (j + n) - 730794
      BY <2>8, <2>10, <2>12
    <3>5. n <= 228
      BY <1>1, <2>4, <3>1, <3>2, SMT
    <3> QED BY <2>9, <3>2, <3>3, <3>4, <3>5, SMT
  <2>13. CASE ~AfterReform(s, month, d) /\ ~AfterReform(s, next, 1)
    BY <2>5, <2>8, <2>9, <2>10, <2>13, SMT
  <2> QED BY <2>11, <2>12, <2>13
<1> QED BY <1>3, <1>4
\* From the first of a day's month and year, which are not after it, it is a
\* month and a year to the firsts of the next, which are.
LEMMA FirstsAround ==
  ASSUME NEW day \in Int, NEW date, date = Components(day),
         NEW first, first = DayNumber([date EXCEPT !.day = 1]),
         NEW jan1, jan1 = DayNumber([date EXCEPT !.day = 1, !.month = 1])
  PROVE  /\ first \in Int /\ first <= day
         /\ day < DayNumber(AddMonths(Components(first), 1))
         /\ jan1 \in Int
         /\ day < DayNumber(AddYears(Components(jan1), 1))
<1>1. PICK s, month, d : date = DateOf(s, month, d) /\ Allowed(s, month, d)
  BY DateIsAllowed
<1>2. s \in Int /\ month \in 1 .. 12 /\ 1 \in 1 .. 12 /\ month \in Int /\ 1 \in Int
  BY <1>1, SMT DEF Allowed
<1>3. [date EXCEPT !.day = 1] = DateOf(s, month, 1)
  BY <1>1 DEF DateOf
<1>4. [date EXCEPT !.day = 1, !.month = 1] = DateOf(s, 1, 1)
  <2>1. [date EXCEPT !.day = 1, !.month = 1] = [[date EXCEPT !.day = 1] EXCEPT !.month = 1]
    OBVIOUS
  <2>2. [DateOf(s, month, 1) EXCEPT !.month = 1] = DateOf(s, 1, 1)
    BY DEF DateOf
  <2> QED BY <1>3, <2>1, <2>2
<1>5. first \in Int /\ first <= day
  BY <1>1, <1>3, FirstOfItsMonth
<1>6. Components(first) = DateOf(s, month, 1)
  BY <1>2, <1>3, FirstIsAllowed, DateBack
<1>7. Components(jan1) = DateOf(s, 1, 1)
  BY <1>2, <1>4, FirstIsAllowed, DateBack
<1>8. PICK next \in Int : next = s + 1
  BY <1>2, SMT
<1>9. day < DayNumber(DateOf(next, 1, 1))
  <2>1. InYear(day, s, month, d)
    BY <1>1, YearBounds
  <2>2. day < FirstOfYear(next)
    BY <1>8, <2>1 DEF InYear
  <2>3. FirstOfYear(next) = DayNumber(DateOf(next, 1, 1))
    BY Zenon DEF FirstOfYear, DateOf
  <2> QED BY <2>2, <2>3
<1>10. jan1 \in Int
  <2>1. jan1 = FirstOfYear(s)
    BY <1>4, Zenon DEF FirstOfYear, DateOf
  <2> QED BY <1>2, <2>1, FirstOfYearIs
<1>11. day < DayNumber(AddYears(Components(jan1), 1))
  <2>1. AddYears(DateOf(s, 1, 1), 1) = DateOf(next, 1, 1)
    BY <1>2, <1>8, AddYearsIs
  <2> QED BY <1>7, <1>9, <2>1
<1>12. day < DayNumber(AddMonths(Components(first), 1))
  <2>1. PICK s1 \in Int, month1 \in Int :
          s1 = (12 * s + month - 1 + 1) \div 12 /\ month1 = ((12 * s + month - 1 + 1) % 12) + 1
    BY <1>2, SMT
  <2>2. PICK last :
          /\ last = MonthLength(s1, month1, IsGregorian(DateOf(s1, month1, 1)))
          /\ AddMonths(DateOf(s, month, 1), 1) = DateOf(s1, month1, IF 1 > last THEN last ELSE 1)
    BY <1>2, <2>1, AddMonthsIs
  <2>3. ~(1 > last)
    <3>1. last \in Int /\ 28 <= last
      BY <2>2, LengthRange
    <3> QED BY <3>1, SMT
  <2>4. AddMonths(DateOf(s, month, 1), 1) = DateOf(s1, month1, 1)
    BY <2>2, <2>3
  <2>5. CASE month < 12
    <3>1. s1 = s /\ month1 = month + 1
      <4>1. 1 <= month /\ month <= 11
        BY <1>2, <2>5, SMT
      <4>2. 12 * s + month - 1 + 1 = 12 * s + month
        BY <1>2, SMT
      <4>3. (12 * s + month) \div 12 = s
        BY <1>2, <4>1, SMT
      <4>4. (12 * s + month) % 12 = month
        BY <1>2, <4>1, SMT
      <4> QED BY <2>1, <4>2, <4>3, <4>4
    <3>2. day < DayNumber(DateOf(s, month + 1, 1))
      BY <1>1, <2>5, FirstOfNextMonth
    <3> QED BY <1>6, <2>4, <3>1, <3>2
  <2>6. CASE ~(month < 12)
    <3>1. s1 = next /\ month1 = 1
      BY <1>2, <1>8, <2>1, <2>6, SMT
    <3> QED BY <1>6, <1>9, <2>4, <3>1
  <2> QED BY <2>5, <2>6
<1> QED BY <1>5, <1>10, <1>11, <1>12

===============================================================================
