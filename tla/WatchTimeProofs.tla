---------------------------- MODULE WatchTimeProofs ----------------------------
(***************************************************************************)
(* Proofs about WatchTime and TimeEnvironment, for any zones and any       *)
(* speeds of a watch: the cache of midnights is right, a change of the     *)
(* speed does not change the time, and setting the date keeps the time of  *)
(* day.                                                                    *)
(***************************************************************************)
EXTENDS WatchTime, FiniteSetTheorems, TLAPS

-----------------------------------------------------------------------------
(* The calendar. *)

Dated == INSTANCE DatesProofs WITH Periods <- {}, Steps <- {}, today <- now

\* The calendar of the watch is the one that DatesProofs is about.
LEMMA SameNumbers ==
  /\ Switchover = Dated!Switchover
  /\ DaysInJulianCycle = Dated!DaysInJulianCycle
  /\ DaysInGregorianCycle = Dated!DaysInGregorianCycle
  /\ DaysInNonLeapCentury = Dated!DaysInNonLeapCentury
  BY DEF Switchover, Dated!Switchover, DaysInJulianCycle, Dated!DaysInJulianCycle,
         DaysInGregorianCycle, Dated!DaysInGregorianCycle,
         DaysInNonLeapCentury, Dated!DaysInNonLeapCentury

LEMMA SameDateInYear ==
  ASSUME NEW y, NEW x PROVE DateInYear(y, x) = Dated!DateInYear(y, x)
  <1>1. ASSUME NEW z
        PROVE  /\ EraYear(z) = Dated!EraYear(z)
               /\ DaysBeforeMonth(z) = Dated!DaysBeforeMonth(z)
    BY DEF EraYear, Dated!EraYear, DaysBeforeMonth, Dated!DaysBeforeMonth
  <1> QED
    BY <1>1 DEF DateInYear, Dated!DateInYear

LEMMA SameComponents ==
  ASSUME NEW d PROVE Components(d) = Dated!Components(d)
  <1>1. ASSUME NEW x PROVE JulianDate(x) = Dated!JulianDate(x)
    BY SameNumbers, SameDateInYear DEF JulianDate, Dated!JulianDate
  <1>2. ASSUME NEW x PROVE GregorianDate(x) = Dated!GregorianDate(x)
    BY SameNumbers, SameDateInYear DEF GregorianDate, Dated!GregorianDate
  <1> QED
    BY <1>1, <1>2, SameNumbers DEF Components, Dated!Components

LEMMA SameDayNumber ==
  ASSUME NEW date PROVE DayNumber(date) = Dated!DayNumber(date)
  <1>1. IsGregorian(date) <=> Dated!IsGregorian(date)
    BY DEF IsGregorian, Dated!IsGregorian
  <1>2. YearFromMarch(date) = Dated!YearFromMarch(date)
    BY DEF YearFromMarch, Dated!YearFromMarch, SignedYear, Dated!SignedYear
  <1>3. DayInYear(date) = Dated!DayInYear(date)
    BY DEF DayInYear, Dated!DayInYear, DaysBeforeMonth, Dated!DaysBeforeMonth
  <1>4. JulianDayNumber(date) = Dated!JulianDayNumber(date)
    BY <1>2, <1>3, SameNumbers DEF JulianDayNumber, Dated!JulianDayNumber
  <1>5. GregorianDayNumber(date) = Dated!GregorianDayNumber(date)
    BY <1>2, <1>3, SameNumbers DEF GregorianDayNumber, Dated!GregorianDayNumber
  <1> QED
    BY <1>1, <1>4, <1>5 DEF DayNumber, Dated!DayNumber

LEMMA DayNumberBack ==
  ASSUME NEW d \in Int PROVE DayNumber(Components(d)) = d
  BY Dated!DayNumberBack, SameComponents, SameDayNumber
-----------------------------------------------------------------------------
(* Arithmetic of days. *)

LEMMA Constants ==
  /\ Hour \in Nat /\ Hour > 2 /\ Day \in Nat /\ 2 * (Hour + 2) < Day
  /\ CacheSpan \in Nat /\ CachePreload \in Nat
  /\ Day <= CachePreload /\ CachePreload + 2 * Day <= CacheSpan
  BY DayAssumption

\* Division with a remainder.
LEMMA Remainder ==
  ASSUME NEW x \in Int
  PROVE  /\ x \div Day \in Int /\ x % Day \in 0 .. Day - 1
         /\ (x \div Day) * Day \in Int
         /\ x = (x \div Day) * Day + (x % Day)
  <1>1. Day \in Nat /\ Day > 0
    BY Constants
  <1>2. x \div Day \in Int /\ x % Day \in 0 .. Day - 1
    BY <1>1
  <1>3. (x \div Day) * Day \in Int
    BY <1>1, <1>2
  <1>4. x = (x \div Day) * Day + (x % Day)
    BY <1>1
  <1> QED
    BY <1>2, <1>3, <1>4

LEMMA Distances ==
  ASSUME NEW i \in Int, NEW j \in Int, i < j
  PROVE  i * Day \in Int /\ j * Day \in Int /\ i * Day + Day <= j * Day
  <1>1. Day \in Nat
    BY Constants
  <1>2. (j - i - 1) * Day >= 0
    BY <1>1
  <1>3. (j - i - 1) * Day = j * Day - i * Day - Day /\ i * Day \in Int /\ j * Day \in Int
    BY <1>1
  <1> QED
    BY <1>1, <1>2, <1>3

LEMMA OneRemainder ==
  ASSUME NEW x \in Int, NEW q \in Int, NEW r \in 0 .. Day - 1, x = q * Day + r
  PROVE  x % Day = r /\ x \div Day = q
  <1> DEFINE p == x \div Day
             s == x % Day
  <1>0. /\ p \in Int /\ s \in 0 .. Day - 1 /\ x = p * Day + s /\ p * Day \in Int
    BY Remainder, Zenon
  <1> HIDE DEF p, s
  <1>1. /\ p \in Int /\ s \in 0 .. Day - 1 /\ x = p * Day + s /\ Day \in Nat
        /\ p * Day \in Int /\ q * Day \in Int
    BY <1>0, Constants
  <1>2. ~(p < q)
    <2> SUFFICES ASSUME p < q PROVE FALSE
      OBVIOUS
    <2>1. p * Day + Day <= q * Day
      BY <1>1, Distances
    <2> QED
      BY <1>1, <2>1
  <1>3. ~(q < p)
    <2> SUFFICES ASSUME q < p PROVE FALSE
      OBVIOUS
    <2>1. q * Day + Day <= p * Day
      BY <1>1, Distances
    <2> QED
      BY <1>1, <2>1
  <1>4. p = q
    BY <1>1, <1>2, <1>3
  <1>5. s = r
    BY <1>1, <1>4
  <1> QED
    BY <1>4, <1>5 DEF p, s

\* Whole days do not change the time of day.
LEMMA DaysLater ==
  ASSUME NEW x \in Int, NEW i \in Int
  PROVE  (x + i * Day) % Day = x % Day /\ i * Day \in Int
  <1> DEFINE p == x \div Day
             r == x % Day
  <1>0. p \in Int /\ r \in 0 .. Day - 1 /\ x = p * Day + r /\ p * Day \in Int
    BY Remainder, Zenon
  <1> HIDE DEF p, r
  <1>1. p \in Int /\ r \in 0 .. Day - 1 /\ x = p * Day + r /\ Day \in Nat /\ p * Day \in Int
    BY <1>0, Constants
  <1>2. (p + i) * Day = p * Day + i * Day /\ i * Day \in Int
    BY <1>1
  <1>3. x + i * Day = (p + i) * Day + r /\ p + i \in Int /\ x + i * Day \in Int
    BY <1>1, <1>2
  <1> QED
    BY <1>1, <1>2, <1>3, OneRemainder DEF r

\* Less than half a day apart, two times differ by as much as their times of day.
LEMMA NearestIs ==
  ASSUME NEW x \in Int, NEW y \in Int, 2 * (x - y) < Day, 2 * (y - x) < Day
  PROVE  Nearest((x % Day) - (y % Day)) = x - y
  <1> DEFINE p == x \div Day
             q == y \div Day
             r == x % Day
             s == y % Day
  <1>0. /\ p \in Int /\ r \in 0 .. Day - 1 /\ x = p * Day + r /\ p * Day \in Int
        /\ q \in Int /\ s \in 0 .. Day - 1 /\ y = q * Day + s /\ q * Day \in Int
    BY Remainder, Zenon
  <1>1. /\ p \in Int /\ r \in 0 .. Day - 1 /\ x = p * Day + r /\ p * Day \in Int
        /\ q \in Int /\ s \in 0 .. Day - 1 /\ y = q * Day + s /\ q * Day \in Int
        /\ Day \in Nat /\ Day > 0
    <2> HIDE DEF p, q, r, s
    <2> QED
      BY <1>0, Constants
  <1>2. Day \div 2 \in Int /\ 2 * (Day \div 2) <= Day /\ Day <= 2 * (Day \div 2) + 1
    BY <1>1
  <1> HIDE DEF p, q, r, s
  <1>3. p = q \/ p = q + 1 \/ q = p + 1
    <2>1. ~(p > q + 1)
      <3> SUFFICES ASSUME p > q + 1 PROVE FALSE
        OBVIOUS
      <3>1. q * Day + Day <= (q + 1) * Day /\ (q + 1) * Day + Day <= p * Day /\ (q + 1) * Day \in Int
        BY <1>1, Distances
      <3> QED
        BY <1>1, <3>1
    <2>2. ~(q > p + 1)
      <3> SUFFICES ASSUME q > p + 1 PROVE FALSE
        OBVIOUS
      <3>1. p * Day + Day <= (p + 1) * Day /\ (p + 1) * Day + Day <= q * Day /\ (p + 1) * Day \in Int
        BY <1>1, Distances
      <3> QED
        BY <1>1, <3>1
    <2> QED
      BY <1>1, <2>1, <2>2
  <1> DEFINE half == Day \div 2
  <1>4. half \in Int /\ 2 * half <= Day /\ Day <= 2 * half + 1
    BY <1>2
  <1>5. Nearest(r - s) = CASE r - s > half -> r - s - Day
                           [] r - s < - half -> r - s + Day
                           [] OTHER -> r - s
    BY Zenon DEF Nearest
  <1> HIDE DEF half
  <1>6. CASE p = q
    <2>1. r - s = x - y
      BY <1>1, <1>6
    <2>2. ~(r - s > half) /\ ~(r - s < - half)
      BY <1>1, <1>4, <2>1
    <2> QED
      BY <1>5, <2>1, <2>2 DEF r, s
  <1>7. CASE p = q + 1
    <2>1. p * Day = q * Day + Day
      BY <1>1, <1>7
    <2>2. r - s = x - y - Day
      BY <1>1, <2>1
    <2>3. r - s < - half /\ ~(r - s > half)
      BY <1>1, <1>4, <2>2
    <2> QED
      BY <1>1, <1>4, <1>5, <2>2, <2>3 DEF r, s
  <1>8. CASE q = p + 1
    <2>1. q * Day = p * Day + Day
      BY <1>1, <1>8
    <2>2. r - s = x - y + Day
      BY <1>1, <2>1
    <2>3. r - s > half
      BY <1>1, <1>4, <2>2
    <2> QED
      BY <1>1, <1>4, <1>5, <2>2, <2>3 DEF r, s
  <1> QED
    BY <1>3, <1>6, <1>7, <1>8

-----------------------------------------------------------------------------
(* Time zones. *)

LEMMA StrictSubset ==
  ASSUME NEW S, IsFiniteSet(S), NEW T, T \subseteq S, NEW x \in S, x \notin T
  PROVE  /\ IsFiniteSet(T) /\ Cardinality(T) \in Nat /\ Cardinality(S) \in Nat
         /\ Cardinality(T) < Cardinality(S)
  <1>1. IsFiniteSet(T) /\ Cardinality(T) <= Cardinality(S)
    BY FS_Subset
  <1>2. Cardinality(T) # Cardinality(S)
    <2>1. T # S
      OBVIOUS
    <2> QED
      BY <2>1, FS_Subset
  <1>3. Cardinality(T) \in Nat /\ Cardinality(S) \in Nat
    BY <1>1, FS_CardinalityType
  <1> QED
    BY <1>1, <1>2, <1>3

\* A finite set has an element with the largest of different values.
LEMMA LargestExists ==
  ASSUME NEW C, IsFiniteSet(C), C # {}, NEW f \in [C -> Int],
         \A c, d \in C : c # d => f[c] # f[d]
  PROVE  \E c \in C : \A d \in C : f[d] <= f[c]
  <1> SUFFICES ASSUME \A c \in C : \E d \in C : f[c] < f[d] PROVE FALSE
    <2>1. \A c, d \in C : f[d] <= f[c] \/ f[c] < f[d]
      OBVIOUS
    <2> QED
      BY <2>1
  <1> DEFINE less == [c \in C |-> {d \in C : f[d] < f[c]}]
             n == Cardinality(C)
             rank == [c \in C |-> Cardinality(less[c])]
  <1>1. n \in Nat
    BY FS_CardinalityType
  <1>2. \A c \in C : /\ less[c] \subseteq C /\ c \notin less[c]
                     /\ rank[c] = Cardinality(less[c])
                     /\ \A d \in C : d \in less[c] <=> f[d] < f[c]
    OBVIOUS
  <1> HIDE DEF less
  <1>3. ASSUME NEW c \in C, NEW d \in C, f[c] < f[d]
        PROVE  rank[c] \in Nat /\ rank[d] \in Nat /\ rank[c] < rank[d]
    <2>1. less[c] \subseteq less[d] /\ c \in less[d]
      BY <1>2, <1>3
    <2>2. IsFiniteSet(less[d])
      BY <1>2, FS_Subset
    <2> QED
      BY <1>2, <2>1, <2>2, StrictSubset
  <1>4. ASSUME NEW c \in C PROVE rank[c] \in 0 .. n - 2
    <2>1. PICK d \in C : f[c] < f[d]
      OBVIOUS
    <2>2. rank[c] \in Nat /\ rank[d] \in Nat /\ rank[c] < rank[d]
      BY <1>3, <2>1
    <2>3. Cardinality(less[d]) < n
      BY <1>2, StrictSubset
    <2> QED
      BY <1>1, <1>2, <2>2, <2>3
  <1> HIDE DEF rank, n
  <1>5. rank \in [C -> 0 .. n - 2]
    BY <1>4 DEF rank
  <1>6. IsFiniteSet(0 .. n - 2) /\ Cardinality(0 .. n - 2) < n
    <2>1. C = {} <=> n = 0
      BY FS_EmptySet DEF n
    <2>2. n \in Int /\ n > 0 /\ n - 2 \in Int /\ 0 \in Int
      BY <1>1, <2>1
    <2>3. /\ IsFiniteSet(0 .. n - 2)
          /\ Cardinality(0 .. n - 2) = IF 0 > n - 2 THEN 0 ELSE n - 2 - 0 + 1
      BY <2>2, FS_Interval
    <2> QED
      BY <2>2, <2>3
  <1>7. PICK c \in C, d \in C : c # d /\ rank[c] = rank[d]
    BY <1>5, <1>6, FS_PigeonHole DEF n
  <1>8. f[c] < f[d] \/ f[d] < f[c]
    BY <1>7
  <1> QED
    BY <1>2, <1>3, <1>7, <1>8

LEMMA Changes ==
  ASSUME NEW zone \in Zones
  PROVE  /\ zone.raw \in Int /\ zone.raw > - Day /\ zone.raw + Hour < Day
         /\ IsFiniteSet(zone.changes)
         /\ \A c \in zone.changes :
              /\ c.at \in Int /\ c.at # 0
              /\ c.offset \in Int /\ zone.raw <= c.offset /\ c.offset <= zone.raw + Hour
         /\ \A c, d \in zone.changes :
              c # d => d.at < c.at - CacheSpan - Day \/ d.at > c.at + CacheSpan + Day
  <1>1. /\ zone.raw \in 1 - Day .. Day - Hour - 1
        /\ IsFiniteSet(zone.changes)
        /\ \A c \in zone.changes :
             /\ c.at \in Int /\ c.at # 0 /\ c.offset \in zone.raw .. zone.raw + Hour
             /\ \A d \in zone.changes \ {c} : d.at < c.at \/ d.at > c.at + CacheSpan + Day
    BY ZoneAssumption
  <1>2. \A c, d \in zone.changes :
          c # d => d.at < c.at - CacheSpan - Day \/ d.at > c.at + CacheSpan + Day
    <2> SUFFICES ASSUME NEW c \in zone.changes, NEW d \in zone.changes, c # d
                 PROVE  d.at < c.at - CacheSpan - Day \/ d.at > c.at + CacheSpan + Day
      OBVIOUS
    <2>1. /\ d.at < c.at \/ d.at > c.at + CacheSpan + Day
          /\ c.at < d.at \/ c.at > d.at + CacheSpan + Day
          /\ c.at \in Int /\ d.at \in Int
      BY <1>1
    <2> QED
      BY <2>1, Constants
  <1> QED
    BY <1>1, <1>2, Constants

\* Two changes are not as close together as a cache spans.
LEMMA OneChange ==
  ASSUME NEW zone \in Zones, NEW t \in Int, NEW u \in Int, u - t <= CacheSpan + Day,
         NEW c \in zone.changes, t < c.at, c.at <= u,
         NEW d \in zone.changes, t < d.at, d.at <= u
  PROVE  c = d
  BY Changes, Constants

\* After a change its offset holds until the next one.
LEMMA OffsetIs ==
  ASSUME NEW zone \in Zones, NEW t \in Int, NEW c \in zone.changes, c.at <= t,
         \A d \in zone.changes : d.at <= t => d.at <= c.at
  PROVE  Offset(zone, t) = c.offset
  <1>1. \A d \in zone.changes :
          d.at <= t /\ (\A e \in zone.changes : e.at <= t => e.at <= d.at) <=> d = c
    <2>1. \A d \in zone.changes : d # c => d.at # c.at /\ d.at \in Int /\ c.at \in Int
      BY Changes, Constants
    <2> QED
      BY <2>1
  <1>2. LatestChange(zone, t) = c
    BY <1>1 DEF LatestChange
  <1> QED
    BY <1>2 DEF Offset

LEMMA OffsetExists ==
  ASSUME NEW zone \in Zones, NEW t \in Int, NEW b \in zone.changes, b.at <= t
  PROVE  \E c \in zone.changes : c.at <= t /\ \A d \in zone.changes : d.at <= t => d.at <= c.at
  <1> DEFINE C == {c \in zone.changes : c.at <= t}
             f == [c \in C |-> c.at]
  <1>1. IsFiniteSet(C) /\ C # {}
    BY Changes, FS_Subset
  <1>2. f \in [C -> Int] /\ \A c, d \in C : c # d => f[c] # f[d]
    BY Changes, Constants
  <1>3. \E c \in C : \A d \in C : f[d] <= f[c]
    BY <1>1, <1>2, LargestExists
  <1> QED
    BY <1>3

LEMMA OffsetRange ==
  ASSUME NEW zone \in Zones, NEW t \in Int
  PROVE  /\ Offset(zone, t) \in Int
         /\ zone.raw <= Offset(zone, t) /\ Offset(zone, t) <= zone.raw + Hour
         /\ Offset(zone, t) > - Day /\ Offset(zone, t) < Day
         /\ LocalTime(zone, t) \in Int
  <1>1. CASE \E c \in zone.changes : c.at <= t
    <2>1. PICK c \in zone.changes :
            c.at <= t /\ \A d \in zone.changes : d.at <= t => d.at <= c.at
      BY <1>1, OffsetExists
    <2>2. Offset(zone, t) = c.offset
      BY <2>1, OffsetIs
    <2> QED
      BY <2>2, Changes, Constants DEF LocalTime
  <1>2. CASE ~\E c \in zone.changes : c.at <= t
    <2>1. Offset(zone, t) = zone.raw
      BY <1>2 DEF Offset
    <2> QED
      BY <2>1, Changes, Constants DEF LocalTime
  <1> QED
    BY <1>1, <1>2

\* Without a change between two times the offset is the same.
LEMMA OffsetSame ==
  ASSUME NEW zone \in Zones, NEW t \in Int, NEW u \in Int, t <= u,
         \A c \in zone.changes : ~(t < c.at /\ c.at <= u)
  PROVE  Offset(zone, t) = Offset(zone, u)
  <1>1. \A c \in zone.changes : c.at <= t <=> c.at <= u
    BY Changes
  <1>2. CASE \E c \in zone.changes : c.at <= t
    <2>1. PICK c \in zone.changes :
            c.at <= t /\ \A d \in zone.changes : d.at <= t => d.at <= c.at
      BY <1>2, OffsetExists
    <2> QED
      BY <1>1, <2>1, OffsetIs
  <1>3. CASE ~\E c \in zone.changes : c.at <= t
    BY <1>1, <1>3 DEF Offset
  <1> QED
    BY <1>2, <1>3

\* With just one change between them, the later has its offset.
LEMMA OffsetSwitch ==
  ASSUME NEW zone \in Zones, NEW t \in Int, NEW u \in Int, u - t <= CacheSpan + Day,
         NEW c \in zone.changes, t < c.at, c.at <= u
  PROVE  Offset(zone, u) = c.offset /\ Offset(zone, t) = Offset(zone, c.at - 1)
  <1>1. c.at \in Int /\ CacheSpan + Day \in Int
    BY Changes, Constants
  <1>2. \A d \in zone.changes : t < d.at /\ d.at <= u => d = c
    BY OneChange
  <1>3. \A d \in zone.changes : d.at <= u => d.at <= c.at
    <2> SUFFICES ASSUME NEW d \in zone.changes, d.at <= u PROVE d.at <= c.at
      OBVIOUS
    <2>1. d.at \in Int
      BY Changes
    <2> QED
      BY <1>1, <1>2, <2>1
  <1>4. Offset(zone, u) = c.offset
    BY <1>3, OffsetIs
  <1>5. \A d \in zone.changes : ~(t < d.at /\ d.at <= c.at - 1)
    <2> SUFFICES ASSUME NEW d \in zone.changes, t < d.at, d.at <= c.at - 1 PROVE FALSE
      OBVIOUS
    <2>1. d.at \in Int
      BY Changes
    <2> QED
      BY <1>1, <1>2, <2>1
  <1> QED
    BY <1>1, <1>4, <1>5, OffsetSame

-----------------------------------------------------------------------------
(* Local times. *)

\* The clocks are not set near a midnight.
LEMMA AwayFromMidnight ==
  ASSUME NEW zone \in Zones, NEW c \in zone.changes, NEW o \in Int,
         zone.raw <= o, o <= zone.raw + Hour, NEW D \in Int
  PROVE  D * Day \in Int /\ (c.at + o < D * Day - Hour \/ c.at + o >= D * Day + Hour)
  <1> DEFINE x == c.at + zone.raw
             q == x \div Day
             r == x % Day
  <1>1. x \in Int /\ zone.raw \in Int /\ c.at \in Int
    BY Changes
  <1>2. r \in Hour .. Day - 2 * Hour - 1
    BY ZoneAssumption
  <1>3. q \in Int /\ x = q * Day + r /\ q * Day \in Int
    BY <1>1, Remainder, Zenon
  <1> DEFINE y == c.at + o
  <1>4. y >= x /\ y <= x + Hour /\ y \in Int
    BY <1>1, Constants
  <1> HIDE DEF x, q, r, y
  <1>5. D * Day \in Int /\ Hour \in Nat /\ Day \in Nat /\ Hour > 2
    BY Constants
  <1>6. y >= q * Day + Hour /\ y < q * Day + Day - Hour /\ r \in Int /\ q * Day \in Int
    BY <1>2, <1>3, <1>4, <1>5, <1>1
  <1>7. CASE D <= q
    <2>1. D * Day <= q * Day
      BY <1>3, <1>5, <1>7, Distances
    <2> QED
      BY <1>4, <1>5, <1>6, <2>1 DEF y
  <1>8. CASE D > q
    <2>1. q * Day + Day <= D * Day
      BY <1>3, <1>5, <1>8, Distances
    <2> QED
      BY <1>4, <1>5, <1>6, <2>1 DEF y
  <1> QED
    BY <1>3, <1>7, <1>8

\* The time of a local time that the clocks are not set over.
LEMMA FromLocalBack ==
  ASSUME NEW zone \in Zones, NEW local \in Int, ~Skipped(zone, local)
  PROVE  /\ FromLocal(zone, local) \in Int
         /\ LocalTime(zone, FromLocal(zone, local)) = local
  <1> DEFINE o == Offset(zone, local)
             try == local - o
             p == Offset(zone, try)
             t == local - p
  <1>1. /\ o \in Int /\ o > - Day /\ o < Day /\ Day \in Nat /\ CacheSpan \in Nat
        /\ try \in Int /\ p \in Int /\ p > - Day /\ p < Day /\ t \in Int
        /\ CacheSpan > Day
    <2>1. o \in Int /\ o > - Day /\ o < Day
      BY OffsetRange
    <2> HIDE DEF o
    <2>2. try \in Int
      BY <2>1
    <2>3. p \in Int /\ p > - Day /\ p < Day
      BY <2>2, OffsetRange
    <2> QED
      BY <2>1, <2>2, <2>3, Constants
  <1>2. FromLocal(zone, local) = IF p = o THEN try ELSE t
    BY DEF FromLocal
  <1>3. CASE p = o
    <2>1. try + p = local
      BY <1>1, <1>3
    <2> QED
      BY <1>1, <1>2, <1>3, <2>1 DEF LocalTime
  <1>4. ASSUME p # o PROVE Offset(zone, t) = p
    <2>1. CASE o >= 0
      <3>1. try <= local /\ local - try <= CacheSpan + Day
        BY <1>1, <2>1
      <3>2. PICK c \in zone.changes : try < c.at /\ c.at <= local
        BY <1>1, <1>4, <3>1, OffsetSame
      <3>3. o = c.offset /\ p = Offset(zone, c.at - 1)
        BY <1>1, <3>1, <3>2, OffsetSwitch
      <3>4. c.at \in Int /\ c.offset \in Int
        BY Changes
      <3>5. ~(c.at + p <= local /\ local < c.at + c.offset)
        BY <3>3 DEF Skipped
      <3>6. c.at + p > local
        <4> HIDE DEF o, p
        <4> QED
          BY <1>1, <3>2, <3>3, <3>4, <3>5
      <3>7. t < c.at
        <4> HIDE DEF o, p
        <4> QED
          BY <1>1, <3>4, <3>6
      <3>8. CASE t <= try
        <4>1. \A d \in zone.changes : ~(t < d.at /\ d.at <= try)
          <5> SUFFICES ASSUME NEW d \in zone.changes, t < d.at, d.at <= try PROVE FALSE
            OBVIOUS
          <5>1. d.at \in Int /\ local - t <= CacheSpan + Day
            <6>1. d.at \in Int
              BY Changes
            <6> HIDE DEF o, p
            <6> QED
              BY <1>1, <6>1
          <5>2. t < c.at /\ d.at <= local /\ c.at <= local /\ c.at > d.at
            <6> HIDE DEF o, p, try, t
            <6> QED
              BY <1>1, <3>1, <3>2, <3>4, <3>7, <5>1
          <5>3. c = d
            BY <1>1, <5>1, <5>2, OneChange
          <5> QED
            BY <3>4, <5>2, <5>3
        <4> QED
          BY <1>1, <3>8, <4>1, OffsetSame
      <3>9. CASE t > try
        <4>1. \A d \in zone.changes : ~(try < d.at /\ d.at <= t)
          <5> SUFFICES ASSUME NEW d \in zone.changes, try < d.at, d.at <= t PROVE FALSE
            OBVIOUS
          <5>1. d.at \in Int
            BY Changes
          <5>2. d.at <= c.at /\ d.at < c.at /\ d.at <= local
            <6> HIDE DEF o, p, try, t
            <6> QED
              BY <1>1, <3>1, <3>2, <3>4, <3>7, <5>1
          <5>3. c = d
            BY <1>1, <3>1, <3>2, <5>1, <5>2, OneChange
          <5> QED
            BY <3>4, <5>2, <5>3
        <4> QED
          BY <1>1, <3>9, <4>1, OffsetSame
      <3> QED
        BY <1>1, <3>8, <3>9
    <2>2. CASE o < 0
      <3>1. local <= try /\ try - local <= CacheSpan + Day
        BY <1>1, <2>2
      <3>2. PICK c \in zone.changes : local < c.at /\ c.at <= try
        BY <1>1, <1>4, <3>1, OffsetSame
      <3>3. p = c.offset /\ o = Offset(zone, c.at - 1)
        BY <1>1, <3>1, <3>2, OffsetSwitch
      <3>4. c.at \in Int /\ c.offset \in Int
        BY Changes
      <3>5. ~(c.at + o <= local /\ local < c.at + c.offset)
        BY <3>3 DEF Skipped
      <3>6. local >= c.at + p
        <4> HIDE DEF o, p
        <4> QED
          BY <1>1, <3>2, <3>3, <3>4, <3>5
      <3>7. t >= c.at /\ t > local
        <4> HIDE DEF o, p
        <4> QED
          BY <1>1, <3>2, <3>4, <3>6
      <3>8. t - local <= CacheSpan + Day
        <4> HIDE DEF o, p
        <4> QED
          BY <1>1
      <3>9. Offset(zone, t) = c.offset
        BY <1>1, <3>2, <3>7, <3>8, OffsetSwitch
      <3> QED
        BY <3>3, <3>9
    <2> QED
      BY <1>1, <2>1, <2>2
  <1>5. CASE p # o
    <2>1. Offset(zone, t) = p
      BY <1>4, <1>5
    <2>2. LocalTime(zone, t) = t + p
      BY <2>1 DEF LocalTime
    <2> HIDE DEF o, p
    <2>3. t + p = local
      BY <1>1
    <2> QED
      BY <1>1, <1>2, <1>5, <2>2, <2>3
  <1> QED
    BY <1>3, <1>5

\* The clocks are not set over a midnight or the second after it.
LEMMA MidnightsExist ==
  ASSUME NEW zone \in Zones, NEW D \in Int
  PROVE  D * Day + 1 \in Int /\ ~Skipped(zone, D * Day + 1)
  <1>1. D * Day \in Int /\ Hour \in Nat /\ Hour > 2
    BY Constants
  <1>2. ASSUME NEW c \in zone.changes
        PROVE  ~(c.at + Offset(zone, c.at - 1) <= D * Day + 1 /\ D * Day + 1 < c.at + c.offset)
    <2> DEFINE o == Offset(zone, c.at - 1)
    <2>1. c.at \in Int /\ c.at - 1 \in Int
      BY Changes
    <2>2. o \in Int /\ zone.raw <= o /\ o <= zone.raw + Hour
      BY <2>1, OffsetRange
    <2>3. c.offset \in Int /\ zone.raw <= c.offset /\ c.offset <= zone.raw + Hour /\ zone.raw \in Int
      BY Changes
    <2> HIDE DEF o
    <2>4. c.at + o < D * Day - Hour \/ c.at + o >= D * Day + Hour
      BY <1>2, <2>2, AwayFromMidnight
    <2>5. c.at + c.offset < D * Day - Hour \/ c.at + c.offset >= D * Day + Hour
      BY <1>2, <2>3, AwayFromMidnight
    <2>6. D * Day + Day = (D + 1) * Day /\ D + 1 \in Int /\ Day \in Nat /\ 2 * (Hour + 2) < Day
      BY Constants
    <2> DEFINE m == D * Day
    <2>7. m \in Int
      BY <1>1
    <2> HIDE DEF m
    <2>8. ~(c.at + o <= m + 1 /\ m + 1 < c.at + c.offset)
      <3>1. /\ c.at + o < m - Hour \/ c.at + o >= m + Hour
            /\ c.at + c.offset < m - Hour \/ c.at + c.offset >= m + Hour
        BY <2>4, <2>5 DEF m
      <3> QED
        BY <3>1, <2>1, <2>2, <2>3, <2>6, <2>7, <1>1
    <2> QED
      BY <2>8 DEF m, o
  <1> QED
    BY <1>1, <1>2 DEF Skipped

-----------------------------------------------------------------------------
(* The cache. *)

\* A midnight of a zone.
IsMidnight(zone, base) ==
  base \in Int /\ \E D \in Int : LocalTime(zone, base) = D * Day

\* The cache begins with a midnight, close enough before a time to cover it.
LEMMA FirstMidnightIs ==
  ASSUME NEW zone \in Zones, NEW t \in Int,
         NEW base, base = FirstMidnight(zone, t) - 1
  PROVE  /\ base \in Int /\ IsMidnight(zone, base)
         /\ base < t /\ t < base + CacheSpan
         /\ \A c \in zone.changes : c.at # base + 1
  <1> DEFINE early == t - CachePreload
             local == LocalTime(zone, early)
             D == local \div Day
             m == D * Day
             first == FirstMidnight(zone, t)
  <1>1. early \in Int
    BY Constants
  <1>2. local \in Int /\ local = early + Offset(zone, early)
    BY <1>1, OffsetRange DEF LocalTime
  <1>3. D \in Int /\ m \in Int /\ m <= local /\ local < m + Day
    <2> HIDE DEF local
    <2>1. D \in Int /\ local % Day \in 0 .. Day - 1 /\ m \in Int /\ local = m + (local % Day)
      BY <1>2, Remainder, Zenon
    <2> DEFINE r == local % Day
    <2>2. r \in 0 .. Day - 1 /\ local = m + r
      BY <2>1
    <2> HIDE DEF r, m, D
    <2> QED
      BY <1>2, <2>1, <2>2, Constants
  <1>4. first = FromLocal(zone, D * Day + 1)
    BY <1>3, DayNumberBack DEF FirstMidnight, FromLocalDate, LocalDate
  <1>5. D * Day + 1 \in Int /\ ~Skipped(zone, D * Day + 1)
    BY <1>3, MidnightsExist
  <1>6. first \in Int /\ LocalTime(zone, first) = m + 1
    BY <1>4, <1>5, FromLocalBack
  <1> HIDE DEF first
  <1>7. /\ Offset(zone, first) \in Int /\ zone.raw <= Offset(zone, first)
        /\ Offset(zone, first) <= zone.raw + Hour /\ first + Offset(zone, first) = m + 1
    BY <1>6, OffsetRange DEF LocalTime
  <1>8. /\ Offset(zone, early) \in Int /\ zone.raw <= Offset(zone, early)
        /\ Offset(zone, early) <= zone.raw + Hour
    BY <1>1, OffsetRange
  <1>9. \A c \in zone.changes : c.at # first
    <2> SUFFICES ASSUME NEW c \in zone.changes, c.at = first PROVE FALSE
      OBVIOUS
    <2>1. /\ m \in Int
          /\ c.at + Offset(zone, first) < m - Hour \/ c.at + Offset(zone, first) >= m + Hour
      BY <1>3, <1>7, AwayFromMidnight
    <2> HIDE DEF m
    <2> QED
      BY <1>6, <1>7, <2>1, Constants
  <1>10. base \in Int /\ base = first - 1
    BY <1>6 DEF first
  <1>11. Offset(zone, base) = Offset(zone, first)
    <2>1. \A c \in zone.changes : ~(base < c.at /\ c.at <= first)
      <3> SUFFICES ASSUME NEW c \in zone.changes, base < c.at, c.at <= first PROVE FALSE
        OBVIOUS
      <3>1. c.at \in Int
        BY Changes
      <3> QED
        BY <1>6, <1>9, <1>10, <3>1
    <2> QED
      BY <1>6, <1>10, <2>1, OffsetSame
  <1>12. IsMidnight(zone, base)
    <2>1. LocalTime(zone, base) = base + Offset(zone, first)
      BY <1>11 DEF LocalTime
    <2>2. base + Offset(zone, first) = m
      <3> HIDE DEF m
      <3> QED
        BY <1>3, <1>6, <1>7, <1>10
    <2> QED
      BY <1>3, <1>10, <2>1, <2>2 DEF IsMidnight
  <1>13. base < t /\ t < base + CacheSpan
    <2> DEFINE o == Offset(zone, first)
               p == Offset(zone, early)
    <2>1. local = t - CachePreload + p /\ first + o = m + 1
      BY <1>2, <1>7
    <2>2. o \in Int /\ p \in Int /\ o - p <= Hour /\ p - o <= Hour
      <3>1. zone.raw \in Int
        BY Changes
      <3> HIDE DEF o, p
      <3>2. /\ o \in Int /\ p \in Int /\ zone.raw <= o /\ zone.raw <= p
            /\ o <= zone.raw + Hour /\ p <= zone.raw + Hour
        BY <1>7, <1>8 DEF o, p
      <3> QED
        BY <3>1, <3>2, Constants
    <2> HIDE DEF m, local, o, p
    <2> QED
      BY <1>2, <1>3, <1>6, <1>10, <2>1, <2>2, Constants
  <1>14. base + 1 = first
    BY <1>6, <1>10
  <1> QED
    BY <1>9, <1>10, <1>12, <1>13, <1>14

\* The next change is the first of the later ones.
LEMMA NextChangeIs ==
  ASSUME NEW zone \in Zones, NEW t \in Int
  PROVE  \/ /\ NextDSTChange(zone, t) = 0
            /\ \A c \in zone.changes : c.at <= t
         \/ \E c \in zone.changes :
              /\ NextDSTChange(zone, t) = c.at /\ c.at > t /\ c.at # 0
              /\ \A d \in zone.changes : d.at > t => c.at <= d.at
  <1> DEFINE C == {d \in zone.changes : d.at > t}
             later == {c.at : c \in C}
             f == [c \in C |-> - c.at]
  <1>1. NextDSTChange(zone, t) =
          IF later = {} THEN 0 ELSE CHOOSE a \in later : \A b \in later : a <= b
    BY DEF NextDSTChange
  <1>2. \A c \in zone.changes : c.at \in Int /\ c.at # 0
    BY Changes
  <1>3. CASE C = {}
    <2>1. \A c \in zone.changes : c.at <= t
      BY <1>2, <1>3
    <2> QED
      BY <1>1, <1>3, <2>1
  <1>4. CASE C # {}
    <2>1. IsFiniteSet(C)
      BY Changes, FS_Subset
    <2>2. f \in [C -> Int]
      BY <1>2
    <2>3. \A c, d \in C : c # d => c.at # d.at
      BY Changes, Constants
    <2>4. \A c, d \in C : c # d => f[c] # f[d]
      BY <1>2, <2>3
    <2>5. PICK c \in C : \A d \in C : f[d] <= f[c]
      <3> HIDE DEF f, C
      <3> QED
        BY <1>4, <2>1, <2>2, <2>4, LargestExists
    <2>6. \A d \in C : c.at <= d.at
      <3> SUFFICES ASSUME NEW d \in C PROVE c.at <= d.at
        OBVIOUS
      <3>1. f[c] = - c.at /\ f[d] = - d.at
        OBVIOUS
      <3>2. f[d] <= f[c]
        BY <2>5
      <3>3. c.at \in Int /\ d.at \in Int
        BY <1>2
      <3> HIDE DEF f, C
      <3> QED
        BY <3>1, <3>2, <3>3
    <2>7. \A a \in later : (\A b \in later : a <= b) <=> a = c.at
      BY <1>2, <2>6
    <2>8. NextDSTChange(zone, t) = c.at
      BY <1>1, <1>4, <2>7
    <2> QED
      BY <1>2, <2>6, <2>8
  <1> QED
    BY <1>3, <1>4

\* What the clocks are set forward by at a change.
LEMMA ShiftIs ==
  ASSUME NEW zone \in Zones, NEW c \in zone.changes
  PROVE  ShiftAt(zone, c.at) = c.offset - Offset(zone, c.at - 1)
  <1> DEFINE o == c.offset
             p == Offset(zone, c.at - 1)
  <1>1. c.at \in Int /\ o \in Int /\ zone.raw <= o /\ o <= zone.raw + Hour /\ zone.raw \in Int
    BY Changes
  <1>2. c.at - 1 \in Int /\ c.at + 1 \in Int /\ (c.at + 1) - (c.at - 1) <= CacheSpan + Day
        /\ c.at - 1 < c.at /\ c.at <= c.at + 1
    BY <1>1, Constants
  <1>3. p \in Int /\ zone.raw <= p /\ p <= zone.raw + Hour
    BY <1>2, OffsetRange
  <1>4. Offset(zone, c.at + 1) = o
    BY <1>2, OffsetSwitch
  <1> DEFINE x == c.at + 1 + o
             y == c.at - 1 + p
  <1>5. LocalTime(zone, c.at + 1) = x /\ LocalTime(zone, c.at - 1) = y
    BY <1>4 DEF LocalTime
  <1>6. ShiftAt(zone, c.at) = Nearest((x % Day) - (y % Day)) - 2
    BY <1>5 DEF ShiftAt, SinceMidnight
  <1> HIDE DEF o, p
  <1>7. x \in Int /\ y \in Int /\ 2 * (x - y) < Day /\ 2 * (y - x) < Day
    BY <1>1, <1>3, Constants
  <1>8. x - y - 2 = o - p
    BY <1>1, <1>3
  <1> HIDE DEF x, y
  <1> QED
    BY <1>6, <1>7, <1>8, NearestIs DEF o, p

-----------------------------------------------------------------------------
(* The hands. *)

\* How much later the zone's clock is at a time than when the cache begins.
ShiftBy(event, delta, t) == IF t < event THEN 0 ELSE delta

\* Every time that a cache covers has the offset that it says.
CacheIsRight(zone, base, event, delta) ==
  /\ IsMidnight(zone, base) /\ event \in Int /\ delta \in Int
  /\ \A t \in Int :
       base < t /\ t < base + CacheSpan /\ t < FarInTheFuture =>
         Offset(zone, t) = Offset(zone, base) + ShiftBy(event, delta, t)

LEMMA LoadedIsRight ==
  ASSUME NEW zone \in Zones, NEW t \in Int,
         NEW base, base = FirstMidnight(zone, t) - 1,
         NEW next, next = NextDSTChange(zone, FirstMidnight(zone, t)),
         NEW event, event = IF next = 0 THEN FarInTheFuture ELSE next,
         NEW delta, delta = IF next # 0 /\ next <= base + CacheSpan
                            THEN ShiftAt(zone, next) ELSE 0,
         FirstMidnight(zone, t) \in Int
  PROVE  CacheIsRight(zone, base, event, delta) /\ base < t /\ t < base + CacheSpan
  <1> DEFINE first == FirstMidnight(zone, t)
  <1>1. /\ base \in Int /\ IsMidnight(zone, base) /\ base < t /\ t < base + CacheSpan
        /\ \A c \in zone.changes : c.at # base + 1
    BY FirstMidnightIs
  <1>2. first \in Int /\ base + 1 = first
    BY <1>1
  <1> HIDE DEF first
  <1>3. ASSUME NEW v \in Int, base < v,
               \A c \in zone.changes : c.at > first => c.at > v
        PROVE  Offset(zone, v) = Offset(zone, base)
    <2>1. \A c \in zone.changes : ~(base < c.at /\ c.at <= v)
      <3> SUFFICES ASSUME NEW c \in zone.changes, base < c.at, c.at <= v PROVE FALSE
        OBVIOUS
      <3>1. c.at \in Int
        BY Changes
      <3> QED
        BY <1>1, <1>2, <1>3, <3>1
    <2> QED
      BY <1>1, <1>3, <2>1, OffsetSame
  <1>4. CASE next = 0 /\ \A c \in zone.changes : c.at <= first
    <2>1. event = FarInTheFuture /\ delta = 0 /\ FarInTheFuture \in Int
      BY <1>4, SMT DEF FarInTheFuture
    <2>2. ASSUME NEW u \in Int, base < u, u < FarInTheFuture
          PROVE  Offset(zone, u) = Offset(zone, base) + ShiftBy(event, delta, u)
      <3>1. \A c \in zone.changes : c.at > first => c.at > u
        BY <1>2, <1>4, Changes
      <3>2. Offset(zone, u) = Offset(zone, base)
        BY <1>3, <2>2, <3>1
      <3>3. Offset(zone, base) \in Int
        BY <1>1, OffsetRange
      <3> QED
        BY <2>1, <2>2, <3>2, <3>3 DEF ShiftBy
    <2>3. event \in Int /\ delta \in Int
      BY <2>1
    <2> QED
      BY <1>1, <2>2, <2>3 DEF CacheIsRight
  <1>5. ASSUME NEW c \in zone.changes, next = c.at, c.at > first, c.at # 0,
               \A d \in zone.changes : d.at > first => c.at <= d.at
        PROVE  CacheIsRight(zone, base, event, delta)
    <2>1. c.at \in Int /\ c.offset \in Int
      BY Changes
    <2>2. event = c.at
      BY <1>5
    <2>3. Offset(zone, base) \in Int /\ Offset(zone, c.at - 1) \in Int
      BY <1>1, <2>1, OffsetRange
    <2>4. ASSUME NEW u \in Int, base < u, u < c.at
          PROVE  Offset(zone, u) = Offset(zone, base)
      <3>1. \A d \in zone.changes : d.at > first => d.at > u
        <4> SUFFICES ASSUME NEW d \in zone.changes, d.at > first PROVE d.at > u
          OBVIOUS
        <4>1. d.at \in Int /\ c.at <= d.at
          BY <1>5, Changes
        <4> QED
          BY <2>1, <2>4, <4>1
      <3> QED
        BY <1>3, <2>4, <3>1
    <2>5. CASE c.at <= base + CacheSpan
      <3>1. delta = c.offset - Offset(zone, c.at - 1)
        BY <1>5, <2>5, ShiftIs
      <3>2. ASSUME NEW u \in Int, base < u, u < base + CacheSpan, u >= c.at
            PROVE  Offset(zone, u) = Offset(zone, base) + delta
        <4>1. u - base <= CacheSpan + Day /\ base < c.at
          BY <1>1, <1>2, <1>5, <2>1, <3>2, Constants
        <4>2. Offset(zone, u) = c.offset /\ Offset(zone, base) = Offset(zone, c.at - 1)
          BY <1>1, <3>2, <4>1, OffsetSwitch
        <4> QED
          BY <2>1, <2>3, <3>1, <4>2
      <3>3. delta \in Int /\ event \in Int
        BY <2>1, <2>2, <2>3, <3>1
      <3>4. ASSUME NEW u \in Int, base < u, u < base + CacheSpan
            PROVE  Offset(zone, u) = Offset(zone, base) + ShiftBy(event, delta, u)
        <4>1. CASE u < c.at
          BY <2>2, <2>3, <2>4, <3>4, <4>1 DEF ShiftBy
        <4>2. CASE ~(u < c.at)
          BY <2>1, <2>2, <3>2, <3>4, <4>2 DEF ShiftBy
        <4> QED
          BY <4>1, <4>2
      <3> QED
        BY <1>1, <3>3, <3>4 DEF CacheIsRight
    <2>6. CASE ~(c.at <= base + CacheSpan)
      <3>1. delta = 0 /\ delta \in Int /\ event \in Int
        BY <1>5, <2>1, <2>2, <2>6
      <3>2. ASSUME NEW u \in Int, base < u, u < base + CacheSpan
            PROVE  Offset(zone, u) = Offset(zone, base) + ShiftBy(event, delta, u)
        <4>1. u < c.at
          BY <1>1, <2>1, <2>6, <3>2, Constants
        <4> QED
          BY <2>2, <2>3, <2>4, <3>2, <4>1 DEF ShiftBy
      <3> QED
        BY <1>1, <3>1, <3>2 DEF CacheIsRight
    <2> QED
      BY <2>5, <2>6
  <1>6. next = NextDSTChange(zone, first)
    BY DEF first
  <1>7. \/ next = 0 /\ \A c \in zone.changes : c.at <= first
        \/ \E c \in zone.changes :
             /\ next = c.at /\ c.at > first /\ c.at # 0
             /\ \A d \in zone.changes : d.at > first => c.at <= d.at
    BY <1>2, <1>6, NextChangeIs
  <1> QED
    BY <1>1, <1>4, <1>5, <1>7

\* A cache that is right gives the midnight.
LEMMA MidnightIs ==
  ASSUME NEW zone \in Zones, NEW base, NEW event, NEW delta,
         CacheIsRight(zone, base, event, delta),
         NEW t \in Int, base < t, t < base + CacheSpan, t < FarInTheFuture
  PROVE  t - MidnightBy(base, event, delta, t) = SinceMidnight(zone, t)
  <1>1. PICK D \in Int : LocalTime(zone, base) = D * Day
    BY DEF CacheIsRight, IsMidnight
  <1>2. base \in Int /\ event \in Int /\ delta \in Int
        /\ Offset(zone, t) = Offset(zone, base) + ShiftBy(event, delta, t)
    BY DEF CacheIsRight, IsMidnight
  <1>3. Offset(zone, base) \in Int /\ Offset(zone, t) \in Int
    BY <1>2, OffsetRange
  <1> DEFINE x == t - (IF t < event THEN base ELSE base - delta)
             y == LocalTime(zone, t)
             m == (-D) * Day
             n == D * Day
  <1>4. m \in Int /\ n \in Int /\ m = - n /\ -D \in Int
    BY Constants
  <1>5. x \in Int /\ y \in Int /\ x = y + m
    <2>1. base + Offset(zone, base) = n /\ y = t + Offset(zone, t)
      BY <1>1 DEF LocalTime
    <2>2. x = t - base + ShiftBy(event, delta, t)
      BY <1>2 DEF ShiftBy
    <2>3. ShiftBy(event, delta, t) \in Int
      BY <1>2 DEF ShiftBy
    <2> HIDE DEF x, y, m, n
    <2> QED
      BY <1>2, <1>3, <1>4, <2>1, <2>2, <2>3
  <1>6. x % Day = y % Day
    <2> HIDE DEF x, y
    <2> QED
      BY <1>4, <1>5, DaysLater
  <1>7. t - MidnightBy(base, event, delta, t) = t - (t - (x % Day))
    BY DEF MidnightBy
  <1>8. x % Day \in Int
    <2> HIDE DEF x
    <2> QED
      BY <1>5, Remainder
  <1>9. SinceMidnight(zone, t) = y % Day
    BY DEF SinceMidnight
  <1> HIDE DEF x, y
  <1> DEFINE r == x % Day
  <1>10. r \in Int /\ t - (t - r) = r
    <2>1. r \in Int
      BY <1>8
    <2> HIDE DEF r
    <2> QED
      BY <2>1
  <1> QED
    BY <1>6, <1>7, <1>9, <1>10

-----------------------------------------------------------------------------
(* Times are integers. *)

Date == [era : {0, 1}, year : Int, month : Int, day : Int]

LEMMA ComponentsIsDate ==
  ASSUME NEW d \in Int PROVE Components(d) \in Date
  <1>1. ASSUME NEW s \in Int PROVE EraYear(s).era \in {0, 1} /\ EraYear(s).year \in Int
    BY <1>1 DEF EraYear
  <1>2. ASSUME NEW s \in Int, NEW x \in Int PROVE DateInYear(s, x) \in Date
    <2> DEFINE m == (5 * x + 461) \div 153
               late == m > 12
    <2>1. m \in Int
      BY <1>2
    <2>2. DaysBeforeMonth(m) \in Int
      <3> HIDE DEF m
      <3> QED
        BY <2>1 DEF DaysBeforeMonth
    <2> DEFINE ey == EraYear(IF late THEN s + 1 ELSE s)
               month == IF late THEN m - 12 ELSE m
               day == x - DaysBeforeMonth(m) + 1
    <2>3. ey.era \in {0, 1} /\ ey.year \in Int
      <3> HIDE DEF late
      <3>1. (IF late THEN s + 1 ELSE s) \in Int
        BY <1>2
      <3> QED
        BY <3>1, <1>1
    <2>4. month \in Int /\ day \in Int
      <3> HIDE DEF m
      <3> QED
        BY <1>2, <2>1, <2>2
    <2>5. DateInYear(s, x) = [era |-> ey.era, year |-> ey.year, month |-> month, day |-> day]
      BY DEF DateInYear
    <2> HIDE DEF ey, month, day
    <2> QED
      BY <2>3, <2>4, <2>5 DEF Date
  <1>3. ASSUME NEW x \in Int PROVE JulianDate(x) \in Date
    <2> DEFINE s == (4 * x + 3) \div DaysInJulianCycle
               q == (DaysInJulianCycle * s) \div 4
    <2>1. s \in Int
      BY <1>3 DEF DaysInJulianCycle
    <2>2. q \in Int
      <3> HIDE DEF s
      <3> QED
        BY <2>1 DEF DaysInJulianCycle
    <2>3. JulianDate(x) = DateInYear(s, x - q)
      BY DEF JulianDate
    <2> HIDE DEF s, q
    <2> QED
      BY <1>2, <1>3, <2>1, <2>2, <2>3
  <1>4. ASSUME NEW x \in Int PROVE GregorianDate(x) \in Date
    <2> DEFINE century == (4 * x + 3) \div DaysInGregorianCycle
               x1 == x - (DaysInGregorianCycle * century) \div 4
               year == (100 * x1 + 99) \div DaysInNonLeapCentury
               q == (DaysInNonLeapCentury * year) \div 100
    <2>1. century \in Int
      BY <1>4 DEF DaysInGregorianCycle
    <2>2. x1 \in Int
      <3> HIDE DEF century
      <3> QED
        BY <1>4, <2>1 DEF DaysInGregorianCycle
    <2>3. year \in Int
      <3> HIDE DEF x1
      <3> QED
        BY <2>2 DEF DaysInNonLeapCentury
    <2>4. q \in Int
      <3> HIDE DEF year
      <3> QED
        BY <2>3 DEF DaysInNonLeapCentury
    <2>5. GregorianDate(x) = DateInYear(100 * century + year, x1 - q)
      BY DEF GregorianDate
    <2> HIDE DEF century, year, x1, q
    <2>6. 100 * century + year \in Int /\ x1 - q \in Int
      BY <2>1, <2>2, <2>3, <2>4
    <2> QED
      BY <1>2, <2>5, <2>6
  <1>5. 730793 + d \in Int /\ 730791 + d \in Int
    OBVIOUS
  <1> QED
    BY <1>3, <1>4, <1>5 DEF Components

LEMMA DayNumberIsInt ==
  ASSUME NEW date \in Date PROVE DayNumber(date) \in Int
  <1>1. date.era \in {0, 1} /\ date.year \in Int /\ date.month \in Int /\ date.day \in Int
    BY DEF Date
  <1>2. YearFromMarch(date) \in Int
    BY <1>1 DEF YearFromMarch, SignedYear
  <1>3. ASSUME NEW m \in Int PROVE DaysBeforeMonth(m) \in Int
    BY <1>3 DEF DaysBeforeMonth
  <1>4. DayInYear(date) \in Int
    <2> DEFINE m == IF date.month < 3 THEN date.month + 12 ELSE date.month
    <2>1. m \in Int
      BY <1>1
    <2>2. DayInYear(date) = DaysBeforeMonth(m) + date.day
      BY DEF DayInYear
    <2> HIDE DEF m
    <2> QED
      BY <1>1, <1>3, <2>1, <2>2
  <1> DEFINE y == YearFromMarch(date)
  <1>5. y \in Int
    BY <1>2
  <1>6. JulianDayNumber(date) \in Int
    <2>1. JulianDayNumber(date) = (DaysInJulianCycle * y) \div 4 + DayInYear(date)
      BY DEF JulianDayNumber
    <2> HIDE DEF y
    <2>2. (DaysInJulianCycle * y) \div 4 \in Int
      BY <1>5 DEF DaysInJulianCycle
    <2> QED
      BY <1>4, <2>1, <2>2
  <1>7. GregorianDayNumber(date) \in Int
    <2> DEFINE c == y \div 100
               x == y - 100 * c
               p == (DaysInGregorianCycle * c) \div 4
               q == (DaysInNonLeapCentury * x) \div 100
    <2>1. GregorianDayNumber(date) = p + q + DayInYear(date)
      BY DEF GregorianDayNumber
    <2> HIDE DEF y
    <2>2. c \in Int
      BY <1>5
    <2>3. p \in Int
      <3> HIDE DEF c
      <3> QED
        BY <2>2 DEF DaysInGregorianCycle
    <2>4. x \in Int
      <3> HIDE DEF c
      <3> QED
        BY <1>5, <2>2
    <2>5. q \in Int
      <3> HIDE DEF x
      <3> QED
        BY <2>4 DEF DaysInNonLeapCentury
    <2> HIDE DEF p, q
    <2> QED
      BY <1>4, <2>1, <2>3, <2>5
  <1> QED
    BY <1>6, <1>7 DEF DayNumber

LEMMA LaterDates ==
  ASSUME NEW date \in Date, NEW n \in Int
  PROVE  AddMonths(date, n) \in Date /\ AddYears(date, n) \in Date
  <1>1. date.era \in {0, 1} /\ date.year \in Int /\ date.month \in Int /\ date.day \in Int
    BY DEF Date
  <1>2. SignedYear(date) \in Int
    BY <1>1 DEF SignedYear
  <1>3. ASSUME NEW s \in Int PROVE EraYear(s).era \in {0, 1} /\ EraYear(s).year \in Int
    BY <1>3 DEF EraYear
  <1>4. AddYears(date, n) \in Date
    <2> DEFINE ey == EraYear(SignedYear(date) + n)
    <2>1. ey.era \in {0, 1} /\ ey.year \in Int
      BY <1>2, <1>3
    <2>2. AddYears(date, n) = [date EXCEPT !.era = ey.era, !.year = ey.year]
      BY DEF AddYears
    <2> HIDE DEF ey
    <2> QED
      BY <2>1, <2>2 DEF Date
  <1>5. AddMonths(date, n) \in Date
    <2> DEFINE count == 12 * SignedYear(date) + date.month - 1 + n
               y == count \div 12
               ey == EraYear(y)
               month == (count % 12) + 1
               last == DaysInMonth(ey.era, ey.year, month)
    <2>1. count \in Int
      BY <1>1, <1>2
    <2>2. y \in Int /\ month \in Int
      <3> HIDE DEF count
      <3> QED
        BY <2>1
    <2>3. ey.era \in {0, 1} /\ ey.year \in Int
      <3> HIDE DEF y
      <3> QED
        BY <1>3, <2>2
    <2> HIDE DEF count, y, ey, month
    <2>4. last \in Int
      <3>1. ASSUME NEW m \in Int
            PROVE  DayNumber([era |-> ey.era, year |-> ey.year, month |-> m, day |-> 1]) \in Int
        <4>1. [era |-> ey.era, year |-> ey.year, month |-> m, day |-> 1] \in Date
          BY <2>3, <3>1 DEF Date
        <4> QED
          BY <4>1, DayNumberIsInt
      <3>2. CASE month = 2
        <4> DEFINE p == DayNumber([era |-> ey.era, year |-> ey.year, month |-> 3, day |-> 1])
                   q == DayNumber([era |-> ey.era, year |-> ey.year, month |-> 2, day |-> 1])
        <4>1. p \in Int /\ q \in Int
          BY <3>1
        <4>2. last = p - q
          BY <3>2 DEF DaysInMonth, ThirtyDays
        <4> HIDE DEF p, q, last
        <4> QED
          BY <4>1, <4>2
      <3>3. CASE month # 2
        <4>1. last = 30 \/ last = 31
          BY <3>3 DEF DaysInMonth, ThirtyDays
        <4> QED
          BY <4>1
      <3> QED
        BY <3>2, <3>3
    <2>5. AddMonths(date, n) = [era |-> ey.era, year |-> ey.year, month |-> month,
                                day |-> IF date.day > last THEN last ELSE date.day]
      BY DEF AddMonths, ey, y, month, count
    <2> HIDE DEF last
    <2> QED
      BY <1>1, <2>2, <2>3, <2>4, <2>5 DEF Date
  <1> QED
    BY <1>4, <1>5

LEMMA LocalIsTyped ==
  ASSUME NEW zone \in Zones, NEW t \in Int
  PROVE  /\ LocalTime(zone, t) \in Int /\ LocalDate(zone, t) \in Date
         /\ SinceMidnight(zone, t) \in 0 .. Day - 1 /\ SinceMidnight(zone, t) \in Int
  <1> DEFINE x == LocalTime(zone, t)
  <1>1. x \in Int
    BY OffsetRange
  <1>2. LocalDate(zone, t) = Components(x \div Day) /\ SinceMidnight(zone, t) = x % Day
    BY DEF LocalDate, SinceMidnight
  <1> HIDE DEF x
  <1>3. x \div Day \in Int /\ x % Day \in 0 .. Day - 1
    BY <1>1, Remainder
  <1>4. x % Day \in Int
    BY <1>1, Constants
  <1> QED
    BY <1>1, <1>2, <1>3, <1>4, ComponentsIsDate DEF x

LEMMA FromLocalIsInt ==
  ASSUME NEW zone \in Zones, NEW local \in Int PROVE FromLocal(zone, local) \in Int
  <1> DEFINE o == Offset(zone, local)
             try == local - o
             p == Offset(zone, try)
  <1>1. o \in Int
    BY OffsetRange
  <1>2. try \in Int
    <2> HIDE DEF o
    <2> QED
      BY <1>1
  <1>3. p \in Int
    <2> HIDE DEF try
    <2> QED
      BY <1>2, OffsetRange
  <1>4. FromLocal(zone, local) = IF p = o THEN try ELSE local - p
    BY DEF FromLocal
  <1> HIDE DEF o, p, try
  <1> QED
    BY <1>1, <1>2, <1>3, <1>4

LEMMA FromLocalDateIsInt ==
  ASSUME NEW zone \in Zones, NEW date \in Date, NEW s \in Int
  PROVE  FromLocalDate(zone, date, s) \in Int
  <1> DEFINE d == DayNumber(date)
  <1>1. d \in Int
    BY DayNumberIsInt
  <1>2. FromLocalDate(zone, date, s) = FromLocal(zone, d * Day + s)
    BY DEF FromLocalDate
  <1> HIDE DEF d
  <1>3. d * Day + s \in Int
    BY <1>1, Constants
  <1> QED
    BY <1>2, <1>3, FromLocalIsInt

LEMMA LaterTimes ==
  ASSUME NEW zone \in Zones, NEW t \in Int, NEW n \in Int
  PROVE  /\ AddDaysTo(zone, t, n) \in Int
         /\ AddMonthsTo(zone, t, n) \in Int /\ AddYearsTo(zone, t, n) \in Int
  <1>1. LocalDate(zone, t) \in Date /\ SinceMidnight(zone, t) \in Int
    BY LocalIsTyped
  <1>2. AddMonthsTo(zone, t, n) \in Int /\ AddYearsTo(zone, t, n) \in Int
    BY <1>1, LaterDates, FromLocalDateIsInt DEF AddMonthsTo, AddYearsTo
  <1>3. AddDaysTo(zone, t, n) \in Int
    <2> DEFINE later == t + n * Day
               s == SinceMidnight(zone, later)
               r == SinceMidnight(zone, t)
    <2>1. later \in Int
      BY Constants
    <2>2. s \in Int /\ r \in Int
      <3> HIDE DEF later
      <3> QED
        BY <2>1, LocalIsTyped
    <2>3. AddDaysTo(zone, t, n) = later - Nearest(s - r)
      BY DEF AddDaysTo
    <2> HIDE DEF later, s, r
    <2>4. Nearest(s - r) \in Int
      <3> DEFINE half == Day \div 2
                 x == s - r
      <3>1. half \in Int /\ half >= 0 /\ Day \in Nat
        BY Constants
      <3>2. x \in Int
        BY <2>2
      <3>3. Nearest(x) = CASE x > half -> x - Day [] x < - half -> x + Day [] OTHER -> x
        BY Zenon DEF Nearest
      <3> HIDE DEF half, x
      <3>4. Nearest(x) = x \/ Nearest(x) = x - Day \/ Nearest(x) = x + Day
        <4>1. ~(x > half /\ x < - half)
          BY <3>1, <3>2
        <4> QED
          BY <3>3, <4>1
      <3>5. Nearest(x) \in Int
        BY <3>1, <3>2, <3>4
      <3> QED
        BY <3>5 DEF x
    <2> QED
      BY <2>1, <2>3, <2>4
  <1> QED
    BY <1>2, <1>3

LEMMA Firsts ==
  ASSUME estz \in Zones, NEW t \in Int
  PROVE  FirstOfMonth(t) \in Int /\ FirstOfYearAt(t) \in Int
  <1>1. LocalDate(estz, t) \in Date
    BY LocalIsTyped
  <1>2. ASSUME NEW date \in Date
        PROVE  [date EXCEPT !.day = 1] \in Date /\ [date EXCEPT !.day = 1, !.month = 1] \in Date
    <2>1. [date EXCEPT !.day = 1] \in Date
      BY <1>2 DEF Date
    <2>2. ASSUME NEW i \in Int PROVE [date EXCEPT !.day = i, !.month = i] \in Date
      BY <1>2, <2>2 DEF Date
    <2>3. 1 \in Int
      OBVIOUS
    <2> QED
      BY <2>1, <2>2, <2>3, Zenon
  <1>3. /\ [LocalDate(estz, t) EXCEPT !.day = 1] \in Date
        /\ [LocalDate(estz, t) EXCEPT !.day = 1, !.month = 1] \in Date
    BY <1>1, <1>2
  <1> QED
    BY <1>3, FromLocalDateIsInt DEF FirstOfMonth, FirstOfYearAt

-----------------------------------------------------------------------------
(* The type invariant. *)

Numbers ==
  /\ now \in Int /\ skew \in Int
  /\ warp \in Int /\ warpBeforeFreeze \in Int /\ zero \in Int
  /\ latched \in Int /\ latchTime \in Int

LEMMA WatchConstants ==
  /\ Minute \in Nat /\ Minute > 0 /\ Gap \in Nat /\ Gap > 0
  /\ Earliest \in Int /\ Latest \in Int /\ Starts \subseteq Int /\ Skews \subseteq Int
  /\ DOMAIN Cycles = DOMAIN Warps
  /\ \A i \in DOMAIN Warps : Warps[i] \in Int
  /\ \A c \in {"Normal", "Reverse", "ReverseSlow1"} : \E i \in DOMAIN Cycles : Cycles[i] = c
  <1>1. /\ Minute \in Nat /\ Minute > 0 /\ Gap \in Nat /\ Gap > 0
        /\ Earliest \in Int /\ Latest \in Int /\ Starts \subseteq Int /\ Skews \subseteq Int
    BY WatchAssumption
  <1>2. DOMAIN Cycles = DOMAIN Warps /\ \A i \in DOMAIN Warps : Warps[i] \in Int
    BY WatchAssumption
  <1>3. \A c \in {"Normal", "Reverse", "ReverseSlow1"} : \E i \in DOMAIN Cycles : Cycles[i] = c
    BY WatchAssumption
  <1> QED
    BY <1>1, <1>2, <1>3

LEMMA TimesAreInts ==
  ASSUME Numbers
  PROVE  /\ CorrectedTime \in Int /\ CurrentTime \in Int
         /\ \A m, b \in Int : WatchTime(m, b) \in Int /\ TimeWith(m, b) \in Int
  <1>1. CorrectedTime \in Int
    BY DEF Numbers, CorrectedTime
  <1>2. ASSUME NEW m \in Int, NEW b \in Int
        PROVE  WatchTime(m, b) \in Int /\ TimeWith(m, b) \in Int
    <2>1. m * CorrectedTime + b \in Int
      BY <1>1
    <2> QED
      BY <2>1 DEF WatchTime, TimeWith, Numbers
  <1> QED
    BY <1>1, <1>2 DEF CurrentTime, Numbers

\* The speeds that a user can choose are in the table.
LEMMA WarpsAreInts ==
  ASSUME NEW c
  PROVE  WarpOf(NextCycleForFF(c)) \in Int /\ WarpOf(NextCycleForRewind(c)) \in Int
  <1>1. ASSUME NEW d, \E i \in DOMAIN Cycles : Cycles[i] = d PROVE WarpOf(d) \in Int
    BY <1>1, WatchConstants DEF WarpOf
  <1>2. DOMAIN Cycles = 1 .. Len(Cycles) /\ Len(Cycles) \in Nat
    BY WatchAssumption
  <1>3. ASSUME NEW k \in DOMAIN Cycles, Cycles[k] = c
        PROVE  (CHOOSE i \in DOMAIN Cycles : Cycles[i] = c) = k
    <2>1. \A i \in DOMAIN Cycles : Cycles[i] = c <=> i = k
      BY <1>3, WatchAssumption
    <2> QED
      BY <2>1
  <1>4. \E i \in DOMAIN Cycles : Cycles[i] = NextCycleForFF(c)
    <2>1. CASE \E i \in 1 .. Len(Cycles) - 1 : Cycles[i] = c
      <3>1. PICK k \in 1 .. Len(Cycles) - 1 : Cycles[k] = c
        BY <2>1
      <3>2. k \in DOMAIN Cycles /\ 1 + k \in DOMAIN Cycles
        BY <1>2
      <3>3. NextCycleForFF(c) = Cycles[1 + k]
        BY <1>3, <2>1, <3>1, <3>2 DEF NextCycleForFF
      <3> QED
        BY <3>2, <3>3
    <2>2. CASE ~\E i \in 1 .. Len(Cycles) - 1 : Cycles[i] = c
      BY <2>2, WatchConstants DEF NextCycleForFF
    <2> QED
      BY <2>1, <2>2
  <1>5. \E i \in DOMAIN Cycles : Cycles[i] = NextCycleForRewind(c)
    <2> DEFINE later == \E i \in 2 .. Len(Cycles) : Cycles[i] = c
    <2>1. CASE later
      <3>1. PICK k \in 2 .. Len(Cycles) : Cycles[k] = c
        BY <2>1
      <3>2. k \in DOMAIN Cycles /\ k - 1 \in DOMAIN Cycles
        BY <1>2
      <3>3. (CHOOSE i \in DOMAIN Cycles : Cycles[i] = c) = k /\ c # "Paused"
        BY <1>3, <3>1, <3>2, WatchAssumption
      <3>4. NextCycleForRewind(c) = Cycles[k - 1]
        BY <2>1, <3>3 DEF NextCycleForRewind
      <3> QED
        BY <3>2, <3>4
    <2>2. CASE ~later
      <3>1. NextCycleForRewind(c) \in {"Reverse", "ReverseSlow1"}
        BY <2>2 DEF NextCycleForRewind
      <3> QED
        BY <3>1, WatchConstants
    <2> QED
      BY <2>1, <2>2
  <1> QED
    BY <1>1, <1>4, <1>5

\* What sets the date is an advance by some seconds.
LEMMA DateAdvances ==
  ASSUME Numbers, estz \in Zones, NEW n \in Int, AdvanceDate(n)
  PROVE  \E s \in Int : AdvanceBySeconds(s)
  <1>1. CurrentTime \in Int
    BY TimesAreInts
  <1>2. /\ AddDaysTo(estz, CurrentTime, n) \in Int
        /\ AddMonthsTo(estz, CurrentTime, n) \in Int /\ AddYearsTo(estz, CurrentTime, n) \in Int
    BY <1>1, LaterTimes
  <1>3. ASSUME NEW t \in Int PROVE t - CurrentTime \in Int
    BY <1>1, <1>3
  <1> QED
    BY <1>2, <1>3, Zenon DEF AdvanceDate, AdvanceByDays, AdvanceByMonths, AdvanceByYears

LEMMA IntervalAdvances ==
  ASSUME Numbers, estz \in Zones, NEW i \in Int, i > 0,
         AdvanceToNextInterval(i) \/ AdvanceToPrevInterval(i)
  PROVE  \E s \in Int : AdvanceBySeconds(s)
  <1> DEFINE local == LocalTime(estz, CurrentTime)
  <1>1. local \in Int /\ OffsetAfterJump \in Int /\ warp \in Int /\ i \div 2 \in Int
        /\ Gap \in Int
    BY TimesAreInts, LocalIsTyped, WatchConstants DEF OffsetAfterJump, Numbers
  <1>2. ASSUME NEW t \in Int
        PROVE  OnEvenTime(t, i) \in Int /\ OnEvenTimeBack(t, i) \in Int
    <2>1. (-t) \div i \in Int /\ t \div i \in Int
      BY <1>2
    <2> QED
      BY <2>1 DEF OnEvenTime, OnEvenTimeBack
  <1> HIDE DEF local
  <1>3. PreAdvanceForNext(local, i) \in Int /\ PreAdvanceForPrev(local, i) \in Int
    BY <1>1 DEF PreAdvanceForNext, PreAdvanceForPrev
  <1> DEFINE next == OnEvenTime(PreAdvanceForNext(local, i), i) + OffsetAfterJump - local
             previous == OnEvenTimeBack(PreAdvanceForPrev(local, i), i) + OffsetAfterJump - local
  <1>4. next \in Int /\ previous \in Int
    BY <1>1, <1>2, <1>3
  <1>5. /\ AdvanceToNextInterval(i) = AdvanceBySeconds(next)
        /\ AdvanceToPrevInterval(i) = AdvanceBySeconds(previous)
    BY DEF AdvanceToNextInterval, AdvanceToPrevInterval, local
  <1> HIDE DEF next, previous
  <1> QED
    BY <1>4, <1>5

LEMMA PointAdvances ==
  ASSUME Numbers, estz \in Zones, AdvanceToNext \/ AdvanceToPrevious
  PROVE  \E s \in Int : AdvanceBySeconds(s)
  <1>1. /\ CurrentTime \in Int /\ OffsetAfterJump \in Int /\ warp \in Int /\ Gap \in Int
        /\ FifteenDays \in Int /\ FifteenDays \div 2 \in Int
    BY TimesAreInts, WatchConstants, Constants DEF OffsetAfterJump, Numbers, FifteenDays
  <1>2. ASSUME NEW t \in Int, AdvanceTo(t) PROVE \E s \in Int : AdvanceBySeconds(s)
    <2>1. t - CurrentTime + OffsetAfterJump \in Int
      BY <1>1, <1>2
    <2> QED
      BY <1>2, <2>1 DEF AdvanceTo
  <1>3. /\ PreAdvanceForNext(CurrentTime, FifteenDays) \in Int
        /\ PreAdvanceForPrev(CurrentTime, FifteenDays) \in Int
    BY <1>1 DEF PreAdvanceForNext, PreAdvanceForPrev
  <1>4. CASE AdvanceToNextMonth
    BY <1>2, <1>3, <1>4, Firsts, LaterTimes DEF AdvanceToNextMonth
  <1>5. CASE AdvanceToPrevMonth
    BY <1>2, <1>3, <1>5, Firsts DEF AdvanceToPrevMonth
  <1>6. CASE AdvanceToNextYear
    BY <1>2, <1>3, <1>6, Firsts, LaterTimes DEF AdvanceToNextYear
  <1>7. CASE AdvanceToPrevYear
    BY <1>2, <1>3, <1>7, Firsts DEF AdvanceToPrevYear
  <1>8. /\ Hour \in Int /\ Hour > 0 /\ Minute \in Int /\ Minute > 0 /\ Day \in Int /\ Day > 0
    BY Constants, WatchConstants
  <1>9. \A i \in {1, Hour, Minute, Day} :
          AdvanceToNextInterval(i) \/ AdvanceToPrevInterval(i) => \E s \in Int : AdvanceBySeconds(s)
    BY <1>8, IntervalAdvances
  <1>10. CASE AdvanceToNext
    <2>1. \/ AdvanceToNextYear \/ AdvanceToNextMonth
          \/ \E i \in {1, Hour, Minute, Day} : AdvanceToNextInterval(i)
      BY <1>10 DEF AdvanceToNext
    <2> QED
      BY <1>4, <1>6, <1>9, <2>1
  <1>11. CASE AdvanceToPrevious
    <2>1. \/ AdvanceToPrevYear \/ AdvanceToPrevMonth
          \/ \E i \in {1, Hour, Minute, Day} : AdvanceToPrevInterval(i)
      BY <1>11 DEF AdvanceToPrevious
    <2> QED
      BY <1>5, <1>7, <1>9, <2>1
  <1> QED
    BY <1>10, <1>11

LEMMA AdvanceIsTyped ==
  ASSUME Numbers, NEW s \in Int, AdvanceBySeconds(s)
  PROVE  Numbers' /\ UNCHANGED envVars
  <1> DEFINE b == zero + s
             t == TimeWith(warp, b)
  <1>1. b \in Int /\ t \in Int
    <2>1. b \in Int
      BY DEF Numbers
    <2> QED
      BY <2>1, TimesAreInts DEF Numbers
  <1>2. SetConstrained(b) /\ UNCHANGED <<clockVars, latchVars, envVars>>
    BY DEF AdvanceBySeconds
  <1> HIDE DEF b
  <1>3. warp' \in {0, warp} /\ warpBeforeFreeze' \in {warp, warpBeforeFreeze}
        /\ zero' \in {t, Earliest, Latest, b}
    BY <1>2 DEF SetConstrained
  <1> HIDE DEF t
  <1>4. warp' \in Int /\ warpBeforeFreeze' \in Int /\ zero' \in Int
    <2>1. Earliest \in Int /\ Latest \in Int
      BY WatchConstants
    <2> QED
      BY <1>1, <1>3, <2>1 DEF Numbers
  <1> QED
    BY <1>2, <1>4 DEF Numbers, clockVars, latchVars

LEMMA SpeedIsTyped ==
  ASSUME Numbers, ChangeSpeed \/ Reverse
  PROVE  Numbers' /\ UNCHANGED envVars
  <1>1. /\ CorrectedTime \in Int /\ CurrentTime \in Int
        /\ warp \in Int /\ warpBeforeFreeze \in Int /\ zero \in Int
    BY TimesAreInts DEF Numbers
  <1>2. ASSUME NEW w \in Int, NEW b \in Int, NEW f \in Int,
               warp' = w, zero' = b, warpBeforeFreeze' = f,
               UNCHANGED <<clockVars, latchVars, envVars>>
        PROVE  Numbers' /\ UNCHANGED envVars
    BY <1>2 DEF Numbers, clockVars, latchVars
  <1>3. ASSUME NEW m \in Int, NEW c, SetWarp(m, c), UNCHANGED <<clockVars, latchVars, envVars>>
        PROVE  Numbers' /\ UNCHANGED envVars
    <2>1. ZeroAtWarp(m) \in Int
      <3>1. (warp - m) * CorrectedTime \in Int
        BY <1>1, <1>3
      <3> QED
        BY <1>1, <3>1 DEF ZeroAtWarp
    <2> QED
      BY <1>1, <1>2, <1>3, <2>1 DEF SetWarp
  <1>4. ASSUME StopWatch, UNCHANGED <<clockVars, latchVars, envVars>>
        PROVE  Numbers' /\ UNCHANGED envVars
    <2>1. CASE warp = 0
      BY <1>1, <1>2, <1>4, <2>1 DEF StopWatch, watchVars
    <2>2. CASE warp # 0
      <3>1. 0 \in Int
        OBVIOUS
      <3> QED
        BY <1>1, <1>2, <1>4, <2>2, <3>1 DEF StopWatch
    <2> QED
      BY <2>1, <2>2
  <1>5. CASE Stop
    BY <1>4, <1>5 DEF Stop
  <1>6. CASE Start
    <2>1. CASE warp = 0
      <3> DEFINE m == IF warpBeforeFreeze = 0 THEN Normal ELSE warpBeforeFreeze
                 b == zero - CorrectedTime * m
      <3>1. m \in Int
        BY <1>1 DEF Normal
      <3>2. b \in Int
        <4> HIDE DEF m
        <4>1. CorrectedTime * m \in Int
          BY <1>1, <3>1
        <4> QED
          BY <1>1, <4>1
      <3>3. warpBeforeFreeze' = m /\ warp' = m /\ zero' = b
            /\ UNCHANGED <<clockVars, latchVars, envVars>>
        BY <1>6, <2>1 DEF Start, StartWatch
      <3> HIDE DEF m, b
      <3> QED
        BY <1>2, <3>1, <3>2, <3>3
    <2>2. CASE warp # 0
      BY <1>1, <1>2, <1>6, <2>2 DEF Start, StartWatch, watchVars
    <2> QED
      BY <2>1, <2>2
  <1>7. CASE PausePlay
    <2>1. CASE warp = 0
      <3>1. Normal \in Int
        BY DEF Normal
      <3> QED
        BY <1>3, <1>7, <2>1, <3>1 DEF PausePlay
    <2>2. CASE warp # 0
      BY <1>4, <1>7, <2>2 DEF PausePlay
    <2> QED
      BY <2>1, <2>2
  <1>8. CASE CycleFastForward
    BY <1>3, <1>8, WarpsAreInts DEF CycleFastForward
  <1>9. CASE CycleRewind
    BY <1>3, <1>9, WarpsAreInts DEF CycleRewind
  <1>10. ASSUME NEW i \in DOMAIN Warps, SetSpeed(Warps[i])
         PROVE  Numbers' /\ UNCHANGED envVars
    <2>1. Warps[i] \in Int
      BY WatchConstants
    <2> QED
      BY <1>3, <1>10, <2>1 DEF SetSpeed
  <1>11. CASE Reverse
    <2>1. - warp \in Int /\ - warpBeforeFreeze \in Int
      BY <1>1
    <2> QED
      BY <1>1, <1>2, <1>11, <2>1 DEF Reverse
  <1> QED
    BY <1>5, <1>6, <1>7, <1>8, <1>9, <1>10, <1>11 DEF ChangeSpeed

\* The times that the cache is made for.
SupportedTimes ==
  {t \in Int : FarInThePast + CacheSpan <= t /\ t < FarInTheFuture}

\* The cache is empty or it is right for the zone.
CacheInv == midnightBase = FarInThePast \/ CacheIsRight(estz, midnightBase, dstEvent, dstDelta)

AnswerInv ==
  answer.time \in SupportedTimes =>
    answer.time - answer.midnight = SinceMidnight(estz, answer.time)

WatchInv == Numbers /\ estz \in Zones /\ CacheInv /\ AnswerInv

LEMMA FarIsInt ==
  /\ FarInThePast \in Int /\ FarInTheFuture \in Int
  /\ FarInThePast + CacheSpan \in Int /\ FarInThePast < FarInThePast + CacheSpan
  BY Constants, SMT DEF FarInThePast, FarInTheFuture

LEMMA NoAnswerIsNone == NoAnswer.time \notin SupportedTimes
  <1>1. NoAnswer.time = FarInThePast
    BY Zenon DEF NoAnswer
  <1>2. ~(FarInThePast + CacheSpan <= FarInThePast)
    BY FarIsInt
  <1> QED
    BY <1>1, <1>2 DEF SupportedTimes

LEMMA LoadIsRight ==
  ASSUME WatchInv, NEW t \in Int, MidnightForTimeInterval(t), UNCHANGED estz
  PROVE  CacheInv' /\ AnswerInv'
  <1>1. estz \in Zones /\ CacheInv
    BY DEF WatchInv
  <1>2. LoadCache(t) /\ answer'.time = t
        /\ answer'.midnight = MidnightBy(midnightBase', dstEvent', dstDelta', t)
    BY DEF MidnightForTimeInterval
  <1>3. ASSUME CacheIsRight(estz, midnightBase', dstEvent', dstDelta'),
               midnightBase' < t, t < midnightBase' + CacheSpan
        PROVE  CacheInv' /\ AnswerInv'
    <2>1. t < FarInTheFuture => t - answer'.midnight = SinceMidnight(estz, t)
      BY <1>1, <1>2, <1>3, MidnightIs
    <2>2. t \in SupportedTimes => t < FarInTheFuture
      BY DEF SupportedTimes
    <2>3. AnswerInv' <=> (t \in SupportedTimes => t - answer'.midnight = SinceMidnight(estz, t))
      BY <1>2, Zenon DEF AnswerInv, SupportedTimes, SinceMidnight, LocalTime, Offset, LatestChange
    <2>4. CacheInv'
      BY <1>3, Zenon DEF CacheInv, CacheIsRight, IsMidnight, LocalTime, Offset, LatestChange, ShiftBy
    <2> QED
      BY <2>1, <2>2, <2>3, <2>4
  <1>4. CASE IsCached(t)
    <2>1. UNCHANGED cacheVars
      BY <1>2, <1>4 DEF LoadCache
    <2>2. CASE midnightBase = FarInThePast
      <3>1. t \notin SupportedTimes
        BY <1>4, <2>2, FarIsInt DEF IsCached, SupportedTimes
      <3>2. AnswerInv'
        BY <1>2, <3>1, Zenon DEF AnswerInv, SupportedTimes
      <3>3. CacheInv'
        BY <2>1, <2>2 DEF CacheInv, cacheVars
      <3> QED
        BY <3>2, <3>3
    <2>3. CASE CacheIsRight(estz, midnightBase, dstEvent, dstDelta)
      BY <1>3, <1>4, <2>1, <2>3 DEF IsCached, cacheVars
    <2> QED
      BY <1>1, <2>2, <2>3 DEF CacheInv
  <1>5. CASE ~IsCached(t)
    <2> DEFINE first == FirstMidnight(estz, t)
               next == NextDSTChange(estz, first)
    <2>1. /\ midnightBase' = first - 1
          /\ dstEvent' = IF next = 0 THEN FarInTheFuture ELSE next
          /\ dstDelta' = IF next # 0 /\ next <= midnightBase' + CacheSpan
                         THEN ShiftAt(estz, next) ELSE 0
      BY <1>2, <1>5 DEF LoadCache
    <2>2. first \in Int
      <3>1. t - CachePreload \in Int
        BY Constants
      <3>2. LocalDate(estz, t - CachePreload) \in Date
        BY <1>1, <3>1, LocalIsTyped
      <3>3. 1 \in Int
        OBVIOUS
      <3> QED
        BY <1>1, <3>2, <3>3, FromLocalDateIsInt, Zenon DEF FirstMidnight
    <2>3. CacheIsRight(estz, midnightBase', dstEvent', dstDelta')
          /\ midnightBase' < t /\ t < midnightBase' + CacheSpan
      BY <1>1, <2>1, <2>2, LoadedIsRight, Zenon
    <2> QED
      BY <1>3, <2>3
  <1> QED
    BY <1>4, <1>5

\* What leaves the zone, its cache and the last answer alone.
LEMMA EnvStays ==
  ASSUME WatchInv, Numbers', UNCHANGED envVars PROVE WatchInv'
  <1>1. /\ estz' = estz /\ midnightBase' = midnightBase
        /\ dstEvent' = dstEvent /\ dstDelta' = dstDelta /\ answer' = answer
    BY DEF envVars, cacheVars
  <1>2. CacheInv'
    <2>1. CASE midnightBase = FarInThePast
      BY <1>1, <2>1 DEF CacheInv
    <2>2. CASE CacheIsRight(estz, midnightBase, dstEvent, dstDelta)
      <3>1. CacheIsRight(estz', midnightBase', dstEvent', dstDelta')
        BY <1>1, <2>2
      <3> QED
        BY <3>1, Zenon DEF CacheInv, CacheIsRight, IsMidnight, LocalTime, Offset,
                           LatestChange, ShiftBy
    <2> QED
      BY <2>1, <2>2 DEF WatchInv, CacheInv
  <1>3. AnswerInv'
    BY <1>1, Zenon DEF WatchInv, AnswerInv, SupportedTimes, SinceMidnight, LocalTime, Offset,
                       LatestChange
  <1> QED
    BY <1>1, <1>2, <1>3 DEF WatchInv

LEMMA WatchStep ==
  ASSUME WatchInv, [Next]_vars PROVE WatchInv'
  <1>1. Numbers /\ estz \in Zones /\ CurrentTime \in Int
    BY TimesAreInts DEF WatchInv
  <1>2. ASSUME NEW s \in Int, AdvanceBySeconds(s) PROVE WatchInv'
    BY <1>1, <1>2, AdvanceIsTyped, EnvStays
  <1>3. CASE ChangeSpeed \/ Reverse
    BY <1>1, <1>3, SpeedIsTyped, EnvStays
  <1>4. CASE AdvanceToNext \/ AdvanceToPrevious
    BY <1>1, <1>2, <1>4, PointAdvances
  <1>5. CASE \E n \in {-1, 1} : AdvanceDate(n)
    <2>1. PICK n \in Int : AdvanceDate(n)
      BY <1>5
    <2> QED
      BY <1>1, <1>2, <2>1, DateAdvances
  <1>6. ASSUME NEW t \in Starts, SetToFrozenDateInterval(t) PROVE WatchInv'
    <2>1. t \in Int /\ Earliest \in Int /\ Latest \in Int
      BY WatchConstants
    <2>2. warp' = 0 /\ zero' \in {Earliest, Latest, t}
          /\ UNCHANGED <<clockVars, warpBeforeFreeze, latchVars, envVars>>
      BY <1>6 DEF SetToFrozenDateInterval
    <2>3. zero' \in Int
      BY <2>1, <2>2
    <2>4. Numbers'
      BY <1>1, <2>2, <2>3 DEF Numbers, clockVars, latchVars
    <2> QED
      BY <2>2, <2>4, EnvStays
  <1>7. CASE ResetToLocal
    <2>1. Numbers' /\ UNCHANGED envVars
      BY <1>1, <1>7 DEF ResetToLocal, Numbers, clockVars, latchVars, Normal
    <2> QED
      BY <2>1, EnvStays
  <1>8. CASE Latch \/ Unlatch
    <2>1. Numbers' /\ UNCHANGED envVars
      BY <1>1, <1>8 DEF Latch, Unlatch, Numbers, clockVars, watchVars
    <2> QED
      BY <2>1, EnvStays
  <1>9. CASE ShowHands
    <2>1. MidnightForTimeInterval(CurrentTime) /\ UNCHANGED estz
          /\ UNCHANGED <<clockVars, watchVars, latchVars>>
      BY <1>9 DEF ShowHands
    <2>2. Numbers'
      BY <1>1, <2>1 DEF Numbers, clockVars, watchVars, latchVars
    <2>3. CacheInv' /\ AnswerInv'
      BY <1>1, <2>1, LoadIsRight
    <2> QED
      BY <1>1, <2>1, <2>2, <2>3 DEF WatchInv
  <1>10. CASE ChangeZone
    <2>1. PICK zone \in Zones : SetTimeZone(zone)
      BY <1>10 DEF ChangeZone
    <2>2. UNCHANGED <<clockVars, watchVars, latchVars>>
      BY <1>10 DEF ChangeZone
    <2>3. Numbers'
      BY <1>1, <2>2 DEF Numbers, clockVars, watchVars, latchVars
    <2>4. estz' \in Zones /\ midnightBase' = FarInThePast /\ answer' = NoAnswer
      BY <2>1 DEF SetTimeZone, ClearCache
    <2>5. CacheInv'
      BY <2>4, Zenon DEF CacheInv
    <2>6. AnswerInv'
      BY <2>4, NoAnswerIsNone, Zenon DEF AnswerInv, SupportedTimes
    <2> QED
      BY <2>3, <2>4, <2>5, <2>6 DEF WatchInv
  <1>11. CASE Tick
    <2>1. Numbers' /\ UNCHANGED envVars
      BY <1>1, <1>11 DEF Tick, Numbers, watchVars, latchVars
    <2> QED
      BY <2>1, EnvStays
  <1>12. CASE Synchronize
    <2>1. Numbers' /\ UNCHANGED envVars
      <3>1. skew' \in Int
        BY <1>12, WatchConstants DEF Synchronize
      <3> QED
        BY <1>1, <1>12, <3>1 DEF Synchronize, Numbers, watchVars, latchVars
    <2> QED
      BY <2>1, EnvStays
  <1>13. CASE UNCHANGED vars
    <2>1. Numbers' /\ UNCHANGED envVars
      BY <1>1, <1>13 DEF vars, Numbers, clockVars, watchVars, latchVars
    <2> QED
      BY <2>1, EnvStays
  <1> QED
    BY <1>3, <1>4, <1>5, <1>6, <1>7, <1>8, <1>9, <1>10, <1>11, <1>12, <1>13 DEF Next

LEMMA WatchStarts ==
  ASSUME Init PROVE WatchInv
  <1>1. Numbers
    BY WatchConstants DEF Init, Numbers
  <1>2. estz \in Zones /\ midnightBase = FarInThePast /\ answer = NoAnswer
    BY DEF Init, EnvInit
  <1> QED
    BY <1>1, <1>2, NoAnswerIsNone, Zenon DEF WatchInv, CacheInv, AnswerInv

LEMMA WatchInvAlways == Spec => []WatchInv
  BY WatchStarts, WatchStep, PTL DEF Spec

\* midnightForTimeInterval: the time since the midnight that the cache gives is
\* the time of day of the zone, for any zones and any sequence of questions,
\* changes of the zone and settings of the watch; for the times that are after
\* the value that marks an empty cache, and before the one that stands for no
\* change of the clocks.
THEOREM CachedMidnights == Spec => [](answer.time \in SupportedTimes => HandsAreRight)
  <1>1. WatchInv => (answer.time \in SupportedTimes => HandsAreRight)
    BY DEF WatchInv, AnswerInv, HandsAreRight
  <1> QED
    BY <1>1, WatchInvAlways, PTL

-----------------------------------------------------------------------------
(* Speed. *)

LEMMA SpeedKeeps ==
  ASSUME Numbers, ChangeSpeed, Unlatched PROVE CurrentTime' = CurrentTime
  <1> DEFINE x == CorrectedTime
  <1>1. /\ x \in Int /\ CurrentTime \in Int
        /\ warp \in Int /\ warpBeforeFreeze \in Int /\ zero \in Int
    BY TimesAreInts DEF Numbers
  <1>2. CurrentTime = IF warp # 0 THEN warp * x + zero ELSE zero
    BY DEF CurrentTime, TimeWith, WatchTime, Unlatched
  <1>3. ASSUME UNCHANGED <<clockVars, latchVars>>
        PROVE  CurrentTime' = IF warp' # 0 THEN warp' * x + zero' ELSE zero'
    <2>1. latched' = 0 /\ now' = now /\ skew' = skew
      BY <1>3 DEF Unlatched, clockVars, latchVars
    <2>2. CorrectedTime' = x
      BY <2>1 DEF CorrectedTime
    <2> QED
      BY <2>1, <2>2 DEF CurrentTime, TimeWith, WatchTime
  <1> HIDE DEF x
  <1>4. ASSUME NEW m \in Int, NEW c, SetWarp(m, c), UNCHANGED <<clockVars, latchVars>>
        PROVE  CurrentTime' = CurrentTime
    <2>1. warp' = m /\ zero' = zero + (warp - m) * x
      BY <1>4 DEF SetWarp, ZeroAtWarp, x
    <2> DEFINE old == warp * x
               new == m * x
    <2>2. old \in Int /\ new \in Int /\ (warp - m) * x = old - new
      BY <1>1, <1>4
    <2>3. warp = 0 => old = 0
      BY <1>1
    <2>4. m = 0 => new = 0
      BY <1>1
    <2>5. CurrentTime = old + zero
      <3>1. warp = 0 \/ CurrentTime = old + zero
        BY <1>2
      <3>2. warp = 0 => CurrentTime = zero
        BY <1>2
      <3> HIDE DEF old
      <3> QED
        BY <1>1, <2>2, <2>3, <3>1, <3>2
    <2>6. CurrentTime' = new + zero'
      <3>1. m = 0 \/ CurrentTime' = new + zero'
        BY <1>3, <1>4, <2>1
      <3>2. m = 0 => CurrentTime' = zero'
        BY <1>3, <1>4, <2>1
      <3>3. zero' \in Int
        <4> HIDE DEF old, new
        <4> QED
          BY <1>1, <2>1, <2>2
      <3> HIDE DEF new
      <3> QED
        BY <1>1, <2>2, <2>4, <3>1, <3>2, <3>3
    <2> HIDE DEF old, new
    <2> QED
      BY <1>1, <2>1, <2>2, <2>5, <2>6
  <1>5. ASSUME StopWatch, UNCHANGED <<clockVars, latchVars>>
        PROVE  CurrentTime' = CurrentTime
    <2>1. CASE warp = 0
      BY <1>2, <1>3, <1>5, <2>1 DEF StopWatch, watchVars
    <2>2. CASE warp # 0
      BY <1>3, <1>5, <2>2 DEF StopWatch
    <2> QED
      BY <2>1, <2>2
  <1>6. CASE Stop
    BY <1>5, <1>6 DEF Stop
  <1>7. CASE Start
    <2>0. UNCHANGED <<clockVars, latchVars>>
      BY <1>7 DEF Start
    <2>1. CASE warp # 0
      <3>1. UNCHANGED watchVars
        BY <1>7, <2>1 DEF Start, StartWatch
      <3> QED
        BY <1>2, <1>3, <2>0, <3>1 DEF watchVars
    <2>2. CASE warp = 0
      <3> DEFINE m == IF warpBeforeFreeze = 0 THEN Normal ELSE warpBeforeFreeze
                 y == x * m
      <3>1. m \in Int /\ m # 0
        BY <1>1 DEF Normal
      <3>2. warp' = m /\ zero' = zero - y
        BY <1>7, <2>2 DEF Start, StartWatch, x
      <3> HIDE DEF m
      <3>3. y \in Int /\ m * x = y
        BY <1>1, <3>1
      <3>4. CurrentTime' = y + zero'
        BY <1>3, <2>0, <3>1, <3>2, <3>3
      <3>5. CurrentTime = zero
        BY <1>2, <2>2
      <3> HIDE DEF y
      <3> QED
        BY <1>1, <3>2, <3>3, <3>4, <3>5
    <2> QED
      BY <2>1, <2>2
  <1>8. CASE PausePlay
    <2>1. CASE warp = 0
      <3>1. Normal \in Int
        BY DEF Normal
      <3> QED
        BY <1>4, <1>8, <2>1, <3>1 DEF PausePlay
    <2>2. CASE warp # 0
      BY <1>5, <1>8, <2>2 DEF PausePlay
    <2> QED
      BY <2>1, <2>2
  <1>9. CASE CycleFastForward
    BY <1>4, <1>9, WarpsAreInts DEF CycleFastForward
  <1>10. CASE CycleRewind
    BY <1>4, <1>10, WarpsAreInts DEF CycleRewind
  <1>11. ASSUME NEW i \in DOMAIN Warps, SetSpeed(Warps[i])
         PROVE  CurrentTime' = CurrentTime
    <2>1. Warps[i] \in Int
      BY WatchConstants
    <2> QED
      BY <1>4, <1>11, <2>1 DEF SetSpeed
  <1> QED
    BY <1>6, <1>7, <1>8, <1>9, <1>10, <1>11 DEF ChangeSpeed

\* setWarp, stop, start, pausePlay, cycleFastForward and cycleRewind: whatever
\* they are in the middle of, the time that the watch shows stays, for any
\* speeds, skews and times.
THEOREM TimeIsKept == Spec => SpeedKeepsTheTime
  <1>1. WatchInv /\ [Next]_vars =>
          [ChangeSpeed /\ Unlatched => CurrentTime' = CurrentTime]_vars
    BY SpeedKeeps DEF WatchInv
  <1> QED
    BY <1>1, WatchInvAlways, PTL DEF Spec, SpeedKeepsTheTime

-----------------------------------------------------------------------------
(* Setting the date. *)

\* The hour around a local time that the clocks are set over is on its day.
LEMMA SkippedDay ==
  ASSUME NEW zone \in Zones, NEW local \in Int, Skipped(zone, local),
         NEW x \in Int, x - local <= Hour, local - x <= Hour
  PROVE  x \div Day = local \div Day
  <1>1. PICK c \in zone.changes :
          c.at + Offset(zone, c.at - 1) <= local /\ local < c.at + c.offset
    BY DEF Skipped
  <1> DEFINE o == Offset(zone, c.at - 1)
             q == local \div Day
             r == local % Day
             m == q * Day
             n == (q + 1) * Day
  <1>2. c.at \in Int /\ c.at - 1 \in Int
    BY Changes
  <1>3. o \in Int /\ zone.raw <= o /\ o <= zone.raw + Hour
    BY <1>2, OffsetRange
  <1>4. /\ c.offset \in Int /\ zone.raw <= c.offset /\ c.offset <= zone.raw + Hour
        /\ zone.raw \in Int
    BY Changes
  <1>5. q \in Int /\ r \in 0 .. Day - 1 /\ local = m + r /\ m \in Int
    BY Remainder, Zenon
  <1> HIDE DEF o, q, r
  <1>6. n = m + Day /\ n \in Int /\ q + 1 \in Int
    BY <1>5, Constants
  <1>7. /\ c.at + o < m - Hour \/ c.at + o >= m + Hour
        /\ c.at + o < n - Hour \/ c.at + o >= n + Hour
    BY <1>3, <1>5, <1>6, AwayFromMidnight
  <1>8. /\ c.at + c.offset < m - Hour \/ c.at + c.offset >= m + Hour
        /\ c.at + c.offset < n - Hour \/ c.at + c.offset >= n + Hour
    BY <1>4, <1>5, <1>6, AwayFromMidnight
  <1>9. c.at + o <= local
    BY <1>1 DEF o
  <1> HIDE DEF m, n
  <1>10. local >= m + Hour /\ local < n - Hour
    <2>1. m <= local /\ local < n
      BY <1>5, <1>6, Constants
    <2>2. c.offset - o <= Hour
      BY <1>3, <1>4, Constants
    <2>3. c.at + c.offset >= m + Hour
      BY <1>1, <1>2, <1>4, <1>5, <1>8, <2>1, Constants
    <2>4. c.at + o >= m + Hour
      BY <1>2, <1>3, <1>4, <1>5, <1>7, <2>2, <2>3, Constants
    <2>5. c.at + o < n - Hour
      BY <1>2, <1>3, <1>6, <1>7, <1>9, <2>1, Constants
    <2>6. c.at + c.offset < n - Hour
      BY <1>2, <1>3, <1>4, <1>6, <1>8, <2>2, <2>5, Constants
    <2> QED
      BY <1>1, <1>2, <1>3, <1>4, <1>5, <1>6, <1>9, <2>4, <2>6, Constants
  <1>11. x - m \in 0 .. Day - 1 /\ x = m + (x - m)
    BY <1>5, <1>6, <1>10, Constants
  <1>12. x \div Day = q
    <2> DEFINE s == x - m
    <2>1. s \in 0 .. Day - 1 /\ x = q * Day + s
      BY <1>11 DEF m
    <2> HIDE DEF s
    <2> QED
      BY <1>5, <2>1, OneRemainder
  <1> QED
    BY <1>12 DEF q

\* A time whose local time is, or would but for a change of the clocks be, one of
\* the time of day of another.
IsClockOf(zone, r, t) ==
  \E local \in Int :
    /\ local % Day = SinceMidnight(zone, t)
    /\ LocalTime(zone, r) - local <= Hour /\ local - LocalTime(zone, r) <= Hour
    /\ LocalTime(zone, r) = local \/ Skipped(zone, local)

LEMMA ClockIs ==
  ASSUME NEW zone \in Zones, NEW r \in Int, NEW t \in Int, IsClockOf(zone, r, t),
         ~Skipped(zone, LocalTime(zone, r) - SinceMidnight(zone, r) + SinceMidnight(zone, t))
  PROVE  SinceMidnight(zone, r) = SinceMidnight(zone, t)
  <1>1. PICK local \in Int :
          /\ local % Day = SinceMidnight(zone, t)
          /\ LocalTime(zone, r) - local <= Hour /\ local - LocalTime(zone, r) <= Hour
          /\ LocalTime(zone, r) = local \/ Skipped(zone, local)
    BY DEF IsClockOf
  <1>2. CASE LocalTime(zone, r) = local
    BY <1>1, <1>2 DEF SinceMidnight
  <1>3. CASE Skipped(zone, local)
    <2> DEFINE x == LocalTime(zone, r)
               p == x \div Day
               q == local \div Day
    <2>1. x \in Int
      BY LocalIsTyped
    <2>2. p = q
      <3> HIDE DEF x
      <3>1. x - local <= Hour /\ local - x <= Hour
        BY <1>1 DEF x
      <3> QED
        BY <1>3, <2>1, <3>1, SkippedDay
    <2>3. /\ x % Day \in Int /\ local % Day \in Int /\ p * Day \in Int
          /\ x = p * Day + (x % Day) /\ local = q * Day + (local % Day)
      <3> HIDE DEF x
      <3>1. p * Day \in Int /\ x = p * Day + (x % Day)
        BY <2>1, Remainder, Zenon
      <3>2. local = q * Day + (local % Day)
        BY Remainder, Zenon
      <3>3. x % Day \in Int /\ local % Day \in Int
        BY <2>1, Constants
      <3> QED
        BY <3>1, <3>2, <3>3
    <2>4. x - (x % Day) + (local % Day) = local
      <3> DEFINE a == x % Day
                 b == local % Day
                 m == p * Day
      <3>1. a \in Int /\ b \in Int /\ m \in Int /\ x = m + a /\ local = m + b
        BY <2>2, <2>3
      <3> HIDE DEF a, b, m, x
      <3>2. x - a + b = local
        BY <2>1, <3>1
      <3> QED
        BY <3>2 DEF a, b
    <2>5. x - SinceMidnight(zone, r) + SinceMidnight(zone, t) = local
      BY <1>1, <2>4 DEF SinceMidnight
    <2> QED
      BY <1>3, <2>5
  <1> QED
    BY <1>1, <1>2, <1>3

\* Months and years later.
LEMMA FromLocalNear ==
  ASSUME NEW zone \in Zones, NEW local \in Int, NEW t \in Int,
         local % Day = SinceMidnight(zone, t)
  PROVE  IsClockOf(zone, FromLocal(zone, local), t)
  <1> DEFINE r == FromLocal(zone, local)
             x == LocalTime(zone, r)
  <1>1. r \in Int
    BY FromLocalIsInt
  <1>2. x - local <= Hour /\ local - x <= Hour /\ (x = local \/ Skipped(zone, local))
    <2>1. CASE ~Skipped(zone, local)
      <3>1. x = local
        BY <2>1, FromLocalBack
      <3> HIDE DEF x
      <3> QED
        BY <3>1, Constants
    <2>2. CASE Skipped(zone, local)
      <3> DEFINE o == Offset(zone, local)
                 try == local - o
                 p == Offset(zone, try)
                 e == Offset(zone, r)
      <3>1. /\ zone.raw \in Int /\ o \in Int /\ e \in Int
            /\ zone.raw <= e /\ e <= zone.raw + Hour
        <4> HIDE DEF r
        <4> QED
          BY <1>1, OffsetRange, Changes
      <3>2. try \in Int
        <4> HIDE DEF o
        <4> QED
          BY <3>1
      <3>3. p \in Int /\ zone.raw <= p /\ p <= zone.raw + Hour
        <4> HIDE DEF try
        <4> QED
          BY <3>2, OffsetRange
      <3>4. x = r + e
        BY DEF LocalTime
      <3>5. r = IF p = o THEN try ELSE local - p
        BY DEF FromLocal
      <3>6. p = o => e = p
        BY <3>5
      <3>7. r = local - p
        BY <3>5
      <3> HIDE DEF o, p, e, try, r, x
      <3> QED
        BY <1>1, <2>2, <3>1, <3>3, <3>4, <3>7, Constants
    <2> QED
      BY <2>1, <2>2
  <1> QED
    BY <1>2 DEF IsClockOf

\* A day later or earlier.
LEMMA DayNear ==
  ASSUME NEW zone \in Zones, NEW t \in Int, NEW n \in {-1, 1}
  PROVE  IsClockOf(zone, AddDaysTo(zone, t, n), t)
  <1> DEFINE later == t + n * Day
             o == Offset(zone, t)
             e == Offset(zone, later)
             shift == e - o
             r == later - shift
             f == Offset(zone, r)
             y == LocalTime(zone, t)
             z == LocalTime(zone, later)
             local == y + n * Day
  <1>1. /\ Day \in Nat /\ Hour \in Nat /\ 2 * (Hour + 2) < Day /\ 4 * Day <= CacheSpan + Day
        /\ CacheSpan \in Nat /\ zone.raw \in Int
    BY Constants, Changes
  <1>2. later = (IF n = 1 THEN t + Day ELSE t - Day) /\ later \in Int /\ n * Day \in Int /\ n \in Int
    BY <1>1
  <1> HIDE DEF later
  <1>3. /\ o \in Int /\ zone.raw <= o /\ o <= zone.raw + Hour
        /\ e \in Int /\ zone.raw <= e /\ e <= zone.raw + Hour
    BY <1>2, OffsetRange
  <1> HIDE DEF o, e
  <1>4. shift \in Int /\ shift <= Hour /\ - shift <= Hour /\ r \in Int
    BY <1>1, <1>2, <1>3
  <1> HIDE DEF r
  <1>5. f \in Int /\ zone.raw <= f /\ f <= zone.raw + Hour
    BY <1>4, OffsetRange
  <1> HIDE DEF f
  <1>6. y = t + o /\ z = later + e /\ LocalTime(zone, r) = r + f
    BY DEF LocalTime, o, e, f
  <1> HIDE DEF y, z
  <1>7. y \in Int /\ z \in Int /\ local \in Int
    BY <1>2, <1>3, <1>6
  <1>8. AddDaysTo(zone, t, n) = r
    <2>1. AddDaysTo(zone, t, n) = later - Nearest((z % Day) - (y % Day))
      BY DEF AddDaysTo, SinceMidnight, later, y, z
    <2> DEFINE x == z - n * Day
    <2>2. x \in Int /\ z = x + n * Day /\ x - y = shift
      BY <1>2, <1>3, <1>6, <1>7 DEF later
    <2> HIDE DEF x
    <2>3. z % Day = x % Day
      BY <1>2, <2>2, DaysLater
    <2>4. 2 * (x - y) < Day /\ 2 * (y - x) < Day
      <3>1. y - x = - shift
        BY <1>4, <1>7, <2>2
      <3> HIDE DEF shift
      <3> QED
        BY <1>1, <1>4, <2>2, <3>1
    <2>5. Nearest((x % Day) - (y % Day)) = x - y
      BY <1>7, <2>2, <2>4, NearestIs
    <2> QED
      BY <2>1, <2>2, <2>3, <2>5 DEF r
  <1>9. local % Day = SinceMidnight(zone, t)
    <2>1. local % Day = y % Day
      BY <1>2, <1>7, DaysLater
    <2> QED
      BY <2>1 DEF SinceMidnight, y
  <1>10. local = later + o
    BY <1>2, <1>3, <1>6 DEF later
  <1> HIDE DEF local
  <1>11. LocalTime(zone, r) - local <= Hour /\ local - LocalTime(zone, r) <= Hour
    <2>1. LocalTime(zone, r) = later - shift + f
      BY <1>6 DEF r
    <2>2. LocalTime(zone, r) = local + (f - e)
      BY <1>2, <1>3, <1>5, <1>10, <2>1
    <2> QED
      BY <1>1, <1>3, <1>5, <1>7, <2>2
  <1>12. CASE f = e
    <2>1. LocalTime(zone, r) = local
      BY <1>2, <1>3, <1>6, <1>10, <1>12 DEF r
    <2> QED
      BY <1>7, <1>8, <1>9, <1>11, <2>1 DEF IsClockOf
  <1>13. ASSUME NEW c \in zone.changes, c.at + Offset(zone, c.at - 1) <= local,
                local < c.at + c.offset
         PROVE  IsClockOf(zone, AddDaysTo(zone, t, n), t)
    <2>1. Skipped(zone, local)
      BY <1>13 DEF Skipped
    <2> QED
      BY <1>7, <1>8, <1>9, <1>11, <2>1 DEF IsClockOf
  <1>14. CASE f # e /\ r <= later
    <2>1. PICK c \in zone.changes : r < c.at /\ c.at <= later
      BY <1>2, <1>4, <1>14, OffsetSame DEF f, e
    <2> DEFINE b == Offset(zone, c.at - 1)
    <2>2. c.at \in Int /\ c.offset \in Int /\ b \in Int
      BY Changes, OffsetRange
    <2>3. later - r <= CacheSpan + Day
      BY <1>1, <1>2, <1>4 DEF r
    <2>4. e = c.offset /\ f = b
      BY <1>2, <1>4, <2>1, <2>3, OffsetSwitch DEF e, f
    <2>5. CASE n = 1
      <3>1. t < r /\ later - t <= CacheSpan + Day
        <4> HIDE DEF shift
        <4> QED
          BY <1>1, <1>2, <1>4, <2>5 DEF r
      <3>2. t < c.at
        BY <1>4, <2>1, <2>2, <3>1
      <3>3. o = b
        BY <1>2, <2>1, <3>1, <3>2, OffsetSwitch DEF o
      <3> HIDE DEF b
      <3>4. c.at + b <= local /\ local < c.at + c.offset
        BY <1>2, <1>3, <1>10, <2>1, <2>2, <2>4, <3>3 DEF r
      <3> QED
        BY <1>13, <3>4 DEF b
    <2>6. CASE n = -1
      <3>1. later < t /\ t - r <= CacheSpan + Day
        <4> HIDE DEF shift
        <4> QED
          BY <1>1, <1>2, <1>4, <2>6 DEF r
      <3>2. c.at <= t
        BY <1>2, <2>1, <2>2, <3>1
      <3>3. o = c.offset
        BY <1>4, <2>1, <3>1, <3>2, OffsetSwitch DEF o
      <3>4. r = later
        BY <1>2, <1>3, <2>4, <3>3 DEF r
      <3> QED
        BY <1>14, <3>4 DEF e, f
    <2> QED
      BY <2>5, <2>6
  <1>15. CASE f # e /\ later < r
    <2>1. PICK c \in zone.changes : later < c.at /\ c.at <= r
      BY <1>2, <1>4, <1>15, OffsetSame DEF f, e
    <2> DEFINE b == Offset(zone, c.at - 1)
    <2>2. c.at \in Int /\ c.offset \in Int /\ b \in Int
      BY Changes, OffsetRange
    <2>3. r - later <= CacheSpan + Day
      BY <1>1, <1>2, <1>4 DEF r
    <2>4. f = c.offset /\ e = b
      BY <1>2, <1>4, <2>1, <2>3, OffsetSwitch DEF e, f
    <2>5. CASE n = 1
      <3>1. t < later /\ r - t <= CacheSpan + Day
        <4> HIDE DEF shift
        <4> QED
          BY <1>1, <1>2, <1>4, <2>5 DEF r
      <3>2. t < c.at
        BY <1>2, <2>1, <2>2, <3>1
      <3>3. o = b
        BY <1>4, <2>1, <3>1, <3>2, OffsetSwitch DEF o
      <3> HIDE DEF b
      <3>4. r = later
        BY <1>2, <1>3, <2>4, <3>3 DEF r
      <3> QED
        BY <1>15, <3>4, <1>2
    <2>6. CASE n = -1
      <3>1. r <= t /\ t - later <= CacheSpan + Day
        <4> HIDE DEF shift
        <4> QED
          BY <1>1, <1>2, <1>4, <2>6 DEF r
      <3>2. c.at <= t
        BY <1>4, <2>1, <2>2, <3>1
      <3>3. o = c.offset
        BY <1>2, <2>1, <3>1, <3>2, OffsetSwitch DEF o
      <3> HIDE DEF b
      <3>4. c.at + b <= local /\ local < c.at + c.offset
        BY <1>2, <1>3, <1>10, <2>1, <2>2, <2>4, <3>3 DEF r
      <3> QED
        BY <1>13, <3>4 DEF b
    <2> QED
      BY <2>5, <2>6
  <1> QED
    BY <1>2, <1>4, <1>12, <1>14, <1>15

\* A watch that is not held at the first or the last supported time is set to the
\* time that it is advanced to, running or stopped.
LEMMA AdvanceReaches ==
  ASSUME Numbers, Unlatched, NEW t \in Int, AdvanceBySeconds(t - CurrentTime), ~Held'
  PROVE  CurrentTime' = t
  <1> DEFINE x == CorrectedTime
             b == zero + (t - CurrentTime)
             y == TimeWith(warp, b)
             out == y <= Earliest \/ y >= Latest
  <1>1. /\ x \in Int /\ CurrentTime \in Int /\ warp \in Int /\ zero \in Int
        /\ Earliest \in Int /\ Latest \in Int
    BY TimesAreInts, WatchConstants DEF Numbers
  <1>2. CurrentTime = IF warp # 0 THEN warp * x + zero ELSE zero
    BY DEF CurrentTime, TimeWith, WatchTime, Unlatched
  <1>3. y = IF warp # 0 THEN warp * x + b ELSE b
    BY DEF TimeWith, WatchTime, Unlatched
  <1>4. y = t /\ b \in Int
    <2> DEFINE p == warp * x
    <2>1. p \in Int
      BY <1>1
    <2> HIDE DEF x
    <2>2. /\ CurrentTime = IF warp # 0 THEN p + zero ELSE zero
          /\ y = IF warp # 0 THEN p + b ELSE b
      BY <1>2, <1>3
    <2> HIDE DEF p, y
    <2> QED
      BY <1>1, <2>1, <2>2
  <1>5. SetConstrained(b) /\ UNCHANGED <<clockVars, latchVars>>
    BY DEF AdvanceBySeconds
  <1>6. /\ warp' = IF out THEN 0 ELSE warp
        /\ zero' = CASE out /\ warp # 0 -> y
                     [] y <= Earliest /\ warp = 0 -> Earliest
                     [] y >= Latest /\ warp = 0 -> Latest
                     [] OTHER -> b
    BY <1>5, Zenon DEF SetConstrained
  <1>7. CurrentTime' = IF warp' # 0 THEN warp' * x + zero' ELSE zero'
    <2>1. latched' = 0 /\ now' = now /\ skew' = skew
      BY <1>5 DEF Unlatched, clockVars, latchVars
    <2>2. CorrectedTime' = x
      BY <2>1 DEF CorrectedTime
    <2> QED
      BY <2>1, <2>2 DEF CurrentTime, TimeWith, WatchTime
  <1> HIDE DEF x, b, y
  <1>8. CASE out /\ warp # 0
    BY <1>4, <1>6, <1>7, <1>8
  <1>9. CASE out /\ warp = 0
    <2>1. warp' = 0 /\ zero' \in {Earliest, Latest}
      BY <1>6, <1>9
    <2> QED
      BY <1>7, <2>1 DEF Held
  <1>10. CASE ~out
    BY <1>3, <1>4, <1>6, <1>7, <1>10
  <1> QED
    BY <1>8, <1>9, <1>10

LEMMA DateIsClock ==
  ASSUME Numbers, estz \in Zones, NEW n \in {-1, 1}, Unlatched, AdvanceDate(n), ~Held'
  PROVE  CurrentTime' \in Int /\ estz' = estz /\ IsClockOf(estz, CurrentTime', CurrentTime)
  <1> DEFINE t == CurrentTime
  <1>1. t \in Int /\ n \in Int
    BY TimesAreInts
  <1>2. ASSUME NEW u \in Int, AdvanceBySeconds(u - CurrentTime), IsClockOf(estz, u, t)
        PROVE  CurrentTime' \in Int /\ estz' = estz /\ IsClockOf(estz, CurrentTime', t)
    <2>1. CurrentTime' = u
      BY <1>2, AdvanceReaches
    <2>2. estz' = estz
      BY <1>2 DEF AdvanceBySeconds, envVars
    <2> QED
      BY <1>2, <2>1, <2>2
  <1> HIDE DEF t
  <1>3. ASSUME NEW date \in Date
        PROVE  IsClockOf(estz, FromLocalDate(estz, date, SinceMidnight(estz, t)), t)
    <2> DEFINE d == DayNumber(date)
               s == SinceMidnight(estz, t)
               local == d * Day + s
    <2>1. d \in Int /\ s \in 0 .. Day - 1 /\ s \in Int
      BY <1>1, <1>3, DayNumberIsInt, LocalIsTyped
    <2>2. FromLocalDate(estz, date, s) = FromLocal(estz, local)
      BY DEF FromLocalDate
    <2>3. local \in Int /\ local % Day = s
      <3> HIDE DEF d, s
      <3>1. d * Day \in Int
        BY <2>1, Constants
      <3>2. local \in Int
        BY <2>1, <3>1
      <3> QED
        BY <2>1, <3>2, OneRemainder
    <2> HIDE DEF local
    <2> QED
      BY <1>1, <2>2, <2>3, FromLocalNear
  <1>4. LocalDate(estz, t) \in Date
    BY <1>1, LocalIsTyped
  <1>5. /\ AddMonths(LocalDate(estz, t), n) \in Date /\ AddYears(LocalDate(estz, t), n) \in Date
    BY <1>1, <1>4, LaterDates
  <1>6. /\ AddDaysTo(estz, t, n) \in Int
        /\ AddMonthsTo(estz, t, n) \in Int /\ AddYearsTo(estz, t, n) \in Int
    BY <1>1, LaterTimes
  <1>7. CASE AdvanceByDays(n)
    <2>1. IsClockOf(estz, AddDaysTo(estz, t, n), t)
      BY <1>1, DayNear
    <2> QED
      BY <1>2, <1>6, <1>7, <2>1 DEF AdvanceByDays, t
  <1>8. CASE AdvanceByMonths(n)
    <2>1. IsClockOf(estz, AddMonthsTo(estz, t, n), t)
      BY <1>3, <1>5, Zenon DEF AddMonthsTo
    <2> QED
      BY <1>2, <1>6, <1>8, <2>1 DEF AdvanceByMonths, t
  <1>9. CASE AdvanceByYears(n)
    <2>1. IsClockOf(estz, AddYearsTo(estz, t, n), t)
      BY <1>3, <1>5, Zenon DEF AddYearsTo
    <2> QED
      BY <1>2, <1>6, <1>9, <2>1 DEF AdvanceByYears, t
  <1> QED
    BY <1>7, <1>8, <1>9 DEF AdvanceDate, t

\* ESCalendar_addDaysToTimeInterval, ESCalendar_addMonthsToTimeInterval and
\* ESCalendar_addYearsToTimeInterval as advanceByDays, advanceByMonths and
\* advanceByYears use them: for any zones, speeds and times, a day, a month or a
\* year later or earlier the clock of the zone shows the same time of day, unless
\* the zone's clocks are set over that time on that day.
THEOREM SameTimeOfDay == Spec => ClockIsKept
  <1>1. ASSUME WatchInv, NEW n \in {-1, 1}, Unlatched, AdvanceDate(n), ~Held',
               ~Skipped(estz, ClockOn(CurrentTime', CurrentTime))
        PROVE  SinceMidnight(estz, CurrentTime') = SinceMidnight(estz, CurrentTime)
    <2>1. Numbers /\ estz \in Zones /\ CurrentTime \in Int
      BY <1>1, TimesAreInts DEF WatchInv
    <2>2. CurrentTime' \in Int /\ IsClockOf(estz, CurrentTime', CurrentTime)
      BY <1>1, <2>1, DateIsClock
    <2> QED
      BY <1>1, <2>1, <2>2, ClockIs DEF ClockOn
  <1>2. WatchInv =>
          [\A n \in {-1, 1} :
             /\ Unlatched /\ AdvanceDate(n) /\ ~ Held'
             /\ ~ Skipped(estz, ClockOn(CurrentTime', CurrentTime))
             => SinceMidnight(estz, CurrentTime') = SinceMidnight(estz, CurrentTime)]_vars
    BY <1>1
  <1> QED
    BY <1>2, WatchInvAlways, PTL DEF ClockIsKept
-----------------------------------------------------------------------------
(* Going on from point to point. *)

LEMMA SameAdvances ==
  ASSUME NEW date, NEW n
  PROVE  /\ AddMonths(date, n) = Dated!AddMonths(date, n)
         /\ AddYears(date, n) = Dated!AddYears(date, n)
  <1>1. ASSUME NEW z PROVE EraYear(z) = Dated!EraYear(z)
    BY DEF EraYear, Dated!EraYear
  <1>2. SignedYear(date) = Dated!SignedYear(date)
    BY DEF SignedYear, Dated!SignedYear
  <1>3. ASSUME NEW era, NEW year, NEW month
        PROVE  DaysInMonth(era, year, month) = Dated!DaysInMonth(era, year, month)
    <2>1. \A m : DayNumber([era |-> era, year |-> year, month |-> m, day |-> 1])
                   = Dated!DayNumber([era |-> era, year |-> year, month |-> m, day |-> 1])
      BY SameDayNumber
    <2> QED
      BY <2>1, Zenon DEF DaysInMonth, Dated!DaysInMonth, ThirtyDays, Dated!ThirtyDays
  <1> QED
    BY <1>1, <1>2, <1>3, Zenon DEF AddMonths, Dated!AddMonths, AddYears, Dated!AddYears

LEMMA FirstsAround ==
  ASSUME NEW day \in Int, NEW date, date = Components(day),
         NEW first, first = DayNumber([date EXCEPT !.day = 1]),
         NEW jan1, jan1 = DayNumber([date EXCEPT !.day = 1, !.month = 1])
  PROVE  /\ first \in Int /\ first <= day
         /\ day < DayNumber(AddMonths(Components(first), 1))
         /\ jan1 \in Int
         /\ day < DayNumber(AddYears(Components(jan1), 1))
  <1>1. /\ date = Dated!Components(day)
        /\ first = Dated!DayNumber([date EXCEPT !.day = 1])
        /\ jan1 = Dated!DayNumber([date EXCEPT !.day = 1, !.month = 1])
    BY SameComponents, SameDayNumber
  <1>2. /\ first \in Int /\ first <= day
        /\ day < Dated!DayNumber(Dated!AddMonths(Dated!Components(first), 1))
        /\ jan1 \in Int
        /\ day < Dated!DayNumber(Dated!AddYears(Dated!Components(jan1), 1))
    BY <1>1, Dated!FirstsAround, Zenon
  <1> QED
    BY <1>2, SameComponents, SameDayNumber, SameAdvances

\* A midnight splits the times into those before and after it, since no change
\* of the clocks is near.
LEMMA MidnightSplits ==
  ASSUME NEW zone \in Zones, NEW D \in Int,
         NEW u, u = FromLocal(zone, D * Day), NEW v \in Int
  PROVE  /\ u \in Int /\ LocalTime(zone, u) = D * Day
         /\ u <= v <=> D * Day <= LocalTime(zone, v)
  <1> DEFINE m == D * Day
  <1>1. m \in Int /\ Hour \in Nat /\ Hour > 2
    BY Constants
  <1>2. ~Skipped(zone, m)
    <2> SUFFICES ASSUME NEW c \in zone.changes,
                        c.at + Offset(zone, c.at - 1) <= m, m < c.at + c.offset
                 PROVE  FALSE
      BY DEF Skipped
    <2> DEFINE o == Offset(zone, c.at - 1)
    <2>1. c.at \in Int /\ c.at - 1 \in Int
      BY Changes
    <2>2. o \in Int /\ zone.raw <= o /\ o <= zone.raw + Hour
      BY <2>1, OffsetRange
    <2>3. c.offset \in Int /\ zone.raw <= c.offset /\ c.offset <= zone.raw + Hour /\ zone.raw \in Int
      BY Changes
    <2> HIDE DEF o
    <2>4. c.at + o < m - Hour \/ c.at + o >= m + Hour
      BY <2>2, AwayFromMidnight
    <2>5. c.at + c.offset < m - Hour \/ c.at + c.offset >= m + Hour
      BY <2>3, AwayFromMidnight
    <2>6. c.at + o <= m /\ m < c.at + c.offset
      BY DEF o
    <2> HIDE DEF m
    <2> QED
      BY <1>1, <2>1, <2>2, <2>3, <2>4, <2>5, <2>6
  <1>3. u \in Int /\ LocalTime(zone, u) = m
    BY <1>1, <1>2, FromLocalBack
  <1> DEFINE o == Offset(zone, u)
             p == Offset(zone, v)
  <1>4. /\ zone.raw \in Int /\ o \in Int /\ p \in Int
        /\ zone.raw <= o /\ o <= zone.raw + Hour /\ zone.raw <= p /\ p <= zone.raw + Hour
    BY <1>3, OffsetRange, Changes
  <1>5. u + o = m /\ LocalTime(zone, v) = v + p
    BY <1>3 DEF LocalTime
  <1>6. \A c \in zone.changes : c.at \in Int /\ (c.at < u - Hour \/ c.at >= u + Hour)
    <2> SUFFICES ASSUME NEW c \in zone.changes
                 PROVE  c.at \in Int /\ (c.at < u - Hour \/ c.at >= u + Hour)
      OBVIOUS
    <2>1. c.at \in Int
      BY Changes
    <2> HIDE DEF o
    <2>2. c.at + o < m - Hour \/ c.at + o >= m + Hour
      BY <1>4, AwayFromMidnight
    <2> HIDE DEF m
    <2> QED
      BY <1>1, <1>3, <1>4, <1>5, <2>1, <2>2
  <1>7. u - Hour <= v /\ v <= u + (Hour - 1) => o = p
    <2> SUFFICES ASSUME u - Hour <= v, v <= u + (Hour - 1) PROVE o = p
      OBVIOUS
    <2>1. CASE u <= v
      <3>1. \A c \in zone.changes : ~(u < c.at /\ c.at <= v)
        <4> SUFFICES ASSUME NEW c \in zone.changes, u < c.at, c.at <= v PROVE FALSE
          OBVIOUS
        <4>1. c.at \in Int /\ (c.at < u - Hour \/ c.at >= u + Hour)
          BY <1>6
        <4> QED
          BY <1>1, <1>3, <4>1
      <3> QED
        BY <1>3, <2>1, <3>1, OffsetSame
    <2>2. CASE v <= u
      <3>1. \A c \in zone.changes : ~(v < c.at /\ c.at <= u)
        <4> SUFFICES ASSUME NEW c \in zone.changes, v < c.at, c.at <= u PROVE FALSE
          OBVIOUS
        <4>1. c.at \in Int /\ (c.at < u - Hour \/ c.at >= u + Hour)
          BY <1>6
        <4> QED
          BY <1>1, <1>3, <4>1
      <3> QED
        BY <1>3, <2>2, <3>1, OffsetSame
    <2> QED
      BY <1>3, <2>1, <2>2
  <1> HIDE DEF o, p, m
  <1>8. u <= v <=> m <= v + p
    BY <1>1, <1>3, <1>4, <1>5, <1>7
  <1> QED
    BY <1>3, <1>5, <1>8 DEF m

\* The first of the month of a time is not after it; those of the next month and
\* year are.
LEMMA PointsAround ==
  ASSUME estz \in Zones, NEW t \in Int
  PROVE  /\ FirstOfMonth(t) <= t
         /\ t < AddMonthsTo(estz, FirstOfMonth(t), 1)
         /\ t < AddYearsTo(estz, FirstOfYearAt(t), 1)
  <1> DEFINE local == LocalTime(estz, t)
             day == local \div Day
             date == LocalDate(estz, t)
             first == DayNumber([date EXCEPT !.day = 1])
             jan1 == DayNumber([date EXCEPT !.day = 1, !.month = 1])
  <1>1. local \in Int /\ day \in Int /\ day * Day \in Int
        /\ day * Day <= local /\ local < day * Day + Day
    <2>1. local \in Int
      BY LocalIsTyped
    <2> HIDE DEF local
    <2>2. /\ day \in Int /\ local % Day \in 0 .. Day - 1 /\ day * Day \in Int
          /\ local = day * Day + (local % Day)
      BY <2>1, Remainder
    <2> DEFINE r == local % Day
               q == day * Day
    <2>3. r \in 0 .. Day - 1 /\ q \in Int /\ local = q + r
      BY <2>2
    <2>4. Day \in Nat
      BY Constants
    <2> HIDE DEF r, q, day
    <2>5. q <= local /\ local < q + Day
      BY <2>1, <2>3, <2>4
    <2> QED
      BY <2>1, <2>2, <2>5 DEF q
  <1>2. date = Components(day)
    BY DEF LocalDate
  <1> HIDE DEF day
  <1>3. /\ first \in Int /\ first <= day
        /\ day < DayNumber(AddMonths(Components(first), 1))
        /\ jan1 \in Int
        /\ day < DayNumber(AddYears(Components(jan1), 1))
    BY <1>1, <1>2, FirstsAround, Zenon
  <1> HIDE DEF first, jan1, date
  \* A time at the midnight of a day has its date.
  <1>4. ASSUME NEW D \in Int, NEW u, u = FromLocal(estz, D * Day + 0)
        PROVE  /\ u \in Int /\ LocalDate(estz, u) = Components(D) /\ SinceMidnight(estz, u) = 0
               /\ D <= day => u <= t
               /\ day < D => t < u
    <2>1. D * Day \in Int /\ D * Day + 0 = D * Day
      BY Constants
    <2>2. u \in Int /\ LocalTime(estz, u) = D * Day /\ (u <= t <=> D * Day <= local)
      BY <1>4, <2>1, MidnightSplits
    <2>3. 0 \in 0 .. Day - 1
      BY Constants
    <2>4. LocalTime(estz, u) % Day = 0 /\ LocalTime(estz, u) \div Day = D
      BY <2>1, <2>2, <2>3, OneRemainder
    <2>5. LocalDate(estz, u) = Components(D) /\ SinceMidnight(estz, u) = 0
      BY <2>4 DEF LocalDate, SinceMidnight
    <2> DEFINE x == D * Day
               y == day * Day
    <2>6. local \in Int /\ u \in Int /\ x \in Int /\ y \in Int /\ y <= local /\ local < y + Day /\ (u <= t <=> x <= local)
      BY <1>1, <2>1, <2>2
    <2>7. D <= day => x <= y
      <3>1. D = day \/ D < day \/ day < D
        BY <1>1
      <3>2. D < day => x + Day <= y
        BY <1>1, Distances
      <3> QED
        BY <1>1, <2>6, <3>1, <3>2, Constants
    <2>8. day < D => y + Day <= x
      BY <1>1, Distances
    <2> HIDE DEF x, y, local
    <2>9. /\ D <= day => u <= t
          /\ day < D => t < u
      BY <2>6, <2>7, <2>8, Constants
    <2> QED
      BY <2>2, <2>5, <2>9
  <1>5. /\ FirstOfMonth(t) = FromLocal(estz, first * Day + 0)
        /\ FirstOfYearAt(t) = FromLocal(estz, jan1 * Day + 0)
    BY Zenon DEF FirstOfMonth, FirstOfYearAt, FromLocalDate, first, jan1, date
  <1>6. /\ FirstOfMonth(t) <= t
        /\ LocalDate(estz, FirstOfMonth(t)) = Components(first)
        /\ SinceMidnight(estz, FirstOfMonth(t)) = 0
        /\ LocalDate(estz, FirstOfYearAt(t)) = Components(jan1)
        /\ SinceMidnight(estz, FirstOfYearAt(t)) = 0
    BY <1>3, <1>4, <1>5
  <1> DEFINE nextMonth == DayNumber(AddMonths(Components(first), 1))
             nextYear == DayNumber(AddYears(Components(jan1), 1))
  <1>7. nextMonth \in Int /\ nextYear \in Int
    <2>1. Components(first) \in Date /\ Components(jan1) \in Date
      BY <1>3, ComponentsIsDate
    <2>2. AddMonths(Components(first), 1) \in Date /\ AddYears(Components(jan1), 1) \in Date
      BY <2>1, LaterDates
    <2> QED
      BY <2>2, DayNumberIsInt
  <1>8. /\ AddMonthsTo(estz, FirstOfMonth(t), 1) = FromLocal(estz, nextMonth * Day + 0)
        /\ AddYearsTo(estz, FirstOfYearAt(t), 1) = FromLocal(estz, nextYear * Day + 0)
    BY <1>6, Zenon DEF AddMonthsTo, AddYearsTo, FromLocalDate
  <1>9. day < nextMonth /\ day < nextYear
    BY <1>3
  <1> HIDE DEF nextMonth, nextYear
  <1> QED
    BY <1>4, <1>6, <1>7, <1>8, <1>9
\* Rounding up and down to an interval.
LEMMA EvenTimes ==
  ASSUME NEW x \in Int, NEW i \in Int, i > 0
  PROVE  /\ OnEvenTime(x, i) \in Int /\ x <= OnEvenTime(x, i)
         /\ OnEvenTimeBack(x, i) \in Int /\ OnEvenTimeBack(x, i) <= x
  <1>1. ASSUME NEW z \in Int PROVE (z \div i) * i \in Int /\ (z \div i) * i <= z
    <2>1. z \div i \in Int /\ z % i \in 0 .. i - 1
      BY <1>1
    <2>2. z = (z \div i) * i + (z % i)
      BY <1>1
    <2> DEFINE q == (z \div i) * i
               r == z % i
    <2>3. q \in Int /\ r \in 0 .. i - 1 /\ z = q + r
      BY <2>1, <2>2
    <2> HIDE DEF q, r
    <2>4. q <= z
      BY <2>3
    <2> QED
      BY <2>3, <2>4 DEF q
  <1>2. -x \in Int
    OBVIOUS
  <1> DEFINE up == ((-x) \div i) * i
  <1>3. up \in Int /\ up <= -x
    BY <1>1, <1>2
  <1>4. OnEvenTime(x, i) = -up
    <2>1. (-x) \div i \in Int
      BY <1>2
    <2> QED
      BY <2>1 DEF OnEvenTime
  <1> HIDE DEF up
  <1>5. -up \in Int /\ x <= -up
    BY <1>3
  <1> QED
    BY <1>1, <1>4, <1>5 DEF OnEvenTimeBack

LEMMA AdvancesBy ==
  ASSUME Numbers, Unlatched, NEW s \in Int, AdvanceBySeconds(s), ~Held'
  PROVE  CurrentTime' = CurrentTime + s
  <1>1. CurrentTime \in Int
    BY TimesAreInts
  <1>2. PICK t \in Int : t = CurrentTime + s
    BY <1>1
  <1>3. s = t - CurrentTime
    BY <1>1, <1>2
  <1>4. CurrentTime' = t
    BY <1>3, AdvanceReaches
  <1> QED
    BY <1>2, <1>4

\* To round a time that is more than the gap later, and to stop the gap before
\* it, leads to a later time; and so for earlier ones.
LEMMA IntervalFollows ==
  ASSUME Numbers, estz \in Zones, Unlatched, ~Held', NEW i \in Int, i > 0
  PROVE  /\ AdvanceToNextInterval(i) => CurrentTime' > CurrentTime
         /\ AdvanceToPrevInterval(i) => CurrentTime' < CurrentTime
  <1>1. PICK local \in Int : local = LocalTime(estz, CurrentTime)
    BY TimesAreInts, LocalIsTyped
  <1>2. /\ warp \in Int /\ Gap \in Int /\ Gap > 0 /\ CurrentTime \in Int
        /\ i \div 2 \in Int /\ i \div 2 >= 0
    BY TimesAreInts, WatchConstants DEF Numbers
  <1>3. PICK a \in Int, b \in Int, o \in Int :
          /\ a = PreAdvanceForNext(local, i) /\ b = PreAdvanceForPrev(local, i)
          /\ o = OffsetAfterJump
          /\ a + o > local /\ b + o < local
    <2>1. CASE warp >= 0
      BY <1>2, <2>1 DEF PreAdvanceForNext, PreAdvanceForPrev, OffsetAfterJump
    <2>2. CASE ~(warp >= 0)
      BY <1>2, <2>2 DEF PreAdvanceForNext, PreAdvanceForPrev, OffsetAfterJump
    <2> QED
      BY <2>1, <2>2
  <1>4. PICK up \in Int, down \in Int :
          up = OnEvenTime(a, i) /\ down = OnEvenTimeBack(b, i) /\ a <= up /\ down <= b
    BY EvenTimes
  <1>5. PICK next \in Int, previous \in Int :
          next = up + o - local /\ previous = down + o - local /\ next > 0 /\ previous < 0
    BY <1>3, <1>4
  <1>6. /\ AdvanceToNextInterval(i) = AdvanceBySeconds(next)
        /\ AdvanceToPrevInterval(i) = AdvanceBySeconds(previous)
    BY <1>1, <1>3, <1>4, <1>5, Zenon DEF AdvanceToNextInterval, AdvanceToPrevInterval
  <1>7. AdvanceToNextInterval(i) => CurrentTime' = CurrentTime + next
    BY <1>6, AdvancesBy
  <1>8. AdvanceToPrevInterval(i) => CurrentTime' = CurrentTime + previous
    BY <1>6, AdvancesBy
  <1> QED
    BY <1>2, <1>5, <1>7, <1>8

\* The same for the firsts of months and years.
LEMMA FirstFollows ==
  ASSUME Numbers, estz \in Zones, Unlatched, ~Held'
  PROVE  /\ AdvanceToNextMonth \/ AdvanceToNextYear => CurrentTime' > CurrentTime
         /\ AdvanceToPrevMonth => CurrentTime' < CurrentTime
  <1>1. /\ warp \in Int /\ Gap \in Int /\ Gap > 0 /\ CurrentTime \in Int
        /\ FifteenDays \div 2 \in Int /\ FifteenDays \div 2 > 0
    BY TimesAreInts, WatchConstants, Constants DEF Numbers, FifteenDays
  <1>2. PICK a \in Int, b \in Int, o \in Int :
          /\ a = PreAdvanceForNext(CurrentTime, FifteenDays)
          /\ b = PreAdvanceForPrev(CurrentTime, FifteenDays)
          /\ o = OffsetAfterJump
          /\ a + o > CurrentTime /\ b + o < CurrentTime
    <2>1. CASE warp >= 0
      BY <1>1, <2>1 DEF PreAdvanceForNext, PreAdvanceForPrev, OffsetAfterJump
    <2>2. CASE ~(warp >= 0)
      BY <1>1, <2>2 DEF PreAdvanceForNext, PreAdvanceForPrev, OffsetAfterJump
    <2> QED
      BY <2>1, <2>2
  <1>3. ASSUME NEW t \in Int, AdvanceTo(t) PROVE CurrentTime' = t + o
    <2>1. PICK s \in Int : s = t - CurrentTime + o
      BY <1>1
    <2>2. AdvanceBySeconds(s)
      BY <1>2, <1>3, <2>1 DEF AdvanceTo
    <2>3. CurrentTime' = CurrentTime + s
      BY <2>2, AdvancesBy
    <2> QED
      BY <1>1, <2>1, <2>3
  <1>4. /\ FirstOfMonth(b) \in Int /\ FirstOfMonth(b) <= b
        /\ AddMonthsTo(estz, FirstOfMonth(a), 1) \in Int
        /\ a < AddMonthsTo(estz, FirstOfMonth(a), 1)
        /\ AddYearsTo(estz, FirstOfYearAt(a), 1) \in Int
        /\ a < AddYearsTo(estz, FirstOfYearAt(a), 1)
    <2>1. FirstOfMonth(a) \in Int /\ FirstOfYearAt(a) \in Int /\ FirstOfMonth(b) \in Int
      BY Firsts
    <2>2. /\ AddMonthsTo(estz, FirstOfMonth(a), 1) \in Int
          /\ AddYearsTo(estz, FirstOfYearAt(a), 1) \in Int
      BY <2>1, LaterTimes
    <2> QED
      BY <2>1, <2>2, PointsAround
  <1>5. ASSUME AdvanceToNextMonth PROVE CurrentTime' > CurrentTime
    <2>1. AdvanceTo(AddMonthsTo(estz, FirstOfMonth(a), 1))
      BY <1>2, <1>5 DEF AdvanceToNextMonth
    <2> QED
      BY <1>1, <1>2, <1>3, <1>4, <2>1
  <1>6. ASSUME AdvanceToNextYear PROVE CurrentTime' > CurrentTime
    <2>1. AdvanceTo(AddYearsTo(estz, FirstOfYearAt(a), 1))
      BY <1>2, <1>6 DEF AdvanceToNextYear
    <2> QED
      BY <1>1, <1>2, <1>3, <1>4, <2>1
  <1>7. ASSUME AdvanceToPrevMonth PROVE CurrentTime' < CurrentTime
    <2>1. AdvanceTo(FirstOfMonth(b))
      BY <1>2, <1>7 DEF AdvanceToPrevMonth
    <2> QED
      BY <1>1, <1>2, <1>3, <1>4, <2>1
  <1> QED
    BY <1>5, <1>6, <1>7

\* advanceToNextUsingEnv and advanceToPreviousUsingEnv: for any zones, speeds
\* and times a watch that is set to the next point shows a later time, and one
\* that is set to the previous point an earlier one, however often, over changes
\* of the clocks, of the calendar and of the era; but for the previous year.
THEOREM EveryPointFollows == Spec => PointsFollow
  <1>1. ASSUME WatchInv, Unlatched, ~Held'
        PROVE  /\ AdvanceToNext => CurrentTime' > CurrentTime
               /\ AdvanceToPrevious /\ cycle \notin YearCycles => CurrentTime' < CurrentTime
    <2>1. Numbers /\ estz \in Zones
      BY <1>1 DEF WatchInv
    <2>2. /\ Hour \in Int /\ Hour > 0 /\ Minute \in Int /\ Minute > 0 /\ Day \in Int /\ Day > 0
      BY Constants, WatchConstants
    <2>3. \A i \in {1, Hour, Minute, Day} :
            /\ AdvanceToNextInterval(i) => CurrentTime' > CurrentTime
            /\ AdvanceToPrevInterval(i) => CurrentTime' < CurrentTime
      BY <1>1, <2>1, <2>2, IntervalFollows
    <2>4. ASSUME AdvanceToNext PROVE CurrentTime' > CurrentTime
      <3>1. \/ AdvanceToNextYear \/ AdvanceToNextMonth
            \/ \E i \in {1, Hour, Minute, Day} : AdvanceToNextInterval(i)
        BY <2>4 DEF AdvanceToNext
      <3> QED
        BY <1>1, <2>1, <2>3, <3>1, FirstFollows
    <2>5. ASSUME AdvanceToPrevious, cycle \notin YearCycles PROVE CurrentTime' < CurrentTime
      <3>1. \/ AdvanceToPrevMonth
            \/ \E i \in {1, Hour, Minute, Day} : AdvanceToPrevInterval(i)
        BY <2>5 DEF AdvanceToPrevious
      <3> QED
        BY <1>1, <2>1, <2>3, <3>1, FirstFollows
    <2> QED
      BY <2>4, <2>5
  <1>2. WatchInv =>
          [Unlatched /\ warp' = warp /\ ~ Held' =>
             /\ AdvanceToNext => CurrentTime' > CurrentTime
             /\ AdvanceToPrevious /\ cycle \notin YearCycles => CurrentTime' < CurrentTime]_vars
    BY <1>1
  <1> QED
    BY <1>2, WatchInvAlways, PTL DEF PointsFollow

===============================================================================
