---------------------------- MODULE TimeEnvironment ----------------------------
(***************************************************************************)
(* A time zone and the cache of its midnights (ESTimeEnvironment.cpp,      *)
(* ESCalendar_simpleTZ.cpp).  Times are in ticks of a second.  The days    *)
(* and hours are shorter than real ones, in an instance, but as seen from  *)
(* a second: an hour has more than the few seconds that the code adds.     *)
(***************************************************************************)
EXTENDS Calendar, FiniteSets

CONSTANTS
  Hour, Day,        \* in ticks
  CacheSpan,        \* ECMidnightCacheSpan
  CachePreload,     \* ECMidnightCachePreload
  Zones             \* each with its offset and the times at which it changes

ASSUME DayAssumption ==
  /\ Hour \in Nat \ {0, 1, 2} /\ Day \in Nat /\ Day % Hour = 0 /\ 2 * (Hour + 2) < Day
  /\ CacheSpan \in Nat /\ CachePreload \in Nat
  /\ Day <= CachePreload /\ CachePreload + 2 * Day <= CacheSpan

\* The clocks are set an hour forward from the standard time of the zone or back to
\* it, at least a cache's span after they were set before, and never near a midnight.
\* A change at time 0 could not be told from none.
ASSUME ZoneAssumption ==
  \A zone \in Zones :
    /\ zone.raw \in 1 - Day .. Day - Hour - 1
    /\ IsFiniteSet(zone.changes)
    /\ \A c \in zone.changes :
         /\ c.at \in Int /\ c.at # 0 /\ c.offset \in zone.raw .. zone.raw + Hour
         /\ \A d \in zone.changes \ {c} : d.at < c.at \/ d.at > c.at + CacheSpan + Day
         /\ (c.at + zone.raw) % Day \in Hour .. Day - 2 * Hour - 1

FarInThePast == -1000000
FarInTheFuture == 1000000
NoAnswer == [time |-> FarInThePast, midnight |-> FarInThePast]

VARIABLES
  estz,          \* _estz
  midnightBase,  \* _cacheMidnightBase
  dstEvent,      \* _cacheDSTEvent
  dstDelta,      \* _cacheDSTDelta
  answer         \* the last answer of midnightForTimeInterval

cacheVars == <<midnightBase, dstEvent, dstDelta>>
envVars == <<estz, cacheVars, answer>>

-----------------------------------------------------------------------------
(* The zone: a library of the system. *)

LatestChange(zone, t) ==
  CHOOSE c \in zone.changes : c.at <= t /\ \A d \in zone.changes : d.at <= t => d.at <= c.at

\* offsetFromUTCForTime.
Offset(zone, t) ==
  IF \E c \in zone.changes : c.at <= t THEN LatestChange(zone, t).offset ELSE zone.raw

\* nextDSTChangeAfterTime; 0 if there is none.
NextDSTChange(zone, t) ==
  LET later == {c.at : c \in {d \in zone.changes : d.at > t}}
  IN IF later = {} THEN 0 ELSE CHOOSE a \in later : \A b \in later : a <= b

-----------------------------------------------------------------------------
(* Local times. *)

LocalTime(zone, t) == t + Offset(zone, t)

\* ESCalendar_localComponentsFromTimeInterval, the date and what follows it.
LocalDate(zone, t) == Components(LocalTime(zone, t) \div Day)
SinceMidnight(zone, t) == LocalTime(zone, t) % Day

\* ESCalendar_timeIntervalFromLocalComponents.
FromLocal(zone, local) ==
  LET tryUTC == local - Offset(zone, local)
  IN IF Offset(zone, tryUTC) = Offset(zone, local) THEN tryUTC
     ELSE local - Offset(zone, tryUTC)

\* A local time that the clocks are set forward over.
Skipped(zone, local) ==
  \E c \in zone.changes :
    LET before == Offset(zone, c.at - 1)
    IN c.at + before <= local /\ local < c.at + c.offset

FromLocalDate(zone, date, sinceMidnight) ==
  FromLocal(zone, DayNumber(date) * Day + sinceMidnight)

\* ESCalendar_addMonthsToTimeInterval and ESCalendar_addYearsToTimeInterval.
AddMonthsTo(zone, t, n) ==
  FromLocalDate(zone, AddMonths(LocalDate(zone, t), n), SinceMidnight(zone, t))
AddYearsTo(zone, t, n) ==
  FromLocalDate(zone, AddYears(LocalDate(zone, t), n), SinceMidnight(zone, t))

\* A difference of two times of day, when it is known to be less than half a
\* day.
Nearest(difference) ==
  CASE difference > Day \div 2 -> difference - Day
    [] difference < - (Day \div 2) -> difference + Day
    [] OTHER -> difference

\* Mutant of AddDaysTo: a day has as many seconds as any other.
AddDaysTo_AnyDay(zone, t, days) == t + days * Day

\* ESCalendar_addDaysToTimeInterval.
AddDaysTo(zone, t, days) ==
  LET later == t + days * Day
  IN later - Nearest(SinceMidnight(zone, later) - SinceMidnight(zone, t))

-----------------------------------------------------------------------------
(* The cache. *)

\* One second past the midnight that the cache begins with.
FirstMidnight(zone, t) ==
  FromLocalDate(zone, LocalDate(zone, t - CachePreload), 1)

\* What the clocks are set forward by.
ShiftAt(zone, event) ==
  Nearest(SinceMidnight(zone, event + 1) - SinceMidnight(zone, event - 1)) - 2

IsCached(t) == midnightBase < t /\ t < midnightBase + CacheSpan

\* The first half of midnightForTimeInterval.
LoadCache(t) ==
  IF IsCached(t) THEN UNCHANGED cacheVars
  ELSE LET first == FirstMidnight(estz, t)
           next  == NextDSTChange(estz, first)
       IN /\ midnightBase' = first - 1
          /\ dstEvent' = IF next = 0 THEN FarInTheFuture ELSE next
          /\ dstDelta' = IF next # 0 /\ next <= midnightBase' + CacheSpan
                         THEN ShiftAt(estz, next) ELSE 0

\* The second half: the midnight that fits the zone's clock at t.
MidnightBy(base, event, delta, t) ==
  t - ((t - (IF t < event THEN base ELSE base - delta)) % Day)

\* midnightForTimeInterval.
MidnightForTimeInterval(t) ==
  /\ LoadCache(t)
  /\ answer' = [time |-> t, midnight |-> MidnightBy(midnightBase', dstEvent', dstDelta', t)]

\* Mutant of ClearCache: the cache of the old zone is kept.
ClearCache_Keep == UNCHANGED cacheVars

\* clearCache.
ClearCache ==
  /\ midnightBase' = FarInThePast
  /\ UNCHANGED <<dstEvent, dstDelta>>

\* setTimeZone, for a zone of the application, with handleNewTimeZone.
SetTimeZone(zone) ==
  /\ estz' = zone
  /\ ClearCache
  /\ answer' = NoAnswer

EnvInit ==
  /\ estz \in Zones
  /\ midnightBase = FarInThePast /\ dstEvent = FarInTheFuture /\ dstDelta = 0
  /\ answer = NoAnswer

-----------------------------------------------------------------------------
(* Properties. *)

\* The time since the midnight that the cache answers is the time of day of
\* the zone, before and after a change, whatever was asked before.
HandsAreRight ==
  answer # NoAnswer =>
    answer.time - answer.midnight = SinceMidnight(estz, answer.time)
=============================================================================
