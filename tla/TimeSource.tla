------------------------------ MODULE TimeSource ------------------------------
(***************************************************************************)
(* The time that ESTime shows (ESTime.cpp, ESTimeInl.hpp): the skew of the *)
(* best time source on top of the continuous clock, adjusted for the next  *)
(* leap second; how a driver's report makes ESTime choose the source, look *)
(* up the leap second and tell the observers, each in its own thread; and  *)
(* what a client measures with the result.                                 *)
(*                                                                         *)
(* The continuous clock counts seconds as they pass (`now').  UTC counts   *)
(* them without the inserted ones: a right skew is minus the seconds that  *)
(* have been inserted.                                                     *)
(***************************************************************************)
EXTENDS LeapTable, Sequences, FiniteSets

CONSTANTS
  Second,    \* a second, in ticks of the clock
  Hold,      \* ESLeapSecondHoldShortInterval
  MaxTime,   \* bound: the clock stops here
  Accurate,  \* the error of a synchronization
  Unknown,   \* 1e9
  NTPStatuses, \* the statuses of the NTP driver to look at
  Observers, \* the registered observers, in their order
  Direct,    \* those without a thread of their own
  MaxInbox   \* bound: calls on their way to an observer

ASSUME ClockAssumption ==
  /\ Second \in Nat \ {0} /\ Hold \in Nat \ {0} /\ Hold < Second /\ MaxTime \in Nat
  /\ Accurate \in Nat /\ Unknown \in Nat /\ Accurate < Unknown
  /\ MaxTime + Second < Never

\* The clock starts before the leap seconds of the table, which are further apart
\* than the moment that is held before midnight.
ASSUME SpacingAssumption ==
  /\ \A i \in Entries : 0 <= Begins[i]
  /\ \A i, j \in Entries : i < j => Begins[i] + Hold < Begins[j]

Drivers == {"NTP", "XGPS150"}
ObserverSet == {Observers[i] : i \in DOMAIN Observers}

ASSUME ObserversAssumption == Observers \in Seq(ObserverSet)

VARIABLES
  now,           \* currentContinuousSystemTime
  bestDriver,    \* _bestDriver
  contSkew,      \* of the drivers
  timeError,     \* _currentTimeError of the drivers
  status,        \* of the drivers
  nextLeapDate,  \* _nextLeapSecondDate
  nextLeapDelta, \* _nextLeapSecondDelta
  todo,          \* what is left of the report in each driver's thread
  inbox,         \* calls on their way to an observer's thread
  seen,          \* what an observer has last read
  mark,          \* when a client has last looked at the time, and what it read
  lookUp         \* history: when the leap data were last looked up

reportVars == <<bestDriver, contSkew, timeError, status, nextLeapDate, nextLeapDelta, todo>>
vars == <<now, reportVars, inbox, seen, mark, lookUp>>

-----------------------------------------------------------------------------
(* UTC, and what a synchronization finds. *)

\* The second inserted by entry i passes from here to a second later.
LeapStart(i) == Begins[i] + i * Second
LeapEnd(i) == LeapStart(i) + Second

DuringLeap(i) == now \in LeapStart(i) .. LeapEnd(i)

\* The inserted seconds that have passed.
Inserted == Cardinality({i \in Entries : LeapEnd(i) < now})

\* UTC, with the digits going on to :60 during an inserted second.
DigitalUTC == now - Second * Inserted

\* A server shows UTC; during an inserted second it may or may not have set
\* its clock back already.
MeasuredSkews ==
  {- Second * Inserted}
    \cup {- Second * (Inserted + 1) : i \in {j \in Entries : DuringLeap(j)}}

-----------------------------------------------------------------------------
(* What ESTime shows. *)

Raw == now + contSkew[bestDriver]

\* Mutant of AdjustForLeapSecond: it does not hold.
AdjustForLeapSecond_NoHold(raw) ==
  IF raw < nextLeapDate THEN raw ELSE raw - nextLeapDelta

\* adjustForLeapSecond: hold short of midnight, then go back.
AdjustForLeapSecond(raw) ==
  CASE raw < nextLeapDate -> raw
    [] raw > nextLeapDate + nextLeapDelta -> raw - nextLeapDelta
    [] OTHER -> nextLeapDate - Hold

CurrentTime == AdjustForLeapSecond(Raw)

\* adjustForLeapSecondWithLiveCorrection: the live correction goes from 0, the
\* second before, to 2 after the leap second.
LiveTime ==
  LET timeSinceStart == Raw - nextLeapDate
  IN CASE timeSinceStart < -Second ->
            [utc |-> Raw, correction |-> 0]
       [] timeSinceStart > nextLeapDelta ->
            [utc |-> Raw - nextLeapDelta, correction |-> 0]
       [] OTHER ->
            [utc |-> IF timeSinceStart > 0 THEN nextLeapDate - Hold ELSE Raw,
             correction |-> timeSinceStart + Hold + Second]

\* What a correction adds to the seconds: nothing in the second before.
Digits(correction) == IF correction > Second THEN correction - Second ELSE 0

\* Mutant of IntervalBetween: a start during a leap second is not corrected.
IntervalBetween_FromHold(first, second) ==
  second.utc - first.utc
    + Second * LeapSecondsDuringInterval(first.utc, second.utc)
    + Digits(second.correction)

\* intervalBetweenUTCValuesWithLiveLeapCorrections.
IntervalBetween(first, second) ==
  second.utc - first.utc
    + Second * LeapSecondsDuringInterval(first.utc, second.utc)
    - Digits(first.correction) + Digits(second.correction)

-----------------------------------------------------------------------------
(* Reports. *)

\* statusIsUsable: not while polling without having synchronized, and not
\* while polling again with a refining value.
UsableStatuses ==
  {"Synchronized", "PollingSynchronized", "FailedSynchronized", "NoNetSynchronized",
   "Refining", "FailedRefining", "NoNetRefining"}

\* Mutant of Better: the status is not looked at.
Better_AnyStatus(errors, statuses) == {d \in Drivers : errors[d] < errors[bestDriver]}

\* The drivers that recheckForBestDriver prefers to the best one.
Better(errors, statuses) ==
  {d \in Drivers \ {bestDriver} :
     /\ statuses[d] \in UsableStatuses
     /\ \/ statuses[bestDriver] \notin UsableStatuses
        \/ errors[d] < errors[bestDriver]}

\* recheckForBestDriver, with the errors and statuses as reported.
BestOf(errors, statuses) ==
  LET better == Better(errors, statuses)
  IN IF better = {} THEN bestDriver
     ELSE CHOOSE d \in better : \A e \in better : errors[d] <= errors[e]

\* Mutant of Calls: the last observer is left out.
Calls_NotLast(kind) == [i \in 1 .. Len(Observers) - 1 |-> <<kind, Observers[i]>>]

\* The loops over the observers.
Calls(kind) == [i \in 1 .. Len(Observers) |-> <<kind, Observers[i]>>]

\* syncValueReallyChanged and syncStatusReallyChanged.
ValueReallyChanged == <<<<"leap">>>> \o Calls("value")
StatusReallyChanged == Calls("status")

\* syncValueChangedByDriver and syncStatusChangedByDriver.
ChangedByDriver(d, change) ==
  LET best == BestOf(timeError', status')
  IN /\ bestDriver' = best
     /\ todo' = [todo EXCEPT ![d] =
          CASE best # bestDriver -> ValueReallyChanged \o StatusReallyChanged
            [] best = bestDriver /\ d = best -> change
            [] OTHER -> <<>>]

AtRest(d) == todo[d] = <<>>

\* ESTimeSourceDriver::setContSkew, for a value that is new.
SetContSkew(d, skew, error) ==
  /\ AtRest(d)
  /\ skew # contSkew[d] \/ error # timeError[d]
  /\ contSkew' = [contSkew EXCEPT ![d] = skew]
  /\ timeError' = [timeError EXCEPT ![d] = error]
  /\ UNCHANGED <<now, status, nextLeapDate, nextLeapDelta, inbox, seen, mark,
                 lookUp>>
  /\ ChangedByDriver(d, ValueReallyChanged)

\* A packet is accepted.
Synchronize ==
  \E skew \in MeasuredSkews : SetContSkew("NTP", skew, Accurate)

\* startSyncing no longer vouches for the value that it keeps.
StartSyncing ==
  SetContSkew("NTP", contSkew["NTP"], Unknown)

\* ESTimeSourceDriver::setStatus.
SetStatus(d, newStatus) ==
  /\ AtRest(d)
  /\ newStatus # status[d] /\ status' = [status EXCEPT ![d] = newStatus]
  /\ UNCHANGED <<now, contSkew, timeError, nextLeapDate, nextLeapDelta, inbox, seen, mark,
                 lookUp>>
  /\ ChangedByDriver(d, StatusReallyChanged)

NTPStatus == \E s \in NTPStatuses : SetStatus("NTP", s)

\* The GPS device is disconnected: its driver has never synchronized.
XGPSStatus == SetStatus("XGPS150", "FailedUnsynchronized")

\* A leap second passes, or the skew is from before it: "during"; it has
\* passed less than a second ago: "after".
Moment ==
  IF (\E i \in Entries : DuringLeap(i)) \/ contSkew[bestDriver] # - Second * Inserted
  THEN "during"
  ELSE IF \E i \in Entries : now \in LeapEnd(i) .. LeapEnd(i) + Second THEN "after"
  ELSE "clear"

\* setupNextLeapSecondData: the present time is still adjusted for the old one.
SetupNextLeapSecondData(d) ==
  /\ ~AtRest(d) /\ Head(todo[d]) = <<"leap">>
  /\ nextLeapDate' = NextLeapSecondAfter(CurrentTime)
  /\ nextLeapDelta' = IF nextLeapDate' = Never THEN 0 ELSE Second
  /\ todo' = [todo EXCEPT ![d] = Tail(@)]
  /\ lookUp' = Moment
  /\ UNCHANGED <<now, bestDriver, contSkew, timeError, status, inbox, seen, mark>>

\* What an observer reads when it is told of a change.
Reading(o, kind) ==
  IF kind = "value"
  THEN [seen[o] EXCEPT !.skew = contSkew[bestDriver], !.error = timeError[bestDriver]]
  ELSE [seen[o] EXCEPT !.status = status[bestDriver]]

\* callSyncValueChanged and callSyncStatusChanged: in the observer's thread,
\* or at once.
CallObserver(d) ==
  /\ ~AtRest(d) /\ Head(todo[d]) # <<"leap">>
  /\ LET kind == Head(todo[d])[1]
         o    == Head(todo[d])[2]
     IN IF o \in Direct
        THEN /\ seen' = [seen EXCEPT ![o] = Reading(o, kind)]
             /\ UNCHANGED inbox
        ELSE /\ Len(inbox[o]) < MaxInbox
             /\ inbox' = [inbox EXCEPT ![o] = Append(@, kind)]
             /\ UNCHANGED seen
  /\ todo' = [todo EXCEPT ![d] = Tail(@)]
  /\ UNCHANGED <<now, bestDriver, contSkew, timeError, status, nextLeapDate, nextLeapDelta,
                 mark, lookUp>>

\* syncValueGlue and syncStatusGlue.
ObserverIsCalled(o) ==
  /\ inbox[o] # <<>>
  /\ seen' = [seen EXCEPT ![o] = Reading(o, Head(inbox[o]))]
  /\ inbox' = [inbox EXCEPT ![o] = Tail(@)]
  /\ UNCHANGED <<now, reportVars, mark, lookUp>>

-----------------------------------------------------------------------------
(* Time passes, and a client looks at it. *)

\* What ESTime vouches for: the error of a synchronization that is reported
\* in full.
Vouched == timeError[bestDriver] < Unknown /\ \A d \in Drivers : AtRest(d)

\* The leap second after the one that is known has begun, half a year without
\* any report.
Outdated == \E i \in Entries : nextLeapDate < Begins[i] /\ LeapStart(i) <= now

\* A time that can be relied on: not if the leap data have not been looked up
\* since the program's start, or at a leap second.
Reliable == Vouched /\ ~Outdated /\ lookUp = "clear"

Tick ==
  /\ now < MaxTime /\ now' = now + 1
  /\ UNCHANGED <<reportVars, inbox, seen, mark, lookUp>>

Look ==
  /\ Reliable
  /\ mark' = [at |-> now, read |-> LiveTime]
  /\ UNCHANGED <<now, reportVars, inbox, seen, lookUp>>

\* init: the first driver made is the best; both have read the same
\* preferences, which hold if the clock still runs, and no leap second is known
\* yet.
Init ==
  /\ now = 0
  /\ bestDriver = "NTP"
  /\ contSkew = [d \in Drivers |-> 0]
  /\ \E error \in {Accurate, Unknown} : timeError = [d \in Drivers |-> error]
  /\ status = [d \in Drivers |-> "Off"]
  /\ nextLeapDate = Never /\ nextLeapDelta = 0
  /\ todo = [d \in Drivers |-> <<>>]
  /\ inbox = [o \in ObserverSet |-> <<>>]
  /\ seen = [o \in ObserverSet |-> [skew |-> 0, error |-> timeError[bestDriver], status |-> "Off"]]
  /\ mark = [at |-> 0, read |-> [utc |-> 0, correction |-> 0]]
  /\ lookUp = "never"

Next ==
  \/ Synchronize \/ StartSyncing \/ NTPStatus \/ XGPSStatus
  \/ \E d \in Drivers : SetupNextLeapSecondData(d) \/ CallObserver(d)
  \/ \E o \in ObserverSet : ObserverIsCalled(o)
  \/ Tick \/ Look

Spec == Init /\ [][Next]_vars

-----------------------------------------------------------------------------
(* Properties. *)

Within(a, b, tolerance) == a - b <= tolerance /\ b - a <= tolerance

ShowsUTC ==
  /\ Within(LiveTime.utc + Digits(LiveTime.correction), DigitalUTC, Hold)
  /\ IF \E i \in Entries : DuringLeap(i)
     THEN \E i \in Entries : DuringLeap(i) /\ CurrentTime = Begins[i] - Hold
     ELSE CurrentTime = DigitalUTC

\* "currentTime() incorporates leap seconds, and holds at 59.99999"
\* (specs/leapSeconds.txt), and the live correction shows the digits: through
\* leap seconds, reports and the change of the leap data they bring, whatever
\* is vouched for is UTC.
ShowsTrueTime == Reliable => ShowsUTC

\* The same also when the leap data were looked up, with a right skew, in the
\* second after a leap second.
AlwaysShowsTrueTime ==
  Vouched /\ ~Outdated /\ lookUp \in {"after", "clear"} => ShowsUTC

\* A client that looks at the time twice, before, during or after leap
\* seconds, with any reports in between, computes the time that has passed, to
\* within the moment that is held.
ElapsedIsTrue ==
  Reliable => Within(IntervalBetween(mark.read, LiveTime), now - mark.at, Hold)

\* No change gets lost on its way: once every call is made, each observer has
\* seen what ESTime shows.
ObserversCatchUp ==
  (\A d \in Drivers : AtRest(d)) =>
    \A o \in ObserverSet : inbox[o] = <<>> =>
      seen[o] = [skew |-> contSkew[bestDriver], error |-> timeError[bestDriver],
                 status |-> status[bestDriver]]

\* A source that has never synchronized is never preferred to another one,
\* however small the error it has read from the preferences.
BestIsUsable ==
  bestDriver # "NTP" => status[bestDriver] \in UsableStatuses
=============================================================================
