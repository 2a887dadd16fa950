---------------------------- MODULE SystemTimeBase ----------------------------
(***************************************************************************)
(* The time base under ESTime (ESSystemTimeBase_*.cpp), the skew a time    *)
(* source driver keeps on top of it (ESTimeSourceDriver.cpp), and what of  *)
(* both survives the process in the preferences.                           *)
(*                                                                         *)
(* All clocks are modelled by their error: the system clock is `system'    *)
(* ahead of the true time, the alternative clock `alt' ahead.  Time itself *)
(* then need not pass: a clock that runs keeps its error, one that stops   *)
(* falls back.  A driver's skew is right when it cancels the error of the  *)
(* continuous clock.                                                       *)
(***************************************************************************)
EXTENDS Integers

CONSTANTS
  Builds,      \* the time bases to look at: "single", "iOS", "dual", "triple"
  Errors,      \* errors of the system clock
  MaxBootTime, \* ES_MAX_BOOT_TIME
  RebootGap,   \* how far CLOCK_BOOTTIME falls back at a reboot
  SleepGap,    \* how far a media clock falls back while the device sleeps
  MinAlt,      \* bound: the alternative clock falls back no further
  MaxOffset,   \* bound: the system clock is not set further off than this
  NoBootTime,  \* a boot time that is none: the preference has never been set
  Accurate,    \* the error of a successful synchronization
  Unknown      \* 1e9, the error of a skew nothing is known about

AllBuilds == {"single", "iOS", "dual", "triple"}

\* The boot time is longer than any two errors differ and a slew together:
\* otherwise a reboot cannot be told from a change of the system clock.
ASSUME ClocksAssumption ==
  /\ Builds \subseteq AllBuilds
  /\ Errors \subseteq Int /\ MinAlt \in Int /\ MinAlt <= 0
  /\ SleepGap \in Nat /\ RebootGap \in Nat
  /\ MaxBootTime \in Nat /\ NoBootTime \in Int /\ MaxOffset \in Nat
  /\ \A s, t \in Errors : t - s + MaxBootTime <= RebootGap
  /\ \A s \in Errors : \A a \in MinAlt .. 0 :
       s - a - NoBootTime >= MaxBootTime \/ NoBootTime - (s - a) >= MaxBootTime
ASSUME ClaimAssumption ==
  Accurate \in Nat \ {0} /\ Unknown \in Nat /\ Accurate < Unknown

VARIABLES
  build,               \* which of the files is compiled
  \* the device
  system,              \* error of the system clock
  alt,                 \* error of CLOCK_BOOTTIME, or of the media clock
  awake,               \* the device is awake
  changePending,       \* a significant time change the process has not seen
  \* the process
  running,             \* there is a process
  firstTime,           \* wakingUp's static
  usingAlt,            \* _usingAltTime
  continuousOffset,    \* _continuousOffset
  continuousAltOffset, \* _continuousAltOffset
  \* its driver
  contSkew,            \* _contSkew
  currentTimeError,    \* _currentTimeError
  resetQueued,         \* a resync(false) is on its way to the driver's thread
  \* the preferences
  prefs,
  \* history
  told,                \* error of the continuous clock when a reset last told of it
  deltasCurrent        \* the stored contSkew is of the present continuous clock

deviceVars == <<system, alt, awake>>
baseVars   == <<firstTime, usingAlt, continuousOffset, continuousAltOffset>>
driverVars == <<contSkew, currentTimeError>>

vars == <<build, deviceVars, changePending, running, baseVars, driverVars,
          resetQueued, prefs, told, deltasCurrent>>

\* The driver's three preferences, and the two of the triple base.
Prefs == [timeSkew : Int, timeSkewAccuracy : 0 .. Unknown, contSkew : Int,
          bootTime : Int, contAltOff : Int]

\* systemTime - systemAltTime.  _altOffset is latched, but never read before
\* it is computed anew.
AltOffset == system - alt

\* currentContinuousSystemTime: "based on media time while awake and NSDate
\* while asleep", on boot time, or the system time itself.
Continuous ==
  CASE build = "triple" -> alt + continuousAltOffset
    [] build = "dual"   -> IF usingAlt THEN alt + continuousAltOffset
                           ELSE system + continuousOffset
    [] OTHER            -> system

-----------------------------------------------------------------------------
(* The process starts. *)

Init ==
  /\ build \in Builds
  /\ system \in Errors /\ alt = 0 /\ awake = TRUE
  /\ prefs = [timeSkew |-> 0, timeSkewAccuracy |-> 0, contSkew |-> 0,
              bootTime |-> NoBootTime, contAltOff |-> 0]
  /\ running = FALSE /\ changePending = FALSE /\ resetQueued = FALSE
  /\ firstTime = TRUE /\ usingAlt = FALSE
  /\ continuousOffset = 0 /\ continuousAltOffset = 0
  /\ contSkew = 0 /\ currentTimeError = Unknown /\ told = 0
  /\ deltasCurrent = FALSE

Near(a, b) == a - b < MaxBootTime /\ b - a < MaxBootTime

\* Mutant of StableAtStart: the boot time is not looked at.
StableAtStart_Always == build = "triple" /\ prefs.bootTime # NoBootTime

\* Has the device not been booted since the preferences were written?
StableAtStart == build = "triple" /\ Near(AltOffset, prefs.bootTime)

\* init of the triple base: continue the stored clock, or start at the system
\* time and store how.
InitTripleBase ==
  /\ usingAlt' = TRUE
  /\ IF StableAtStart
     THEN /\ continuousAltOffset' = prefs.contAltOff
          /\ UNCHANGED <<prefs, deltasCurrent>>
     ELSE /\ continuousAltOffset' = AltOffset
          /\ prefs' = [prefs EXCEPT !.contAltOff = AltOffset, !.bootTime = AltOffset]
          /\ deltasCurrent' = FALSE
  /\ continuousOffset' = continuousAltOffset' - AltOffset

\* initCommonDualBase: presume we are awake.
InitDualBase ==
  /\ usingAlt' = TRUE
  /\ continuousOffset' = 0 /\ continuousAltOffset' = AltOffset
  /\ deltasCurrent' = FALSE
  /\ UNCHANGED prefs

\* init where the system time is the continuous time.
InitSystemBase ==
  /\ usingAlt' = FALSE
  /\ continuousOffset' = 0 /\ continuousAltOffset' = 0
  /\ deltasCurrent' = FALSE
  /\ UNCHANGED prefs

\* The constructor of the driver.
NewDriver ==
  /\ contSkew' = CASE build = "single" -> 0
                   [] StableAtStart    -> prefs.contSkew
                   [] OTHER            -> prefs.timeSkew - continuousOffset'
  /\ currentTimeError' = IF StableAtStart /\ prefs.timeSkewAccuracy # 0
                         THEN prefs.timeSkewAccuracy ELSE Unknown

\* startOfMain and init.  The operating system announces the launch as a
\* wake-up where wakingUp expects that (firstTime).
Launch ==
  /\ ~running /\ awake
  /\ running' = TRUE
  /\ CASE build = "triple" -> InitTripleBase
       [] build = "dual"   -> InitDualBase
       [] OTHER            -> InitSystemBase
  /\ firstTime' = (build \in {"dual", "iOS"})
  /\ NewDriver
  /\ UNCHANGED <<build, deviceVars, changePending, resetQueued>>
  /\ told' = Continuous'

\* The process is killed, or crashes.
Kill ==
  /\ running
  /\ running' = FALSE /\ changePending' = FALSE /\ resetQueued' = FALSE
  /\ firstTime' = TRUE /\ usingAlt' = FALSE
  /\ continuousOffset' = 0 /\ continuousAltOffset' = 0
  /\ contSkew' = 0 /\ currentTimeError' = Unknown /\ told' = 0
  /\ UNCHANGED <<build, deviceVars, prefs, deltasCurrent>>

-----------------------------------------------------------------------------
(* The device. *)

\* The bound on the offsets: without it a clock set back and forth, asleep and
\* awake, would shift them without end.
InBounds(newSystem) ==
  running /\ usingAlt =>
    LET offset == continuousAltOffset - (newSystem - alt)
        Bound  == -MaxOffset .. MaxOffset
    IN offset \in Bound /\ contSkew + offset \in Bound

\* The system clock is set: by a cell tower, by NTP, by the user.  A process
\* will be told (ESUtilSignificantTimeChangeObserver).
SystemClockSet ==
  /\ running => ~firstTime
  /\ \E s \in Errors \ {system} : InBounds(s) /\ system' = s
  /\ changePending' = running
  /\ UNCHANGED <<build, alt, awake, running, baseVars, driverVars, resetQueued, prefs,
                 told, deltasCurrent>>

\* A media clock stands while the device sleeps; CLOCK_BOOTTIME does not.
AltStands ==
  /\ build = "dual" /\ ~awake
  /\ alt - SleepGap >= MinAlt /\ alt' = alt - SleepGap
  /\ UNCHANGED <<build, system, awake, changePending, running, baseVars, driverVars,
                 resetQueued, prefs, told, deltasCurrent>>

\* The device sleeps, or wakes up, with no process to hear of it.
SleepsOrWakesAlone ==
  /\ ~running /\ awake' = ~awake
  /\ UNCHANGED <<build, system, alt, changePending, running, baseVars, driverVars,
                 resetQueued, prefs, told, deltasCurrent>>

\* CLOCK_BOOTTIME starts again, after the time the boot has taken at least.
Reboot ==
  /\ ~running
  /\ alt - RebootGap >= MinAlt /\ alt' = alt - RebootGap
  /\ system' \in Errors /\ awake' = TRUE
  /\ UNCHANGED <<build, changePending, running, baseVars, driverVars, resetQueued, prefs,
                 told, deltasCurrent>>

-----------------------------------------------------------------------------
(* What the time base hears of it. *)

\* ESTime::continuousTimeReset: the drivers resync, the observers are told.
ContinuousTimeReset == resetQueued' = TRUE /\ told' = Continuous'

NoReset == UNCHANGED <<resetQueued, told>>

\* ESTimeSourceDriver::notifyContinuousOffsetChange.
NotifyContinuousOffsetChange ==
  prefs' = [prefs EXCEPT !.timeSkew = contSkew + continuousOffset']

\* Recalculate the system offset from the alternative clock.
OffsetFromAlt == continuousOffset' = continuousAltOffset - AltOffset

SystemBaseChangeTriple ==
  /\ build = "triple"
  /\ OffsetFromAlt /\ NotifyContinuousOffsetChange /\ NoReset
  /\ UNCHANGED <<firstTime, usingAlt, continuousAltOffset>>

\* Asleep, nothing can be learnt from the change.
SystemBaseChangeDual ==
  /\ build = "dual"
  /\ IF usingAlt THEN OffsetFromAlt /\ NotifyContinuousOffsetChange
     ELSE UNCHANGED <<continuousOffset, prefs>>
  /\ NoReset
  /\ UNCHANGED <<firstTime, usingAlt, continuousAltOffset>>

\* Mutant of SystemBaseChangeIOS: like the single base.
SystemBaseChangeIOS_Silent ==
  /\ build = "iOS"
  /\ NoReset
  /\ UNCHANGED <<baseVars, prefs>>

\* The change moves the time base itself.
SystemBaseChangeIOS ==
  /\ build = "iOS"
  /\ UNCHANGED <<baseVars, prefs>>
  /\ ContinuousTimeReset

SystemBaseChangeSingle ==
  /\ build = "single"
  /\ NoReset
  /\ UNCHANGED <<baseVars, prefs>>

\* significantTimeChange.
SystemBaseChange ==
  /\ changePending /\ changePending' = FALSE
  /\ UNCHANGED <<build, deviceVars, running, driverVars, deltasCurrent>>
  /\ \/ SystemBaseChangeTriple \/ SystemBaseChangeDual
     \/ SystemBaseChangeIOS \/ SystemBaseChangeSingle

\* Mutant of GoingToSleep: the offset to the system time is not brought up to
\* date.
GoingToSleep_KeepsOffset ==
  /\ running /\ awake /\ ~firstTime
  /\ awake' = FALSE
  /\ IF build = "dual"
     THEN usingAlt' = FALSE /\ UNCHANGED continuousOffset
     ELSE UNCHANGED <<usingAlt, continuousOffset>>
  /\ UNCHANGED <<build, system, alt, changePending, running, firstTime,
                 continuousAltOffset, driverVars, resetQueued, prefs, told, deltasCurrent>>

\* goingToSleep: the dual base goes back to the system time.
GoingToSleep ==
  /\ running /\ awake /\ ~firstTime
  /\ awake' = FALSE
  /\ IF build = "dual"
     THEN usingAlt' = FALSE /\ OffsetFromAlt
     ELSE UNCHANGED <<usingAlt, continuousOffset>>
  /\ UNCHANGED <<build, system, alt, changePending, running, firstTime,
                 continuousAltOffset, driverVars, resetQueued, prefs, told, deltasCurrent>>

\* "We don't advertise that continuous time has been reset ..., because it
\* hasn't": the resync it asks for is one that keeps the old value.
WakingUpTriple ==
  /\ build = "triple"
  /\ OffsetFromAlt /\ NotifyContinuousOffsetChange /\ NoReset
  /\ UNCHANGED <<firstTime, usingAlt, continuousAltOffset>>

WakingUpDual ==
  /\ build = "dual"
  /\ usingAlt' = TRUE
  /\ continuousAltOffset' = continuousOffset + AltOffset
  /\ firstTime' = FALSE
  /\ UNCHANGED <<continuousOffset, prefs>>
  /\ IF firstTime THEN NoReset ELSE ContinuousTimeReset

WakingUpIOS ==
  /\ build = "iOS"
  /\ firstTime' = FALSE
  /\ UNCHANGED <<usingAlt, continuousOffset, continuousAltOffset, prefs>>
  /\ IF firstTime THEN NoReset ELSE ContinuousTimeReset

WakingUpSingle ==
  /\ build = "single"
  /\ NoReset
  /\ UNCHANGED <<baseVars, prefs>>

WakingUp ==
  /\ running /\ (firstTime \/ ~awake)
  /\ awake' = TRUE
  /\ UNCHANGED <<build, system, alt, changePending, running, driverVars, deltasCurrent>>
  /\ WakingUpTriple \/ WakingUpDual \/ WakingUpIOS \/ WakingUpSingle

-----------------------------------------------------------------------------
(* The driver. *)

\* Mutant of SetContSkew: the skew is stored as it was.
SetContSkew_StoresOld(skew, error) ==
  IF skew = contSkew /\ error = currentTimeError
  THEN UNCHANGED <<driverVars, prefs, deltasCurrent>>
  ELSE /\ contSkew' = skew /\ currentTimeError' = error
       /\ prefs' = [prefs EXCEPT !.timeSkew = skew + continuousOffset,
                                 !.timeSkewAccuracy = error, !.contSkew = contSkew]
       /\ deltasCurrent' = TRUE

\* ESTimeSourceDriver::setContSkew: what has not changed is not stored.
SetContSkew(skew, error) ==
  IF skew = contSkew /\ error = currentTimeError
  THEN UNCHANGED <<driverVars, prefs, deltasCurrent>>
  ELSE /\ contSkew' = skew /\ currentTimeError' = error
       /\ prefs' = [prefs EXCEPT !.timeSkew = skew + continuousOffset,
                                 !.timeSkewAccuracy = error, !.contSkew = skew]
       /\ deltasCurrent' = TRUE

\* A synchronization ends well: the skew cancels the error.
Synchronize ==
  /\ running /\ awake
  /\ SetContSkew(-Continuous, Accurate)
  /\ UNCHANGED <<build, deviceVars, changePending, running, baseVars, resetQueued, told>>

\* A resync(false), of a reset or not, reaches startSyncing: the driver does
\* not vouch for its skew any more.
StartSyncing ==
  /\ running
  /\ SetContSkew(contSkew, Unknown)
  /\ resetQueued' = FALSE
  /\ UNCHANGED <<build, deviceVars, changePending, running, baseVars, told>>

Next ==
  \/ Launch \/ Kill
  \/ SystemClockSet \/ AltStands \/ SleepsOrWakesAlone \/ Reboot
  \/ SystemBaseChange \/ GoingToSleep \/ WakingUp
  \/ Synchronize \/ StartSyncing

Spec == Init /\ [][Next]_vars

-----------------------------------------------------------------------------
(* Properties. *)

TypeOK ==
  /\ build \in Builds
  /\ system \in Errors /\ alt \in MinAlt .. 0
  /\ awake \in BOOLEAN /\ changePending \in BOOLEAN /\ running \in BOOLEAN
  /\ firstTime \in BOOLEAN /\ usingAlt \in BOOLEAN
  /\ continuousOffset \in Int /\ continuousAltOffset \in Int
  /\ contSkew \in Int /\ currentTimeError \in 1 .. Unknown
  /\ resetQueued \in BOOLEAN
  /\ prefs \in Prefs
  /\ told \in Int /\ deltasCurrent \in BOOLEAN

\* A process that can know of it is awake and has seen the last change of the
\* system clock.
UpToDate == running /\ awake /\ ~changePending

\* The continuous clock never moves unannounced: through sleep, wake-ups and
\* changes of the system clock in any order, a process that is up to date has
\* been told of the last move ("moves as continuously as we know how",
\* ESSystemTimeBase.hpp).  The single base makes no such promise.
MovesAreTold == UpToDate /\ build # "single" => told = Continuous

\* continuousOffset is what turns continuous times into system times and
\* back: up to date, it is the difference of the two clocks.
OffsetIsCurrent == UpToDate => continuousOffset = Continuous - system

\* "We (assert) the continuous time remains continuous when going into sleep":
\* also when a change of the system clock has not been announced yet.
SleepMovesNoClock == [][awake /\ ~awake' => Continuous' = Continuous]_vars

\* What the driver vouches for is true: through restarts, reboots, sleep and
\* changes of the system clock, its skew cancels the error of the continuous
\* clock, or a reset is on its way to it.  This is for a skew that was stored
\* for the present continuous clock.
ClaimSurvives ==
  UpToDate /\ build # "single" /\ currentTimeError < Unknown /\ deltasCurrent =>
    resetQueued \/ contSkew = -Continuous

\* "Whether it is safe to use stored deltas from continuous time"
\* (ESSystemTimeBase.hpp, continuousTimeStableAtStart): whatever the driver
\* vouches for, it has stored for the present continuous clock.
StoredDeltasAreSafe ==
  running /\ currentTimeError < Unknown => deltasCurrent
=============================================================================
