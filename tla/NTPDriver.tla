------------------------------ MODULE NTPDriver ------------------------------
(***************************************************************************)
(* The synchronization life cycle of ESNTPDriver: the single driver        *)
(* thread, its timers, the calls other threads queue for it, the network   *)
(* observer, and the interval arithmetic by which packets become a skew    *)
(* with an error bound.  The pool of hosts (which socket is sent to next)  *)
(* is not part of this module: a packet or a name resolution may arrive    *)
(* whenever the driver could receive one.                                  *)
(*                                                                         *)
(* The thread (threadMain) alternates between reading sockets, when        *)
(* `reading' is true, and delivering queued calls, timer notifications     *)
(* and observer notifications, when it is false.                           *)
(*                                                                         *)
(* A timer is "null" (no pointer), "armed", or "fired" (it has notified    *)
(* its observer but the pointer has not been released).  Releasing a timer *)
(* whose notification is in flight suppresses the notification: that is    *)
(* the promise of ESTimer, modelled in the module ESTimer.                 *)
(*                                                                         *)
(* A skew is kept doubled, and so is its error, so that the midpoint of an *)
(* interval of integers is an integer: [maxMin, minMax] has the doubled    *)
(* skew minMax + maxMin and the doubled error minMax - maxMin.             *)
(***************************************************************************)
EXTENDS Integers, Sequences

CONSTANTS
  Offsets,      \* the offsets a packet's bounds are drawn from
  FixGood,      \* ES_FIX_GOOD, doubled
  Unknown,      \* the 1e9 of "we know nothing"
  PollingMode,  \* inPollingMode: set once, before the driver is made
  AppCalls,     \* the calls the other threads make
  MaxCalls,     \* bound: calls queued for the driver thread
  Honest,       \* every packet's interval contains the true offset
  NetworkFails, \* the network may become unreachable
  ClockJumps    \* the continuous time may be reset (a wake-up)

ASSUME OffsetsAssumption == Offsets \subseteq Int
ASSUME FixGoodAssumption == FixGood \in Nat
ASSUME UnknownAssumption ==
  /\ Unknown \in Nat
  /\ FixGood <= Unknown
  /\ \A a, b, c \in Offsets :
       /\ a < Unknown /\ -Unknown < a
       /\ a + b - 2 * c <= Unknown /\ -Unknown <= a + b - 2 * c
ASSUME ModeAssumption ==
  /\ PollingMode \in BOOLEAN /\ Honest \in BOOLEAN
  /\ NetworkFails \in BOOLEAN /\ ClockJumps \in BOOLEAN
ASSUME MaxCallsAssumption == MaxCalls \in Nat

VARIABLES
  status,              \* ESTimeSourceDriver::_status
  contSkew,            \* _contSkew, doubled
  timeError,           \* _currentTimeError, doubled
  maxMin, minMax,      \* _maxMinOffset, _minMaxOffset
  running,             \* _lastSyncStart # 0
  reading,             \* _reading: inside processRemoteSockets
  stopReading,         \* _stopReading: a stop waits for the end of reading
  disabled,            \* _disabled
  networkObserver,     \* _networkObserver # NULL
  networkReachable,    \* _networkReachable
  restart,             \* _restartSyncTimeout
  giveUp,              \* _giveUpTimer
  proximityBump,       \* _proximityBumpTimer
  noProgress,          \* _noProgressTimeout
  lastFailTimeout,     \* _lastFailTimeout, in minutes
  currentProximity,    \* _currentProximity
  pollingHost,         \* pollingHostTimer
  pollingRunning,      \* _pollingRunning
  pollingCycleRunning, \* _pollingCycleRunning
  calls,               \* calls queued by other threads (ESThread::callInThread)
  trueOffset           \* environment: the offset of the continuous clock

reportVars  == <<status, contSkew, timeError>>
boundVars   == <<maxMin, minMax>>
networkVars == <<networkObserver, networkReachable>>
pollingVars == <<pollingHost, pollingRunning, pollingCycleRunning>>
failVars    == <<restart, lastFailTimeout>>
syncTimers  == <<giveUp, proximityBump, noProgress>>

vars == <<reportVars, boundVars, running, reading, stopReading, disabled,
          networkVars, failVars, syncTimers, currentProximity, pollingVars,
          calls, trueOffset>>

-----------------------------------------------------------------------------
(* The values of ESTimeSourceStatus, in the groups the code's switches use. *)

SynchronizedGroup == {"Synchronized", "PollingSynchronized",
                      "FailedSynchronized", "NoNetSynchronized"}
RefiningGroup     == {"Refining", "PollingRefining",
                      "FailedRefining", "NoNetRefining"}
UnknownGroup      == {"Off", "Unsynchronized", "PollingUnsynchronized",
                      "FailedUnsynchronized", "NoNetUnsynchronized"}
NoNetGroup        == {"NoNetSynchronized", "NoNetRefining", "NoNetUnsynchronized"}

Status == SynchronizedGroup \union RefiningGroup \union UnknownGroup

\* The status after giving up, from the status before.
FailedStatus(s) ==
  CASE s \in SynchronizedGroup -> "FailedSynchronized"
    [] s \in RefiningGroup     -> "FailedRefining"
    [] OTHER                   -> "FailedUnsynchronized"

\* The status when the network goes away, from the status before.
NoNetStatus(s) ==
  CASE s \in SynchronizedGroup -> "NoNetSynchronized"
    [] s \in RefiningGroup     -> "NoNetRefining"
    [] OTHER                   -> "NoNetUnsynchronized"

\* Mutant of StartStatus: a resync that does not trust the old value keeps the
\* status all the same.
StartStatus_Trusting(s, userRequested) ==
  CASE s \in SynchronizedGroup -> "PollingSynchronized"
    [] s \in RefiningGroup     -> "PollingRefining"
    [] OTHER                   -> "PollingUnsynchronized"

\* The status a sync starts with.  NoNetRefining has no case of its own.
StartStatus(s, userRequested) ==
  CASE userRequested /\ s \in SynchronizedGroup -> "PollingSynchronized"
    [] userRequested /\ s \in RefiningGroup \ {"NoNetRefining"} -> "PollingRefining"
    [] OTHER -> "PollingUnsynchronized"

\* ESTime::syncActive, "are we looking for a sync".
SyncActive(s) == s \in RefiningGroup \union
                       {"PollingUnsynchronized", "PollingSynchronized"}

-----------------------------------------------------------------------------
(* Time-outs, in minutes. *)

FixTimeoutFailed    == 10
FixTimeoutFailedMax == 60

Backoff(t) ==
  IF t = 0 THEN FixTimeoutFailed
  ELSE IF 2 * t > FixTimeoutFailedMax THEN FixTimeoutFailedMax ELSE 2 * t

Timer == {"null", "armed", "fired"}

Calls == {"resync", "resyncUser", "stop", "stopIfNecessary", "background",
          "disable", "enable", "countryCode", "pollRestart", "pollStop"}

ASSUME AppCallsAssumption == AppCalls \subseteq Calls

-----------------------------------------------------------------------------

\* The claim made to the rest of the program holds: the true offset is
\* within the error of the skew.
ErrorBoundHolds ==
  /\ contSkew - timeError <= 2 * trueOffset
  /\ 2 * trueOffset <= contSkew + timeError

\* The skew and its error come from the preferences; an error that survived
\* (a continuous time stable at start) is taken to be correct.
Init ==
  /\ trueOffset \in Offsets
  /\ status = "Off"
  /\ contSkew \in {2 * o : o \in Offsets}
  /\ timeError \in {FixGood, Unknown}
  /\ ErrorBoundHolds
  /\ maxMin = 0 /\ minMax = 0
  /\ running = FALSE /\ reading = FALSE /\ stopReading = FALSE
  /\ disabled = FALSE
  /\ networkObserver = FALSE /\ networkReachable = TRUE
  /\ restart = "null" /\ lastFailTimeout = 0
  /\ giveUp = "null" /\ proximityBump = "null" /\ noProgress = "null"
  /\ currentProximity = 0
  /\ pollingHost = "null" /\ pollingRunning = FALSE /\ pollingCycleRunning = FALSE
  /\ calls = <<>>

-----------------------------------------------------------------------------
(* Starting and stopping.  Both run in the driver thread. *)

\* restartPollingCycle and stopPollingCycle, in the driver thread.
RestartPollingCycle ==
  /\ pollingRunning' = TRUE /\ pollingCycleRunning' = TRUE
  /\ pollingHost' = "armed"

\* Mutant of StopPollingCycle: only the caller's thread clears the flags.
StopPollingCycle_TimerOnly ==
  pollingHost' = "null" /\ UNCHANGED <<pollingRunning, pollingCycleRunning>>

StopPollingCycle ==
  /\ pollingRunning' = FALSE /\ pollingCycleRunning' = FALSE
  /\ pollingHost' = "null"

\* startSyncing returns early unless this holds (or when already running).
MayStart == ~disabled /\ networkReachable

\* Mutant of StartReport: the old error is kept whatever the caller says.
StartReport_KeepsError(userRequested) ==
  status' = StartStatus(status, userRequested) /\ UNCHANGED <<timeError, contSkew>>

\* What a starting sync reports: the old value with its error, or with none
\* when the caller says that it is no longer valid.
StartReport(userRequested) ==
  /\ status' = StartStatus(status, userRequested)
  /\ timeError' = IF userRequested THEN timeError ELSE Unknown
  /\ UNCHANGED contSkew

\* Mutant of StartTimers: the timer that gives up is released by the stop that
\* precedes a restart.
StartTimers_GiveUpLost ==
  /\ giveUp' = IF running THEN "null" ELSE "armed"
  /\ proximityBump' = "armed" /\ restart' = "null"
  /\ noProgress' = IF running THEN "null" ELSE noProgress

\* startSyncing releases and sets its timers; a stop that comes just before
\* it in the same call leaves nothing else but the null noProgress.
StartTimers ==
  /\ giveUp' = "armed" /\ proximityBump' = "armed"
  /\ noProgress' = IF running THEN "null" ELSE noProgress
  /\ restart' = "null"

\* The body of startSyncing, entered with nothing running.
StartSyncing(userRequested) ==
  /\ running' = TRUE
  /\ stopReading' = FALSE
  /\ StartReport(userRequested)
  /\ maxMin' = -Unknown /\ minMax' = Unknown
  /\ lastFailTimeout' = 0
  /\ StartTimers
  /\ IF PollingMode
     THEN currentProximity' = 4 /\ RestartPollingCycle
     ELSE currentProximity' = 0 /\ UNCHANGED pollingVars

\* Mutant of StopSyncing: the no-progress timer is forgotten.
StopSyncing_KeepsNoProgress ==
  /\ running' = FALSE
  /\ giveUp' = "null" /\ proximityBump' = "null" /\ UNCHANGED noProgress
  /\ IF PollingMode THEN StopPollingCycle ELSE UNCHANGED pollingVars

\* stopSyncingInThisThread outside reading.
StopSyncing ==
  /\ running' = FALSE
  /\ giveUp' = "null" /\ proximityBump' = "null" /\ noProgress' = "null"
  /\ IF PollingMode THEN StopPollingCycle ELSE UNCHANGED pollingVars

\* resyncInThisThread outside reading: stop if running, then start if that is
\* possible.  The restart timer survives unless the start releases it.
Resync(userRequested, restartAfter) ==
  \/ MayStart /\ StartSyncing(userRequested)
  \/ /\ ~MayStart
     /\ IF running THEN StopSyncing
        ELSE UNCHANGED <<running, syncTimers, pollingVars>>
     /\ restart' = restartAfter
     /\ UNCHANGED <<reportVars, boundVars, stopReading, lastFailTimeout, currentProximity>>

\* stopSyncingIfNecessaryInThisThread.
StopSyncingIfNecessary ==
  /\ IF running THEN StopSyncing
     ELSE UNCHANGED <<running, syncTimers, pollingVars>>
  /\ UNCHANGED <<reportVars, boundVars, stopReading, failVars, currentProximity>>

-----------------------------------------------------------------------------
(* The other threads. *)

\* A call is queued.  goingToSleep looks at _lastSyncStart from the main
\* thread and queues nothing when no sync is running; the polling calls set
\* the flags before they queue the rest.
Call(c) ==
  /\ Len(calls) < MaxCalls
  /\ c = "stopIfNecessary" => running
  /\ calls' = Append(calls, c)
  /\ IF c \in {"pollRestart", "pollStop"}
     THEN /\ PollingMode
          /\ pollingRunning' = (c = "pollRestart")
          /\ pollingCycleRunning' = (c = "pollRestart")
     ELSE UNCHANGED <<pollingRunning, pollingCycleRunning>>
  /\ UNCHANGED <<reportVars, boundVars, running, reading, stopReading, disabled,
                 networkVars, failVars, syncTimers, currentProximity,
                 pollingHost, trueOffset>>

\* Waking up resets the continuous time (wakingUp, continuousTimeReset): the
\* true offset is anything, and a resync that does not trust the old value is
\* queued.
ContinuousTimeReset ==
  /\ ClockJumps
  /\ Len(calls) < MaxCalls
  /\ trueOffset' \in Offsets
  /\ calls' = Append(calls, "resync")
  /\ UNCHANGED <<reportVars, boundVars, running, reading, stopReading, disabled,
                 networkVars, failVars, syncTimers, currentProximity, pollingVars>>

-----------------------------------------------------------------------------
(* Calls delivered in the driver thread. *)

Delivered(c) ==
  /\ ~reading
  /\ calls # <<>> /\ Head(calls) = c
  /\ calls' = Tail(calls)
  /\ UNCHANGED <<reading, networkVars, trueOffset>>

\* resync and setDeviceCountryCode.
ResyncCall ==
  /\ \/ Delivered("resync")      /\ Resync(FALSE, restart)
     \/ Delivered("resyncUser")  /\ Resync(TRUE, restart)
     \/ Delivered("countryCode") /\ Resync(FALSE, restart)
  /\ UNCHANGED disabled

\* stopSyncing does not ask whether a sync is running.
StopSyncingCall ==
  /\ Delivered("stop")
  /\ StopSyncing
  /\ UNCHANGED <<reportVars, boundVars, stopReading, disabled, failVars, currentProximity>>

\* goingToSleep's call and enteringBackground's call.
StopIfNecessaryCall ==
  /\ Delivered("stopIfNecessary") \/ Delivered("background")
  /\ StopSyncingIfNecessary
  /\ UNCHANGED disabled

\* Mutant of DisableSyncCall: a running sync is left to end by itself.
DisableSyncCall_NoStop ==
  /\ Delivered("disable")
  /\ disabled' = TRUE
  /\ UNCHANGED <<reportVars, boundVars, running, stopReading, failVars, syncTimers,
                 currentProximity, pollingVars>>

DisableSyncCall ==
  /\ Delivered("disable")
  /\ disabled' = TRUE
  /\ StopSyncingIfNecessary

\* enableSyncInThisThread: clear the flag, then resync.
EnableSyncCall ==
  /\ Delivered("enable")
  /\ disabled' = FALSE
  /\ IF networkReachable
     THEN StartSyncing(FALSE)
     ELSE StopSyncingIfNecessary

PollingCall ==
  /\ \/ Delivered("pollRestart") /\ RestartPollingCycle
     \/ Delivered("pollStop")    /\ StopPollingCycle
  /\ UNCHANGED <<reportVars, boundVars, running, stopReading, disabled, failVars,
                 syncTimers, currentProximity>>

ProcessCall ==
  \/ ResyncCall \/ StopSyncingCall \/ StopIfNecessaryCall
  \/ DisableSyncCall \/ EnableSyncCall \/ PollingCall

-----------------------------------------------------------------------------
(* Packets. *)

\* processRemoteSockets begins and ends.  A stop asked for while reading is
\* carried out at the end.
BeginReading ==
  /\ running /\ ~reading
  /\ reading' = TRUE
  /\ UNCHANGED <<reportVars, boundVars, running, stopReading, disabled, networkVars,
                 failVars, syncTimers, currentProximity, pollingVars, calls, trueOffset>>

EndReading ==
  /\ reading
  /\ reading' = FALSE /\ stopReading' = FALSE
  /\ IF stopReading THEN StopSyncing
     ELSE UNCHANGED <<running, syncTimers, pollingVars>>
  /\ UNCHANGED <<reportVars, boundVars, disabled, networkVars, failVars,
                 currentProximity, calls, trueOffset>>

\* The intersection of the bounds so far with those of a packet.
Narrowed(lo, hi) ==
  [maxMin |-> IF lo > maxMin THEN lo ELSE maxMin,
   minMax |-> IF hi < minMax THEN hi ELSE minMax]

Skew(b)  == b.minMax + b.maxMin
Error(b) == b.minMax - b.maxMin

\* Mutant of NonOverlapping: the packet is logged and dropped.
NonOverlapping_Ignored(b) ==
  Error(b) < 0 /\ UNCHANGED <<stopReading, reportVars, failVars>>

\* The packet contradicts an earlier one.  The driver resyncs, but while
\* reading the stop is deferred and startSyncing finds itself running.
NonOverlapping(b) ==
  /\ Error(b) < 0
  /\ stopReading' = IF PollingMode THEN stopReading ELSE TRUE
  /\ UNCHANGED <<reportVars, failVars>>

\* Mutants of Finishing: contradicting bounds count as good ones; the next
\* resync is not scheduled.
Finishing_Crossed(b) ==
  /\ Error(b) < FixGood
  /\ contSkew' = Skew(b) /\ timeError' = Error(b)
  /\ status' = "Synchronized"
  /\ UNCHANGED failVars /\ stopReading' = TRUE

Finishing_NoRestart(b) ==
  /\ Error(b) >= 0 /\ Error(b) < FixGood
  /\ contSkew' = Skew(b) /\ timeError' = Error(b)
  /\ status' = "Synchronized"
  /\ UNCHANGED failVars /\ stopReading' = TRUE

\* The bounds are good enough.  stateGotFinishingPacket sets the next resync.
Finishing(b) ==
  /\ Error(b) >= 0 /\ Error(b) < FixGood
  /\ contSkew' = Skew(b) /\ timeError' = Error(b)
  /\ status' = "Synchronized"
  /\ IF PollingMode
     THEN UNCHANGED <<failVars, stopReading>>
     ELSE /\ restart' = "armed" /\ lastFailTimeout' = 0
          /\ stopReading' = TRUE

\* Mutant of Refining: the new skew with the better one of the two errors.
Refining_SmallerError(b) ==
  /\ Error(b) >= FixGood
  /\ contSkew' = Skew(b)
  /\ timeError' = IF Error(b) < timeError THEN Error(b) ELSE timeError
  /\ status' = "Refining"
  /\ UNCHANGED <<failVars, stopReading>>

\* The bounds are worth reporting: unless the old value is inside them and
\* has the smaller error, they replace it.
Refining(b) ==
  /\ Error(b) >= FixGood
  /\ IF contSkew < 2 * b.maxMin \/ contSkew > 2 * b.minMax \/ Error(b) < timeError
     THEN contSkew' = Skew(b) /\ timeError' = Error(b)
     ELSE UNCHANGED <<contSkew, timeError>>
  /\ status' = "Refining"
  /\ UNCHANGED <<failVars, stopReading>>

\* gotPacket.  After a stop was deferred, the remaining sockets of the same
\* host are skipped but those of the other hosts are still read.
GotPacket(lo, hi) ==
  /\ reading
  /\ Honest => lo <= trueOffset /\ trueOffset <= hi
  /\ LET b == Narrowed(lo, hi) IN
       /\ maxMin' = b.maxMin /\ minMax' = b.minMax
       /\ NonOverlapping(b) \/ Finishing(b) \/ Refining(b)
  /\ UNCHANGED <<running, reading, disabled, networkVars, syncTimers,
                 currentProximity, pollingVars, calls, trueOffset>>

-----------------------------------------------------------------------------
(* Timers. *)

\* A timer notification is delivered in the driver thread.
Fires(timer) == timer = "armed" /\ ~reading

\* stateGotResyncTimeout: resync, trusting the old value.
RestartFires ==
  /\ Fires(restart)
  /\ IF PollingMode
     THEN /\ restart' = "fired"
          /\ UNCHANGED <<reportVars, boundVars, running, stopReading, lastFailTimeout,
                         syncTimers, currentProximity, pollingVars>>
     ELSE Resync(TRUE, "fired")
  /\ UNCHANGED <<reading, disabled, networkVars, calls, trueOffset>>

\* giveUpTimerFire.  The proximity timers (10 seconds each, at most three)
\* run out long before the 8 minutes of this one.
GiveUpFires ==
  /\ Fires(giveUp)
  /\ proximityBump # "armed"
  /\ IF PollingMode
     THEN /\ giveUp' = "fired"
          /\ UNCHANGED <<status, running, failVars, proximityBump, noProgress, pollingVars>>
     ELSE /\ lastFailTimeout' = Backoff(lastFailTimeout)
          /\ restart' = "armed"
          /\ status' = FailedStatus(status)
          /\ StopSyncing
  /\ UNCHANGED <<contSkew, timeError, boundVars, reading, stopReading, disabled,
                 networkVars, currentProximity, calls, trueOffset>>

\* Mutant of ProximityBumpFires: the timer is set again one level less.
ProximityBumpFires_Short ==
  /\ Fires(proximityBump)
  /\ currentProximity' = currentProximity + 1
  /\ proximityBump' = IF currentProximity + 1 < 2 THEN "armed" ELSE "fired"
  /\ UNCHANGED <<reportVars, boundVars, running, reading, stopReading, disabled,
                 networkVars, failVars, giveUp, noProgress, pollingVars, calls, trueOffset>>

\* bumpProximity: the last level is reached only in polling mode.
ProximityBumpFires ==
  /\ Fires(proximityBump)
  /\ IF currentProximity < 4
     THEN /\ currentProximity' = currentProximity + 1
          /\ proximityBump' = IF currentProximity + 1 < 3 THEN "armed" ELSE "fired"
     ELSE proximityBump' = "fired" /\ UNCHANGED currentProximity
  /\ UNCHANGED <<reportVars, boundVars, running, reading, stopReading, disabled,
                 networkVars, failVars, giveUp, noProgress, pollingVars, calls, trueOffset>>

\* stateGotNoProgressTimeout: it is installed again unless ten hosts are
\* active and there is no fresh one to add.
NoProgressFires ==
  /\ Fires(noProgress)
  /\ noProgress' \in {"armed", "fired"}
  /\ UNCHANGED <<reportVars, boundVars, running, reading, stopReading, disabled,
                 networkVars, failVars, giveUp, proximityBump, currentProximity,
                 pollingVars, calls, trueOffset>>

\* sendToNextPollingHost always sets the timer again; the cycle is running
\* when there was a host left to send to.
PollingHostFires ==
  /\ Fires(pollingHost)
  /\ pollingCycleRunning' \in BOOLEAN
  /\ UNCHANGED <<reportVars, boundVars, running, reading, stopReading, disabled,
                 networkVars, failVars, syncTimers, currentProximity, pollingHost,
                 pollingRunning, calls, trueOffset>>

-----------------------------------------------------------------------------
(* The network and name resolution. *)

\* stateGotNetworkUnreachable.  The host descriptors exist while running.
GotNetworkUnreachable(knownToBeActive) ==
  /\ networkReachable' = FALSE
  /\ status' = IF knownToBeActive \/ running THEN NoNetStatus(status) ELSE status
  /\ IF running THEN StopSyncing
     ELSE UNCHANGED <<running, syncTimers, pollingVars>>

\* The observer, which remembers what it last reported, reports a change.
NetworkUnreachable ==
  /\ NetworkFails
  /\ ~reading /\ networkObserver /\ networkReachable
  /\ GotNetworkUnreachable(FALSE)
  /\ UNCHANGED <<contSkew, timeError, boundVars, reading, stopReading, disabled,
                 networkObserver, failVars, currentProximity, calls, trueOffset>>

\* stateGotNetworkReachable: only a status that says the network failed us
\* restarts the sync, four seconds later, with the restart timer.
NetworkReachable ==
  /\ ~reading /\ networkObserver /\ ~networkReachable
  /\ networkReachable' = TRUE
  /\ restart' = IF status \in NoNetGroup THEN "armed" ELSE restart
  /\ UNCHANGED <<reportVars, boundVars, running, reading, stopReading, disabled,
                 networkObserver, lastFailTimeout, syncTimers, currentProximity,
                 pollingVars, calls, trueOffset>>

\* A host name resolves: the no-progress timer starts with the first one.
NameResolutionComplete ==
  /\ running /\ ~reading /\ ~PollingMode
  /\ noProgress = "null"
  /\ noProgress' = "armed"
  /\ UNCHANGED <<reportVars, boundVars, running, reading, stopReading, disabled,
                 networkVars, failVars, giveUp, proximityBump, currentProximity,
                 pollingVars, calls, trueOffset>>

\* The first name resolution that fails creates the network observer, and
\* the sync stops if it turns out that there is no network.
NameResolutionFailed ==
  /\ running /\ ~reading /\ ~networkObserver
  /\ networkObserver' = TRUE
  /\ \/ /\ UNCHANGED <<networkReachable, status, running, syncTimers, pollingVars>>
     \/ /\ NetworkFails
        /\ GotNetworkUnreachable(TRUE)
  /\ UNCHANGED <<contSkew, timeError, boundVars, reading, stopReading, disabled,
                 failVars, currentProximity, calls, trueOffset>>

-----------------------------------------------------------------------------

TimerFires ==
  \/ RestartFires \/ GiveUpFires \/ ProximityBumpFires
  \/ NoProgressFires \/ PollingHostFires

Next ==
  \/ \E c \in AppCalls : Call(c)
  \/ ContinuousTimeReset
  \/ ProcessCall
  \/ BeginReading \/ EndReading
  \/ \E lo, hi \in Offsets : lo <= hi /\ GotPacket(lo, hi)
  \/ TimerFires
  \/ NetworkUnreachable \/ NetworkReachable
  \/ NameResolutionComplete \/ NameResolutionFailed

Spec == Init /\ [][Next]_vars

(***************************************************************************)
(* Fairness is that of one thread and of the clock.  Every pass of         *)
(* threadMain leaves processRemoteSockets and then delivers what is        *)
(* queued, so a call or a notification that is due again and again between *)
(* two passes of reading is delivered (SF); the end of reading is reached  *)
(* (WF).  Nothing is assumed of packets, of name resolution, of the        *)
(* network or of the other threads.                                        *)
(***************************************************************************)
Fairness ==
  /\ WF_vars(EndReading)
  /\ SF_vars(ProcessCall)
  /\ SF_vars(RestartFires)
  /\ SF_vars(GiveUpFires)
  /\ SF_vars(ProximityBumpFires)

FairSpec == Spec /\ Fairness

-----------------------------------------------------------------------------
(* Properties. *)

FlagsOK ==
  /\ running \in BOOLEAN /\ reading \in BOOLEAN /\ stopReading \in BOOLEAN
  /\ disabled \in BOOLEAN
  /\ networkObserver \in BOOLEAN /\ networkReachable \in BOOLEAN
  /\ pollingRunning \in BOOLEAN /\ pollingCycleRunning \in BOOLEAN

TimersOK ==
  /\ restart \in Timer /\ giveUp \in Timer
  /\ proximityBump \in Timer /\ noProgress \in Timer
  /\ pollingHost \in Timer

NumbersOK ==
  /\ contSkew \in Int /\ timeError \in Nat
  /\ maxMin \in Int /\ minMax \in Int
  /\ trueOffset \in Offsets
  /\ lastFailTimeout \in 0 .. FixTimeoutFailedMax
  /\ currentProximity \in 0 .. 4

\* The type invariant of the driver's fields.
TypeOK ==
  /\ FlagsOK
  /\ TimersOK
  /\ NumbersOK
  /\ status \in Status
  /\ calls \in Seq(Calls)

\* A sync never runs while it is disabled or while the network is known to be
\* down, whatever calls and notifications are queued in whatever order.
RunningIsPermitted == running => ~disabled /\ networkReachable

\* No sync can run for ever: as long as one runs, the timer that gives up on
\* it is pending (outside polling mode, where it is ignored).
SyncIsBounded == running /\ ~PollingMode => giveUp = "armed"

\* A stopped driver has released every timer of the sync, so that no late
\* notification touches descriptors that are gone.
IdleHoldsNoSyncTimer ==
  ~running => giveUp = "null" /\ proximityBump = "null" /\ noProgress = "null"

\* The restart timer never interrupts a sync: while one runs the timer does
\* not exist, except between a finishing packet and the deferred stop.
RestartMeansIdle == running /\ restart # "null" => stopReading

\* The timers belong to the sync: it has the one that ends it, a stopped driver
\* has none of them, and none starts a sync that runs.
SyncTimersMatch == SyncIsBounded /\ IdleHoldsNoSyncTimer /\ RestartMeansIdle

\* The status claims synchronization only with an error under ES_FIX_GOOD,
\* through give-ups, lost networks and resyncs that trust the old value.
SynchronizedIsAccurate == status \in SynchronizedGroup => timeError < FixGood

\* Contradicting packets are never used: the accumulated bounds overlap as
\* long as the sync is not about to be stopped.
BoundsOverlapWhileUsed ==
  running /\ ~stopReading /\ ~PollingMode => maxMin <= minMax

\* The driver can always be told that a lost network is back.
UnreachableIsObserved == ~networkReachable => networkObserver

\* What the driver knows of the network governs the sync, and stays up to date.
NetworkIsHeeded == RunningIsPermitted /\ UnreachableIsObserved

\* While a sync runs, and is not about to stop, the status says so: it never
\* shows a failure, a missing network or "off".
RunningStatusIsActive ==
  running /\ ~stopReading =>
    SyncActive(status) \/ (PollingMode /\ status = "Synchronized")

\* A sync gives up only after the proximity level has reached the global
\* pools (giveUpTimerFire against bumpProximity).
GivesUpAfterGlobalPools == [][GiveUpFires => currentProximity >= 3]_vars

\* With honest packets the claim [skew - error, skew + error] contains the
\* true offset once the resync of a continuous-time reset has been delivered
\* (gotPacket, startSyncing, continuousTimeReset).
ClaimIsCurrent == (\E i \in 1 .. Len(calls) : calls[i] = "resync") \/ ErrorBoundHolds

\* When no polling call is on its way, the flag other threads read tells
\* whether the polling timer is set, and a cycle runs only within polling.
PollingFlagsSettle ==
  (\A i \in 1 .. Len(calls) : calls[i] \notin {"pollRestart", "pollStop"}) =>
    /\ pollingRunning <=> (pollingHost = "armed")
    /\ pollingCycleRunning => pollingRunning

\* Once the other threads fall silent, every sync comes to an end: a resync
\* restarts the sync and with it the time to give up.
SyncEnds == <>[](calls = <<>>) => (running ~> ~running)

\* Once the driver has been asked to sync and nobody stops it, it goes on
\* syncing, as ES_FIX_TIMEOUT and ES_FIX_TIMEOUT_FAILED promise, whenever
\* the network stays reachable from some time on.
KeepsSyncing == <>[]networkReachable => [](status # "Off" => <>running)

-----------------------------------------------------------------------------
(* What comments and assertions of the code say of it, and it does not do. *)

\* "... but we back off by this much every time we fail ... until we get
\* here": a driver that only ever fails reaches the longest time-out.
BacksOffToTheMaximum ==
  []<>(status = "FailedUnsynchronized") /\ []<>running
    => <>(lastFailTimeout = FixTimeoutFailedMax)

\* "Restarting because of non-overlapping packet data": contradicting bounds
\* are given up for those of a new sync.
NonOverlapRestarts == (minMax < maxMin) ~> (running /\ maxMin <= minMax)
=============================================================================
