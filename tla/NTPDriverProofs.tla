--------------------------- MODULE NTPDriverProofs ---------------------------
(***************************************************************************)
(* Proofs about NTPDriver, for every set of offsets, every limit of the    *)
(* call queue and every choice of calls of the other threads.              *)
(***************************************************************************)
EXTENDS NTPDriver, TLAPS

(***************************************************************************)
(* The invariant.  None of the safety properties is inductive alone: that  *)
(* a running sync is permitted needs the order of reading and stopping,    *)
(* the timers need the flags, and so on.  The parts are proved one after   *)
(* the other, each from those before it.                                   *)
(***************************************************************************)

\* A stop is deferred only while reading, and only a running sync reads.
FlagsInv ==
  /\ RunningIsPermitted
  /\ UnreachableIsObserved
  /\ reading => running
  /\ stopReading => reading

SyncTimersInv ==
  /\ SyncIsBounded
  /\ IdleHoldsNoSyncTimer
  /\ RestartMeansIdle

\* A sync whose proximity timer is not pending has reached the global pools.
LevelInv == giveUp = "armed" /\ proximityBump # "armed" => currentProximity >= 3

LifecycleInv ==
  /\ TypeOK
  /\ FlagsInv
  /\ SyncTimersInv
  /\ SynchronizedIsAccurate
  /\ BoundsOverlapWhileUsed
  /\ RunningStatusIsActive
  /\ LevelInv

-----------------------------------------------------------------------------
(* The type invariant. *)

\* Removing the first call leaves a queue of calls, adding one too.
LEMMA CallsType ==
  ASSUME NEW q \in Seq(Calls)
  PROVE  /\ q # <<>> => Tail(q) \in Seq(Calls)
         /\ \A c \in Calls : Append(q, c) \in Seq(Calls)
  OBVIOUS

\* Backing off stays within the longest time-out.
LEMMA BackoffType ==
  ASSUME NEW t \in 0 .. FixTimeoutFailedMax
  PROVE  Backoff(t) \in 0 .. FixTimeoutFailedMax
  BY DEF Backoff, FixTimeoutFailed, FixTimeoutFailedMax

LEMMA UnknownType == Unknown \in Nat
  BY UnknownAssumption

LEMMA StatusTypes ==
  ASSUME NEW s \in Status, NEW u \in BOOLEAN
  PROVE  /\ StartStatus(s, u) \in Status
         /\ FailedStatus(s) \in Status
         /\ NoNetStatus(s) \in Status
  BY DEF Status, SynchronizedGroup, RefiningGroup, UnknownGroup, StartStatus,
         FailedStatus, NoNetStatus

LEMMA InitType == Init => TypeOK
  <1> SUFFICES ASSUME Init PROVE TypeOK
    OBVIOUS
  <1>1. contSkew \in Int
    BY OffsetsAssumption DEF Init
  <1>2. timeError \in Nat
    BY FixGoodAssumption, UnknownAssumption DEF Init
  <1>3. calls \in Seq(Calls)
    BY DEF Init
  <1>4. status \in Status /\ trueOffset \in Offsets
    BY DEF Init, Status, UnknownGroup
  <1>5. /\ restart \in Timer /\ giveUp \in Timer /\ proximityBump \in Timer
        /\ noProgress \in Timer /\ pollingHost \in Timer
    BY DEF Init, Timer
  <1>6. /\ maxMin \in Int /\ minMax \in Int
        /\ lastFailTimeout \in 0 .. FixTimeoutFailedMax
        /\ currentProximity \in 0 .. 4
    BY DEF Init, FixTimeoutFailedMax
  <1> QED
    BY <1>1, <1>2, <1>3, <1>4, <1>5, <1>6
    DEF Init, TypeOK, FlagsOK, TimersOK, NumbersOK

\* Every step leaves the flags Boolean.
LEMMA FlagsStep ==
  ASSUME FlagsOK, [Next]_vars
  PROVE  FlagsOK'
  <1>1. ASSUME NEW c \in AppCalls, Call(c) PROVE FlagsOK'
    BY <1>1 DEF FlagsOK, Call, networkVars
  <1>2. CASE ContinuousTimeReset
    BY <1>2 DEF FlagsOK, ContinuousTimeReset, networkVars, pollingVars
  <1>3. CASE ResyncCall
    BY <1>3 DEF FlagsOK, ResyncCall, Delivered, Resync, StartSyncing,
      RestartPollingCycle, StopSyncing, StopPollingCycle, networkVars,
      pollingVars
  <1>4. CASE StopSyncingCall
    BY <1>4 DEF FlagsOK, StopSyncingCall, Delivered, StopSyncing,
      StopPollingCycle, networkVars, pollingVars
  <1>5. CASE StopIfNecessaryCall
    BY <1>5 DEF FlagsOK, StopIfNecessaryCall, StopSyncingIfNecessary,
      Delivered, StopSyncing, StopPollingCycle, networkVars, pollingVars
  <1>6. CASE DisableSyncCall
    BY <1>6 DEF FlagsOK, DisableSyncCall, StopSyncingIfNecessary, Delivered,
      StopSyncing, StopPollingCycle, networkVars, pollingVars
  <1>7. CASE EnableSyncCall
    BY <1>7 DEF FlagsOK, EnableSyncCall, StopSyncingIfNecessary, Delivered,
      StartSyncing, RestartPollingCycle, StopSyncing, StopPollingCycle,
      networkVars, pollingVars
  <1>8. CASE PollingCall
    BY <1>8 DEF FlagsOK, PollingCall, Delivered, RestartPollingCycle,
      StopPollingCycle, networkVars
  <1>9. CASE BeginReading
    BY <1>9 DEF FlagsOK, BeginReading, networkVars, pollingVars
  <1>10. CASE EndReading
    BY <1>10 DEF FlagsOK, EndReading, StopSyncing, StopPollingCycle,
      networkVars, pollingVars
  <1>11. ASSUME NEW lo \in Offsets, NEW hi \in Offsets, GotPacket(lo, hi)
       PROVE  FlagsOK'
    BY <1>11 DEF FlagsOK, GotPacket, NonOverlapping, Finishing, Refining,
      networkVars, pollingVars
  <1>12. CASE RestartFires
    BY <1>12 DEF FlagsOK, RestartFires, Resync, StartSyncing,
      RestartPollingCycle, StopSyncing, StopPollingCycle, networkVars,
      pollingVars
  <1>13. CASE GiveUpFires
    BY <1>13 DEF FlagsOK, GiveUpFires, StopSyncing, StopPollingCycle,
      networkVars, pollingVars
  <1>14. CASE ProximityBumpFires
    BY <1>14 DEF FlagsOK, ProximityBumpFires, networkVars, pollingVars
  <1>15. CASE NoProgressFires
    BY <1>15 DEF FlagsOK, NoProgressFires, networkVars, pollingVars
  <1>16. CASE PollingHostFires
    BY <1>16 DEF FlagsOK, PollingHostFires, networkVars
  <1>17. CASE NetworkUnreachable
    BY <1>17 DEF FlagsOK, NetworkUnreachable, GotNetworkUnreachable,
      StopSyncing, StopPollingCycle, pollingVars
  <1>18. CASE NetworkReachable
    BY <1>18 DEF FlagsOK, NetworkReachable, pollingVars
  <1>19. CASE NameResolutionComplete
    BY <1>19 DEF FlagsOK, NameResolutionComplete, networkVars, pollingVars
  <1>20. CASE NameResolutionFailed
    BY <1>20 DEF FlagsOK, NameResolutionFailed, GotNetworkUnreachable,
      StopSyncing, StopPollingCycle, pollingVars
  <1>21. CASE UNCHANGED vars
    BY <1>21 DEF FlagsOK, vars, networkVars, pollingVars
  <1> QED
    BY <1>1, <1>2, <1>3, <1>4, <1>5, <1>6, <1>7, <1>8, <1>9, <1>10, <1>11,
      <1>12, <1>13, <1>14, <1>15, <1>16, <1>17, <1>18, <1>19, <1>20, <1>21
    DEF Next, ProcessCall, TimerFires

\* Every step leaves the timers in one of their three states.
LEMMA TimersStep ==
  ASSUME TimersOK, [Next]_vars
  PROVE  TimersOK'
  <1>1. ASSUME NEW c \in AppCalls, Call(c) PROVE TimersOK'
    BY <1>1 DEF TimersOK, Timer, Call, failVars, syncTimers
  <1>2. CASE ContinuousTimeReset
    BY <1>2 DEF TimersOK, Timer, ContinuousTimeReset, pollingVars, failVars,
      syncTimers
  <1>3. CASE ResyncCall
    BY <1>3 DEF TimersOK, Timer, ResyncCall, Resync, StartSyncing,
      StartTimers, RestartPollingCycle, StopSyncing, StopPollingCycle,
      pollingVars, syncTimers
  <1>4. CASE StopSyncingCall
    BY <1>4 DEF TimersOK, Timer, StopSyncingCall, StopSyncing,
      StopPollingCycle, pollingVars, failVars
  <1>5. CASE StopIfNecessaryCall
    BY <1>5 DEF TimersOK, Timer, StopIfNecessaryCall, StopSyncingIfNecessary,
      StopSyncing, StopPollingCycle, pollingVars, failVars, syncTimers
  <1>6. CASE DisableSyncCall
    BY <1>6 DEF TimersOK, Timer, DisableSyncCall, StopSyncingIfNecessary,
      StopSyncing, StopPollingCycle, pollingVars, failVars, syncTimers
  <1>7. CASE EnableSyncCall
    BY <1>7 DEF TimersOK, Timer, EnableSyncCall, StopSyncingIfNecessary,
      StartSyncing, StartTimers, RestartPollingCycle, StopSyncing,
      StopPollingCycle, pollingVars, failVars, syncTimers
  <1>8. CASE PollingCall
    BY <1>8 DEF TimersOK, Timer, PollingCall, RestartPollingCycle,
      StopPollingCycle, failVars, syncTimers
  <1>9. CASE BeginReading
    BY <1>9 DEF TimersOK, Timer, BeginReading, pollingVars, failVars,
      syncTimers
  <1>10. CASE EndReading
    BY <1>10 DEF TimersOK, Timer, EndReading, StopSyncing, StopPollingCycle,
      pollingVars, failVars, syncTimers
  <1>11. ASSUME NEW lo \in Offsets, NEW hi \in Offsets, GotPacket(lo, hi)
       PROVE  TimersOK'
    BY <1>11 DEF TimersOK, Timer, GotPacket, NonOverlapping, Finishing,
      Refining, pollingVars, failVars, syncTimers
  <1>12. CASE RestartFires
    BY <1>12 DEF TimersOK, Timer, RestartFires, Resync, StartSyncing,
      StartTimers, RestartPollingCycle, StopSyncing, StopPollingCycle,
      pollingVars, syncTimers
  <1>13. CASE GiveUpFires
    BY <1>13 DEF TimersOK, Timer, GiveUpFires, StopSyncing, StopPollingCycle,
      pollingVars, failVars
  <1>14. CASE ProximityBumpFires
    BY <1>14 DEF TimersOK, Timer, ProximityBumpFires, pollingVars, failVars
  <1>15. CASE NoProgressFires
    BY <1>15 DEF TimersOK, Timer, NoProgressFires, pollingVars, failVars
  <1>16. CASE PollingHostFires
    BY <1>16 DEF TimersOK, Timer, PollingHostFires, failVars, syncTimers
  <1>17. CASE NetworkUnreachable
    BY <1>17 DEF TimersOK, Timer, NetworkUnreachable, GotNetworkUnreachable,
      StopSyncing, StopPollingCycle, pollingVars, failVars, syncTimers
  <1>18. CASE NetworkReachable
    BY <1>18 DEF TimersOK, Timer, NetworkReachable, pollingVars, syncTimers
  <1>19. CASE NameResolutionComplete
    BY <1>19 DEF TimersOK, Timer, NameResolutionComplete, pollingVars,
      failVars
  <1>20. CASE NameResolutionFailed
    BY <1>20 DEF TimersOK, Timer, NameResolutionFailed, GotNetworkUnreachable,
      StopSyncing, StopPollingCycle, pollingVars, failVars, syncTimers
  <1>21. CASE UNCHANGED vars
    BY <1>21 DEF TimersOK, Timer, vars, pollingVars, failVars, syncTimers
  <1> QED
    BY <1>1, <1>2, <1>3, <1>4, <1>5, <1>6, <1>7, <1>8, <1>9, <1>10, <1>11,
      <1>12, <1>13, <1>14, <1>15, <1>16, <1>17, <1>18, <1>19, <1>20, <1>21
    DEF Next, ProcessCall, TimerFires

\* A sync starts with numbers in their ranges.
LEMMA StartNumbers ==
  ASSUME NumbersOK, NEW u \in BOOLEAN, StartSyncing(u), UNCHANGED trueOffset
  PROVE  NumbersOK'
  BY UnknownType DEF NumbersOK, StartSyncing, StartReport, FixTimeoutFailedMax

\* Narrowing bounds by a packet gives whole numbers.
LEMMA NarrowedType ==
  ASSUME maxMin \in Int, minMax \in Int, NEW lo \in Int, NEW hi \in Int
  PROVE  LET b == Narrowed(lo, hi) IN
         /\ b.maxMin \in Int /\ b.minMax \in Int
         /\ Skew(b) \in Int /\ Error(b) \in Int
  BY DEF Narrowed, Skew, Error

\* Every step leaves the numbers in their ranges; in particular an error is
\* never negative, since crossed bounds are not used.
LEMMA NumbersStep ==
  ASSUME NumbersOK, [Next]_vars
  PROVE  NumbersOK'
  <1>1. ASSUME NEW c \in AppCalls, Call(c) PROVE NumbersOK'
    BY <1>1 DEF NumbersOK, FixTimeoutFailedMax, Call, reportVars, boundVars,
      failVars
  <1>2. CASE ContinuousTimeReset
    BY <1>2 DEF NumbersOK, FixTimeoutFailedMax, ContinuousTimeReset,
      reportVars, boundVars, failVars
  <1>3. CASE ResyncCall
    <2>1. \/ \E u \in BOOLEAN : StartSyncing(u)
          \/ UNCHANGED <<contSkew, timeError, maxMin, minMax, lastFailTimeout,
                         currentProximity>>
      BY <1>3 DEF ResyncCall, Resync, reportVars, boundVars
    <2>2. UNCHANGED trueOffset
      BY <1>3 DEF ResyncCall, Delivered
    <2> QED
      BY <2>1, <2>2, StartNumbers DEF NumbersOK
  <1>4. CASE StopSyncingCall
    BY <1>4 DEF NumbersOK, FixTimeoutFailedMax, StopSyncingCall, Delivered,
      reportVars, boundVars, failVars
  <1>5. CASE StopIfNecessaryCall
    BY <1>5 DEF NumbersOK, FixTimeoutFailedMax, StopIfNecessaryCall,
      StopSyncingIfNecessary, Delivered, reportVars, boundVars, failVars
  <1>6. CASE DisableSyncCall
    BY <1>6 DEF NumbersOK, FixTimeoutFailedMax, DisableSyncCall,
      StopSyncingIfNecessary, Delivered, reportVars, boundVars, failVars
  <1>7. CASE EnableSyncCall
    <2>1. \/ \E u \in BOOLEAN : StartSyncing(u)
          \/ UNCHANGED <<contSkew, timeError, maxMin, minMax, lastFailTimeout,
                         currentProximity>>
      BY <1>7 DEF EnableSyncCall, StopSyncingIfNecessary, reportVars, boundVars,
         failVars
    <2>2. UNCHANGED trueOffset
      BY <1>7 DEF EnableSyncCall, Delivered
    <2> QED
      BY <2>1, <2>2, StartNumbers DEF NumbersOK
  <1>8. CASE PollingCall
    BY <1>8 DEF NumbersOK, FixTimeoutFailedMax, PollingCall, Delivered,
      reportVars, boundVars, failVars
  <1>9. CASE BeginReading
    BY <1>9 DEF NumbersOK, FixTimeoutFailedMax, BeginReading, reportVars,
      boundVars, failVars
  <1>10. CASE EndReading
    BY <1>10 DEF NumbersOK, FixTimeoutFailedMax, EndReading, reportVars,
      boundVars, failVars
  <1>11. ASSUME NEW lo \in Offsets, NEW hi \in Offsets, GotPacket(lo, hi)
       PROVE  NumbersOK'
    <2> DEFINE b == Narrowed(lo, hi)
    <2>1. /\ b.maxMin \in Int /\ b.minMax \in Int
          /\ Skew(b) \in Int /\ Error(b) \in Int
      BY OffsetsAssumption, NarrowedType DEF NumbersOK
    <2>2. contSkew' \in Int /\ timeError' \in Nat
      <3> HIDE DEF b
      <3>1. NonOverlapping(b) \/ Finishing(b) \/ Refining(b)
        BY <1>11 DEF GotPacket, b
      <3>2. CASE NonOverlapping(b)
        BY <3>2 DEF NonOverlapping, reportVars, NumbersOK
      <3>3. CASE Finishing(b)
        BY <2>1, <3>3 DEF Finishing
      <3>4. CASE Refining(b)
        BY <2>1, <3>4, FixGoodAssumption DEF Refining, NumbersOK
      <3> QED
        BY <3>1, <3>2, <3>3, <3>4
    <2>3. lastFailTimeout' \in 0 .. FixTimeoutFailedMax
      <3> HIDE DEF b
      <3>1. NonOverlapping(b) \/ Finishing(b) \/ Refining(b)
        BY <1>11 DEF GotPacket, b
      <3>2. lastFailTimeout' = 0 \/ lastFailTimeout' = lastFailTimeout
        BY <3>1 DEF NonOverlapping, Finishing, Refining, failVars
      <3> QED
        BY <3>2 DEF NumbersOK, FixTimeoutFailedMax
    <2> QED
      BY <1>11, <2>1, <2>2, <2>3 DEF GotPacket, NumbersOK
  <1>12. CASE RestartFires
    <2>1. \/ \E u \in BOOLEAN : StartSyncing(u)
          \/ UNCHANGED <<contSkew, timeError, maxMin, minMax, lastFailTimeout,
                         currentProximity>>
      BY <1>12 DEF RestartFires, Resync, reportVars, boundVars
    <2>2. UNCHANGED trueOffset
      BY <1>12 DEF RestartFires
    <2> QED
      BY <2>1, <2>2, StartNumbers DEF NumbersOK
  <1>13. CASE GiveUpFires
    BY <1>13, BackoffType DEF NumbersOK, FixTimeoutFailedMax, GiveUpFires,
      boundVars, failVars
  <1>14. CASE ProximityBumpFires
    BY <1>14 DEF NumbersOK, FixTimeoutFailedMax, ProximityBumpFires,
      reportVars, boundVars, failVars
  <1>15. CASE NoProgressFires
    BY <1>15 DEF NumbersOK, FixTimeoutFailedMax, NoProgressFires, reportVars,
      boundVars, failVars
  <1>16. CASE PollingHostFires
    BY <1>16 DEF NumbersOK, FixTimeoutFailedMax, PollingHostFires, reportVars,
      boundVars, failVars
  <1>17. CASE NetworkUnreachable
    BY <1>17 DEF NumbersOK, FixTimeoutFailedMax, NetworkUnreachable,
      boundVars, failVars
  <1>18. CASE NetworkReachable
    BY <1>18 DEF NumbersOK, FixTimeoutFailedMax, NetworkReachable, reportVars,
      boundVars
  <1>19. CASE NameResolutionComplete
    BY <1>19 DEF NumbersOK, FixTimeoutFailedMax, NameResolutionComplete,
      reportVars, boundVars, failVars
  <1>20. CASE NameResolutionFailed
    BY <1>20 DEF NumbersOK, FixTimeoutFailedMax, NameResolutionFailed,
      boundVars, failVars
  <1>21. CASE UNCHANGED vars
    BY <1>21 DEF NumbersOK, FixTimeoutFailedMax, vars, reportVars, boundVars,
      failVars
  <1> QED
    BY <1>1, <1>2, <1>3, <1>4, <1>5, <1>6, <1>7, <1>8, <1>9, <1>10, <1>11,
      <1>12, <1>13, <1>14, <1>15, <1>16, <1>17, <1>18, <1>19, <1>20, <1>21
    DEF Next, ProcessCall, TimerFires

\* Every step leaves the status one of ESTimeSourceStatus.
LEMMA StatusStep ==
  ASSUME status \in Status, [Next]_vars
  PROVE  (status \in Status)'
  <1>1. ASSUME NEW c \in AppCalls, Call(c) PROVE (status \in Status)'
    BY <1>1 DEF Call, reportVars
  <1>2. CASE ContinuousTimeReset
    BY <1>2 DEF ContinuousTimeReset, reportVars
  <1>3. CASE ResyncCall
    BY <1>3, StatusTypes DEF ResyncCall, Resync, StartSyncing, StartReport,
      reportVars
  <1>4. CASE StopSyncingCall
    BY <1>4 DEF StopSyncingCall, reportVars
  <1>5. CASE StopIfNecessaryCall
    BY <1>5 DEF StopIfNecessaryCall, StopSyncingIfNecessary, reportVars
  <1>6. CASE DisableSyncCall
    BY <1>6 DEF DisableSyncCall, StopSyncingIfNecessary, reportVars
  <1>7. CASE EnableSyncCall
    BY <1>7, StatusTypes DEF EnableSyncCall, StopSyncingIfNecessary,
      StartSyncing, StartReport, reportVars
  <1>8. CASE PollingCall
    BY <1>8 DEF PollingCall, reportVars
  <1>9. CASE BeginReading
    BY <1>9 DEF BeginReading, reportVars
  <1>10. CASE EndReading
    BY <1>10 DEF EndReading, reportVars
  <1>11. ASSUME NEW lo \in Offsets, NEW hi \in Offsets, GotPacket(lo, hi)
       PROVE  (status \in Status)'
    BY <1>11 DEF GotPacket, NonOverlapping, Finishing, Refining, reportVars, Status,
       SynchronizedGroup, RefiningGroup
  <1>12. CASE RestartFires
    BY <1>12, StatusTypes DEF RestartFires, Resync, StartSyncing, StartReport,
      reportVars
  <1>13. CASE GiveUpFires
    BY <1>13, StatusTypes DEF GiveUpFires
  <1>14. CASE ProximityBumpFires
    BY <1>14 DEF ProximityBumpFires, reportVars
  <1>15. CASE NoProgressFires
    BY <1>15 DEF NoProgressFires, reportVars
  <1>16. CASE PollingHostFires
    BY <1>16 DEF PollingHostFires, reportVars
  <1>17. CASE NetworkUnreachable
    BY <1>17, StatusTypes DEF NetworkUnreachable, GotNetworkUnreachable
  <1>18. CASE NetworkReachable
    BY <1>18 DEF NetworkReachable, reportVars
  <1>19. CASE NameResolutionComplete
    BY <1>19 DEF NameResolutionComplete, reportVars
  <1>20. CASE NameResolutionFailed
    BY <1>20, StatusTypes DEF NameResolutionFailed, GotNetworkUnreachable
  <1>21. CASE UNCHANGED vars
    BY <1>21 DEF vars, reportVars
  <1> QED
    BY <1>1, <1>2, <1>3, <1>4, <1>5, <1>6, <1>7, <1>8, <1>9, <1>10, <1>11,
      <1>12, <1>13, <1>14, <1>15, <1>16, <1>17, <1>18, <1>19, <1>20, <1>21
    DEF Next, ProcessCall, TimerFires

\* Every step leaves a queue of calls.
LEMMA CallsStep ==
  ASSUME calls \in Seq(Calls), [Next]_vars
  PROVE  (calls \in Seq(Calls))'
  <1>1. ASSUME NEW c \in AppCalls, Call(c) PROVE (calls \in Seq(Calls))'
    BY <1>1, CallsType, AppCallsAssumption DEF Call
  <1>2. CASE ContinuousTimeReset
    BY <1>2, CallsType DEF ContinuousTimeReset, Calls
  <1>3. CASE ResyncCall
    BY <1>3, CallsType DEF ResyncCall, Delivered
  <1>4. CASE StopSyncingCall
    BY <1>4, CallsType DEF StopSyncingCall, Delivered
  <1>5. CASE StopIfNecessaryCall
    BY <1>5, CallsType DEF StopIfNecessaryCall, Delivered
  <1>6. CASE DisableSyncCall
    BY <1>6, CallsType DEF DisableSyncCall, Delivered
  <1>7. CASE EnableSyncCall
    BY <1>7, CallsType DEF EnableSyncCall, Delivered
  <1>8. CASE PollingCall
    BY <1>8, CallsType DEF PollingCall, Delivered
  <1>9. CASE BeginReading
    BY <1>9 DEF BeginReading
  <1>10. CASE EndReading
    BY <1>10 DEF EndReading
  <1>11. ASSUME NEW lo \in Offsets, NEW hi \in Offsets, GotPacket(lo, hi)
       PROVE  (calls \in Seq(Calls))'
    BY <1>11 DEF GotPacket
  <1>12. CASE RestartFires
    BY <1>12 DEF RestartFires
  <1>13. CASE GiveUpFires
    BY <1>13 DEF GiveUpFires
  <1>14. CASE ProximityBumpFires
    BY <1>14 DEF ProximityBumpFires
  <1>15. CASE NoProgressFires
    BY <1>15 DEF NoProgressFires
  <1>16. CASE PollingHostFires
    BY <1>16 DEF PollingHostFires
  <1>17. CASE NetworkUnreachable
    BY <1>17 DEF NetworkUnreachable
  <1>18. CASE NetworkReachable
    BY <1>18 DEF NetworkReachable
  <1>19. CASE NameResolutionComplete
    BY <1>19 DEF NameResolutionComplete
  <1>20. CASE NameResolutionFailed
    BY <1>20 DEF NameResolutionFailed
  <1>21. CASE UNCHANGED vars
    BY <1>21 DEF vars
  <1> QED
    BY <1>1, <1>2, <1>3, <1>4, <1>5, <1>6, <1>7, <1>8, <1>9, <1>10, <1>11,
      <1>12, <1>13, <1>14, <1>15, <1>16, <1>17, <1>18, <1>19, <1>20, <1>21
    DEF Next, ProcessCall, TimerFires

\* The fields of the driver keep their types, for all calls, packets, timers
\* and failures of the network.
THEOREM TypeCorrect == Spec => []TypeOK
  <1>1. Init => TypeOK
    BY InitType
  <1>2. TypeOK /\ [Next]_vars => TypeOK'
    BY FlagsStep, TimersStep, NumbersStep, StatusStep, CallsStep DEF TypeOK
  <1> QED
    BY <1>1, <1>2, PTL DEF Spec

-----------------------------------------------------------------------------
(* The life cycle of a sync. *)

\* A starting sync has overlapping bounds and an active status.
LEMMA StartEstablishes ==
  ASSUME NEW u \in BOOLEAN, StartSyncing(u)
  PROVE  BoundsOverlapWhileUsed' /\ RunningStatusIsActive'
  <1>1. maxMin' <= minMax'
    BY UnknownType DEF StartSyncing
  <1>2. SyncActive(status')
    BY DEF StartSyncing, StartReport, StartStatus, SyncActive, RefiningGroup
  <1> QED
    BY <1>1, <1>2 DEF BoundsOverlapWhileUsed, RunningStatusIsActive

\* A resync starts a sync or leaves none running.
LEMMA ResyncOutcome ==
  ASSUME FlagsOK, NEW u \in BOOLEAN, NEW r \in Timer, Resync(u, r)
  PROVE  \/ MayStart /\ StartSyncing(u)
         \/ running' = FALSE /\ UNCHANGED stopReading
  BY DEF FlagsOK, Resync, StopSyncing

\* Every step keeps the relations between the flags.
LEMMA FlagsInvStep ==
  ASSUME FlagsOK, TimersOK, FlagsInv, [Next]_vars
  PROVE  FlagsInv'
  <1>1. ASSUME NEW c \in AppCalls, Call(c) PROVE FlagsInv'
    BY <1>1 DEF Call, FlagsInv, RunningIsPermitted, UnreachableIsObserved,
      FlagsOK, reportVars, boundVars, networkVars, pollingVars, failVars,
      syncTimers
  <1>2. CASE ContinuousTimeReset
    BY <1>2 DEF ContinuousTimeReset, FlagsInv, RunningIsPermitted,
      UnreachableIsObserved, FlagsOK, reportVars, boundVars, networkVars,
      pollingVars, failVars, syncTimers
  <1>3. CASE ResyncCall
    <2>1. \/ MayStart /\ \E u \in BOOLEAN : StartSyncing(u)
          \/ running' = FALSE /\ UNCHANGED stopReading
      BY <1>3, ResyncOutcome DEF ResyncCall, TimersOK
    <2>2. ~reading /\ UNCHANGED <<reading, networkVars, disabled>>
      BY <1>3 DEF ResyncCall, Delivered
    <2>3. CASE MayStart /\ \E u \in BOOLEAN : StartSyncing(u)
      BY <2>2, <2>3 DEF FlagsInv, RunningIsPermitted, UnreachableIsObserved,
         MayStart, StartSyncing, networkVars
    <2>4. CASE running' = FALSE /\ UNCHANGED stopReading
      BY <2>2, <2>4 DEF FlagsInv, RunningIsPermitted, UnreachableIsObserved,
         networkVars
    <2> QED
      BY <2>1, <2>3, <2>4
  <1>4. CASE StopSyncingCall
    BY <1>4 DEF StopSyncingCall, Delivered, StopSyncing, StopPollingCycle,
      FlagsInv, RunningIsPermitted, UnreachableIsObserved, FlagsOK,
      reportVars, boundVars, networkVars, pollingVars, failVars, syncTimers
  <1>5. CASE StopIfNecessaryCall
    BY <1>5 DEF StopIfNecessaryCall, StopSyncingIfNecessary, Delivered,
      StopSyncing, StopPollingCycle, FlagsInv, RunningIsPermitted,
      UnreachableIsObserved, FlagsOK, reportVars, boundVars, networkVars,
      pollingVars, failVars, syncTimers
  <1>6. CASE DisableSyncCall
    BY <1>6 DEF DisableSyncCall, StopSyncingIfNecessary, Delivered,
      StopSyncing, StopPollingCycle, FlagsInv, RunningIsPermitted,
      UnreachableIsObserved, FlagsOK, reportVars, boundVars, networkVars,
      pollingVars, failVars, syncTimers
  <1>7. CASE EnableSyncCall
    BY <1>7 DEF EnableSyncCall, StopSyncingIfNecessary, Delivered, MayStart,
      StartSyncing, StartReport, StartTimers, RestartPollingCycle,
      StopSyncing, StopPollingCycle, FlagsInv, RunningIsPermitted,
      UnreachableIsObserved, FlagsOK, reportVars, boundVars, networkVars,
      pollingVars, failVars, syncTimers
  <1>8. CASE PollingCall
    BY <1>8 DEF PollingCall, Delivered, RestartPollingCycle,
      StopPollingCycle, FlagsInv, RunningIsPermitted, UnreachableIsObserved,
      FlagsOK, reportVars, boundVars, networkVars, pollingVars, failVars,
      syncTimers
  <1>9. CASE BeginReading
    BY <1>9 DEF BeginReading, FlagsInv, RunningIsPermitted,
      UnreachableIsObserved, FlagsOK, reportVars, boundVars, networkVars,
      pollingVars, failVars, syncTimers
  <1>10. CASE EndReading
    BY <1>10 DEF EndReading, StopSyncing, StopPollingCycle, FlagsInv,
      RunningIsPermitted, UnreachableIsObserved, FlagsOK, reportVars,
      boundVars, networkVars, pollingVars, failVars, syncTimers
  <1>11. ASSUME NEW lo \in Offsets, NEW hi \in Offsets, GotPacket(lo, hi)
       PROVE  FlagsInv'
    BY <1>11 DEF GotPacket, NonOverlapping, Finishing, Refining, Narrowed,
      Skew, Error, FlagsInv, RunningIsPermitted, UnreachableIsObserved,
      FlagsOK, reportVars, boundVars, networkVars, pollingVars, failVars,
      syncTimers
  <1>12. CASE RestartFires
    BY <1>12 DEF RestartFires, Fires, Resync, MayStart, StartSyncing,
      StartReport, StartTimers, RestartPollingCycle, StopSyncing,
      StopPollingCycle, FlagsInv, RunningIsPermitted, UnreachableIsObserved,
      FlagsOK, reportVars, boundVars, networkVars, pollingVars, failVars,
      syncTimers
  <1>13. CASE GiveUpFires
    BY <1>13 DEF GiveUpFires, Fires, StopSyncing, StopPollingCycle,
      FlagsInv, RunningIsPermitted, UnreachableIsObserved, FlagsOK,
      reportVars, boundVars, networkVars, pollingVars, failVars, syncTimers
  <1>14. CASE ProximityBumpFires
    BY <1>14 DEF ProximityBumpFires, Fires, FlagsInv, RunningIsPermitted,
      UnreachableIsObserved, FlagsOK, reportVars, boundVars, networkVars,
      pollingVars, failVars, syncTimers
  <1>15. CASE NoProgressFires
    BY <1>15 DEF NoProgressFires, Fires, FlagsInv, RunningIsPermitted,
      UnreachableIsObserved, FlagsOK, reportVars, boundVars, networkVars,
      pollingVars, failVars, syncTimers
  <1>16. CASE PollingHostFires
    BY <1>16 DEF PollingHostFires, Fires, FlagsInv, RunningIsPermitted,
      UnreachableIsObserved, FlagsOK, reportVars, boundVars, networkVars,
      pollingVars, failVars, syncTimers
  <1>17. CASE NetworkUnreachable
    BY <1>17 DEF NetworkUnreachable, GotNetworkUnreachable, StopSyncing,
      StopPollingCycle, FlagsInv, RunningIsPermitted, UnreachableIsObserved,
      FlagsOK, reportVars, boundVars, networkVars, pollingVars, failVars,
      syncTimers
  <1>18. CASE NetworkReachable
    BY <1>18 DEF NetworkReachable, FlagsInv, RunningIsPermitted,
      UnreachableIsObserved, FlagsOK, reportVars, boundVars, networkVars,
      pollingVars, failVars, syncTimers
  <1>19. CASE NameResolutionComplete
    BY <1>19 DEF NameResolutionComplete, FlagsInv, RunningIsPermitted,
      UnreachableIsObserved, FlagsOK, reportVars, boundVars, networkVars,
      pollingVars, failVars, syncTimers
  <1>20. CASE NameResolutionFailed
    <2>1. ~reading /\ networkObserver' = TRUE
      BY <1>20 DEF NameResolutionFailed
    <2>2. UNCHANGED <<reading, stopReading, disabled>>
      BY <1>20 DEF NameResolutionFailed
    <2>3. UNCHANGED <<networkReachable, running>> \/ running' = FALSE
      BY <1>20 DEF NameResolutionFailed, GotNetworkUnreachable, StopSyncing
    <2> QED
      BY <2>1, <2>2, <2>3 DEF FlagsInv, RunningIsPermitted,
         UnreachableIsObserved
  <1>21. CASE UNCHANGED vars
    BY <1>21 DEF FlagsInv, RunningIsPermitted, UnreachableIsObserved,
      FlagsOK, vars, reportVars, boundVars, networkVars, pollingVars,
      failVars, syncTimers
  <1> QED
    BY <1>1, <1>2, <1>3, <1>4, <1>5, <1>6, <1>7, <1>8, <1>9, <1>10, <1>11,
      <1>12, <1>13, <1>14, <1>15, <1>16, <1>17, <1>18, <1>19, <1>20, <1>21
    DEF Next, ProcessCall, TimerFires

\* Every step keeps the timers in line with the sync.
LEMMA SyncTimersStep ==
  ASSUME FlagsOK, TimersOK, FlagsInv, SyncTimersInv, [Next]_vars
  PROVE  SyncTimersInv'
  <1>1. ASSUME NEW c \in AppCalls, Call(c) PROVE SyncTimersInv'
    BY <1>1 DEF Call, SyncTimersInv, SyncIsBounded, IdleHoldsNoSyncTimer,
      RestartMeansIdle, FlagsInv, RunningIsPermitted, FlagsOK, TimersOK,
      Timer, reportVars, boundVars, networkVars, pollingVars, failVars,
      syncTimers
  <1>2. CASE ContinuousTimeReset
    BY <1>2 DEF ContinuousTimeReset, SyncTimersInv, SyncIsBounded,
      IdleHoldsNoSyncTimer, RestartMeansIdle, FlagsInv, RunningIsPermitted,
      FlagsOK, TimersOK, Timer, reportVars, boundVars, networkVars,
      pollingVars, failVars, syncTimers
  <1>3. CASE ResyncCall
    BY <1>3 DEF ResyncCall, Delivered, Resync, MayStart, StartSyncing,
      StartReport, StartTimers, RestartPollingCycle, StopSyncing,
      StopPollingCycle, SyncTimersInv, SyncIsBounded, IdleHoldsNoSyncTimer,
      RestartMeansIdle, FlagsInv, RunningIsPermitted, FlagsOK, TimersOK,
      Timer, reportVars, boundVars, networkVars, pollingVars, failVars,
      syncTimers
  <1>4. CASE StopSyncingCall
    BY <1>4 DEF StopSyncingCall, Delivered, StopSyncing, StopPollingCycle,
      SyncTimersInv, SyncIsBounded, IdleHoldsNoSyncTimer, RestartMeansIdle,
      FlagsInv, RunningIsPermitted, FlagsOK, TimersOK, Timer, reportVars,
      boundVars, networkVars, pollingVars, failVars, syncTimers
  <1>5. CASE StopIfNecessaryCall
    BY <1>5 DEF StopIfNecessaryCall, StopSyncingIfNecessary, Delivered,
      StopSyncing, StopPollingCycle, SyncTimersInv, SyncIsBounded,
      IdleHoldsNoSyncTimer, RestartMeansIdle, FlagsInv, RunningIsPermitted,
      FlagsOK, TimersOK, Timer, reportVars, boundVars, networkVars,
      pollingVars, failVars, syncTimers
  <1>6. CASE DisableSyncCall
    BY <1>6 DEF DisableSyncCall, StopSyncingIfNecessary, Delivered,
      StopSyncing, StopPollingCycle, SyncTimersInv, SyncIsBounded,
      IdleHoldsNoSyncTimer, RestartMeansIdle, FlagsInv, RunningIsPermitted,
      FlagsOK, TimersOK, Timer, reportVars, boundVars, networkVars,
      pollingVars, failVars, syncTimers
  <1>7. CASE EnableSyncCall
    BY <1>7 DEF EnableSyncCall, StopSyncingIfNecessary, Delivered, MayStart,
      StartSyncing, StartReport, StartTimers, RestartPollingCycle,
      StopSyncing, StopPollingCycle, SyncTimersInv, SyncIsBounded,
      IdleHoldsNoSyncTimer, RestartMeansIdle, FlagsInv, RunningIsPermitted,
      FlagsOK, TimersOK, Timer, reportVars, boundVars, networkVars,
      pollingVars, failVars, syncTimers
  <1>8. CASE PollingCall
    BY <1>8 DEF PollingCall, Delivered, RestartPollingCycle,
      StopPollingCycle, SyncTimersInv, SyncIsBounded, IdleHoldsNoSyncTimer,
      RestartMeansIdle, FlagsInv, RunningIsPermitted, FlagsOK, TimersOK,
      Timer, reportVars, boundVars, networkVars, pollingVars, failVars,
      syncTimers
  <1>9. CASE BeginReading
    BY <1>9 DEF BeginReading, SyncTimersInv, SyncIsBounded,
      IdleHoldsNoSyncTimer, RestartMeansIdle, FlagsInv, RunningIsPermitted,
      FlagsOK, TimersOK, Timer, reportVars, boundVars, networkVars,
      pollingVars, failVars, syncTimers
  <1>10. CASE EndReading
    BY <1>10 DEF EndReading, StopSyncing, StopPollingCycle, SyncTimersInv,
      SyncIsBounded, IdleHoldsNoSyncTimer, RestartMeansIdle, FlagsInv,
      RunningIsPermitted, FlagsOK, TimersOK, Timer, reportVars, boundVars,
      networkVars, pollingVars, failVars, syncTimers
  <1>11. ASSUME NEW lo \in Offsets, NEW hi \in Offsets, GotPacket(lo, hi)
       PROVE  SyncTimersInv'
    <2> DEFINE b == Narrowed(lo, hi)
    <2> HIDE DEF b
    <2>1. NonOverlapping(b) \/ Finishing(b) \/ Refining(b)
      BY <1>11 DEF GotPacket, b
    <2>2. UNCHANGED <<running, reading, syncTimers>>
      BY <1>11 DEF GotPacket
    <2>3. reading
      BY <1>11 DEF GotPacket
    <2>4. RestartMeansIdle'
      BY <2>1, <2>2 DEF NonOverlapping, Finishing, Refining, failVars,
         SyncTimersInv, RestartMeansIdle
    <2> QED
      BY <2>2, <2>4 DEF SyncTimersInv, SyncIsBounded, IdleHoldsNoSyncTimer,
         syncTimers
  <1>12. CASE RestartFires
    BY <1>12 DEF RestartFires, Fires, Resync, MayStart, StartSyncing,
      StartReport, StartTimers, RestartPollingCycle, StopSyncing,
      StopPollingCycle, SyncTimersInv, SyncIsBounded, IdleHoldsNoSyncTimer,
      RestartMeansIdle, FlagsInv, RunningIsPermitted, FlagsOK, TimersOK,
      Timer, reportVars, boundVars, networkVars, pollingVars, failVars,
      syncTimers
  <1>13. CASE GiveUpFires
    BY <1>13 DEF GiveUpFires, Fires, StopSyncing, StopPollingCycle,
      SyncTimersInv, SyncIsBounded, IdleHoldsNoSyncTimer, RestartMeansIdle,
      FlagsInv, RunningIsPermitted, FlagsOK, TimersOK, Timer, reportVars,
      boundVars, networkVars, pollingVars, failVars, syncTimers
  <1>14. CASE ProximityBumpFires
    BY <1>14 DEF ProximityBumpFires, Fires, SyncTimersInv, SyncIsBounded,
      IdleHoldsNoSyncTimer, RestartMeansIdle, FlagsInv, RunningIsPermitted,
      FlagsOK, TimersOK, Timer, reportVars, boundVars, networkVars,
      pollingVars, failVars, syncTimers
  <1>15. CASE NoProgressFires
    BY <1>15 DEF NoProgressFires, Fires, SyncTimersInv, SyncIsBounded,
      IdleHoldsNoSyncTimer, RestartMeansIdle, FlagsInv, RunningIsPermitted,
      FlagsOK, TimersOK, Timer, reportVars, boundVars, networkVars,
      pollingVars, failVars, syncTimers
  <1>16. CASE PollingHostFires
    BY <1>16 DEF PollingHostFires, Fires, SyncTimersInv, SyncIsBounded,
      IdleHoldsNoSyncTimer, RestartMeansIdle, FlagsInv, RunningIsPermitted,
      FlagsOK, TimersOK, Timer, reportVars, boundVars, networkVars,
      pollingVars, failVars, syncTimers
  <1>17. CASE NetworkUnreachable
    BY <1>17 DEF NetworkUnreachable, GotNetworkUnreachable, StopSyncing,
      StopPollingCycle, SyncTimersInv, SyncIsBounded, IdleHoldsNoSyncTimer,
      RestartMeansIdle, FlagsInv, RunningIsPermitted, FlagsOK, TimersOK,
      Timer, reportVars, boundVars, networkVars, pollingVars, failVars,
      syncTimers
  <1>18. CASE NetworkReachable
    BY <1>18 DEF NetworkReachable, SyncTimersInv, SyncIsBounded,
      IdleHoldsNoSyncTimer, RestartMeansIdle, FlagsInv, RunningIsPermitted,
      FlagsOK, TimersOK, Timer, reportVars, boundVars, networkVars,
      pollingVars, failVars, syncTimers
  <1>19. CASE NameResolutionComplete
    BY <1>19 DEF NameResolutionComplete, SyncTimersInv, SyncIsBounded,
      IdleHoldsNoSyncTimer, RestartMeansIdle, FlagsInv, RunningIsPermitted,
      FlagsOK, TimersOK, Timer, reportVars, boundVars, networkVars,
      pollingVars, failVars, syncTimers
  <1>20. CASE NameResolutionFailed
    BY <1>20 DEF NameResolutionFailed, GotNetworkUnreachable, StopSyncing,
      StopPollingCycle, SyncTimersInv, SyncIsBounded, IdleHoldsNoSyncTimer,
      RestartMeansIdle, FlagsInv, RunningIsPermitted, FlagsOK, TimersOK,
      Timer, reportVars, boundVars, networkVars, pollingVars, failVars,
      syncTimers
  <1>21. CASE UNCHANGED vars
    BY <1>21 DEF SyncTimersInv, SyncIsBounded, IdleHoldsNoSyncTimer,
      RestartMeansIdle, FlagsInv, RunningIsPermitted, FlagsOK, TimersOK,
      Timer, vars, reportVars, boundVars, networkVars, pollingVars,
      failVars, syncTimers
  <1> QED
    BY <1>1, <1>2, <1>3, <1>4, <1>5, <1>6, <1>7, <1>8, <1>9, <1>10, <1>11,
      <1>12, <1>13, <1>14, <1>15, <1>16, <1>17, <1>18, <1>19, <1>20, <1>21
    DEF Next, ProcessCall, TimerFires

\* Every step keeps a synchronized status accurate.
LEMMA AccuracyStep ==
  ASSUME NumbersOK, SynchronizedIsAccurate, [Next]_vars
  PROVE  SynchronizedIsAccurate'
  <1>1. ASSUME NEW c \in AppCalls, Call(c) PROVE SynchronizedIsAccurate'
    BY <1>1 DEF Call, SynchronizedIsAccurate, StartStatus, FailedStatus,
      NoNetStatus, SynchronizedGroup, RefiningGroup, UnknownGroup,
      NoNetGroup, NumbersOK, reportVars, boundVars, networkVars,
      pollingVars, failVars, syncTimers
  <1>2. CASE ContinuousTimeReset
    BY <1>2 DEF ContinuousTimeReset, SynchronizedIsAccurate, StartStatus,
      FailedStatus, NoNetStatus, SynchronizedGroup, RefiningGroup,
      UnknownGroup, NoNetGroup, NumbersOK, reportVars, boundVars,
      networkVars, pollingVars, failVars, syncTimers
  <1>3. CASE ResyncCall
    BY <1>3 DEF ResyncCall, Delivered, Resync, MayStart, StartSyncing,
      StartReport, StartTimers, RestartPollingCycle, StopSyncing,
      StopPollingCycle, SynchronizedIsAccurate, StartStatus, FailedStatus,
      NoNetStatus, SynchronizedGroup, RefiningGroup, UnknownGroup,
      NoNetGroup, NumbersOK, reportVars, boundVars, networkVars,
      pollingVars, failVars, syncTimers
  <1>4. CASE StopSyncingCall
    BY <1>4 DEF StopSyncingCall, Delivered, StopSyncing, StopPollingCycle,
      SynchronizedIsAccurate, StartStatus, FailedStatus, NoNetStatus,
      SynchronizedGroup, RefiningGroup, UnknownGroup, NoNetGroup, NumbersOK,
      reportVars, boundVars, networkVars, pollingVars, failVars, syncTimers
  <1>5. CASE StopIfNecessaryCall
    BY <1>5 DEF StopIfNecessaryCall, StopSyncingIfNecessary, Delivered,
      StopSyncing, StopPollingCycle, SynchronizedIsAccurate, StartStatus,
      FailedStatus, NoNetStatus, SynchronizedGroup, RefiningGroup,
      UnknownGroup, NoNetGroup, NumbersOK, reportVars, boundVars,
      networkVars, pollingVars, failVars, syncTimers
  <1>6. CASE DisableSyncCall
    BY <1>6 DEF DisableSyncCall, StopSyncingIfNecessary, Delivered,
      StopSyncing, StopPollingCycle, SynchronizedIsAccurate, StartStatus,
      FailedStatus, NoNetStatus, SynchronizedGroup, RefiningGroup,
      UnknownGroup, NoNetGroup, NumbersOK, reportVars, boundVars,
      networkVars, pollingVars, failVars, syncTimers
  <1>7. CASE EnableSyncCall
    BY <1>7 DEF EnableSyncCall, StopSyncingIfNecessary, Delivered, MayStart,
      StartSyncing, StartReport, StartTimers, RestartPollingCycle,
      StopSyncing, StopPollingCycle, SynchronizedIsAccurate, StartStatus,
      FailedStatus, NoNetStatus, SynchronizedGroup, RefiningGroup,
      UnknownGroup, NoNetGroup, NumbersOK, reportVars, boundVars,
      networkVars, pollingVars, failVars, syncTimers
  <1>8. CASE PollingCall
    BY <1>8 DEF PollingCall, Delivered, RestartPollingCycle,
      StopPollingCycle, SynchronizedIsAccurate, StartStatus, FailedStatus,
      NoNetStatus, SynchronizedGroup, RefiningGroup, UnknownGroup,
      NoNetGroup, NumbersOK, reportVars, boundVars, networkVars,
      pollingVars, failVars, syncTimers
  <1>9. CASE BeginReading
    BY <1>9 DEF BeginReading, SynchronizedIsAccurate, StartStatus,
      FailedStatus, NoNetStatus, SynchronizedGroup, RefiningGroup,
      UnknownGroup, NoNetGroup, NumbersOK, reportVars, boundVars,
      networkVars, pollingVars, failVars, syncTimers
  <1>10. CASE EndReading
    BY <1>10 DEF EndReading, StopSyncing, StopPollingCycle,
      SynchronizedIsAccurate, StartStatus, FailedStatus, NoNetStatus,
      SynchronizedGroup, RefiningGroup, UnknownGroup, NoNetGroup, NumbersOK,
      reportVars, boundVars, networkVars, pollingVars, failVars, syncTimers
  <1>11. ASSUME NEW lo \in Offsets, NEW hi \in Offsets, GotPacket(lo, hi)
       PROVE  SynchronizedIsAccurate'
    BY <1>11 DEF GotPacket, NonOverlapping, Finishing, Refining, Narrowed,
      Skew, Error, SynchronizedIsAccurate, StartStatus, FailedStatus,
      NoNetStatus, SynchronizedGroup, RefiningGroup, UnknownGroup,
      NoNetGroup, NumbersOK, reportVars, boundVars, networkVars,
      pollingVars, failVars, syncTimers
  <1>12. CASE RestartFires
    BY <1>12 DEF RestartFires, Fires, Resync, MayStart, StartSyncing,
      StartReport, StartTimers, RestartPollingCycle, StopSyncing,
      StopPollingCycle, SynchronizedIsAccurate, StartStatus, FailedStatus,
      NoNetStatus, SynchronizedGroup, RefiningGroup, UnknownGroup,
      NoNetGroup, NumbersOK, reportVars, boundVars, networkVars,
      pollingVars, failVars, syncTimers
  <1>13. CASE GiveUpFires
    BY <1>13 DEF GiveUpFires, Fires, StopSyncing, StopPollingCycle,
      SynchronizedIsAccurate, StartStatus, FailedStatus, NoNetStatus,
      SynchronizedGroup, RefiningGroup, UnknownGroup, NoNetGroup, NumbersOK,
      reportVars, boundVars, networkVars, pollingVars, failVars, syncTimers
  <1>14. CASE ProximityBumpFires
    BY <1>14 DEF ProximityBumpFires, Fires, SynchronizedIsAccurate,
      StartStatus, FailedStatus, NoNetStatus, SynchronizedGroup,
      RefiningGroup, UnknownGroup, NoNetGroup, NumbersOK, reportVars,
      boundVars, networkVars, pollingVars, failVars, syncTimers
  <1>15. CASE NoProgressFires
    BY <1>15 DEF NoProgressFires, Fires, SynchronizedIsAccurate,
      StartStatus, FailedStatus, NoNetStatus, SynchronizedGroup,
      RefiningGroup, UnknownGroup, NoNetGroup, NumbersOK, reportVars,
      boundVars, networkVars, pollingVars, failVars, syncTimers
  <1>16. CASE PollingHostFires
    BY <1>16 DEF PollingHostFires, Fires, SynchronizedIsAccurate,
      StartStatus, FailedStatus, NoNetStatus, SynchronizedGroup,
      RefiningGroup, UnknownGroup, NoNetGroup, NumbersOK, reportVars,
      boundVars, networkVars, pollingVars, failVars, syncTimers
  <1>17. CASE NetworkUnreachable
    BY <1>17 DEF NetworkUnreachable, GotNetworkUnreachable, StopSyncing,
      StopPollingCycle, SynchronizedIsAccurate, StartStatus, FailedStatus,
      NoNetStatus, SynchronizedGroup, RefiningGroup, UnknownGroup,
      NoNetGroup, NumbersOK, reportVars, boundVars, networkVars,
      pollingVars, failVars, syncTimers
  <1>18. CASE NetworkReachable
    BY <1>18 DEF NetworkReachable, SynchronizedIsAccurate, StartStatus,
      FailedStatus, NoNetStatus, SynchronizedGroup, RefiningGroup,
      UnknownGroup, NoNetGroup, NumbersOK, reportVars, boundVars,
      networkVars, pollingVars, failVars, syncTimers
  <1>19. CASE NameResolutionComplete
    BY <1>19 DEF NameResolutionComplete, SynchronizedIsAccurate,
      StartStatus, FailedStatus, NoNetStatus, SynchronizedGroup,
      RefiningGroup, UnknownGroup, NoNetGroup, NumbersOK, reportVars,
      boundVars, networkVars, pollingVars, failVars, syncTimers
  <1>20. CASE NameResolutionFailed
    BY <1>20 DEF NameResolutionFailed, GotNetworkUnreachable, StopSyncing,
      StopPollingCycle, SynchronizedIsAccurate, StartStatus, FailedStatus,
      NoNetStatus, SynchronizedGroup, RefiningGroup, UnknownGroup,
      NoNetGroup, NumbersOK, reportVars, boundVars, networkVars,
      pollingVars, failVars, syncTimers
  <1>21. CASE UNCHANGED vars
    BY <1>21 DEF SynchronizedIsAccurate, StartStatus, FailedStatus,
      NoNetStatus, SynchronizedGroup, RefiningGroup, UnknownGroup,
      NoNetGroup, NumbersOK, vars, reportVars, boundVars, networkVars,
      pollingVars, failVars, syncTimers
  <1> QED
    BY <1>1, <1>2, <1>3, <1>4, <1>5, <1>6, <1>7, <1>8, <1>9, <1>10, <1>11,
      <1>12, <1>13, <1>14, <1>15, <1>16, <1>17, <1>18, <1>19, <1>20, <1>21
    DEF Next, ProcessCall, TimerFires

\* Every step keeps the bounds in use overlapping.
LEMMA OverlapStep ==
  ASSUME FlagsOK, TimersOK, NumbersOK, FlagsInv, BoundsOverlapWhileUsed, [Next]_vars
  PROVE  BoundsOverlapWhileUsed'
  <1>1. ASSUME NEW c \in AppCalls, Call(c) PROVE BoundsOverlapWhileUsed'
    BY <1>1 DEF Call, BoundsOverlapWhileUsed, FlagsInv, FlagsOK, NumbersOK,
      reportVars, boundVars, networkVars, pollingVars, failVars, syncTimers
  <1>2. CASE ContinuousTimeReset
    BY <1>2 DEF ContinuousTimeReset, BoundsOverlapWhileUsed, FlagsInv,
      FlagsOK, NumbersOK, reportVars, boundVars, networkVars, pollingVars,
      failVars, syncTimers
  <1>3. CASE ResyncCall
    <2>1. \E u \in BOOLEAN : StartSyncing(u) \/ running' = FALSE
      BY <1>3, ResyncOutcome DEF ResyncCall, TimersOK
    <2> QED
      BY <2>1, StartEstablishes DEF BoundsOverlapWhileUsed
  <1>4. CASE StopSyncingCall
    BY <1>4 DEF StopSyncingCall, Delivered, StopSyncing, StopPollingCycle,
      BoundsOverlapWhileUsed, FlagsInv, FlagsOK, NumbersOK, reportVars,
      boundVars, networkVars, pollingVars, failVars, syncTimers
  <1>5. CASE StopIfNecessaryCall
    BY <1>5 DEF StopIfNecessaryCall, StopSyncingIfNecessary, Delivered,
      StopSyncing, StopPollingCycle, BoundsOverlapWhileUsed, FlagsInv,
      FlagsOK, NumbersOK, reportVars, boundVars, networkVars, pollingVars,
      failVars, syncTimers
  <1>6. CASE DisableSyncCall
    BY <1>6 DEF DisableSyncCall, StopSyncingIfNecessary, Delivered,
      StopSyncing, StopPollingCycle, BoundsOverlapWhileUsed, FlagsInv,
      FlagsOK, NumbersOK, reportVars, boundVars, networkVars, pollingVars,
      failVars, syncTimers
  <1>7. CASE EnableSyncCall
    <2>1. (\E u \in BOOLEAN : StartSyncing(u)) \/ running' = FALSE
      BY <1>7 DEF EnableSyncCall, StopSyncingIfNecessary, StopSyncing, FlagsOK
    <2> QED
      BY <2>1, StartEstablishes DEF BoundsOverlapWhileUsed
  <1>8. CASE PollingCall
    BY <1>8 DEF PollingCall, Delivered, RestartPollingCycle,
      StopPollingCycle, BoundsOverlapWhileUsed, FlagsInv, FlagsOK,
      NumbersOK, reportVars, boundVars, networkVars, pollingVars, failVars,
      syncTimers
  <1>9. CASE BeginReading
    BY <1>9 DEF BeginReading, BoundsOverlapWhileUsed, FlagsInv, FlagsOK,
      NumbersOK, reportVars, boundVars, networkVars, pollingVars, failVars,
      syncTimers
  <1>10. CASE EndReading
    BY <1>10 DEF EndReading, StopSyncing, StopPollingCycle,
      BoundsOverlapWhileUsed, FlagsInv, FlagsOK, NumbersOK, reportVars,
      boundVars, networkVars, pollingVars, failVars, syncTimers
  <1>11. ASSUME NEW lo \in Offsets, NEW hi \in Offsets, GotPacket(lo, hi)
       PROVE  BoundsOverlapWhileUsed'
    <2> DEFINE b == Narrowed(lo, hi)
    <2> HIDE DEF b
    <2>1. /\ NonOverlapping(b) \/ Finishing(b) \/ Refining(b)
          /\ maxMin' = b.maxMin /\ minMax' = b.minMax
          /\ UNCHANGED running
      BY <1>11 DEF GotPacket, b
    <2>2. b.maxMin \in Int /\ b.minMax \in Int
      BY OffsetsAssumption DEF Narrowed, NumbersOK, b
    <2>3. CASE NonOverlapping(b)
      BY <2>3 DEF NonOverlapping, BoundsOverlapWhileUsed
    <2>4. CASE Finishing(b) \/ Refining(b)
      <3>1. Error(b) >= 0
        BY <2>4, FixGoodAssumption, <2>2 DEF Finishing, Refining, Error
      <3> QED
        BY <2>1, <2>2, <3>1 DEF BoundsOverlapWhileUsed, Error
    <2> QED
      BY <2>1, <2>3, <2>4
  <1>12. CASE RestartFires
    <2>1. \/ \E u \in BOOLEAN : StartSyncing(u)
          \/ running' = FALSE
          \/ UNCHANGED <<status, boundVars, running, stopReading>>
      BY <1>12, ResyncOutcome DEF RestartFires, TimersOK, Timer, reportVars
    <2> QED
      BY <2>1, StartEstablishes DEF BoundsOverlapWhileUsed, boundVars
  <1>13. CASE GiveUpFires
    BY <1>13 DEF GiveUpFires, Fires, StopSyncing, StopPollingCycle,
      BoundsOverlapWhileUsed, FlagsInv, FlagsOK, NumbersOK, reportVars,
      boundVars, networkVars, pollingVars, failVars, syncTimers
  <1>14. CASE ProximityBumpFires
    BY <1>14 DEF ProximityBumpFires, Fires, BoundsOverlapWhileUsed,
      FlagsInv, FlagsOK, NumbersOK, reportVars, boundVars, networkVars,
      pollingVars, failVars, syncTimers
  <1>15. CASE NoProgressFires
    BY <1>15 DEF NoProgressFires, Fires, BoundsOverlapWhileUsed, FlagsInv,
      FlagsOK, NumbersOK, reportVars, boundVars, networkVars, pollingVars,
      failVars, syncTimers
  <1>16. CASE PollingHostFires
    BY <1>16 DEF PollingHostFires, Fires, BoundsOverlapWhileUsed, FlagsInv,
      FlagsOK, NumbersOK, reportVars, boundVars, networkVars, pollingVars,
      failVars, syncTimers
  <1>17. CASE NetworkUnreachable
    BY <1>17 DEF NetworkUnreachable, GotNetworkUnreachable, StopSyncing,
      StopPollingCycle, BoundsOverlapWhileUsed, FlagsInv, FlagsOK,
      NumbersOK, reportVars, boundVars, networkVars, pollingVars, failVars,
      syncTimers
  <1>18. CASE NetworkReachable
    BY <1>18 DEF NetworkReachable, BoundsOverlapWhileUsed, FlagsInv,
      FlagsOK, NumbersOK, reportVars, boundVars, networkVars, pollingVars,
      failVars, syncTimers
  <1>19. CASE NameResolutionComplete
    BY <1>19 DEF NameResolutionComplete, BoundsOverlapWhileUsed, FlagsInv,
      FlagsOK, NumbersOK, reportVars, boundVars, networkVars, pollingVars,
      failVars, syncTimers
  <1>20. CASE NameResolutionFailed
    BY <1>20 DEF NameResolutionFailed, GotNetworkUnreachable, StopSyncing,
      StopPollingCycle, BoundsOverlapWhileUsed, FlagsInv, FlagsOK,
      NumbersOK, reportVars, boundVars, networkVars, pollingVars, failVars,
      syncTimers
  <1>21. CASE UNCHANGED vars
    BY <1>21 DEF BoundsOverlapWhileUsed, FlagsInv, FlagsOK, NumbersOK, vars,
      reportVars, boundVars, networkVars, pollingVars, failVars, syncTimers
  <1> QED
    BY <1>1, <1>2, <1>3, <1>4, <1>5, <1>6, <1>7, <1>8, <1>9, <1>10, <1>11,
      <1>12, <1>13, <1>14, <1>15, <1>16, <1>17, <1>18, <1>19, <1>20, <1>21
    DEF Next, ProcessCall, TimerFires

\* Every step keeps a running sync visible in the status.
LEMMA ActiveStep ==
  ASSUME FlagsOK, TimersOK, FlagsInv, status \in Status, RunningStatusIsActive, [Next]_vars
  PROVE  RunningStatusIsActive'
  <1>1. ASSUME NEW c \in AppCalls, Call(c) PROVE RunningStatusIsActive'
    BY <1>1 DEF Call, RunningStatusIsActive, SyncActive, RefiningGroup,
      FlagsInv, FlagsOK, reportVars, boundVars, networkVars, pollingVars,
      failVars, syncTimers
  <1>2. CASE ContinuousTimeReset
    BY <1>2 DEF ContinuousTimeReset, RunningStatusIsActive, SyncActive,
      RefiningGroup, FlagsInv, FlagsOK, reportVars, boundVars, networkVars,
      pollingVars, failVars, syncTimers
  <1>3. CASE ResyncCall
    <2>1. \E u \in BOOLEAN : StartSyncing(u) \/ running' = FALSE
      BY <1>3, ResyncOutcome DEF ResyncCall, TimersOK
    <2> QED
      BY <2>1, StartEstablishes DEF RunningStatusIsActive
  <1>4. CASE StopSyncingCall
    BY <1>4 DEF StopSyncingCall, Delivered, StopSyncing, StopPollingCycle,
      RunningStatusIsActive, SyncActive, RefiningGroup, FlagsInv, FlagsOK,
      reportVars, boundVars, networkVars, pollingVars, failVars, syncTimers
  <1>5. CASE StopIfNecessaryCall
    BY <1>5 DEF StopIfNecessaryCall, StopSyncingIfNecessary, Delivered,
      StopSyncing, StopPollingCycle, RunningStatusIsActive, SyncActive,
      RefiningGroup, FlagsInv, FlagsOK, reportVars, boundVars, networkVars,
      pollingVars, failVars, syncTimers
  <1>6. CASE DisableSyncCall
    BY <1>6 DEF DisableSyncCall, StopSyncingIfNecessary, Delivered,
      StopSyncing, StopPollingCycle, RunningStatusIsActive, SyncActive,
      RefiningGroup, FlagsInv, FlagsOK, reportVars, boundVars, networkVars,
      pollingVars, failVars, syncTimers
  <1>7. CASE EnableSyncCall
    <2>1. (\E u \in BOOLEAN : StartSyncing(u)) \/ running' = FALSE
      BY <1>7 DEF EnableSyncCall, StopSyncingIfNecessary, StopSyncing, FlagsOK
    <2> QED
      BY <2>1, StartEstablishes DEF RunningStatusIsActive
  <1>8. CASE PollingCall
    BY <1>8 DEF PollingCall, Delivered, RestartPollingCycle,
      StopPollingCycle, RunningStatusIsActive, SyncActive, RefiningGroup,
      FlagsInv, FlagsOK, reportVars, boundVars, networkVars, pollingVars,
      failVars, syncTimers
  <1>9. CASE BeginReading
    BY <1>9 DEF BeginReading, RunningStatusIsActive, SyncActive,
      RefiningGroup, FlagsInv, FlagsOK, reportVars, boundVars, networkVars,
      pollingVars, failVars, syncTimers
  <1>10. CASE EndReading
    BY <1>10 DEF EndReading, StopSyncing, StopPollingCycle,
      RunningStatusIsActive, SyncActive, RefiningGroup, FlagsInv, FlagsOK,
      reportVars, boundVars, networkVars, pollingVars, failVars, syncTimers
  <1>11. ASSUME NEW lo \in Offsets, NEW hi \in Offsets, GotPacket(lo, hi)
       PROVE  RunningStatusIsActive'
    BY <1>11 DEF GotPacket, NonOverlapping, Finishing, Refining, Narrowed,
      Skew, Error, RunningStatusIsActive, SyncActive, RefiningGroup,
      FlagsInv, FlagsOK, reportVars, boundVars, networkVars, pollingVars,
      failVars, syncTimers
  <1>12. CASE RestartFires
    <2>1. \/ \E u \in BOOLEAN : StartSyncing(u)
          \/ running' = FALSE
          \/ UNCHANGED <<status, boundVars, running, stopReading>>
      BY <1>12, ResyncOutcome DEF RestartFires, TimersOK, Timer, reportVars
    <2> QED
      BY <2>1, StartEstablishes DEF RunningStatusIsActive, boundVars
  <1>13. CASE GiveUpFires
    BY <1>13 DEF GiveUpFires, Fires, StopSyncing, StopPollingCycle,
      RunningStatusIsActive, SyncActive, RefiningGroup, FlagsInv, FlagsOK,
      reportVars, boundVars, networkVars, pollingVars, failVars, syncTimers
  <1>14. CASE ProximityBumpFires
    BY <1>14 DEF ProximityBumpFires, Fires, RunningStatusIsActive,
      SyncActive, RefiningGroup, FlagsInv, FlagsOK, reportVars, boundVars,
      networkVars, pollingVars, failVars, syncTimers
  <1>15. CASE NoProgressFires
    BY <1>15 DEF NoProgressFires, Fires, RunningStatusIsActive, SyncActive,
      RefiningGroup, FlagsInv, FlagsOK, reportVars, boundVars, networkVars,
      pollingVars, failVars, syncTimers
  <1>16. CASE PollingHostFires
    BY <1>16 DEF PollingHostFires, Fires, RunningStatusIsActive, SyncActive,
      RefiningGroup, FlagsInv, FlagsOK, reportVars, boundVars, networkVars,
      pollingVars, failVars, syncTimers
  <1>17. CASE NetworkUnreachable
    BY <1>17 DEF NetworkUnreachable, GotNetworkUnreachable, StopSyncing,
      StopPollingCycle, RunningStatusIsActive, SyncActive, RefiningGroup,
      FlagsInv, FlagsOK, reportVars, boundVars, networkVars, pollingVars,
      failVars, syncTimers
  <1>18. CASE NetworkReachable
    BY <1>18 DEF NetworkReachable, RunningStatusIsActive, SyncActive,
      RefiningGroup, FlagsInv, FlagsOK, reportVars, boundVars, networkVars,
      pollingVars, failVars, syncTimers
  <1>19. CASE NameResolutionComplete
    BY <1>19 DEF NameResolutionComplete, RunningStatusIsActive, SyncActive,
      RefiningGroup, FlagsInv, FlagsOK, reportVars, boundVars, networkVars,
      pollingVars, failVars, syncTimers
  <1>20. CASE NameResolutionFailed
    BY <1>20 DEF NameResolutionFailed, GotNetworkUnreachable, StopSyncing,
      StopPollingCycle, RunningStatusIsActive, SyncActive, RefiningGroup,
      FlagsInv, FlagsOK, reportVars, boundVars, networkVars, pollingVars,
      failVars, syncTimers
  <1>21. CASE UNCHANGED vars
    BY <1>21 DEF RunningStatusIsActive, SyncActive, RefiningGroup, FlagsInv,
      FlagsOK, vars, reportVars, boundVars, networkVars, pollingVars,
      failVars, syncTimers
  <1> QED
    BY <1>1, <1>2, <1>3, <1>4, <1>5, <1>6, <1>7, <1>8, <1>9, <1>10, <1>11,
      <1>12, <1>13, <1>14, <1>15, <1>16, <1>17, <1>18, <1>19, <1>20, <1>21
    DEF Next, ProcessCall, TimerFires

\* Every step keeps the level in line with the timer that raises it.
LEMMA LevelStep ==
  ASSUME TimersOK, NumbersOK, LevelInv, [Next]_vars
  PROVE  LevelInv'
  <1>1. ASSUME NEW c \in AppCalls, Call(c) PROVE LevelInv'
    BY <1>1 DEF Call, LevelInv, TimersOK, Timer, NumbersOK, reportVars,
      boundVars, networkVars, pollingVars, failVars, syncTimers
  <1>2. CASE ContinuousTimeReset
    BY <1>2 DEF ContinuousTimeReset, LevelInv, TimersOK, Timer, NumbersOK,
      reportVars, boundVars, networkVars, pollingVars, failVars, syncTimers
  <1>3. CASE ResyncCall
    BY <1>3 DEF ResyncCall, Delivered, Resync, MayStart, StartSyncing,
      StartReport, StartTimers, RestartPollingCycle, StopSyncing,
      StopPollingCycle, LevelInv, TimersOK, Timer, NumbersOK, reportVars,
      boundVars, networkVars, pollingVars, failVars, syncTimers
  <1>4. CASE StopSyncingCall
    BY <1>4 DEF StopSyncingCall, Delivered, StopSyncing, StopPollingCycle,
      LevelInv, TimersOK, Timer, NumbersOK, reportVars, boundVars,
      networkVars, pollingVars, failVars, syncTimers
  <1>5. CASE StopIfNecessaryCall
    BY <1>5 DEF StopIfNecessaryCall, StopSyncingIfNecessary, Delivered,
      StopSyncing, StopPollingCycle, LevelInv, TimersOK, Timer, NumbersOK,
      reportVars, boundVars, networkVars, pollingVars, failVars, syncTimers
  <1>6. CASE DisableSyncCall
    BY <1>6 DEF DisableSyncCall, StopSyncingIfNecessary, Delivered,
      StopSyncing, StopPollingCycle, LevelInv, TimersOK, Timer, NumbersOK,
      reportVars, boundVars, networkVars, pollingVars, failVars, syncTimers
  <1>7. CASE EnableSyncCall
    BY <1>7 DEF EnableSyncCall, StopSyncingIfNecessary, Delivered, MayStart,
      StartSyncing, StartReport, StartTimers, RestartPollingCycle,
      StopSyncing, StopPollingCycle, LevelInv, TimersOK, Timer, NumbersOK,
      reportVars, boundVars, networkVars, pollingVars, failVars, syncTimers
  <1>8. CASE PollingCall
    BY <1>8 DEF PollingCall, Delivered, RestartPollingCycle,
      StopPollingCycle, LevelInv, TimersOK, Timer, NumbersOK, reportVars,
      boundVars, networkVars, pollingVars, failVars, syncTimers
  <1>9. CASE BeginReading
    BY <1>9 DEF BeginReading, LevelInv, TimersOK, Timer, NumbersOK,
      reportVars, boundVars, networkVars, pollingVars, failVars, syncTimers
  <1>10. CASE EndReading
    BY <1>10 DEF EndReading, StopSyncing, StopPollingCycle, LevelInv,
      TimersOK, Timer, NumbersOK, reportVars, boundVars, networkVars,
      pollingVars, failVars, syncTimers
  <1>11. ASSUME NEW lo \in Offsets, NEW hi \in Offsets, GotPacket(lo, hi)
       PROVE  LevelInv'
    BY <1>11 DEF GotPacket, NonOverlapping, Finishing, Refining, Narrowed,
      Skew, Error, LevelInv, TimersOK, Timer, NumbersOK, reportVars,
      boundVars, networkVars, pollingVars, failVars, syncTimers
  <1>12. CASE RestartFires
    BY <1>12 DEF RestartFires, Fires, Resync, MayStart, StartSyncing,
      StartReport, StartTimers, RestartPollingCycle, StopSyncing,
      StopPollingCycle, LevelInv, TimersOK, Timer, NumbersOK, reportVars,
      boundVars, networkVars, pollingVars, failVars, syncTimers
  <1>13. CASE GiveUpFires
    BY <1>13 DEF GiveUpFires, Fires, StopSyncing, StopPollingCycle,
      LevelInv, TimersOK, Timer, NumbersOK, reportVars, boundVars,
      networkVars, pollingVars, failVars, syncTimers
  <1>14. CASE ProximityBumpFires
    BY <1>14 DEF ProximityBumpFires, Fires, LevelInv, TimersOK, Timer,
      NumbersOK, reportVars, boundVars, networkVars, pollingVars, failVars,
      syncTimers
  <1>15. CASE NoProgressFires
    BY <1>15 DEF NoProgressFires, Fires, LevelInv, TimersOK, Timer,
      NumbersOK, reportVars, boundVars, networkVars, pollingVars, failVars,
      syncTimers
  <1>16. CASE PollingHostFires
    BY <1>16 DEF PollingHostFires, Fires, LevelInv, TimersOK, Timer,
      NumbersOK, reportVars, boundVars, networkVars, pollingVars, failVars,
      syncTimers
  <1>17. CASE NetworkUnreachable
    BY <1>17 DEF NetworkUnreachable, GotNetworkUnreachable, StopSyncing,
      StopPollingCycle, LevelInv, TimersOK, Timer, NumbersOK, reportVars,
      boundVars, networkVars, pollingVars, failVars, syncTimers
  <1>18. CASE NetworkReachable
    BY <1>18 DEF NetworkReachable, LevelInv, TimersOK, Timer, NumbersOK,
      reportVars, boundVars, networkVars, pollingVars, failVars, syncTimers
  <1>19. CASE NameResolutionComplete
    BY <1>19 DEF NameResolutionComplete, LevelInv, TimersOK, Timer,
      NumbersOK, reportVars, boundVars, networkVars, pollingVars, failVars,
      syncTimers
  <1>20. CASE NameResolutionFailed
    BY <1>20 DEF NameResolutionFailed, GotNetworkUnreachable, StopSyncing,
      StopPollingCycle, LevelInv, TimersOK, Timer, NumbersOK, reportVars,
      boundVars, networkVars, pollingVars, failVars, syncTimers
  <1>21. CASE UNCHANGED vars
    BY <1>21 DEF LevelInv, TimersOK, Timer, NumbersOK, vars, reportVars,
      boundVars, networkVars, pollingVars, failVars, syncTimers
  <1> QED
    BY <1>1, <1>2, <1>3, <1>4, <1>5, <1>6, <1>7, <1>8, <1>9, <1>10, <1>11,
      <1>12, <1>13, <1>14, <1>15, <1>16, <1>17, <1>18, <1>19, <1>20, <1>21
    DEF Next, ProcessCall, TimerFires

LEMMA InitLifecycle == Init => LifecycleInv
  <1> SUFFICES ASSUME Init PROVE LifecycleInv
    OBVIOUS
  <1>1. TypeOK
    BY InitType
  <1>2. FlagsInv
    BY DEF Init, FlagsInv, RunningIsPermitted, UnreachableIsObserved
  <1>3. SyncTimersInv /\ LevelInv
    BY DEF Init, SyncTimersInv, SyncIsBounded, IdleHoldsNoSyncTimer,
       RestartMeansIdle, LevelInv
  <1>4. SynchronizedIsAccurate
    BY DEF Init, SynchronizedIsAccurate, SynchronizedGroup
  <1>5. BoundsOverlapWhileUsed /\ RunningStatusIsActive
    BY DEF Init, BoundsOverlapWhileUsed, RunningStatusIsActive
  <1> QED
    BY <1>1, <1>2, <1>3, <1>4, <1>5 DEF LifecycleInv

\* The invariant holds in every behaviour.
THEOREM LifecycleCorrect == Spec => []LifecycleInv
  <1>1. Init => LifecycleInv
    BY InitLifecycle
  <1>2. LifecycleInv /\ [Next]_vars => LifecycleInv'
    <2> SUFFICES ASSUME LifecycleInv, [Next]_vars PROVE LifecycleInv'
      OBVIOUS
    <2>1. FlagsOK /\ TimersOK /\ NumbersOK /\ status \in Status /\ calls \in Seq(Calls)
      BY DEF LifecycleInv, TypeOK
    <2>2. TypeOK'
      BY <2>1, FlagsStep, TimersStep, NumbersStep, StatusStep, CallsStep DEF TypeOK
    <2>3. FlagsInv'
      BY <2>1, FlagsInvStep DEF LifecycleInv
    <2>4. SyncTimersInv' /\ LevelInv'
      BY <2>1, SyncTimersStep, LevelStep DEF LifecycleInv
    <2>5. SynchronizedIsAccurate'
      BY <2>1, AccuracyStep DEF LifecycleInv
    <2>6. BoundsOverlapWhileUsed' /\ RunningStatusIsActive'
      BY <2>1, OverlapStep, ActiveStep DEF LifecycleInv
    <2> QED
      BY <2>2, <2>3, <2>4, <2>5, <2>6 DEF LifecycleInv
  <1> QED
    BY <1>1, <1>2, PTL DEF Spec

\* No order of calls, timers and network changes lets a sync run while the
\* driver is disabled or the network is known to be down, and a lost network is
\* always observed.
THEOREM NetworkAlwaysHeeded == Spec => []NetworkIsHeeded
  <1>1. LifecycleInv => NetworkIsHeeded
    BY DEF LifecycleInv, FlagsInv, NetworkIsHeeded, RunningIsPermitted, UnreachableIsObserved
  <1> QED
    BY <1>1, LifecycleCorrect, PTL

\* Every sync has its give-up timer, every stopped driver has none of the
\* sync's timers, and no restart timer cuts a sync short.
THEOREM TimersFollowTheSync == Spec => []SyncTimersMatch
  <1>1. LifecycleInv => SyncTimersMatch
    BY DEF LifecycleInv, SyncTimersInv, SyncTimersMatch
  <1> QED
    BY <1>1, LifecycleCorrect, PTL

\* A status of the synchronized group always comes with an error below
\* ES_FIX_GOOD.
THEOREM SynchronizedClaimsAccuracy == Spec => []SynchronizedIsAccurate
  <1>1. LifecycleInv => SynchronizedIsAccurate
    BY DEF LifecycleInv
  <1> QED
    BY <1>1, LifecycleCorrect, PTL

\* Contradicting bounds are never in use, and a running sync shows in the
\* status.
THEOREM RunningSyncIsConsistent ==
  Spec => [](BoundsOverlapWhileUsed /\ RunningStatusIsActive)
  <1>1. LifecycleInv => BoundsOverlapWhileUsed /\ RunningStatusIsActive
    BY DEF LifecycleInv
  <1> QED
    BY <1>1, LifecycleCorrect, PTL

\* Giving up on a sync follows the whole walk through the country, the
\* continent and the global pools.
THEOREM GiveUpFollowsGlobalPools == Spec => GivesUpAfterGlobalPools
  <1>1. LifecycleInv /\ [Next]_vars => [GiveUpFires => currentProximity >= 3]_vars
    BY DEF LifecycleInv, LevelInv, GiveUpFires, Fires
  <1> QED
    BY <1>1, LifecycleCorrect, PTL DEF Spec, GivesUpAfterGlobalPools

-----------------------------------------------------------------------------
(* The claim. *)

\* With honest packets and no reset of the clock: the claim holds, the skew is
\* a midpoint of offsets, and the bounds of a sync contain the true offset.
ClaimInv ==
  /\ ErrorBoundHolds
  /\ \E a, b \in Offsets : contSkew = a + b
  /\ running =>
       /\ maxMin \in Offsets \union {-Unknown}
       /\ minMax \in Offsets \union {Unknown}
       /\ maxMin <= trueOffset /\ trueOffset <= minMax

LEMMA ClaimInit == Init => ClaimInv
  <1> SUFFICES ASSUME Init PROVE ClaimInv
    OBVIOUS
  <1>1. PICK o \in Offsets : contSkew = 2 * o
    BY DEF Init
  <1>2. contSkew = o + o
    BY <1>1, OffsetsAssumption
  <1> QED
    BY <1>2 DEF Init, ClaimInv

\* A sync that does not trust the old value claims nothing; one that does
\* claims what was claimed before.
LEMMA ClaimStart ==
  ASSUME NumbersOK, ClaimInv, NEW u \in BOOLEAN, StartSyncing(u),
         UNCHANGED trueOffset
  PROVE  ClaimInv'
  <1>1. PICK a, b \in Offsets : contSkew = a + b
    BY DEF ClaimInv
  <1>2. UNCHANGED contSkew /\ timeError' = IF u THEN timeError ELSE Unknown
    BY DEF StartSyncing, StartReport
  <1>3. /\ contSkew - Unknown <= 2 * trueOffset
        /\ 2 * trueOffset <= contSkew + Unknown
    BY <1>1, UnknownAssumption, OffsetsAssumption DEF NumbersOK
  <1>4. ErrorBoundHolds'
    BY <1>2, <1>3 DEF ClaimInv, ErrorBoundHolds
  <1>5. -Unknown <= trueOffset /\ trueOffset <= Unknown
    BY UnknownAssumption, OffsetsAssumption DEF NumbersOK
  <1>6. /\ maxMin' = -Unknown /\ minMax' = Unknown
    BY DEF StartSyncing
  <1> QED
    BY <1>1, <1>2, <1>4, <1>5, <1>6 DEF ClaimInv

\* Narrowing by an honest packet keeps the true offset between the bounds,
\* and what is reported of the bounds claims no more.
LEMMA ClaimPacket ==
  ASSUME NumbersOK, ClaimInv, running, Honest,
         NEW lo \in Offsets, NEW hi \in Offsets, GotPacket(lo, hi)
  PROVE  ClaimInv'
  <1> DEFINE b == Narrowed(lo, hi)
  <1>1. lo <= trueOffset /\ trueOffset <= hi
    BY DEF GotPacket
  <1>2. /\ maxMin \in Offsets \union {-Unknown}
        /\ minMax \in Offsets \union {Unknown}
        /\ maxMin <= trueOffset /\ trueOffset <= minMax
    BY DEF ClaimInv
  <1>3. -Unknown < lo /\ hi < Unknown
    BY UnknownAssumption
  <1>4. /\ b.maxMin = IF lo > maxMin THEN lo ELSE maxMin
        /\ b.minMax = IF hi < minMax THEN hi ELSE minMax
    BY DEF Narrowed
  <1>5. /\ b.maxMin \in Offsets /\ b.minMax \in Offsets
        /\ b.maxMin <= trueOffset /\ trueOffset <= b.minMax
    BY <1>1, <1>2, <1>3, <1>4, UnknownType, OffsetsAssumption DEF NumbersOK
  <1>6. /\ maxMin' = b.maxMin /\ minMax' = b.minMax
        /\ UNCHANGED trueOffset
        /\ NonOverlapping(b) \/ Finishing(b) \/ Refining(b)
    BY DEF GotPacket
  <1> HIDE DEF b
  <1>7. \/ UNCHANGED <<contSkew, timeError>>
        \/ contSkew' = b.minMax + b.maxMin /\ timeError' = b.minMax - b.maxMin
    <2>1. CASE NonOverlapping(b)
      BY <2>1 DEF NonOverlapping, reportVars
    <2>2. CASE Finishing(b)
      BY <2>2 DEF Finishing, Skew, Error
    <2>3. CASE Refining(b)
      BY <2>3 DEF Refining, Skew, Error
    <2> QED
      BY <1>6, <2>1, <2>2, <2>3
  <1>8. ErrorBoundHolds'
    <2>1. CASE UNCHANGED <<contSkew, timeError>>
      BY <2>1, <1>6 DEF ClaimInv, ErrorBoundHolds
    <2>2. CASE /\ contSkew' = b.minMax + b.maxMin
               /\ timeError' = b.minMax - b.maxMin
      <3>1. b.maxMin \in Int /\ b.minMax \in Int /\ trueOffset \in Int
        BY <1>5, OffsetsAssumption DEF NumbersOK
      <3>2. /\ b.minMax + b.maxMin - (b.minMax - b.maxMin) <= 2 * trueOffset
            /\ 2 * trueOffset <= b.minMax + b.maxMin + (b.minMax - b.maxMin)
        BY <3>1, <1>5
      <3> QED
        BY <2>2, <1>6, <3>1, <3>2 DEF ErrorBoundHolds
    <2> QED
      BY <1>7, <2>1, <2>2
  <1>9. \E x, y \in Offsets : contSkew' = x + y
    BY <1>5, <1>7 DEF ClaimInv
  <1> QED
    BY <1>5, <1>6, <1>8, <1>9 DEF ClaimInv

\* Every other step leaves the claim alone and starts no sync.
Quiet ==
  /\ UNCHANGED <<contSkew, timeError, maxMin, minMax, trueOffset>>
  /\ running' => running

Starts == \E u \in BOOLEAN : StartSyncing(u) /\ UNCHANGED trueOffset

\* What a step may do to the claim.
LEMMA ReportSteps ==
  ASSUME [Next]_vars
  PROVE  \/ ContinuousTimeReset
         \/ Starts
         \/ \E lo, hi \in Offsets : GotPacket(lo, hi)
         \/ Quiet
  <1>1. ASSUME NEW c \in AppCalls, Call(c) PROVE Quiet
    <2>1. UNCHANGED <<contSkew, timeError, maxMin, minMax, trueOffset>>
      BY <1>1 DEF Call, reportVars, boundVars
    <2>2. running' => running
      BY <1>1 DEF Call
    <2> QED
      BY <2>1, <2>2 DEF Quiet
  <1>2. CASE ResyncCall
    <2>1. \/ \E u \in BOOLEAN : StartSyncing(u)
          \/ /\ UNCHANGED <<contSkew, timeError, maxMin, minMax>>
             /\ running' => running
      BY <1>2 DEF ResyncCall, Resync, StopSyncing, reportVars, boundVars
    <2>2. UNCHANGED trueOffset
      BY <1>2 DEF ResyncCall, Delivered
    <2> QED
      BY <2>1, <2>2 DEF Quiet, Starts
  <1>3. CASE StopSyncingCall
    <2>1. UNCHANGED <<contSkew, timeError, maxMin, minMax, trueOffset>>
      BY <1>3 DEF StopSyncingCall, Delivered, StopSyncing, reportVars, boundVars
    <2>2. running' => running
      BY <1>3 DEF StopSyncingCall, Delivered, StopSyncing
    <2> QED
      BY <2>1, <2>2 DEF Quiet
  <1>4. CASE StopIfNecessaryCall
    <2>1. UNCHANGED <<contSkew, timeError, maxMin, minMax, trueOffset>>
      BY <1>4 DEF StopIfNecessaryCall, StopSyncingIfNecessary, Delivered, StopSyncing, reportVars, boundVars
    <2>2. running' => running
      BY <1>4 DEF StopIfNecessaryCall, StopSyncingIfNecessary, Delivered, StopSyncing
    <2> QED
      BY <2>1, <2>2 DEF Quiet
  <1>5. CASE DisableSyncCall
    <2>1. UNCHANGED <<contSkew, timeError, maxMin, minMax, trueOffset>>
      BY <1>5 DEF DisableSyncCall, StopSyncingIfNecessary, Delivered, StopSyncing, reportVars, boundVars
    <2>2. running' => running
      BY <1>5 DEF DisableSyncCall, StopSyncingIfNecessary, Delivered, StopSyncing
    <2> QED
      BY <2>1, <2>2 DEF Quiet
  <1>6. CASE EnableSyncCall
    <2>1. \/ \E u \in BOOLEAN : StartSyncing(u)
          \/ /\ UNCHANGED <<contSkew, timeError, maxMin, minMax>>
             /\ running' => running
      BY <1>6 DEF EnableSyncCall, StopSyncingIfNecessary, StopSyncing, reportVars, boundVars
    <2>2. UNCHANGED trueOffset
      BY <1>6 DEF EnableSyncCall, Delivered
    <2> QED
      BY <2>1, <2>2 DEF Quiet, Starts
  <1>7. CASE PollingCall
    <2>1. UNCHANGED <<contSkew, timeError, maxMin, minMax, trueOffset>>
      BY <1>7 DEF PollingCall, Delivered, reportVars, boundVars
    <2>2. running' => running
      BY <1>7 DEF PollingCall, Delivered
    <2> QED
      BY <2>1, <2>2 DEF Quiet
  <1>8. CASE BeginReading
    <2>1. UNCHANGED <<contSkew, timeError, maxMin, minMax, trueOffset>>
      BY <1>8 DEF BeginReading, reportVars, boundVars
    <2>2. running' => running
      BY <1>8 DEF BeginReading
    <2> QED
      BY <2>1, <2>2 DEF Quiet
  <1>9. CASE EndReading
    <2>1. UNCHANGED <<contSkew, timeError, maxMin, minMax, trueOffset>>
      BY <1>9 DEF EndReading, StopSyncing, reportVars, boundVars
    <2>2. running' => running
      BY <1>9 DEF EndReading, StopSyncing
    <2> QED
      BY <2>1, <2>2 DEF Quiet
  <1>10. CASE RestartFires
    <2>1. \/ \E u \in BOOLEAN : StartSyncing(u)
          \/ /\ UNCHANGED <<contSkew, timeError, maxMin, minMax>>
             /\ running' => running
      BY <1>10 DEF RestartFires, Resync, StopSyncing, reportVars, boundVars
    <2>2. UNCHANGED trueOffset
      BY <1>10 DEF RestartFires, Delivered
    <2> QED
      BY <2>1, <2>2 DEF Quiet, Starts
  <1>11. CASE GiveUpFires
    <2>1. UNCHANGED <<contSkew, timeError, maxMin, minMax, trueOffset>>
      BY <1>11 DEF GiveUpFires, Fires, StopSyncing, reportVars, boundVars
    <2>2. running' => running
      BY <1>11 DEF GiveUpFires, Fires, StopSyncing
    <2> QED
      BY <2>1, <2>2 DEF Quiet
  <1>12. CASE ProximityBumpFires
    <2>1. UNCHANGED <<contSkew, timeError, maxMin, minMax, trueOffset>>
      BY <1>12 DEF ProximityBumpFires, Fires, reportVars, boundVars
    <2>2. running' => running
      BY <1>12 DEF ProximityBumpFires, Fires
    <2> QED
      BY <2>1, <2>2 DEF Quiet
  <1>13. CASE NoProgressFires
    <2>1. UNCHANGED <<contSkew, timeError, maxMin, minMax, trueOffset>>
      BY <1>13 DEF NoProgressFires, Fires, reportVars, boundVars
    <2>2. running' => running
      BY <1>13 DEF NoProgressFires, Fires
    <2> QED
      BY <2>1, <2>2 DEF Quiet
  <1>14. CASE PollingHostFires
    <2>1. UNCHANGED <<contSkew, timeError, maxMin, minMax, trueOffset>>
      BY <1>14 DEF PollingHostFires, Fires, reportVars, boundVars
    <2>2. running' => running
      BY <1>14 DEF PollingHostFires, Fires
    <2> QED
      BY <2>1, <2>2 DEF Quiet
  <1>15. CASE NetworkUnreachable
    <2>1. UNCHANGED <<contSkew, timeError, maxMin, minMax, trueOffset>>
      BY <1>15 DEF NetworkUnreachable, GotNetworkUnreachable, StopSyncing, reportVars, boundVars
    <2>2. running' => running
      BY <1>15 DEF NetworkUnreachable, GotNetworkUnreachable, StopSyncing
    <2> QED
      BY <2>1, <2>2 DEF Quiet
  <1>16. CASE NetworkReachable
    <2>1. UNCHANGED <<contSkew, timeError, maxMin, minMax, trueOffset>>
      BY <1>16 DEF NetworkReachable, reportVars, boundVars
    <2>2. running' => running
      BY <1>16 DEF NetworkReachable
    <2> QED
      BY <2>1, <2>2 DEF Quiet
  <1>17. CASE NameResolutionComplete
    <2>1. UNCHANGED <<contSkew, timeError, maxMin, minMax, trueOffset>>
      BY <1>17 DEF NameResolutionComplete, reportVars, boundVars
    <2>2. running' => running
      BY <1>17 DEF NameResolutionComplete
    <2> QED
      BY <2>1, <2>2 DEF Quiet
  <1>18. CASE NameResolutionFailed
    <2>1. UNCHANGED <<contSkew, timeError, maxMin, minMax, trueOffset>>
      BY <1>18 DEF NameResolutionFailed, GotNetworkUnreachable, StopSyncing, reportVars, boundVars
    <2>2. running' => running
      BY <1>18 DEF NameResolutionFailed, GotNetworkUnreachable, StopSyncing
    <2> QED
      BY <2>1, <2>2 DEF Quiet
  <1>19. CASE UNCHANGED vars
    BY <1>19 DEF Quiet, vars, reportVars, boundVars
  <1> QED
    BY <1>1, <1>2, <1>3, <1>4, <1>5, <1>6, <1>7, <1>8, <1>9,
      <1>10, <1>11, <1>12, <1>13, <1>14, <1>15, <1>16, <1>17, <1>18, <1>19
    DEF Next, ProcessCall, TimerFires

LEMMA ClaimQuiet ==
  ASSUME ClaimInv, Quiet
  PROVE  ClaimInv'
  BY DEF ClaimInv, ErrorBoundHolds, Quiet

\* Without a reset of the clock every step keeps the claim.
LEMMA ClaimStep ==
  ASSUME Honest, ~ContinuousTimeReset, NumbersOK, FlagsInv, ClaimInv, [Next]_vars
  PROVE  ClaimInv'
  <1>1. CASE Starts
    BY <1>1, ClaimStart DEF Starts
  <1>2. ASSUME NEW lo \in Offsets, NEW hi \in Offsets, GotPacket(lo, hi)
        PROVE  ClaimInv'
    <2>1. running
      BY <1>2 DEF GotPacket, FlagsInv
    <2> QED
      BY <1>2, <2>1, ClaimPacket
  <1>3. CASE Quiet
    BY <1>3, ClaimQuiet
  <1> QED
    BY <1>1, <1>2, <1>3, ReportSteps

\* With honest packets and a clock that is not reset, the time reported is
\* never further from the truth than the error reported with it, through any
\* order of packets, resyncs, stops, give-ups and network failures.
THEOREM ClaimIsSound ==
  ASSUME Honest, ~ClockJumps
  PROVE  Spec => []ErrorBoundHolds
  <1>1. Init => ClaimInv
    BY ClaimInit
  <1>2. LifecycleInv /\ ClaimInv /\ [Next]_vars => ClaimInv'
    BY ClaimStep DEF LifecycleInv, TypeOK, ContinuousTimeReset
  <1>3. ClaimInv => ErrorBoundHolds
    BY DEF ClaimInv
  <1> QED
    BY <1>1, <1>2, <1>3, LifecycleCorrect, PTL DEF Spec

-----------------------------------------------------------------------------
(* The queue of calls. *)

Queued(c) == \E i \in 1 .. Len(calls) : calls[i] = c

LEMMA QueueGrows ==
  ASSUME calls \in Seq(Calls), NEW c \in Calls, calls' = Append(calls, c), NEW d
  PROVE  Queued(d)' <=> Queued(d) \/ d = c
  <1>1. /\ Len(calls) \in Nat /\ Len(calls') = Len(calls) + 1
        /\ \A i \in 1 .. Len(calls) : calls'[i] = calls[i]
        /\ calls'[Len(calls) + 1] = c
    OBVIOUS
  <1>2. ASSUME Queued(d)' PROVE Queued(d) \/ d = c
    <2>1. PICK i \in 1 .. Len(calls') : calls'[i] = d
      BY <1>2 DEF Queued
    <2>2. i \in 1 .. Len(calls) \/ i = Len(calls) + 1
      BY <1>1
    <2> QED
      BY <1>1, <2>1, <2>2 DEF Queued
  <1>3. ASSUME Queued(d) PROVE Queued(d)'
    <2>1. PICK i \in 1 .. Len(calls) : calls[i] = d
      BY <1>3 DEF Queued
    <2>2. i \in 1 .. Len(calls')
      BY <1>1
    <2> QED
      BY <1>1, <2>1, <2>2 DEF Queued
  <1>4. ASSUME d = c PROVE Queued(d)'
    <2>1. Len(calls) + 1 \in 1 .. Len(calls')
      BY <1>1
    <2> QED
      BY <1>1, <1>4, <2>1 DEF Queued
  <1> QED
    BY <1>2, <1>3, <1>4

LEMMA QueueShrinks ==
  ASSUME calls \in Seq(Calls), calls # <<>>, calls' = Tail(calls), NEW d
  PROVE  Queued(d) <=> Queued(d)' \/ d = Head(calls)
  <1>1. /\ Len(calls) \in Nat \ {0} /\ Len(calls') = Len(calls) - 1
        /\ \A i \in 1 .. Len(calls) - 1 : calls'[i] = calls[i + 1]
        /\ calls[1] = Head(calls)
    OBVIOUS
  <1>2. ASSUME Queued(d) PROVE Queued(d)' \/ d = Head(calls)
    <2>1. PICK i \in 1 .. Len(calls) : calls[i] = d
      BY <1>2 DEF Queued
    <2>2. i = 1 \/ (i - 1 \in 1 .. Len(calls') /\ (i - 1) + 1 = i)
      BY <1>1
    <2>3. i - 1 \in 1 .. Len(calls') /\ (i - 1) + 1 = i => calls'[i - 1] = calls[i]
      BY <1>1
    <2> QED
      BY <1>1, <2>1, <2>2, <2>3 DEF Queued
  <1>3. ASSUME Queued(d)' PROVE Queued(d)
    <2>1. PICK i \in 1 .. Len(calls') : calls'[i] = d
      BY <1>3 DEF Queued
    <2>2. i + 1 \in 1 .. Len(calls) /\ calls'[i] = calls[i + 1]
      BY <1>1
    <2> QED
      BY <2>1, <2>2 DEF Queued
  <1>4. ASSUME d = Head(calls) PROVE Queued(d)
    <2>1. 1 \in 1 .. Len(calls)
      BY <1>1
    <2> QED
      BY <1>1, <1>4, <2>1 DEF Queued
  <1> QED
    BY <1>2, <1>3, <1>4

\* What a step may do to the queue.
LEMMA QueueSteps ==
  ASSUME [Next]_vars
  PROVE  \/ \E c \in AppCalls : Call(c)
         \/ ContinuousTimeReset
         \/ ProcessCall
         \/ UNCHANGED calls
  <1>1. CASE UNCHANGED vars
    BY <1>1, Zenon DEF vars
  <1>2. CASE BeginReading \/ EndReading
    BY <1>2, Zenon DEF BeginReading, EndReading
  <1>3. ASSUME NEW lo, NEW hi, GotPacket(lo, hi) PROVE UNCHANGED calls
    BY <1>3, Zenon DEF GotPacket
  <1>4. CASE TimerFires
    BY <1>4, Zenon
       DEF TimerFires, RestartFires, GiveUpFires, ProximityBumpFires, NoProgressFires,
           PollingHostFires
  <1>5. CASE \/ NetworkUnreachable \/ NetworkReachable
             \/ NameResolutionComplete \/ NameResolutionFailed
    BY <1>5, Zenon
       DEF NetworkUnreachable, NetworkReachable, NameResolutionComplete, NameResolutionFailed
  <1> QED
    BY <1>1, <1>2, <1>3, <1>4, <1>5, Zenon DEF Next

\* A call that is processed leaves the queue.
LEMMA ProcessedCall ==
  ASSUME ProcessCall
  PROVE  calls # <<>> /\ calls' = Tail(calls) /\ Delivered(Head(calls))
  BY Zenon
     DEF ProcessCall, ResyncCall, StopSyncingCall, StopIfNecessaryCall, DisableSyncCall,
         EnableSyncCall, PollingCall, Delivered

-----------------------------------------------------------------------------
(* The polling flags. *)

\* A step sets the flags and the timer together, or leaves the timer alone.
LEMMA PollingSteps ==
  ASSUME [Next]_vars
  PROVE  \/ RestartPollingCycle \/ StopPollingCycle \/ PollingHostFires
         \/ \E c \in AppCalls : Call(c)
         \/ UNCHANGED pollingVars
  <1>1. CASE UNCHANGED vars \/ ContinuousTimeReset \/ BeginReading \/ EndReading
    BY <1>1 DEF vars, ContinuousTimeReset, BeginReading, EndReading, StopSyncing, pollingVars
  <1>2. CASE ProcessCall
    BY <1>2
       DEF ProcessCall, ResyncCall, StopSyncingCall, StopIfNecessaryCall, DisableSyncCall,
           EnableSyncCall, PollingCall, Resync, StopSyncingIfNecessary, StartSyncing,
           StopSyncing, pollingVars
  <1>3. ASSUME NEW lo, NEW hi, GotPacket(lo, hi) PROVE UNCHANGED pollingVars
    BY <1>3, Zenon DEF GotPacket
  <1>4. CASE TimerFires
    BY <1>4
       DEF TimerFires, RestartFires, GiveUpFires, ProximityBumpFires, NoProgressFires,
           Resync, StartSyncing, StopSyncing, pollingVars
  <1>5. CASE \/ NetworkUnreachable \/ NetworkReachable
             \/ NameResolutionComplete \/ NameResolutionFailed
    BY <1>5
       DEF NetworkUnreachable, NetworkReachable, NameResolutionComplete, NameResolutionFailed,
           GotNetworkUnreachable, StopSyncing, pollingVars
  <1> QED
    BY <1>1, <1>2, <1>3, <1>4, <1>5 DEF Next

LEMMA PollingCallProcessed ==
  ASSUME ProcessCall, Head(calls) \in {"pollRestart", "pollStop"}
  PROVE  RestartPollingCycle \/ StopPollingCycle
  BY DEF ProcessCall, ResyncCall, StopSyncingCall, StopIfNecessaryCall, DisableSyncCall,
         EnableSyncCall, PollingCall, Delivered

LEMMA SettledStep ==
  ASSUME TypeOK, PollingFlagsSettle, [Next]_vars
  PROVE  PollingFlagsSettle'
  <1> DEFINE Asked == Queued("pollRestart") \/ Queued("pollStop")
             Agree == /\ pollingRunning <=> (pollingHost = "armed")
                      /\ pollingCycleRunning => pollingRunning
  <1>1. PollingFlagsSettle <=> Asked \/ Agree
    BY DEF PollingFlagsSettle, Queued
  <1>2. PollingFlagsSettle' <=> Asked' \/ Agree'
    BY DEF PollingFlagsSettle, Queued
  <1>3. calls \in Seq(Calls)
    BY DEF TypeOK
  <1>4. CASE RestartPollingCycle \/ StopPollingCycle
    BY <1>2, <1>4 DEF RestartPollingCycle, StopPollingCycle
  <1>5. CASE PollingHostFires
    <2>1. /\ pollingHost = "armed" /\ UNCHANGED <<pollingHost, pollingRunning, calls>>
      BY <1>5 DEF PollingHostFires, Fires
    <2>2. Asked' <=> Asked
      BY <2>1 DEF Queued
    <2> QED
      BY <1>1, <1>2, <2>1, <2>2
  <1>6. ASSUME NEW c \in AppCalls, Call(c) PROVE PollingFlagsSettle'
    <2>1. c \in Calls /\ calls' = Append(calls, c) /\ UNCHANGED pollingHost
      BY <1>6, AppCallsAssumption DEF Call
    <2>2. Asked' <=> Asked \/ c \in {"pollRestart", "pollStop"}
      BY <1>3, <2>1, QueueGrows
    <2>3. c \notin {"pollRestart", "pollStop"} => Agree' = Agree
      BY <1>6, <2>1 DEF Call
    <2> QED
      BY <1>1, <1>2, <2>2, <2>3
  <1>7. CASE UNCHANGED pollingVars
    <2>1. Agree' = Agree
      BY <1>7 DEF pollingVars
    <2>2. CASE ContinuousTimeReset
      <3>1. "resync" \in Calls /\ calls' = Append(calls, "resync")
        BY <2>2 DEF ContinuousTimeReset, Calls
      <3>2. Asked' <=> Asked
        BY <1>3, <3>1, QueueGrows
      <3> QED
        BY <1>1, <1>2, <2>1, <3>2
    <2>3. CASE ProcessCall
      <3>1. Asked <=> Asked' \/ Head(calls) \in {"pollRestart", "pollStop"}
        BY <1>3, <2>3, ProcessedCall, QueueShrinks
      <3> QED
        BY <1>1, <1>2, <1>4, <2>1, <2>3, <3>1, PollingCallProcessed
    <2>4. CASE UNCHANGED calls
      BY <1>1, <1>2, <2>1, <2>4 DEF Queued
    <2> QED
      BY <1>6, <2>2, <2>3, <2>4, QueueSteps
  <1> QED
    BY <1>4, <1>5, <1>6, <1>7, PollingSteps

\* The flag that the main thread reads tells whether the polling timer is
\* set, as soon as the polling calls (restartPollingCycle, stopPollingCycle)
\* have been delivered, in whatever order they meet timers, stops and restarts.
THEOREM PollingFlagsAgree == Spec => []PollingFlagsSettle
  <1>1. Init => PollingFlagsSettle
    BY DEF Init, PollingFlagsSettle
  <1> QED
    BY <1>1, SettledStep, TypeCorrect, PTL DEF Spec

-----------------------------------------------------------------------------
(* The claim when the clock may be reset. *)

\* Nothing ever keeps a resync from starting.
Calm == disabled = FALSE /\ networkReachable = TRUE /\ ~Queued("disable")

\* What the new sync needs of the old one, whatever the clock has done.
RangeInv ==
  /\ \E a, b \in Offsets : contSkew = a + b
  /\ running =>
       maxMin \in Offsets \union {-Unknown} /\ minMax \in Offsets \union {Unknown}

ResetInv == Calm /\ RangeInv /\ (Queued("resync") \/ ClaimInv)

LEMMA CalmStep ==
  ASSUME ~NetworkFails, "disable" \notin AppCalls, calls \in Seq(Calls), Calm, [Next]_vars
  PROVE  Calm'
  <1>1. ~Queued("disable")'
    <2>1. ASSUME NEW c \in AppCalls, Call(c) PROVE ~Queued("disable")'
      <3>1. c \in Calls /\ c # "disable" /\ calls' = Append(calls, c)
        BY <2>1, AppCallsAssumption DEF Call
      <3> QED
        BY <3>1, QueueGrows DEF Calm
    <2>2. CASE ContinuousTimeReset
      <3>1. "resync" \in Calls /\ calls' = Append(calls, "resync")
        BY <2>2 DEF ContinuousTimeReset, Calls
      <3> QED
        BY <3>1, QueueGrows DEF Calm
    <2>3. CASE ProcessCall
      BY <2>3, ProcessedCall, QueueShrinks DEF Calm
    <2>4. CASE UNCHANGED calls
      BY <2>4 DEF Queued, Calm
    <2> QED
      BY <2>1, <2>2, <2>3, <2>4, QueueSteps
  <1>2. disabled' = FALSE /\ networkReachable' = TRUE
    <2>0. disabled = FALSE /\ networkReachable = TRUE
      BY DEF Calm
    <2>1. CASE UNCHANGED vars \/ ContinuousTimeReset \/ BeginReading \/ EndReading
      BY <2>0, <2>1 DEF vars, ContinuousTimeReset, BeginReading, EndReading, networkVars
    <2>2. CASE ProcessCall
      <3>1. Head(calls) # "disable"
        BY <2>2, ProcessedCall, QueueShrinks DEF Calm
      <3> QED
        BY <2>0, <2>2, <3>1
           DEF ProcessCall, ResyncCall, StopSyncingCall, StopIfNecessaryCall, DisableSyncCall,
               EnableSyncCall, PollingCall, Delivered, networkVars
    <2>3. ASSUME NEW lo, NEW hi, GotPacket(lo, hi) PROVE disabled' = FALSE /\ networkReachable' = TRUE
      BY <2>0, <2>3 DEF GotPacket, networkVars
    <2>4. CASE TimerFires
      BY <2>0, <2>4
         DEF TimerFires, RestartFires, GiveUpFires, ProximityBumpFires, NoProgressFires,
             PollingHostFires, networkVars
    <2>5. CASE \/ NetworkUnreachable \/ NetworkReachable
               \/ NameResolutionComplete \/ NameResolutionFailed
      BY <2>0, <2>5
         DEF NetworkUnreachable, NetworkReachable, NameResolutionComplete, NameResolutionFailed,
             networkVars
    <2>6. ASSUME NEW c \in AppCalls, Call(c) PROVE disabled' = FALSE /\ networkReachable' = TRUE
      BY <2>0, <2>6 DEF Call, networkVars
    <2> QED
      BY <2>1, <2>2, <2>3, <2>4, <2>5, <2>6 DEF Next
  <1> QED
    BY <1>1, <1>2 DEF Calm

\* Any sync and any packets keep the skew a midpoint of offsets.
LEMMA RangeStep ==
  ASSUME NumbersOK, FlagsInv, RangeInv, [Next]_vars
  PROVE  RangeInv'
  <1>1. CASE Starts
    BY <1>1 DEF Starts, StartSyncing, StartReport, RangeInv
  <1>2. ASSUME NEW lo \in Offsets, NEW hi \in Offsets, GotPacket(lo, hi)
        PROVE  RangeInv'
    <2> DEFINE b == Narrowed(lo, hi)
    <2>1. /\ maxMin \in Offsets \union {-Unknown}
          /\ minMax \in Offsets \union {Unknown}
      BY <1>2 DEF RangeInv, GotPacket, FlagsInv
    <2>2. -Unknown < lo /\ hi < Unknown
      BY UnknownAssumption
    <2>3. /\ b.maxMin = IF lo > maxMin THEN lo ELSE maxMin
          /\ b.minMax = IF hi < minMax THEN hi ELSE minMax
      BY DEF Narrowed
    <2>4. b.maxMin \in Offsets /\ b.minMax \in Offsets
      BY <2>1, <2>2, <2>3, UnknownType, OffsetsAssumption DEF NumbersOK
    <2>5. /\ maxMin' = b.maxMin /\ minMax' = b.minMax
          /\ NonOverlapping(b) \/ Finishing(b) \/ Refining(b)
      BY <1>2 DEF GotPacket
    <2> HIDE DEF b
    <2>6. contSkew' = contSkew \/ contSkew' = b.minMax + b.maxMin
      BY <2>5 DEF NonOverlapping, Finishing, Refining, Skew, reportVars
    <2> QED
      BY <2>4, <2>5, <2>6 DEF RangeInv
  <1>3. CASE Quiet \/ ContinuousTimeReset
    BY <1>3 DEF Quiet, ContinuousTimeReset, reportVars, boundVars, RangeInv
  <1> QED
    BY <1>1, <1>2, <1>3, ReportSteps

\* A sync that does not trust the old value makes the claim true again.
LEMMA UntrustingStart ==
  ASSUME NumbersOK, RangeInv, StartSyncing(FALSE), UNCHANGED trueOffset
  PROVE  ClaimInv'
  <1>1. PICK a, b \in Offsets : contSkew = a + b
    BY DEF RangeInv
  <1>2. UNCHANGED contSkew /\ timeError' = Unknown /\ maxMin' = -Unknown /\ minMax' = Unknown
    BY DEF StartSyncing, StartReport
  <1>3. /\ contSkew - Unknown <= 2 * trueOffset
        /\ 2 * trueOffset <= contSkew + Unknown
    BY <1>1, UnknownAssumption, OffsetsAssumption DEF NumbersOK
  <1>4. -Unknown <= trueOffset /\ trueOffset <= Unknown
    BY UnknownAssumption, OffsetsAssumption DEF NumbersOK
  <1> QED
    BY <1>1, <1>2, <1>3, <1>4 DEF ClaimInv, ErrorBoundHolds

LEMMA ResetStep ==
  ASSUME Honest, ~NetworkFails, "disable" \notin AppCalls,
         TypeOK, FlagsInv, ResetInv, [Next]_vars
  PROVE  ResetInv'
  <1>1. NumbersOK /\ calls \in Seq(Calls) /\ Calm /\ RangeInv
    BY DEF TypeOK, ResetInv
  <1>2. Calm' /\ RangeInv'
    BY <1>1, CalmStep, RangeStep
  <1>3. CASE ContinuousTimeReset
    <2>1. "resync" \in Calls /\ calls' = Append(calls, "resync")
      BY <1>3 DEF ContinuousTimeReset, Calls
    <2> QED
      BY <1>1, <1>2, <2>1, QueueGrows DEF ResetInv
  <1>4. CASE ~ContinuousTimeReset /\ ClaimInv
    BY <1>1, <1>2, <1>4, ClaimStep DEF ResetInv
  <1>5. CASE ~ContinuousTimeReset /\ Queued("resync")
    <2>1. ASSUME NEW c \in AppCalls, Call(c) PROVE Queued("resync")'
      BY <1>1, <1>5, <2>1, QueueGrows, AppCallsAssumption DEF Call
    <2>2. CASE ProcessCall /\ Head(calls) # "resync"
      <3>1. Queued("resync")'
        BY <1>1, <1>5, <2>2, ProcessedCall, QueueShrinks
      <3> QED
        BY <1>2, <3>1 DEF ResetInv
    <2>3. CASE ProcessCall /\ Head(calls) = "resync"
      <3>1. Resync(FALSE, restart) /\ UNCHANGED trueOffset
        BY <2>3
           DEF ProcessCall, ResyncCall, StopSyncingCall, StopIfNecessaryCall, DisableSyncCall,
               EnableSyncCall, PollingCall, Delivered
      <3>2. StartSyncing(FALSE)
        BY <1>1, <3>1 DEF Resync, MayStart, Calm
      <3> QED
        BY <1>1, <1>2, <3>1, <3>2, UntrustingStart DEF ResetInv
    <2>4. CASE UNCHANGED calls
      BY <1>2, <1>5, <2>4 DEF Queued, ResetInv
    <2> QED
      BY <1>2, <1>5, <2>1, <2>2, <2>3, <2>4, QueueSteps DEF ResetInv
  <1> QED
    BY <1>3, <1>4, <1>5 DEF ResetInv

\* With honest packets, a network that stays and nobody who disables the
\* driver, the time reported is within its error of the truth, or the resync
\* that a reset of the continuous clock has asked for is still on its way:
\* whatever other calls, packets and timers come before it.
THEOREM ClaimStaysCurrent ==
  ASSUME Honest, ~NetworkFails, "disable" \notin AppCalls
  PROVE  Spec => []ClaimIsCurrent
  <1>1. Init => ResetInv
    <2> SUFFICES ASSUME Init PROVE ResetInv
      OBVIOUS
    <2>1. ~Queued("disable") /\ ~running
      BY DEF Init, Queued
    <2> QED
      BY <2>1, ClaimInit DEF Init, ResetInv, Calm, RangeInv, ClaimInv
  <1>2. LifecycleInv /\ ResetInv /\ [Next]_vars => ResetInv'
    BY ResetStep DEF LifecycleInv
  <1>3. ResetInv => ClaimIsCurrent
    BY DEF ResetInv, ClaimInv, ClaimIsCurrent, Queued
  <1> QED
    BY <1>1, <1>2, <1>3, LifecycleCorrect, PTL DEF Spec
=============================================================================
